----------------------------- MODULE RetainedRxProofs -----------------------------
(***************************************************************************)
(* What RetainedRx promises for any number of buffers, threads and slots   *)
(* and any last serial number: the registry agrees with the capture core,  *)
(* the two modes exclude each other and an acknowledged retirement is true.*)
(*                                                                         *)
(* None of the three is inductive.  The inductive invariant adds who is    *)
(* inside (legacy_rx_active counts the legacy callers, the mutex is held   *)
(* by the one retained caller), what each caller has in its hands, and     *)
(* what a context that admits nobody still owns.                           *)
(***************************************************************************)
EXTENDS RetainedRx, FiniteSetTheorems, TLAPS

\* legacy_rx_active counts the legacy callers inside an ioctl.
LegacyInside == {t \in Threads : th[t].pc # "idle" /\ th[t].mode = "legacy"}
CountInv == legacy = Cardinality(LegacyInside)

\* The mutex is held by the retained caller, and what a caller carries follows
\* from its step; nobody but the caller has a buffer that is in its hands.
CallerInv ==
    \A t \in Threads :
        /\ th[t].pc = "idle" => th[t] = Idle
        /\ th[t].mode = "retained" <=> lock = t
        /\ th[t].pc = "add" => th[t].mode = "legacy"
        /\ th[t].pc \in {"register", "repost"} => th[t].mode = "retained"
        /\ th[t].pc = "wait" => th[t].buf = NONE
        /\ th[t].pc \notin {"idle", "wait"} => th[t].buf # NONE /\ core[th[t].buf] = NONE
        /\ th[t].pc \in {"hold", "done"} =>
              th[t].pkt # NONE /\ th[t].pkt.mode = th[t].mode /\ th[t].pkt.at # "queued"

HandsDisjoint ==
    \A t, u \in Threads : th[t].buf # NONE /\ th[t].buf = th[u].buf => t = u

\* The entry of buffer b waits for a completion of epoch ep.
WaitsFor(b, ep) ==
    /\ entry[b] # NONE /\ entry[b].st = "QUEUED" /\ entry[b].ep = ep
    /\ entry[b].key.gen = reg.gen

\* A retained caller has a registry, the entry of its buffer is QUEUED, and no
\* other buffer is lent unless it is registering one.
RetainedInv ==
    \A t \in Threads : th[t].mode = "retained" =>
        /\ reg # NONE
        /\ th[t].pc \in {"register", "repost"} => WaitsFor(th[t].buf, epoch)
        /\ th[t].pc \in {"hold", "done"} =>
              WaitsFor(th[t].buf, th[t].pkt.ep) /\ (~fault => th[t].pkt.ep = epoch)
        /\ th[t].pc # "register" =>
              \A b \in Bufs : entry[b] # NONE => entry[b].st # "BORROWED"

\* Without a registry there is no entry; a context without hardware owns
\* nothing; a context that admits nobody has nobody inside.
ClosedInv ==
    /\ reg = NONE => \A b \in Bufs : entry[b] = NONE
    /\ state \in {"INVALID", "GONE"} => reg = NONE /\ \A b \in Bufs : core[b] = NONE
    /\ state \notin {"INIT", "RESUME"} => Exclusive

IInv ==
    /\ TypeOK /\ CountInv /\ CallerInv /\ HandsDisjoint /\ RetainedInv /\ ClosedInv
    /\ RegistryMatchesCore /\ ModesExclusive /\ RetiredMeansUnowned

USE DEF vars, hwvars, regvars

LEMMA SetOfThreads ==
    ASSUME NEW S \in SUBSET Threads
    PROVE  /\ IsFiniteSet(S) /\ Cardinality(S) \in 0..Cardinality(Threads)
           /\ Cardinality(S) = 0 <=> S = {}
<1>1. IsFiniteSet(Threads)
  BY RetainedConstants
<1>2. IsFiniteSet(S) /\ Cardinality(S) <= Cardinality(Threads)
  BY <1>1, FS_Subset
<1>3. Cardinality(S) \in Nat /\ Cardinality(Threads) \in Nat
  BY <1>1, <1>2, FS_CardinalityType
<1> QED
  BY <1>2, <1>3, FS_EmptySet

LEMMA CountSame ==
    ASSUME CountInv, legacy' = legacy, LegacyInside' = LegacyInside
    PROVE  CountInv'
  BY DEF CountInv

LEMMA CountEnter ==
    ASSUME CountInv, NEW t \in Threads, t \notin LegacyInside,
           legacy' = legacy + 1, LegacyInside' = LegacyInside \cup {t}
    PROVE  CountInv'
<1>1. IsFiniteSet(LegacyInside)
  BY SetOfThreads DEF LegacyInside
<1> QED
  BY <1>1, FS_AddElement DEF CountInv

LEMMA CountLeave ==
    ASSUME CountInv, NEW t \in Threads, t \in LegacyInside,
           legacy' = legacy - 1, LegacyInside' = LegacyInside \ {t}
    PROVE  CountInv'
<1>1. IsFiniteSet(LegacyInside)
  BY SetOfThreads DEF LegacyInside
<1> QED
  BY <1>1, FS_RemoveElement DEF CountInv

\* A counted caller keeps the registry away: legacy_rx_active is not zero.
LEMMA LegacyExcludes ==
    ASSUME IInv
    PROVE  /\ legacy \in Nat
           /\ legacy = 0 => \A t \in Threads : th[t].pc # "idle" => th[t].mode = "retained"
           /\ \A t \in Threads : th[t].pc # "idle" /\ th[t].mode = "legacy" => reg = NONE
<1>1. legacy \in Nat /\ (legacy = 0 <=> LegacyInside = {})
  BY SetOfThreads DEF IInv, CountInv, LegacyInside
<1>2. \A t \in Threads : th[t] \in Inside
  BY DEF IInv, TypeOK
<1> QED
  BY <1>1, <1>2 DEF IInv, ModesExclusive, LegacyInside, Inside

LEMMA MutexFree ==
    ASSUME IInv, reg # NONE, lock = NONE
    PROVE  \A t \in Threads : th[t] = Idle
  BY RetainedConstants DEF IInv, ModesExclusive, CallerInv

LEMMA ReturnKeepsCount ==
    ASSUME IInv, NEW t \in Threads, th[t].pc # "idle", Return(t)
    PROVE  CountInv'
<1>0. th \in [Threads -> Inside]
  BY DEF IInv, TypeOK
<1>1. CASE th[t].mode = "legacy"
  <2>1. LegacyInside' = LegacyInside \ {t} /\ t \in LegacyInside
    BY <1>0, <1>1 DEF LegacyInside, Return, Idle, Inside
  <2> QED
    BY <1>1, <2>1, CountLeave DEF Return, IInv
<1>2. CASE th[t].mode = "retained"
  <2>1. LegacyInside' = LegacyInside
    BY <1>0, <1>2 DEF LegacyInside, Return, Idle, Inside
  <2> QED
    BY <1>2, <2>1, CountSame DEF Return, IInv
<1> QED
  BY <1>0, <1>1, <1>2 DEF Inside

LEMMA Bounds ==
    MaxSerial \in Nat \ {0} /\ MaxSeq \in Nat \ {0} /\ MaxEpoch \in Nat \ {0}
  BY RetainedConstants

LEMMA NewRegistry ==
    ASSUME serial \in 0..MaxSerial, serial # MaxSerial
    PROVE  serial + 1 \in 1..MaxSerial /\ [gen |-> serial + 1, stale |-> FALSE] \in Registries
<1>1. serial + 1 \in 1..MaxSerial
  BY Bounds
<1> QED
  BY <1>1 DEF Registries

\* The entry that a step writes is well formed.
LEMMA EntryTypes ==
    /\ \A e \in Entries : \A s \in {"QUEUED", "BORROWED", "DETACHED"} :
          [e EXCEPT !.st = s] \in Entries
    /\ \A e \in Entries : e.key.seq < MaxSeq =>
          lend(e) \in Entries /\ lend(e).st = "BORROWED"
<1>1. ASSUME NEW e \in Entries, NEW s \in {"QUEUED", "BORROWED", "DETACHED"}
      PROVE  [e EXCEPT !.st = s] \in Entries
  BY DEF Entries
<1>2. ASSUME NEW e \in Entries, e.key.seq < MaxSeq
      PROVE  lend(e) \in Entries /\ lend(e).st = "BORROWED"
  <2>1. e.key \in Keys
    BY DEF Entries
  <2>2. \A k \in Keys : k.seq < MaxSeq => k.seq + 1 \in 0..MaxSeq
    BY Bounds DEF Keys
  <2>3. [e.key EXCEPT !.seq = @ + 1] \in Keys
    BY <1>2, <2>1, <2>2 DEF Keys
  <2> QED
    BY <2>3 DEF Entries, lend
<1> QED
  BY <1>1, <1>2

\* mark_stale, retained_detach and stop_keeping change one field each.
LEMMA MarkStale ==
    ASSUME TypeOK, mark_stale
    PROVE  /\ reg' \in Registries \cup {NONE}
           /\ reg' = NONE <=> reg = NONE
           /\ reg # NONE => reg'.gen = reg.gen
  BY NoneIsFresh DEF TypeOK, mark_stale, Registries

LEMMA Detach ==
    ASSUME TypeOK, NEW B
    PROVE  /\ retained_detach(B) \in [Bufs -> Entries \cup {NONE}]
           /\ \A b \in Bufs : retained_detach(B)[b] = NONE <=> entry[b] = NONE
           /\ \A b \in Bufs : entry[b] # NONE =>
                 /\ retained_detach(B)[b].key = entry[b].key
                 /\ retained_detach(B)[b].ep = entry[b].ep
                 /\ b \in B => retained_detach(B)[b].st = "DETACHED"
                 /\ b \notin B => retained_detach(B)[b] = entry[b]
<1>1. \A b \in Bufs : entry[b] # NONE => [entry[b] EXCEPT !.st = "DETACHED"] \in Entries
  BY DEF TypeOK, Entries
<1> QED
  BY <1>1, NoneIsFresh DEF TypeOK, Entries, retained_detach

LEMMA StopKeeping ==
    ASSUME TypeOK, stop_keeping
    PROVE  /\ core' \in [Bufs -> Packets \cup {NONE}]
           /\ \A b \in Bufs : core'[b] = NONE <=> core[b] = NONE
           /\ \A b \in Bufs : core[b] # NONE =>
                 core'[b].mode = core[b].mode /\ core'[b].ep = core[b].ep
<1>1. \A b \in Bufs : core[b] # NONE => [core[b] EXCEPT !.at = "queued"] \in Packets
  BY DEF TypeOK, Packets
<1> QED
  BY <1>1, NoneIsFresh DEF TypeOK, Packets, stop_keeping

\* With nobody inside, what is QUEUED is in the core: once the core gives up its
\* buffers the cleanup is never refused.
LEMMA CleanupAllowed ==
    ASSUME IInv, \A t \in Threads : th[t] = Idle
    PROVE  cleanup_allowed(retained_detach(InCore))
<1>1. \A b \in Bufs : ~InHand(b)
  BY DEF InHand, Idle
<1>2. \A b \in Bufs : entry[b] # NONE /\ entry[b].st = "QUEUED" => b \in InCore
  BY <1>1 DEF IInv, RegistryMatchesCore, InCore
<1> QED
  BY <1>2, Detach DEF IInv, cleanup_allowed

LEMMA CleanupDone ==
    ASSUME IInv, reg # NONE, retained_cleanup(retained_detach(InCore)),
           \A t \in Threads : th[t] = Idle
    PROVE  /\ entry' = [b \in Bufs |-> NONE]
           /\ reg' \in Registries /\ serial' \in 0..MaxSerial
<1>1. entry' = [b \in Bufs |-> NONE] /\ next_generation
  BY CleanupAllowed DEF retained_cleanup
<1>2. reg \in Registries
  BY DEF IInv, TypeOK
<1>3. CASE serial = MaxSerial
  <2>1. mark_stale /\ serial' = serial
    BY <1>1, <1>3 DEF next_generation
  <2> QED
    BY <1>1, <2>1, MarkStale DEF IInv, TypeOK
<1>4. CASE serial # MaxSerial
  <2>1. serial \in 0..MaxSerial /\ 1..MaxSerial \subseteq 0..MaxSerial
    BY Bounds DEF IInv, TypeOK
  <2> QED
    BY <1>1, <1>4, <2>1, NewRegistry DEF next_generation
<1> QED
  BY <1>3, <1>4

\* Without a registry a destructive stop leaves the registry's state alone.
LEMMA CleanupEmpty ==
    ASSUME IInv, reg = NONE, retained_cleanup(retained_detach(InCore))
    PROVE  entry' = entry /\ reg' = NONE /\ serial' = serial
<1>1. \A b \in Bufs : entry[b] = NONE
  BY DEF IInv, ClosedInv
<1>2. retained_detach(InCore) = entry
  BY <1>1 DEF IInv, TypeOK, retained_detach
<1> QED
  BY <1>2 DEF retained_cleanup, mark_stale

LEMMA Keeps_rx_submit ==
    ASSUME IInv, NEW t \in Threads, rx_submit(t)
    PROVE  IInv'
<1>1. th[t].buf \in Bufs /\ [mode |-> th[t].mode, ep |-> epoch, at |-> "queued"] \in Packets
  BY DEF IInv, TypeOK, CallerInv, Inside, Packets, rx_submit
<1>2. CountInv'
  BY ReturnKeepsCount DEF rx_submit
<1>3. TypeOK'
  <2>1. legacy' \in 0..Cardinality(Threads)
    BY <1>2, SetOfThreads DEF CountInv, LegacyInside
  <2> QED
    BY <2>1, <1>1 DEF IInv, TypeOK, Inside, rx_submit, Return, Idle
<1>4. HandsDisjoint' /\ RetainedInv' /\ ClosedInv' /\ ModesExclusive'
  BY DEF IInv, HandsDisjoint, RetainedInv, WaitsFor, ClosedInv, Exclusive,
         ModesExclusive, rx_submit, Return, Idle
<1>5. CallerInv'
  BY RetainedConstants
     DEF IInv, CallerInv, TypeOK, HandsDisjoint, Idle, rx_submit, Return
<1>6. RegistryMatchesCore'
  BY <1>1, RetainedConstants, NoneIsFresh, LegacyExcludes, MutexFree
     DEF IInv, RegistryMatchesCore, InHand, fetch_matches, TypeOK, Inside,
         CallerInv, HandsDisjoint, RetainedInv, ClosedInv, Exclusive, WaitsFor,
         ModesExclusive, RetiredMeansUnowned, Idle, rx_submit, Return
<1>7. RetiredMeansUnowned'
  BY DEF IInv, RetiredMeansUnowned, CallerInv, rx_submit
<1> QED
  BY <1>2, <1>3, <1>4, <1>5, <1>6, <1>7 DEF IInv

LEMMA Keeps_rx_submit_failed ==
    ASSUME IInv, NEW t \in Threads, rx_submit_failed(t)
    PROVE  IInv'
<1>1. entry' \in [Bufs -> Entries \cup {NONE}]
  BY EntryTypes, RetainedConstants, Bounds, NoneIsFresh, LegacyExcludes,
     MutexFree
     DEF IInv, TypeOK, CallerInv, RetainedInv, WaitsFor, Inside,
         rx_submit_failed, Return, Idle
<1>2. CountInv'
  BY ReturnKeepsCount DEF rx_submit_failed
<1>3. TypeOK'
  <2>1. legacy' \in 0..Cardinality(Threads)
    BY <1>2, SetOfThreads DEF CountInv, LegacyInside
  <2> QED
    BY <2>1, <1>1 DEF IInv, TypeOK, Inside, rx_submit_failed, Return, Idle
<1>4. HandsDisjoint' /\ ModesExclusive'
  BY DEF IInv, HandsDisjoint, ModesExclusive, TypeOK, rx_submit_failed, Return,
      Idle
<1>5. CallerInv'
  BY RetainedConstants
     DEF IInv, CallerInv, TypeOK, Idle, rx_submit_failed, Return
<1>6. RetainedInv'
  BY DEF IInv, RetainedInv, WaitsFor, TypeOK, CallerInv, Inside, Idle,
         rx_submit_failed, Return
<1>7. ClosedInv'
  BY DEF IInv, ClosedInv, Exclusive, CallerInv, RetainedInv, rx_submit_failed
<1>8. RegistryMatchesCore'
  BY RetainedConstants, NoneIsFresh, LegacyExcludes, MutexFree
     DEF IInv, RegistryMatchesCore, InHand, fetch_matches, TypeOK, Inside,
         CallerInv, HandsDisjoint, RetainedInv, ClosedInv, Exclusive, WaitsFor,
         ModesExclusive, RetiredMeansUnowned, Idle, rx_submit_failed, Return
<1>9. RetiredMeansUnowned'
  BY DEF IInv, RetiredMeansUnowned, CallerInv, rx_submit_failed
<1> QED
  BY <1>2, <1>3, <1>4, <1>5, <1>6, <1>7, <1>8, <1>9 DEF IInv

LEMMA Keeps_register_mode ==
    ASSUME IInv, NEW t \in Threads, register_mode(t)
    PROVE  IInv'
<1>1. reg' \in Registries /\ serial' \in 0..MaxSerial
  BY NewRegistry DEF IInv, TypeOK, register_mode
<1>2. CountInv'
  BY CountSame DEF IInv, LegacyInside, register_mode, Admitted, rx_idle
<1>3. TypeOK'
  <2>1. legacy' \in 0..Cardinality(Threads)
    BY <1>2, SetOfThreads DEF CountInv, LegacyInside
  <2> QED
    BY <2>1, <1>1 DEF IInv, TypeOK, Inside, register_mode, Admitted, rx_idle
<1>4. /\ CallerInv' /\ HandsDisjoint' /\ RetainedInv' /\ ClosedInv'
      /\ RegistryMatchesCore' /\ RetiredMeansUnowned'
  BY DEF IInv, CallerInv, HandsDisjoint, RetainedInv, ClosedInv,
         RegistryMatchesCore, fetch_matches, RetiredMeansUnowned, register_mode,
         Admitted
<1>5. ModesExclusive'
  BY LegacyExcludes DEF ModesExclusive, register_mode, rx_idle
<1> QED
  BY <1>2, <1>3, <1>4, <1>5 DEF IInv

LEMMA Keeps_fetch_frame ==
    ASSUME IInv, NEW t \in Threads, fetch_frame(t)
    PROVE  IInv'
<1>1. CountInv'
  BY CountEnter
     DEF IInv, LegacyInside, TypeOK, Inside, fetch_frame, Admitted, Go
<1>2. TypeOK'
  <2>1. legacy' \in 0..Cardinality(Threads)
    BY <1>1, SetOfThreads DEF CountInv, LegacyInside
  <2> QED
    BY <2>1 DEF IInv, TypeOK, Inside, fetch_frame, Admitted, Go
<1>3. /\ HandsDisjoint' /\ RetainedInv' /\ ClosedInv'
      /\ ModesExclusive' /\ RetiredMeansUnowned'
  BY DEF IInv, HandsDisjoint, RetainedInv, ClosedInv, ModesExclusive,
         RetiredMeansUnowned, fetch_frame, Admitted, Go
<1>4. CallerInv'
  BY DEF IInv, CallerInv, Idle, fetch_frame, Admitted, Go
<1>5. RegistryMatchesCore'
  BY DEF IInv, RegistryMatchesCore, InHand, fetch_matches, CallerInv, Idle,
         fetch_frame, Admitted, Go
<1> QED
  BY <1>1, <1>2, <1>3, <1>4, <1>5 DEF IInv

LEMMA Keeps_retained_fetch ==
    ASSUME IInv, NEW t \in Threads, retained_fetch(t)
    PROVE  IInv'
<1>1. CountInv'
  BY CountSame DEF IInv, LegacyInside, retained_fetch, Admitted, Go
<1>2. TypeOK'
  <2>1. legacy' \in 0..Cardinality(Threads)
    BY <1>1, SetOfThreads DEF CountInv, LegacyInside
  <2> QED
    BY <2>1 DEF IInv, TypeOK, Inside, retained_fetch, Admitted, Go
<1>3. /\ HandsDisjoint' /\ RetainedInv' /\ ClosedInv'
      /\ ModesExclusive' /\ RetiredMeansUnowned'
  BY DEF IInv, HandsDisjoint, RetainedInv, WaitsFor, ClosedInv, ModesExclusive,
         RetiredMeansUnowned, retained_fetch, Admitted, Go
<1>4. CallerInv'
  BY RetainedConstants DEF IInv, CallerInv, TypeOK, retained_fetch, Go
<1>5. RegistryMatchesCore'
  BY RetainedConstants
     DEF IInv, RegistryMatchesCore, InHand, fetch_matches, TypeOK,
         retained_fetch, Go
<1> QED
  BY <1>1, <1>2, <1>3, <1>4, <1>5 DEF IInv

LEMMA Keeps_fetch_nothing ==
    ASSUME IInv, NEW t \in Threads, fetch_nothing(t)
    PROVE  IInv'
<1>1. CountInv'
  BY ReturnKeepsCount DEF fetch_nothing
<1>2. TypeOK'
  <2>1. legacy' \in 0..Cardinality(Threads)
    BY <1>1, SetOfThreads DEF CountInv, LegacyInside
  <2> QED
    BY <2>1 DEF IInv, TypeOK, Inside, fetch_nothing, Return, Idle
<1>3. /\ HandsDisjoint' /\ RetainedInv' /\ ClosedInv'
      /\ ModesExclusive' /\ RetiredMeansUnowned'
  BY DEF IInv, HandsDisjoint, RetainedInv, WaitsFor, ClosedInv, Exclusive,
         ModesExclusive, RetiredMeansUnowned, fetch_nothing, Return, Idle
<1>4. CallerInv'
  BY RetainedConstants
     DEF IInv, CallerInv, TypeOK, Inside, Idle, fetch_nothing, Return
<1>5. RegistryMatchesCore'
  BY RetainedConstants
     DEF IInv, RegistryMatchesCore, InHand, fetch_matches, TypeOK, CallerInv,
         Inside, Idle, fetch_nothing, Return
<1> QED
  BY <1>1, <1>2, <1>3, <1>4, <1>5 DEF IInv

LEMMA Keeps_complete_rx ==
    ASSUME IInv, NEW t \in Threads, complete_rx(t)
    PROVE  IInv'
<1>1. CountInv'
  BY CountSame DEF IInv, LegacyInside, complete_rx
<1>2. TypeOK'
  <2>1. legacy' \in 0..Cardinality(Threads)
    BY <1>1, SetOfThreads DEF CountInv, LegacyInside
  <2> QED
    BY <2>1 DEF IInv, TypeOK, Inside, complete_rx
<1>3. /\ CallerInv' /\ HandsDisjoint' /\ RetainedInv' /\ ClosedInv'
      /\ ModesExclusive' /\ RetiredMeansUnowned'
  BY DEF IInv, CallerInv, HandsDisjoint, RetainedInv, WaitsFor, ClosedInv,
         Exclusive, ModesExclusive, RetiredMeansUnowned, complete_rx
<1>4. RegistryMatchesCore'
  BY RetainedConstants, NoneIsFresh, LegacyExcludes, MutexFree
     DEF IInv, RegistryMatchesCore, InHand, fetch_matches, TypeOK, Inside,
         CallerInv, HandsDisjoint, RetainedInv, ClosedInv, Exclusive, WaitsFor,
         ModesExclusive, RetiredMeansUnowned, Idle, complete_rx
<1> QED
  BY <1>1, <1>2, <1>3, <1>4 DEF IInv

LEMMA Keeps_complete_rx_fault ==
    ASSUME IInv, NEW t \in Threads, complete_rx_fault(t)
    PROVE  IInv'
<1>1. CountInv'
  BY ReturnKeepsCount DEF complete_rx_fault
<1>2. TypeOK'
  <2>1. legacy' \in 0..Cardinality(Threads)
    BY <1>1, SetOfThreads DEF CountInv, LegacyInside
  <2> QED
    BY <2>1 DEF IInv, TypeOK, Inside, complete_rx_fault, Return, Idle
<1>3. HandsDisjoint' /\ RetainedInv' /\ ClosedInv'
  BY DEF IInv, HandsDisjoint, RetainedInv, WaitsFor, ClosedInv, Exclusive,
         complete_rx_fault, Return, Idle
<1>4. CallerInv'
  BY RetainedConstants, NoneIsFresh, LegacyExcludes, MutexFree
     DEF IInv, CallerInv, TypeOK, Inside, HandsDisjoint, RetainedInv, ClosedInv,
         Exclusive, fetch_matches, WaitsFor, InHand, RegistryMatchesCore,
         ModesExclusive, RetiredMeansUnowned, Idle, complete_rx_fault, Return
<1>5. RegistryMatchesCore'
  BY RetainedConstants, NoneIsFresh, LegacyExcludes, MutexFree
     DEF IInv, RegistryMatchesCore, InHand, fetch_matches, TypeOK, Inside,
         CallerInv, HandsDisjoint, RetainedInv, ClosedInv, Exclusive, WaitsFor,
         ModesExclusive, RetiredMeansUnowned, Idle, complete_rx_fault, Return
<1>6. ModesExclusive'
  BY DEF IInv, ModesExclusive, CallerInv, Idle, complete_rx_fault, Return
<1>7. RetiredMeansUnowned'
  BY DEF IInv, RetiredMeansUnowned, CallerInv, complete_rx_fault
<1> QED
  BY <1>1, <1>2, <1>3, <1>4, <1>5, <1>6, <1>7 DEF IInv

LEMMA Keeps_fetch_picture ==
    ASSUME IInv, NEW t \in Threads, fetch_picture(t)
    PROVE  IInv'
<1>1. CountInv'
  BY ReturnKeepsCount DEF fetch_picture
<1>2. TypeOK'
  <2>1. legacy' \in 0..Cardinality(Threads)
    BY <1>1, SetOfThreads DEF CountInv, LegacyInside
  <2> QED
    BY <2>1 DEF IInv, TypeOK, Inside, fetch_picture, Return, Idle
<1>3. /\ CallerInv' /\ HandsDisjoint' /\ RetainedInv' /\ ClosedInv'
      /\ RegistryMatchesCore' /\ ModesExclusive' /\ RetiredMeansUnowned'
  BY DEF IInv, CallerInv, HandsDisjoint, RetainedInv, ClosedInv, Exclusive,
         RegistryMatchesCore, fetch_matches, ModesExclusive,
         RetiredMeansUnowned, fetch_picture, Return, Idle
<1> QED
  BY <1>1, <1>2, <1>3 DEF IInv

\* The completion always matches: the buffer is lent, or detached when its
\* borrow number is the last one.
LEMMA Keeps_retained_picture ==
    ASSUME IInv, NEW t \in Threads, retained_picture(t)
    PROVE  IInv'
<1> DEFINE b == th[t].buf
<1>1. fetch_matches(t) /\ b \in Bufs /\ entry[b] \in Entries /\ entry[b] # NONE
  BY DEF retained_picture, IInv, TypeOK, CallerInv, RegistryMatchesCore, fetch_matches, Inside
<1>2. /\ entry' \in [Bufs -> Entries \cup {NONE}]
      /\ entry'[b] # NONE /\ entry'[b].st \in {"BORROWED", "DETACHED"}
      /\ \A c \in Bufs \ {b} : entry'[c] = entry[c]
      /\ reg' \in Registries \cup {NONE} /\ (reg' = NONE <=> reg = NONE)
      /\ reg # NONE => reg'.gen = reg.gen
  <2>1. CASE entry[b].key.seq < MaxSeq
    <3>1. lend(entry[b]) \in Entries /\ lend(entry[b]).st = "BORROWED"
      BY <1>1, <2>1, EntryTypes
    <3>2. entry' = [entry EXCEPT ![b] = lend(entry[b])] /\ reg' = reg
      BY <1>1, <2>1 DEF retained_picture
    <3> QED
      BY <1>1, <3>1, <3>2, NoneIsFresh DEF IInv, TypeOK
  <2>2. CASE ~(entry[b].key.seq < MaxSeq)
    <3>1. entry' = retained_detach({b}) /\ mark_stale
      BY <2>2 DEF retained_picture
    <3>2. TypeOK
      BY DEF IInv
    <3>3. \A c \in Bufs : c # b => c \notin {b}
      OBVIOUS
    <3> QED
      BY <1>1, <3>1, <3>2, <3>3, MarkStale, Detach
  <2> QED
    BY <2>1, <2>2
<1>3. /\ th[t].pc = "done" /\ th[t].mode = "retained" /\ Return(t)
      /\ UNCHANGED <<hwvars, core, serial, acked>>
  BY DEF retained_picture
<1> HIDE DEF b
<1>4. b = th[t].buf
  BY DEF b
<1>5. CountInv'
  BY <1>1, <1>2, <1>3, <1>4, ReturnKeepsCount
<1>6. TypeOK'
  <2>1. legacy' \in 0..Cardinality(Threads)
    BY <1>5, SetOfThreads DEF CountInv, LegacyInside
  <2> QED
    BY <1>2, <1>3 DEF IInv, TypeOK, Inside, Return, Idle
<1>7. CallerInv'
  BY <1>3, RetainedConstants DEF IInv, TypeOK, CallerInv, Return, Idle
<1>8. HandsDisjoint'
  BY <1>3 DEF IInv, HandsDisjoint, Return, Idle
<1>9. RetainedInv'
  BY <1>3 DEF IInv, TypeOK, CallerInv, RetainedInv, Return, Idle
<1>10. ClosedInv'
  BY <1>1, <1>2, <1>3 DEF IInv, ClosedInv, Exclusive
<1>11. RegistryMatchesCore'
  BY <1>2, <1>3, <1>4
     DEF IInv, TypeOK, CallerInv, RetainedInv, fetch_matches, WaitsFor, InHand,
         RegistryMatchesCore, Return, Idle
<1>12. ModesExclusive'
  BY <1>2, <1>3 DEF IInv, ModesExclusive, Return, Idle
<1>13. RetiredMeansUnowned'
  BY <1>1, <1>3 DEF IInv, RetiredMeansUnowned
<1> QED
  BY <1>5, <1>6, <1>7, <1>8, <1>9, <1>10, <1>11, <1>12, <1>13 DEF IInv

LEMMA Keeps_ack_format ==
    ASSUME IInv, NEW t \in Threads, ack_format(t)
    PROVE  IInv'
<1>1. th[t].buf \in Bufs /\ [mode |-> th[t].mode, ep |-> epoch, at |-> "queued"] \in Packets
  BY DEF IInv, TypeOK, CallerInv, Inside, Packets, ack_format
<1>2. CountInv'
  BY ReturnKeepsCount DEF ack_format
<1>3. TypeOK'
  <2>1. legacy' \in 0..Cardinality(Threads)
    BY <1>2, SetOfThreads DEF CountInv, LegacyInside
  <2> QED
    BY <2>1, <1>1 DEF IInv, TypeOK, Inside, ack_format, Return, Idle
<1>4. HandsDisjoint' /\ RetainedInv' /\ ClosedInv' /\ ModesExclusive'
  BY DEF IInv, HandsDisjoint, RetainedInv, WaitsFor, ClosedInv, Exclusive,
         ModesExclusive, ack_format, Return, Idle
<1>5. CallerInv'
  BY RetainedConstants
     DEF IInv, CallerInv, TypeOK, Inside, HandsDisjoint, Idle, ack_format,
         Return
<1>6. RegistryMatchesCore'
  BY <1>1, NoneIsFresh
     DEF IInv, RegistryMatchesCore, InHand, fetch_matches, TypeOK, Inside,
         CallerInv, HandsDisjoint, RetainedInv, ClosedInv, WaitsFor,
         ModesExclusive, RetiredMeansUnowned, Idle, ack_format, Return
<1>7. RetiredMeansUnowned'
  BY DEF IInv, RetiredMeansUnowned, CallerInv, ack_format
<1> QED
  BY <1>2, <1>3, <1>4, <1>5, <1>6, <1>7 DEF IInv

LEMMA Keeps_ack_format_released ==
    ASSUME IInv, NEW t \in Threads, ack_format_released(t)
    PROVE  IInv'
<1>1. CountInv'
  BY ReturnKeepsCount DEF ack_format_released
<1>2. TypeOK'
  <2>1. legacy' \in 0..Cardinality(Threads)
    BY <1>1, SetOfThreads DEF CountInv, LegacyInside
  <2> QED
    BY <2>1, Detach DEF IInv, TypeOK, Inside, Idle, ack_format_released, Return
<1>3. HandsDisjoint' /\ ModesExclusive'
  BY DEF IInv, HandsDisjoint, ModesExclusive, TypeOK, ack_format_released,
      fetch_matches, Return, Idle
<1>4. CallerInv'
  BY RetainedConstants
     DEF IInv, CallerInv, TypeOK, Inside, Idle, ack_format_released, Return
<1>5. RetainedInv'
  BY RetainedConstants, NoneIsFresh, LegacyExcludes, MutexFree, Detach
     DEF IInv, RetainedInv, WaitsFor, TypeOK, CallerInv, Inside, Idle,
         ack_format_released, fetch_matches, Return
<1>6. ClosedInv'
  BY Detach DEF IInv, ClosedInv, Exclusive, ack_format_released
<1>7. RegistryMatchesCore'
  BY RetainedConstants, Bounds, NoneIsFresh, LegacyExcludes, MutexFree, Detach
     DEF IInv, RegistryMatchesCore, InHand, fetch_matches, TypeOK, Inside,
         CallerInv, HandsDisjoint, RetainedInv, ClosedInv, Exclusive, WaitsFor,
         ModesExclusive, RetiredMeansUnowned, Idle, ack_format_released, Return
<1>8. RetiredMeansUnowned'
  BY DEF IInv, RetiredMeansUnowned, CallerInv, ack_format_released
<1> QED
  BY <1>1, <1>2, <1>3, <1>4, <1>5, <1>6, <1>7, <1>8 DEF IInv

LEMMA Keeps_retire_all_empty ==
    ASSUME IInv, NEW t \in Threads, retire_all_empty(t)
    PROVE  IInv'
<1>1. CountInv'
  BY CountSame
     DEF IInv, LegacyInside, retire_all_empty, Admitted, retained_no_owners,
         rx_idle
<1>2. TypeOK'
  <2>1. legacy' \in 0..Cardinality(Threads)
    BY <1>1, SetOfThreads DEF CountInv, LegacyInside
  <2> QED
    BY <2>1
       DEF IInv, TypeOK, Inside, retire_all_empty, Admitted, retained_no_owners,
           rx_idle
<1>3. /\ CallerInv' /\ HandsDisjoint' /\ RetainedInv' /\ ClosedInv'
      /\ RegistryMatchesCore' /\ ModesExclusive'
  BY DEF IInv, CallerInv, HandsDisjoint, RetainedInv, ClosedInv, Exclusive,
         RegistryMatchesCore, fetch_matches, ModesExclusive, retire_all_empty
<1>4. RetiredMeansUnowned'
  BY LegacyExcludes
     DEF IInv, RetiredMeansUnowned, CallerInv, RetainedInv, ClosedInv, Idle,
         retire_all_empty, retained_no_owners, rx_idle
<1> QED
  BY <1>1, <1>2, <1>3, <1>4 DEF IInv

LEMMA Keeps_retire_all ==
    ASSUME IInv, NEW t \in Threads, retire_all(t)
    PROVE  IInv'
<1>1. entry' = [x \in Bufs |-> NONE] /\ reg' \in Registries /\ serial' \in 0..MaxSerial
  BY CleanupDone, MutexFree
     DEF retire_all, retire_all_admitted, destructive_stop
<1>2. epoch' \in 0..MaxEpoch
  BY RetainedConstants DEF IInv, TypeOK, retire_all, destructive_stop
<1>3. acked' = TRUE
  BY CleanupAllowed, MutexFree DEF retire_all, retire_all_admitted
<1>4. CountInv'
  BY CountSame
     DEF IInv, LegacyInside, retire_all, retire_all_admitted, destructive_stop,
         InCore, Admitted
<1>5. TypeOK'
  <2>1. legacy' \in 0..Cardinality(Threads)
    BY <1>4, SetOfThreads DEF CountInv, LegacyInside
  <2> QED
    BY <1>1, <1>2, <1>3 DEF IInv, TypeOK, retire_all, destructive_stop
<1>6. HandsDisjoint' /\ ModesExclusive'
  BY DEF IInv, HandsDisjoint, ModesExclusive, retire_all, retire_all_admitted,
         destructive_stop
<1>7. CallerInv'
  BY DEF IInv, CallerInv, TypeOK, Inside, retire_all, destructive_stop
<1>8. RetainedInv'
  BY RetainedConstants
     DEF IInv, RetainedInv, CallerInv, retire_all, retire_all_admitted
<1>9. ClosedInv'
  BY MutexFree, CleanupDone
     DEF ClosedInv, retire_all, retire_all_admitted, destructive_stop, Admitted
<1>10. RegistryMatchesCore'
  BY MutexFree, CleanupDone
     DEF RegistryMatchesCore, retire_all, retire_all_admitted, destructive_stop,
         Admitted
<1>11. RetiredMeansUnowned'
  BY MutexFree, CleanupDone
     DEF RetiredMeansUnowned, Idle, retire_all, retire_all_admitted,
         destructive_stop
<1> QED
  BY <1>4, <1>5, <1>6, <1>7, <1>8, <1>9, <1>10, <1>11 DEF IInv

LEMMA Keeps_retire_all_failed ==
    ASSUME IInv, NEW t \in Threads, retire_all_failed(t)
    PROVE  IInv'
<1>1. epoch' \in 0..MaxEpoch /\ fault' = TRUE
  BY RetainedConstants
     DEF IInv, TypeOK, retire_all_failed, destructive_stop_failed
<1>2. CountInv'
  BY CountSame
     DEF IInv, LegacyInside, retire_all_failed, retire_all_admitted,
         destructive_stop_failed, Admitted
<1>3. TypeOK'
  <2>1. legacy' \in 0..Cardinality(Threads)
    BY <1>2, SetOfThreads DEF CountInv, LegacyInside
  <2> QED
    BY <1>1, MarkStale
       DEF IInv, TypeOK, retire_all_failed, destructive_stop_failed
<1>4. CallerInv' /\ HandsDisjoint' /\ ModesExclusive' /\ RetiredMeansUnowned'
  BY DEF IInv, CallerInv, HandsDisjoint, ModesExclusive, RetiredMeansUnowned,
         retire_all_failed, retire_all_admitted, destructive_stop_failed
<1>5. RetainedInv'
  BY RetainedConstants
     DEF IInv, RetainedInv, CallerInv, retire_all_failed, retire_all_admitted
<1>6. ClosedInv'
  BY MarkStale
     DEF IInv, ClosedInv, Exclusive, retire_all_failed, destructive_stop_failed
<1>7. RegistryMatchesCore'
  BY MarkStale
     DEF IInv, RegistryMatchesCore, InHand, fetch_matches, retire_all_failed,
         destructive_stop_failed
<1> QED
  BY <1>2, <1>3, <1>4, <1>5, <1>6, <1>7 DEF IInv

LEMMA Keeps_capture_flush ==
    ASSUME IInv, NEW t \in Threads, capture_flush(t)
    PROVE  IInv'
<1>1. epoch' \in 0..MaxEpoch
  BY RetainedConstants
     DEF IInv, TypeOK, capture_flush, destructive_stop, destructive_stop_failed
<1>2. fault' \in BOOLEAN
  BY DEF IInv, TypeOK, capture_flush, destructive_stop, destructive_stop_failed
<1>3. reg' \in Registries \cup {NONE} /\ serial' \in 0..MaxSerial /\ entry' \in [Bufs -> Entries \cup {NONE}] /\ core' \in [Bufs -> Packets \cup {NONE}]
  BY MutexFree, CleanupDone, CleanupEmpty, MarkStale
     DEF IInv, TypeOK, capture_flush, destructive_stop, destructive_stop_failed
<1>4. CountInv'
  BY CountSame
     DEF IInv, LegacyInside, capture_flush, Admitted, destructive_stop,
         destructive_stop_failed, InCore
<1>5. TypeOK'
  <2>1. legacy' \in 0..Cardinality(Threads)
    BY <1>4, SetOfThreads DEF CountInv, LegacyInside
  <2> QED
    BY <1>1, <1>2, <1>3 DEF IInv, TypeOK, capture_flush
<1>6. CallerInv'
  BY DEF IInv, CallerInv, TypeOK, Inside, capture_flush, destructive_stop,
         destructive_stop_failed
<1>7. HandsDisjoint'
  BY DEF IInv, HandsDisjoint, TypeOK, capture_flush, Admitted, destructive_stop,
      destructive_stop_failed, InCore
<1>8. RetainedInv'
  BY RetainedConstants DEF IInv, RetainedInv, CallerInv, capture_flush
<1>9. ClosedInv'
  BY MutexFree, CleanupDone, CleanupEmpty, MarkStale
     DEF IInv, ClosedInv, capture_flush, Admitted, destructive_stop,
         destructive_stop_failed
<1>10. RegistryMatchesCore'
  BY RetainedConstants, NoneIsFresh, LegacyExcludes, MutexFree, CleanupDone,
     CleanupEmpty, MarkStale
     DEF IInv, RegistryMatchesCore, InHand, fetch_matches, TypeOK, Inside,
         CallerInv, HandsDisjoint, RetainedInv, ClosedInv, Exclusive, WaitsFor,
         ModesExclusive, RetiredMeansUnowned, Idle, capture_flush, Admitted,
         destructive_stop, destructive_stop_failed, InCore
<1>11. ModesExclusive'
  BY CleanupEmpty, MarkStale
     DEF IInv, ModesExclusive, capture_flush, destructive_stop,
         destructive_stop_failed
<1>12. RetiredMeansUnowned'
  BY MutexFree, CleanupDone, CleanupEmpty
     DEF IInv, RetiredMeansUnowned, capture_flush, destructive_stop,
         destructive_stop_failed
<1> QED
  BY <1>4, <1>5, <1>6, <1>7, <1>8, <1>9, <1>10, <1>11, <1>12 DEF IInv

LEMMA Keeps_capture_discard ==
    ASSUME IInv, NEW t \in Threads, capture_discard(t)
    PROVE  IInv'
<1>1. CountInv'
  BY CountSame DEF IInv, LegacyInside, capture_discard, Admitted
<1>2. TypeOK'
  <2>1. legacy' \in 0..Cardinality(Threads)
    BY <1>1, SetOfThreads DEF CountInv, LegacyInside
  <2> QED
    BY <2>1, RetainedConstants, Bounds, NoneIsFresh, LegacyExcludes, MutexFree,
       StopKeeping
       DEF IInv, TypeOK, CallerInv, Inside, Packets, Keys, Entries, Registries,
           Idle, capture_discard, Admitted
<1>3. HandsDisjoint' /\ RetainedInv' /\ ClosedInv'
  BY DEF IInv, HandsDisjoint, RetainedInv, WaitsFor, ClosedInv, capture_discard,
         Admitted
<1>4. CallerInv'
  BY StopKeeping DEF IInv, CallerInv, TypeOK, Inside, capture_discard
<1>5. RegistryMatchesCore'
  BY StopKeeping
     DEF IInv, RegistryMatchesCore, InHand, fetch_matches, capture_discard
<1>6. ModesExclusive'
  BY StopKeeping DEF IInv, ModesExclusive, capture_discard
<1>7. RetiredMeansUnowned'
  BY StopKeeping DEF IInv, RetiredMeansUnowned, capture_discard
<1> QED
  BY <1>1, <1>2, <1>3, <1>4, <1>5, <1>6, <1>7 DEF IInv

LEMMA Keeps_capture_start ==
    ASSUME IInv, NEW t \in Threads, capture_start(t)
    PROVE  IInv'
<1>1. CountInv'
  BY CountSame DEF IInv, LegacyInside, capture_start, Admitted
<1>2. TypeOK'
  <2>1. legacy' \in 0..Cardinality(Threads)
    BY <1>1, SetOfThreads DEF CountInv, LegacyInside
  <2> QED
    BY <2>1 DEF IInv, TypeOK, Inside, capture_start, Admitted
<1>3. /\ CallerInv' /\ HandsDisjoint' /\ RetainedInv' /\ ClosedInv'
      /\ RegistryMatchesCore' /\ ModesExclusive' /\ RetiredMeansUnowned'
  BY DEF IInv, CallerInv, HandsDisjoint, RetainedInv, WaitsFor, ClosedInv,
         Exclusive, RegistryMatchesCore, InHand, fetch_matches, ModesExclusive,
         RetiredMeansUnowned, capture_start
<1> QED
  BY <1>1, <1>2, <1>3 DEF IInv

LEMMA Keeps_add_cap_buff ==
    ASSUME IInv, NEW t \in Threads, NEW b \in Bufs, add_cap_buff(t, b)
    PROVE  IInv'
<1>1. CountInv'
  BY CountEnter
     DEF IInv, LegacyInside, TypeOK, Inside, add_cap_buff, Admitted, Go
<1>2. TypeOK'
  <2>1. legacy' \in 0..Cardinality(Threads)
    BY <1>1, SetOfThreads DEF CountInv, LegacyInside
  <2> QED
    BY <2>1 DEF IInv, TypeOK, Inside, add_cap_buff, Admitted, Go
<1>3. /\ HandsDisjoint' /\ RetainedInv' /\ ClosedInv'
      /\ ModesExclusive' /\ RetiredMeansUnowned'
  BY DEF IInv, HandsDisjoint, RetainedInv, ClosedInv, ModesExclusive,
         RetiredMeansUnowned, add_cap_buff, Admitted, Go
<1>4. CallerInv'
  BY DEF IInv, CallerInv, Idle, add_cap_buff, Admitted, Go
<1>5. RegistryMatchesCore'
  BY DEF IInv, RegistryMatchesCore, InHand, fetch_matches, CallerInv, Idle,
         add_cap_buff, Admitted, Go
<1> QED
  BY <1>1, <1>2, <1>3, <1>4, <1>5 DEF IInv

LEMMA Keeps_register ==
    ASSUME IInv, NEW t \in Threads, NEW b \in Bufs, register(t, b)
    PROVE  IInv'
<1>1. serial' \in 0..MaxSerial /\ [key |-> [rid |-> serial + 1, gen |-> reg.gen, seq |-> 0], st |-> "QUEUED", ep |-> epoch] \in Entries
  BY RetainedConstants DEF IInv, TypeOK, Registries, Entries, Keys, register
<1>2. CountInv'
  BY CountSame DEF IInv, LegacyInside, register, Admitted, Go
<1>3. TypeOK'
  <2>1. legacy' \in 0..Cardinality(Threads)
    BY <1>2, SetOfThreads DEF CountInv, LegacyInside
  <2> QED
    BY <2>1, <1>1 DEF IInv, TypeOK, Inside, register, Admitted, Go
<1>4. ClosedInv' /\ ModesExclusive' /\ RetiredMeansUnowned'
  BY DEF IInv, ClosedInv, ModesExclusive, RetiredMeansUnowned, register,
         Admitted, Go
<1>5. CallerInv'
  BY RetainedConstants, NoneIsFresh, LegacyExcludes, MutexFree
     DEF IInv, CallerInv, TypeOK, Inside, HandsDisjoint, RetainedInv, ClosedInv,
         Exclusive, fetch_matches, WaitsFor, InHand, RegistryMatchesCore,
         ModesExclusive, RetiredMeansUnowned, Idle, register, Admitted, Go
<1>6. HandsDisjoint'
  BY MutexFree DEF IInv, HandsDisjoint, register, Go
<1>7. RetainedInv'
  BY <1>1, NoneIsFresh DEF IInv, RetainedInv, WaitsFor, TypeOK, register, Go
<1>8. RegistryMatchesCore'
  BY RetainedConstants
     DEF IInv, RegistryMatchesCore, InHand, fetch_matches, TypeOK, register, Go
<1> QED
  BY <1>2, <1>3, <1>4, <1>5, <1>6, <1>7, <1>8 DEF IInv

LEMMA Keeps_fetch_wait ==
    ASSUME IInv, NEW t \in Threads, NEW b \in Bufs, fetch_wait(t, b)
    PROVE  IInv'
<1>1. core[b] \in Packets /\ core[b].mode = th[t].mode
  BY DEF IInv, TypeOK, Packets, Inside, RegistryMatchesCore, ModesExclusive,
         RetainedInv, fetch_wait
<1>2. CountInv'
  BY CountSame DEF IInv, LegacyInside, fetch_wait, Go
<1>3. TypeOK'
  <2>1. legacy' \in 0..Cardinality(Threads)
    BY <1>2, SetOfThreads DEF CountInv, LegacyInside
  <2> QED
    BY <2>1 DEF IInv, TypeOK, Inside, fetch_wait, Go
<1>4. ClosedInv' /\ ModesExclusive' /\ RetiredMeansUnowned'
  BY DEF IInv, ClosedInv, Exclusive, ModesExclusive, RetiredMeansUnowned,
      TypeOK, fetch_wait, Go
<1>5. CallerInv'
  BY <1>1, RetainedConstants DEF IInv, CallerInv, TypeOK, fetch_wait, Go
<1>6. HandsDisjoint'
  BY DEF IInv, HandsDisjoint, CallerInv, Idle, fetch_wait, Go
<1>7. RetainedInv'
  BY RetainedConstants, NoneIsFresh, LegacyExcludes, MutexFree
     DEF IInv, RetainedInv, WaitsFor, TypeOK, Inside, CallerInv, HandsDisjoint,
         ClosedInv, Exclusive, fetch_matches, InHand, RegistryMatchesCore,
         ModesExclusive, RetiredMeansUnowned, Idle, fetch_wait, Go
<1>8. RegistryMatchesCore'
  BY RetainedConstants, NoneIsFresh, LegacyExcludes, MutexFree
     DEF IInv, RegistryMatchesCore, InHand, fetch_matches, TypeOK, Inside,
         CallerInv, HandsDisjoint, RetainedInv, ClosedInv, Exclusive, WaitsFor,
         ModesExclusive, RetiredMeansUnowned, Idle, fetch_wait, Go
<1> QED
  BY <1>2, <1>3, <1>4, <1>5, <1>6, <1>7, <1>8 DEF IInv

LEMMA Keeps_repost ==
    ASSUME IInv, NEW t \in Threads, NEW b \in Bufs, NEW key \in Keys, repost(t, b, key)
    PROVE  IInv'
<1>1. [entry[b] EXCEPT !.st = "QUEUED"] \in Entries
  BY EntryTypes DEF IInv, TypeOK, repost, key_matches
<1>2. CountInv'
  BY CountSame DEF IInv, LegacyInside, repost, Admitted, key_matches, Go
<1>3. TypeOK'
  <2>1. legacy' \in 0..Cardinality(Threads)
    BY <1>2, SetOfThreads DEF CountInv, LegacyInside
  <2> QED
    BY DEF IInv, TypeOK, Inside, Entries, repost, key_matches, Go
<1>4. ClosedInv' /\ ModesExclusive' /\ RetiredMeansUnowned'
  BY DEF IInv, ClosedInv, ModesExclusive, RetiredMeansUnowned, repost, Admitted,
         key_matches, Go
<1>5. CallerInv'
  BY RetainedConstants
     DEF IInv, CallerInv, TypeOK, RegistryMatchesCore, repost, key_matches, Go
<1>6. HandsDisjoint'
  BY MutexFree DEF IInv, HandsDisjoint, repost, Go
<1>7. RetainedInv'
  BY <1>1, NoneIsFresh
     DEF IInv, RetainedInv, WaitsFor, TypeOK, RegistryMatchesCore, repost,
         key_matches, Go
<1>8. RegistryMatchesCore'
  BY RetainedConstants
     DEF IInv, RegistryMatchesCore, InHand, fetch_matches, TypeOK, repost,
         key_matches, Go
<1> QED
  BY <1>2, <1>3, <1>4, <1>5, <1>6, <1>7, <1>8 DEF IInv

LEMMA Keeps_retire ==
    ASSUME IInv, NEW t \in Threads, NEW b \in Bufs, NEW key \in Keys, retire(t, b, key)
    PROVE  IInv'
<1>1. CountInv'
  BY CountSame DEF IInv, LegacyInside, retire, Admitted, key_matches
<1>2. TypeOK'
  <2>1. legacy' \in 0..Cardinality(Threads)
    BY <1>1, SetOfThreads DEF CountInv, LegacyInside
  <2> QED
    BY <2>1 DEF IInv, TypeOK, Inside, retire, Admitted, key_matches
<1>3. /\ CallerInv' /\ HandsDisjoint' /\ RetainedInv' /\ ClosedInv'
      /\ RegistryMatchesCore' /\ ModesExclusive' /\ RetiredMeansUnowned'
  BY DEF IInv, CallerInv, HandsDisjoint, RetainedInv, WaitsFor, ClosedInv,
         Exclusive, RegistryMatchesCore, InHand, ModesExclusive,
         RetiredMeansUnowned, retire, key_matches
<1> QED
  BY <1>1, <1>2, <1>3 DEF IInv

LEMMA Keeps_rx_complete ==
    ASSUME IInv, NEW b \in Bufs, rx_complete(b)
    PROVE  IInv'
<1>1. core' \in [Bufs -> Packets \cup {NONE}] /\ core'[b] # NONE /\ core'[b].mode = core[b].mode /\ core'[b].ep = core[b].ep
  BY NoneIsFresh DEF IInv, TypeOK, Packets, rx_complete
<1>2. CountInv'
  BY CountSame DEF IInv, LegacyInside, rx_complete
<1>3. TypeOK'
  <2>1. legacy' \in 0..Cardinality(Threads)
    BY <1>2, SetOfThreads DEF CountInv, LegacyInside
  <2> QED
    BY DEF IInv, TypeOK, Packets, rx_complete
<1>4. /\ CallerInv' /\ HandsDisjoint' /\ RetainedInv' /\ ClosedInv'
      /\ ModesExclusive' /\ RetiredMeansUnowned'
  BY DEF IInv, CallerInv, HandsDisjoint, RetainedInv, WaitsFor, ClosedInv,
         ModesExclusive, RetiredMeansUnowned, rx_complete
<1>5. RegistryMatchesCore'
  BY <1>1
     DEF IInv, RegistryMatchesCore, InHand, fetch_matches, TypeOK, rx_complete
<1> QED
  BY <1>2, <1>3, <1>4, <1>5 DEF IInv

LEMMA Keeps_publish_fault ==
    ASSUME IInv, publish_fault
    PROVE  IInv'
<1>1. CountInv'
  BY CountSame DEF IInv, LegacyInside, publish_fault
<1>2. TypeOK'
  <2>1. legacy' \in 0..Cardinality(Threads)
    BY <1>1, SetOfThreads DEF CountInv, LegacyInside
  <2> QED
    BY <2>1 DEF IInv, TypeOK, Inside, publish_fault
<1>3. /\ CallerInv' /\ HandsDisjoint' /\ RetainedInv' /\ ClosedInv'
      /\ RegistryMatchesCore' /\ ModesExclusive' /\ RetiredMeansUnowned'
  BY DEF IInv, CallerInv, HandsDisjoint, RetainedInv, WaitsFor, ClosedInv,
         RegistryMatchesCore, InHand, fetch_matches, ModesExclusive,
         RetiredMeansUnowned, publish_fault
<1> QED
  BY <1>1, <1>2, <1>3 DEF IInv

LEMMA Keeps_session_open ==
    ASSUME IInv, session_open
    PROVE  IInv'
<1>1. epoch' \in 0..MaxEpoch
  BY Bounds DEF IInv, TypeOK, session_open
<1>2. CountInv'
  BY CountSame DEF IInv, LegacyInside, session_open
<1>3. TypeOK'
  <2>1. legacy' \in 0..Cardinality(Threads)
    BY <1>2, SetOfThreads DEF CountInv, LegacyInside
  <2> QED
    BY <2>1, <1>1 DEF IInv, TypeOK, Inside, session_open
<1>4. /\ CallerInv' /\ HandsDisjoint' /\ ClosedInv'
      /\ ModesExclusive' /\ RetiredMeansUnowned'
  BY DEF IInv, CallerInv, HandsDisjoint, ClosedInv, ModesExclusive,
         RetiredMeansUnowned, session_open
<1>5. RetainedInv'
  BY DEF IInv, RetainedInv, ClosedInv, session_open
<1>6. RegistryMatchesCore'
  BY DEF IInv, RegistryMatchesCore, fetch_matches, ClosedInv, session_open
<1> QED
  BY <1>2, <1>3, <1>4, <1>5, <1>6 DEF IInv

LEMMA Keeps_suspend ==
    ASSUME IInv, suspend
    PROVE  IInv'
<1>1. CountInv'
  BY CountSame DEF IInv, LegacyInside, suspend, Exclusive
<1>2. TypeOK'
  <2>1. legacy' \in 0..Cardinality(Threads)
    BY <1>1, SetOfThreads DEF CountInv, LegacyInside
  <2> QED
    BY <2>1, RetainedConstants, Bounds, NoneIsFresh, LegacyExcludes, MutexFree,
       MarkStale, StopKeeping
       DEF IInv, TypeOK, CallerInv, Inside, Packets, Keys, Entries, Registries,
           Idle, suspend, Exclusive
<1>3. CallerInv' /\ HandsDisjoint'
  BY DEF IInv, CallerInv, HandsDisjoint, TypeOK, suspend, Exclusive
<1>4. RetainedInv'
  BY DEF IInv, RetainedInv, CallerInv, Idle, suspend, Exclusive
<1>5. ClosedInv'
  BY MarkStale DEF IInv, ClosedInv, Exclusive, suspend
<1>6. RegistryMatchesCore'
  BY MarkStale, StopKeeping
     DEF IInv, RegistryMatchesCore, InHand, fetch_matches, suspend
<1>7. ModesExclusive'
  BY MarkStale, StopKeeping DEF IInv, ModesExclusive, suspend
<1>8. RetiredMeansUnowned'
  BY StopKeeping DEF IInv, RetiredMeansUnowned, suspend
<1> QED
  BY <1>1, <1>2, <1>3, <1>4, <1>5, <1>6, <1>7, <1>8 DEF IInv

LEMMA Keeps_resume ==
    ASSUME IInv, resume
    PROVE  IInv'
<1>1. CountInv'
  BY CountSame DEF IInv, LegacyInside, resume, Exclusive
<1>2. TypeOK'
  <2>1. legacy' \in 0..Cardinality(Threads)
    BY <1>1, SetOfThreads DEF CountInv, LegacyInside
  <2> QED
    BY <2>1 DEF IInv, TypeOK, Inside, resume, Exclusive
<1>3. /\ CallerInv' /\ HandsDisjoint' /\ RetainedInv' /\ ClosedInv'
      /\ RegistryMatchesCore' /\ ModesExclusive' /\ RetiredMeansUnowned'
  BY DEF IInv, CallerInv, HandsDisjoint, RetainedInv, ClosedInv, Exclusive,
         RegistryMatchesCore, InHand, ModesExclusive, RetiredMeansUnowned,
         resume
<1> QED
  BY <1>1, <1>2, <1>3 DEF IInv

LEMMA Keeps_retire_hw_context ==
    ASSUME IInv, retire_hw_context
    PROVE  IInv'
<1>1. core' \in [Bufs -> Packets \cup {NONE}] /\ reg' \in Registries \cup {NONE}
  BY DEF IInv, TypeOK, retire_hw_context, retained_destroy
<1>2. entry' \in [Bufs -> Entries \cup {NONE}]
  BY Detach DEF IInv, TypeOK, retire_hw_context, retained_destroy
<1>3. cap_en' \in BOOLEAN /\ fault' \in BOOLEAN
  BY DEF IInv, TypeOK, retire_hw_context
<1>4. CountInv'
  BY CountSame
     DEF IInv, LegacyInside, retire_hw_context, Exclusive, retained_destroy,
         InCore
<1>5. TypeOK'
  <2>1. legacy' \in 0..Cardinality(Threads)
    BY <1>4, SetOfThreads DEF CountInv, LegacyInside
  <2> QED
    BY <1>2 DEF IInv, TypeOK, retire_hw_context, retained_destroy
<1>6. CallerInv' /\ HandsDisjoint' /\ ModesExclusive'
  BY DEF IInv, CallerInv, HandsDisjoint, ModesExclusive, retire_hw_context,
         Exclusive, retained_destroy
<1>7. RetainedInv'
  BY DEF IInv, RetainedInv, CallerInv, Idle, retire_hw_context, Exclusive
<1>8. ClosedInv'
  BY CleanupAllowed
     DEF IInv, ClosedInv, Exclusive, CallerInv, retire_hw_context,
         retained_destroy
<1>9. RegistryMatchesCore'
  BY CleanupAllowed
     DEF IInv, RegistryMatchesCore, InHand, CallerInv, retire_hw_context,
         Exclusive, retained_destroy
<1>10. RetiredMeansUnowned'
  BY CleanupAllowed
     DEF IInv, RetiredMeansUnowned, CallerInv, retire_hw_context, Exclusive,
         retained_destroy
<1> QED
  BY <1>4, <1>5, <1>6, <1>7, <1>8, <1>9, <1>10 DEF IInv

LEMMA Keeps_delete_cmd_context ==
    ASSUME IInv, delete_cmd_context
    PROVE  IInv'
<1>1. core' \in [Bufs -> Packets \cup {NONE}] /\ reg' \in Registries \cup {NONE}
  BY DEF IInv, TypeOK, delete_cmd_context, retained_destroy
<1>2. entry' \in [Bufs -> Entries \cup {NONE}]
  BY Detach DEF IInv, delete_cmd_context, retained_destroy
<1>3. cap_en' \in BOOLEAN /\ fault' \in BOOLEAN
  BY DEF IInv, TypeOK, delete_cmd_context
<1>4. CountInv'
  BY CountSame
     DEF IInv, LegacyInside, delete_cmd_context, Exclusive, retained_destroy,
         InCore
<1>5. TypeOK'
  <2>1. legacy' \in 0..Cardinality(Threads)
    BY <1>4, SetOfThreads DEF CountInv, LegacyInside
  <2> QED
    BY <1>2 DEF IInv, TypeOK, delete_cmd_context, retained_destroy
<1>6. CallerInv' /\ HandsDisjoint' /\ ModesExclusive'
  BY DEF IInv, CallerInv, HandsDisjoint, ModesExclusive, delete_cmd_context,
         Exclusive, retained_destroy
<1>7. RetainedInv'
  BY DEF IInv, RetainedInv, CallerInv, Idle, delete_cmd_context, Exclusive
<1>8. ClosedInv'
  BY CleanupAllowed
     DEF IInv, ClosedInv, Exclusive, CallerInv, delete_cmd_context,
         retained_destroy
<1>9. RegistryMatchesCore'
  BY CleanupAllowed
     DEF IInv, RegistryMatchesCore, CallerInv, delete_cmd_context, Exclusive,
         retained_destroy
<1>10. RetiredMeansUnowned'
  BY CleanupAllowed
     DEF IInv, RetiredMeansUnowned, CallerInv, delete_cmd_context, Exclusive,
         retained_destroy
<1> QED
  BY <1>4, <1>5, <1>6, <1>7, <1>8, <1>9, <1>10 DEF IInv

-----------------------------------------------------------------------------
LEMMA InitEstablishes == Init => IInv
<1> SUFFICES ASSUME Init PROVE IInv
  OBVIOUS
<1> USE DEF Init
<1>1. \A t \in Threads : th[t] = Idle
  OBVIOUS
<1>2. CountInv
  <2>1. LegacyInside = {}
    BY <1>1 DEF LegacyInside, Idle
  <2> QED
    BY <2>1, FS_EmptySet DEF CountInv
<1>3. TypeOK
  <2>1. legacy \in 0..Cardinality(Threads)
    BY <1>2, SetOfThreads DEF CountInv, LegacyInside
  <2>2. Idle \in Inside
    BY DEF Idle, Inside
  <2>3. cap_en \in BOOLEAN /\ fault \in BOOLEAN /\ acked \in BOOLEAN
    OBVIOUS
  <2>4. epoch \in 0..MaxEpoch /\ serial \in 0..MaxSerial
    BY Bounds
  <2> QED
    BY <2>1, <2>2, <2>3, <2>4 DEF TypeOK
<1>4. CallerInv /\ HandsDisjoint /\ RetainedInv
  BY <1>1, RetainedConstants DEF CallerInv, HandsDisjoint, RetainedInv, Idle
<1>5. ClosedInv /\ ModesExclusive /\ RetiredMeansUnowned
  BY <1>1 DEF ClosedInv, Exclusive, ModesExclusive, RetiredMeansUnowned, Idle
<1>6. RegistryMatchesCore
  BY <1>1 DEF RegistryMatchesCore, Idle
<1> QED
  BY <1>2, <1>3, <1>4, <1>5, <1>6 DEF IInv

LEMMA StepKeeps == IInv /\ [Next]_vars => IInv'
<1> SUFFICES ASSUME IInv, [Next]_vars PROVE IInv'
  OBVIOUS
<1>1. ASSUME NEW t \in Threads, rx_submit(t)
      PROVE  IInv'
  BY <1>1, Keeps_rx_submit
<1>2. ASSUME NEW t \in Threads, rx_submit_failed(t)
      PROVE  IInv'
  BY <1>2, Keeps_rx_submit_failed
<1>3. ASSUME NEW t \in Threads, register_mode(t)
      PROVE  IInv'
  BY <1>3, Keeps_register_mode
<1>4. ASSUME NEW t \in Threads, fetch_frame(t)
      PROVE  IInv'
  BY <1>4, Keeps_fetch_frame
<1>5. ASSUME NEW t \in Threads, retained_fetch(t)
      PROVE  IInv'
  BY <1>5, Keeps_retained_fetch
<1>6. ASSUME NEW t \in Threads, fetch_nothing(t)
      PROVE  IInv'
  BY <1>6, Keeps_fetch_nothing
<1>7. ASSUME NEW t \in Threads, complete_rx(t)
      PROVE  IInv'
  BY <1>7, Keeps_complete_rx
<1>8. ASSUME NEW t \in Threads, complete_rx_fault(t)
      PROVE  IInv'
  BY <1>8, Keeps_complete_rx_fault
<1>9. ASSUME NEW t \in Threads, fetch_picture(t)
      PROVE  IInv'
  BY <1>9, Keeps_fetch_picture
<1>10. ASSUME NEW t \in Threads, retained_picture(t)
      PROVE  IInv'
  BY <1>10, Keeps_retained_picture
<1>11. ASSUME NEW t \in Threads, ack_format(t)
      PROVE  IInv'
  BY <1>11, Keeps_ack_format
<1>12. ASSUME NEW t \in Threads, ack_format_released(t)
      PROVE  IInv'
  BY <1>12, Keeps_ack_format_released
<1>13. ASSUME NEW t \in Threads, retire_all_empty(t)
      PROVE  IInv'
  BY <1>13, Keeps_retire_all_empty
<1>14. ASSUME NEW t \in Threads, retire_all(t)
      PROVE  IInv'
  BY <1>14, Keeps_retire_all
<1>15. ASSUME NEW t \in Threads, retire_all_failed(t)
      PROVE  IInv'
  BY <1>15, Keeps_retire_all_failed
<1>16. ASSUME NEW t \in Threads, capture_flush(t)
      PROVE  IInv'
  BY <1>16, Keeps_capture_flush
<1>17. ASSUME NEW t \in Threads, capture_discard(t)
      PROVE  IInv'
  BY <1>17, Keeps_capture_discard
<1>18. ASSUME NEW t \in Threads, capture_start(t)
      PROVE  IInv'
  BY <1>18, Keeps_capture_start
<1>19. ASSUME NEW t \in Threads, NEW b \in Bufs, add_cap_buff(t, b)
      PROVE  IInv'
  BY <1>19, Keeps_add_cap_buff
<1>20. ASSUME NEW t \in Threads, NEW b \in Bufs, register(t, b)
      PROVE  IInv'
  BY <1>20, Keeps_register
<1>21. ASSUME NEW t \in Threads, NEW b \in Bufs, fetch_wait(t, b)
      PROVE  IInv'
  BY <1>21, Keeps_fetch_wait
<1>22. ASSUME NEW t \in Threads, NEW b \in Bufs, NEW key \in Keys,
             repost(t, b, key)
      PROVE  IInv'
  BY <1>22, Keeps_repost
<1>23. ASSUME NEW t \in Threads, NEW b \in Bufs, NEW key \in Keys,
             retire(t, b, key)
      PROVE  IInv'
  BY <1>23, Keeps_retire
<1>24. ASSUME NEW b \in Bufs, rx_complete(b)
      PROVE  IInv'
  BY <1>24, Keeps_rx_complete
<1>25. CASE publish_fault
  BY <1>25, Keeps_publish_fault
<1>26. CASE session_open
  BY <1>26, Keeps_session_open
<1>27. CASE suspend
  BY <1>27, Keeps_suspend
<1>28. CASE resume
  BY <1>28, Keeps_resume
<1>29. CASE retire_hw_context
  BY <1>29, Keeps_retire_hw_context
<1>30. CASE delete_cmd_context
  BY <1>30, Keeps_delete_cmd_context
<1>31. CASE UNCHANGED vars
  BY <1>31
     DEF IInv, TypeOK, CountInv, LegacyInside, CallerInv, HandsDisjoint,
         RetainedInv, WaitsFor, ClosedInv, Exclusive, RegistryMatchesCore,
         InHand, fetch_matches, ModesExclusive, RetiredMeansUnowned
<1> QED
  BY <1>1, <1>2, <1>3, <1>4, <1>5, <1>6, <1>7, <1>8, <1>9, <1>10, <1>11, <1>12,
     <1>13, <1>14, <1>15, <1>16, <1>17, <1>18, <1>19, <1>20, <1>21, <1>22,
     <1>23, <1>24, <1>25, <1>26, <1>27, <1>28, <1>29, <1>30, <1>31
     DEF Next

LEMMA Invariant == Spec => []IInv
  BY InitEstablishes, StepKeeps, PTL DEF Spec

\* Every variable has its type; in particular the serial numbers and borrow
\* numbers handed to clients never exceed their last value.
THEOREM TypeCorrect == Spec => []TypeOK
<1>1. IInv => TypeOK
  BY DEF IInv
<1> QED
  BY <1>1, Invariant, PTL

\* The registry and the capture core agree about every retained buffer, and at
\* most one buffer is lent (crystalhd_retained_fetch, _return, _cleanup).
THEOREM RegistryAgrees == Spec => []RegistryMatchesCore
<1>1. IInv => RegistryMatchesCore
  BY DEF IInv
<1> QED
  BY <1>1, Invariant, PTL

\* Legacy and retained callers never share a session (the publication of the
\* mode in crystalhd_retained_register, the counter in crystalhd_legacy_rx_enter).
THEOREM ModesExclude == Spec => []ModesExclusive
<1>1. IInv => ModesExclusive
  BY DEF IInv
<1> QED
  BY <1>1, Invariant, PTL

\* A full retirement that was acknowledged is true until something new begins
\* (crystalhd_retained_no_owners, crystalhd_retained_retire_all).
THEOREM RetirementIsTrue == Spec => []RetiredMeansUnowned
<1>1. IInv => RetiredMeansUnowned
  BY DEF IInv
<1> QED
  BY <1>1, Invariant, PTL
=============================================================================
