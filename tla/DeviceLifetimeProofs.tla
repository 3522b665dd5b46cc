------------------------ MODULE DeviceLifetimeProofs ------------------------
(***************************************************************************)
(* What DeviceLifetime promises for any number of files, leases, user      *)
(* slots, probes and failures, with and without the session's link guard.  *)
(*                                                                         *)
(* The functions that can fail half way are sets of outcomes; a lemma per  *)
(* function says what every outcome leaves alone and that the adapter is   *)
(* sound afterwards (DevOK).  The inductive invariant adds who may be      *)
(* inside while the PCI lock's holder works (PciInv), what a module that   *)
(* exits still has (ModInv), which binding an operation works on           *)
(* (BindingInv), the slots and the files of the current generation         *)
(* (SlotInv), and the holders of each lease (LeaseInv).                    *)
(***************************************************************************)
EXTENDS DeviceLifetime, FiniteSetTheorems, TLAPS

\* The adapter's record agrees with itself: work on posted descriptors has its
\* rings unless the device can neither be mastered nor used any more; rings
\* are freed before the context and before the pin.
DevOK(d) ==
    /\ d.busy => d.rings \/ (~d.master /\ ~d.hw /\ ~d.present)
    /\ d.rings => d.hw /\ d.pinned
    /\ d.owner # NONE \/ d.life # NONE \/ d.quar => d.pinned
    /\ d.l0s => SessionGuard /\ (d.present => d.pinned)
    /\ d.quiesced \/ d.quar => ~d.present /\ ~d.susp
    /\ d.quiesced => ~d.master
    /\ d.put # NONE => ~d.pinned
    /\ d.present => d.bound
    /\ ~d.cmdsAdp => ~d.hw /\ ~d.pinned /\ ~d.present
    /\ ~d.bound /\ ~d.quar => ~d.cmdsAdp

\* Who may be where while the PCI device lock's holder works.
PciInv ==
    /\ dev.owner \in Leases => dev.life = dev.owner
    /\ pci # "idle" => dev.bound /\ ~dev.present /\ ~dev.susp
    /\ dev.susp => dev.present /\ ~dev.access
    /\ pci = "failing" => ~dev.quar
    /\ pci \in {"failed", "removed"} => \A f \in Files : op[f] = "none"
    /\ pci = "removed" /\ ~dev.quar => ~dev.pinned /\ ~dev.hw

\* Once exit has begun nothing refers to the module.
ModInv ==
    /\ mod # "live" => /\ ~dev.pinned
                       /\ \A f \in Files : file[f].gen = 0 /\ op[f] = "none"
                       /\ \A l \in Leases : lease[l].refs = 0
    /\ mod = "gone" => ~dev.bound

\* An operation works on a binding of the present adapter.
BindingInv ==
    /\ dev.bound \/ dev.v4l2 => gen > 0
    /\ gate # NONE => op[gate] # "none"
    /\ \A f \in Files :
        /\ file[f].gen <= gen
        /\ file[f].gen = 0 => file[f].slot = 0
        /\ op[f] # "none" => dev.bound
        /\ op[f] = "open" => file[f].gen = 0
        /\ op[f] \notin {"none", "open"} => file[f].gen = gen
        /\ op[f] \notin {"none", "open", "close"} => file[f].slot # 0

\* The slots of a bound adapter and the files of its generation match.
SlotInv ==
    dev.bound =>
        /\ dev.users = Cardinality({s \in Slots : slot[s].used})
        /\ \A f \in Files : file[f].gen = gen /\ file[f].slot # 0
                => slot[file[f].slot].used
        /\ \A f, g \in Files :
              (/\ file[f].gen = gen /\ file[g].gen = gen
               /\ file[f].slot = file[g].slot /\ file[f].slot # 0) => f = g
        /\ \A s \in Slots : slot[s].used =>
              \E f \in Files : file[f].gen = gen /\ file[f].slot = s

\* The holders of a lease, and the stages of its cleanup.
Count(b) == IF b THEN 1 ELSE 0
LeaseOK(r) ==
    /\ r.refs = Count(r.base) + Count(r.core) + Count(r.active) + Count(r.pending)
    /\ r.active <=> r.phase # "off"
    /\ r.pending <=> r.closing /\ ~r.done
    /\ r.active => r.pending
    /\ r.done => r.closing /\ ~r.core
    /\ r.gen = 0 => r.refs = 0
    /\ r.gen > 0 /\ ~r.closing => r.base
LeaseInv ==
    \A l \in Leases :
        /\ LeaseOK(lease[l])
        /\ lease[l].core <=> l \in {dev.life, dev.put}
        /\ lease[l].gen <= gen

IInv == TypeOK /\ DevOK(dev) /\ PciInv /\ ModInv /\ BindingInv /\ SlotInv /\ LeaseInv

\* What no session function touches, what only its own steps touch, and what
\* is left to the link and to the engines.
SameFrame(d, e) ==
    /\ e.bound = d.bound /\ e.access = d.access /\ e.quiesced = d.quiesced
    /\ e.cmdsAdp = d.cmdsAdp /\ e.v4l2 = d.v4l2 /\ e.quar = d.quar
    /\ e.susp = d.susp /\ e.users = d.users
Kept(d, e) ==
    /\ e.owner = d.owner /\ e.life = d.life /\ e.put = d.put /\ e.pinned = d.pinned
SameSession(d, e) ==
    Kept(d, e) /\ e.hw = d.hw /\ e.rings = d.rings /\ e.state = d.state
LinkOnly(d, e) ==
    /\ e \in Adapter /\ SameFrame(d, e) /\ SameSession(d, e)
    /\ e.busy = d.busy /\ e.fault = d.fault /\ e.present = d.present
EnginesOnly(d, e) ==
    /\ e \in Adapter /\ SameFrame(d, e) /\ SameSession(d, e)
    /\ e.l0s = d.l0s
    /\ e.present => d.present
    /\ e.master => d.master
    /\ e.busy => d.busy
\* Only the count of failures may differ.
Same(d, e) == LinkOnly(d, e) /\ e.l0s = d.l0s /\ e.master = d.master

\* The session is dropped: its lifetime owner's put() is due.
Dropped(d, e) ==
    e.owner = NONE /\ e.life = NONE /\ e.put = d.life /\ ~e.pinned

\* A session function keeps the adapter sound, and the rest of it alone.
Sound(d, e) ==
    /\ e \in Adapter /\ SameFrame(d, e)
    /\ e.present => d.present
    /\ DevOK(e)
USE BoundAssumption, IdentityAssumption DEF Slots, Flags

-----------------------------------------------------------------------------
(* The functions of the device and of the session, one after the other.    *)

\* A call ends with its result, or with one of its failures and one more counted.
LEMMA MayFailOutcome ==
  ASSUME NEW d \in Adapter, NEW S \in SUBSET Adapter, NEW r \in MayFail(d, S)
  PROVE  /\ r.d \in Adapter /\ r.ok \in BOOLEAN
         /\ r.ok => r.d = d
         /\ ~r.ok => \E b \in S : Same(b, r.d)
<1>1. CASE r = Ok(d)
  BY <1>1 DEF Ok
<1>2. CASE r # Ok(d)
  <2>1. PICK b \in S : b.fails < MaxFail /\ r = Bad([b EXCEPT !.fails = @ + 1])
    BY <1>2 DEF MayFail
  <2>2. b \in Adapter
    BY <2>1
  <2>3. Same(b, [b EXCEPT !.fails = @ + 1])
    BY <2>1, <2>2 DEF Same, LinkOnly, SameFrame, SameSession, Kept, Adapter
  <2> QED
    BY <2>1, <2>3 DEF Bad, Same, LinkOnly
<1> QED
  BY <1>1, <1>2

\* Reflexivity, composition, and single fields of the link.
LEMMA SameRefl ==
  ASSUME NEW d \in Adapter PROVE Same(d, d)
  BY DEF Same, LinkOnly, SameFrame, SameSession, Kept

LEMMA SetMasterTo ==
  ASSUME NEW d \in Adapter, NEW m \in BOOLEAN
  PROVE  LET e == [d EXCEPT !.master = m]
         IN  e.master = m /\ e.l0s = d.l0s /\ LinkOnly(d, e)
  BY DEF LinkOnly, SameFrame, SameSession, Kept, Adapter

LEMMA SetL0sTo ==
  ASSUME NEW d \in Adapter, NEW b \in BOOLEAN
  PROVE  LET e == [d EXCEPT !.l0s = b]
         IN  e.l0s = b /\ e.master = d.master /\ LinkOnly(d, e)
  BY DEF LinkOnly, SameFrame, SameSession, Kept, Adapter

LEMMA LinkCompose ==
  ASSUME NEW d, NEW e, NEW f, LinkOnly(d, e), LinkOnly(e, f)
  PROVE  LinkOnly(d, f)
  BY DEF LinkOnly, SameFrame, SameSession, Kept

\* An unchecked write can only lose mastering.
LEMMA MasterTypes ==
  ASSUME NEW d \in Adapter
  PROVE  /\ d.master \in BOOLEAN /\ d.l0s \in BOOLEAN
         /\ \A e \in MasterMaybeOff(d) :
               LinkOnly(d, e) /\ e.l0s = d.l0s /\ (e.master => d.master)
         /\ MasterMaybeOff(d) \in SUBSET Adapter
<1>1. d.master \in BOOLEAN /\ d.l0s \in BOOLEAN
  BY DEF Adapter
<1>2. ASSUME NEW e \in MasterMaybeOff(d)
      PROVE  LinkOnly(d, e) /\ e.l0s = d.l0s /\ (e.master => d.master)
  <2>1. PICK m \in {FALSE, d.master} : e = [d EXCEPT !.master = m]
    BY DEF MasterMaybeOff
  <2>2. m \in BOOLEAN
    BY <1>1
  <2> QED
    BY <2>1, <2>2, SetMasterTo
<1> QED
  BY <1>1, <1>2 DEF LinkOnly

\* A drain that succeeds leaves mastering off; none turns it on.
LEMMA ClearMaster ==
  ASSUME NEW d \in Adapter, NEW r \in chd_dec_clear_master_and_drain(d)
  PROVE  /\ LinkOnly(d, r.d) /\ r.d.l0s = d.l0s
         /\ r.d.master => d.master
         /\ r.ok => ~r.d.master
<1> DEFINE off == [d EXCEPT !.master = FALSE]
<1>1. LinkOnly(d, off) /\ ~off.master /\ off.l0s = d.l0s /\ off \in Adapter
  BY SetMasterTo DEF LinkOnly
<1>2. r \in MayFail(off, MasterMaybeOff(d))
  BY DEF chd_dec_clear_master_and_drain
<1> HIDE DEF off
<1>3. CASE r.ok
  BY <1>1, <1>2, <1>3, MayFailOutcome, MasterTypes
<1>4. CASE ~r.ok
  <2>1. PICK b \in MasterMaybeOff(d) : Same(b, r.d)
    BY <1>1, <1>2, <1>4, MayFailOutcome, MasterTypes
  <2> QED
    BY <1>4, <2>1, MasterTypes, LinkCompose DEF Same
<1> QED
  BY <1>3, <1>4

\* The override is gone after a successful stop.
LEMMA L0sStop ==
  ASSUME NEW d \in Adapter, NEW r \in crystalhd_l0s_session_stop(d)
  PROVE  /\ LinkOnly(d, r.d) /\ r.d.master = d.master
         /\ r.d.l0s => d.l0s
         /\ r.ok => ~r.d.l0s
<1> DEFINE off == [d EXCEPT !.l0s = FALSE]
<1>1. LinkOnly(d, off) /\ off.master = d.master /\ ~off.l0s /\ off \in Adapter
  BY SetL0sTo DEF LinkOnly
<1>2. \/ ~d.l0s /\ r = Ok(d)
      \/ r \in MayFail(off, {d})
  BY DEF crystalhd_l0s_session_stop
<1> HIDE DEF off
<1>3. CASE r \in MayFail(off, {d})
  BY <1>1, <1>3, MayFailOutcome DEF Same
<1>4. CASE ~d.l0s /\ r = Ok(d)
  BY <1>4, SameRefl DEF Ok, Same
<1> QED
  BY <1>2, <1>3, <1>4

\* Starting it, checking mastering, and the guard's end and begin touch the link only.
LEMMA L0sStart ==
  ASSUME NEW d \in Adapter, NEW r \in crystalhd_l0s_session_start(d)
  PROVE  LinkOnly(d, r.d) /\ r.d.master = d.master
<1> DEFINE on == [d EXCEPT !.l0s = TRUE]
<1>1. LinkOnly(d, on) /\ on.master = d.master /\ on.l0s /\ on \in Adapter
  BY SetL0sTo DEF LinkOnly
<1>2. r = Bad(d) \/ r \in MayFail(on, {d, on})
  BY DEF crystalhd_l0s_session_start
<1> HIDE DEF on
<1>3. CASE r \in MayFail(on, {d, on})
  BY <1>1, <1>3, MayFailOutcome, LinkCompose DEF Same
<1>4. CASE r = Bad(d)
  BY <1>4, SameRefl DEF Bad, Same
<1> QED
  BY <1>2, <1>3, <1>4

LEMMA SetMaster ==
  ASSUME NEW d \in Adapter, NEW r \in chd_dec_set_master_checked(d)
  PROVE  LinkOnly(d, r.d) /\ r.d.l0s = d.l0s
<1> DEFINE on == [d EXCEPT !.master = TRUE]
<1>1. LinkOnly(d, on) /\ on.l0s = d.l0s /\ on \in Adapter
  BY SetMasterTo DEF LinkOnly
<1>2. r \in MayFail(on, {on, d})
  BY DEF chd_dec_set_master_checked
<1> HIDE DEF on
<1> QED
  BY <1>1, <1>2, MayFailOutcome, LinkCompose DEF Same

LEMMA L0sEnd ==
  ASSUME NEW d \in Adapter, NEW r \in crystalhd_session_l0s_end(d)
  PROVE  /\ LinkOnly(d, r.d)
         /\ r.d.master => d.master
         /\ r.d.l0s => d.l0s
         /\ r.ok /\ SessionGuard => ~r.d.l0s
<1>1. CASE ~SessionGuard
  BY <1>1, SameRefl DEF crystalhd_session_l0s_end, Ok, Same
<1>2. CASE SessionGuard
  <2>1. PICK c \in chd_dec_clear_master_and_drain(d) :
          r \in IF c.ok THEN crystalhd_l0s_session_stop(c.d) ELSE {c}
    BY <1>2 DEF crystalhd_session_l0s_end, Then
  <2>2. LinkOnly(d, c.d) /\ c.d.l0s = d.l0s /\ (c.d.master => d.master) /\ c.d \in Adapter
    BY <2>1, ClearMaster DEF LinkOnly
  <2>3. CASE c.ok
    BY <2>1, <2>2, <2>3, L0sStop, LinkCompose
  <2>4. CASE ~c.ok
    BY <2>1, <2>2, <2>4
  <2> QED
    BY <2>3, <2>4
<1> QED
  BY <1>1, <1>2

LEMMA L0sBegin ==
  ASSUME NEW d \in Adapter, NEW r \in crystalhd_session_l0s_begin(d)
  PROVE  LinkOnly(d, r.d) /\ (~SessionGuard => r.d = d)
<1>1. CASE ~SessionGuard
  BY <1>1, SameRefl DEF crystalhd_session_l0s_begin, Ok, Same
<1>2. CASE SessionGuard
  <2>1. PICK a \in chd_dec_clear_master_and_drain(d) :
          \/ r = a
          \/ \E b \in crystalhd_l0s_session_start(a.d) :
              \/ r = b
              \/ \E c \in chd_dec_set_master_checked(b.d) :
                  \/ r = c
                  \/ \E y \in chd_dec_clear_master_and_drain(c.d) :
                      \/ r = Bad(y.d)
                      \/ \E x \in crystalhd_l0s_session_stop(y.d) : r = Bad(x.d)
    BY <1>2 DEF crystalhd_session_l0s_begin, Then, OnError
  <2>2. LinkOnly(d, a.d)
    BY ClearMaster
  <2> QED
    BY <1>2, <2>1, <2>2, ClearMaster, L0sStart, SetMaster, L0sStop, LinkCompose DEF Bad, LinkOnly
<1> QED
  BY <1>1, <1>2

\* A successful stop leaves no engine busy; a failed one may lose the device.
LEMMA EnginesStop ==
  ASSUME NEW d \in Adapter, NEW r \in StopEngines(d)
  PROVE  /\ EnginesOnly(d, r.d)
         /\ r.ok => ~r.d.busy /\ r.d.present = d.present
<1> DEFINE off == [d EXCEPT !.busy = FALSE]
           p == crystalhd_hw_publish_fault(d)
<1>1. EnginesOnly(d, off) /\ ~off.busy /\ off.present = d.present
  BY DEF EnginesOnly, SameFrame, SameSession, Kept, Adapter
<1>2. EnginesOnly(d, p)
  <2>1. p \in Adapter
    BY DEF Adapter, crystalhd_hw_publish_fault
  <2> QED
    BY <2>1 DEF EnginesOnly, SameFrame, SameSession, Kept, Adapter, crystalhd_hw_publish_fault
<1>3. r \in MayFail(off, MasterMaybeOff(p))
  BY DEF StopEngines, crystalhd_hw_dma_fatal_stop
<1>4. off \in Adapter /\ p \in Adapter
  BY <1>1, <1>2 DEF EnginesOnly
<1> HIDE DEF off, p
<1>5. CASE r.ok
  BY <1>1, <1>3, <1>4, <1>5, MayFailOutcome, MasterTypes
<1>6. CASE ~r.ok
  <2>1. PICK b \in MasterMaybeOff(p) : Same(b, r.d)
    BY <1>3, <1>4, <1>6, MayFailOutcome, MasterTypes
  <2>2. LinkOnly(p, b) /\ b.l0s = p.l0s /\ (b.master => p.master)
    BY <1>4, MasterTypes
  <2>3. EnginesOnly(d, r.d)
    BY <1>2, <2>1, <2>2 DEF Same, LinkOnly, EnginesOnly, SameFrame, SameSession, Kept
  <2> QED
    BY <1>6, <2>3
<1> QED
  BY <1>5, <1>6

LEMMA EnginesCompose ==
  ASSUME NEW d, NEW e, NEW f, EnginesOnly(d, e), EnginesOnly(e, f)
  PROVE  EnginesOnly(d, f)
  BY DEF EnginesOnly, SameFrame, SameSession, Kept

LEMMA EnginesRefl ==
  ASSUME NEW d \in Adapter PROVE EnginesOnly(d, d)
  BY DEF EnginesOnly, SameFrame, SameSession, Kept

\* crystalhd_hw_close does no more to the engines than a stop.
LEMMA HwClose ==
  ASSUME NEW d \in Adapter, NEW r \in crystalhd_hw_close(d)
  PROVE  /\ EnginesOnly(d, r.d)
         /\ r.ok => ~r.d.busy /\ r.d.present = d.present
<1>1. CASE d.fault
  BY <1>1, EnginesRefl DEF crystalhd_hw_close, Bad
<1>2. CASE ~d.fault
  BY <1>2, EnginesStop DEF crystalhd_hw_close
<1> QED
  BY <1>1, <1>2

\* The link may be touched while there is a context, the engines always.
LEMMA LinkKeeps ==
  ASSUME NEW d \in Adapter, NEW e, DevOK(d), LinkOnly(d, e),
         e.master => d.master \/ (d.hw /\ ~d.quiesced),
         e.l0s => d.l0s \/ (SessionGuard /\ d.pinned)
  PROVE  Sound(d, e)
  BY DEF DevOK, LinkOnly, SameFrame, SameSession, Kept, Sound

\* What stops engines keeps the adapter sound.
LEMMA EnginesKeep ==
  ASSUME NEW d \in Adapter, NEW e, DevOK(d), EnginesOnly(d, e)
  PROVE  Sound(d, e)
  BY DEF DevOK, EnginesOnly, SameFrame, SameSession, Kept, Sound

LEMMA SoundCompose ==
  ASSUME NEW d, NEW e, NEW f, Sound(d, e), Sound(e, f)
  PROVE  Sound(d, f)
  BY DEF Sound, SameFrame

LEMMA SoundRefl ==
  ASSUME NEW d \in Adapter, DevOK(d) PROVE Sound(d, d)
  BY DEF Sound, SameFrame

\* A context is opened on a device that is present.
LEMMA HwOpen ==
  ASSUME NEW d \in Adapter, DevOK(d), d.present, NEW r \in crystalhd_hw_open(d)
  PROVE  /\ Sound(d, r.d) /\ Kept(d, r.d) /\ r.ok \in BOOLEAN
         /\ r.d.present /\ r.d.rings = d.rings /\ r.d.l0s = d.l0s
         /\ r.d.state = d.state
         /\ r.ok => r.d.hw
<1> DEFINE on == [d EXCEPT !.hw = TRUE, !.fault = FALSE,
                           !.busy = FALSE, !.master = TRUE]
<1>1. on \in Adapter
  BY DEF Adapter
<1>2. /\ SameFrame(d, on) /\ Kept(d, on) /\ on.present /\ on.rings = d.rings
      /\ on.l0s = d.l0s /\ on.state = d.state /\ on.hw /\ ~on.busy
  BY DEF Adapter, SameFrame, Kept
<1>3. DevOK(on)
  BY <1>2 DEF DevOK, SameFrame, Kept
<1>4. r \in MayFail(on, {d})
  BY DEF crystalhd_hw_open
<1> HIDE DEF on
<1>5. CASE r.ok
  BY <1>1, <1>2, <1>3, <1>4, <1>5, MayFailOutcome DEF Sound
<1>6. CASE ~r.ok
  <2>1. Same(d, r.d) /\ r.ok \in BOOLEAN
    BY <1>1, <1>4, <1>6, MayFailOutcome
  <2> QED
    BY <1>6, <2>1, LinkKeeps DEF Same, LinkOnly, SameSession
<1> QED
  BY <1>5, <1>6

\* The context exists afterwards, or nothing changed.
LEMMA EnsureHw ==
  ASSUME NEW d \in Adapter, DevOK(d), d.present,
         NEW r \in crystalhd_ensure_hw_context(d)
  PROVE  /\ Sound(d, r.d) /\ Kept(d, r.d) /\ r.ok \in BOOLEAN
         /\ r.d.present /\ r.d.rings = d.rings /\ r.d.l0s = d.l0s
         /\ r.d.state = d.state
         /\ r.ok => r.d.hw
<1>1. CASE d.hw
  <2>1. r.d = d /\ r.ok = TRUE
    BY <1>1 DEF crystalhd_ensure_hw_context, Ok
  <2> QED
    BY <1>1, <2>1, SoundRefl DEF Kept
<1>2. CASE ~d.hw
  BY <1>2, HwOpen DEF crystalhd_ensure_hw_context
<1> QED
  BY <1>1, <1>2

\* Rings need the pin and the context.
LEMMA SessionSetup ==
  ASSUME NEW d \in Adapter, DevOK(d), d.hw,
         NEW r \in crystalhd_session_setup(d)
  PROVE  /\ Sound(d, r.d) /\ Kept(d, r.d) /\ r.ok \in BOOLEAN
         /\ r.d.present = d.present /\ r.d.hw = d.hw /\ r.d.l0s = d.l0s
         /\ r.ok => r.d.rings
         /\ ~r.ok => r.d.rings = d.rings
<1> DEFINE on == [d EXCEPT !.rings = TRUE]
<1>1. CASE ~d.pinned
  <2>1. r.d = d /\ r.ok = FALSE
    BY <1>1 DEF crystalhd_session_setup, Bad
  <2> QED
    BY <1>1, <2>1, SoundRefl DEF Kept
<1>2. CASE d.pinned
  <2>1. on \in Adapter
    BY DEF Adapter
  <2>2. /\ SameFrame(d, on) /\ Kept(d, on) /\ on.present = d.present
        /\ on.hw = d.hw /\ on.l0s = d.l0s /\ on.rings
        /\ on.busy = d.busy /\ on.master = d.master
    BY DEF Adapter, SameFrame, Kept
  <2>3. DevOK(on)
    BY <1>2, <2>2 DEF DevOK, SameFrame, Kept
  <2>4. r \in MayFail(on, {d})
    BY <1>2 DEF crystalhd_session_setup
  <2> HIDE DEF on
  <2>5. CASE r.ok
    <3>1. r.d = on /\ r.ok \in BOOLEAN
      BY <2>1, <2>4, <2>5, MayFailOutcome
    <3> QED
      BY <2>1, <2>2, <2>3, <2>5, <3>1 DEF Sound
  <2>6. CASE ~r.ok
    <3>1. Same(d, r.d) /\ r.ok \in BOOLEAN
      BY <2>1, <2>4, <2>6, MayFailOutcome
    <3> QED
      BY <2>6, <3>1, LinkKeeps DEF Same, LinkOnly, SameSession
  <2> QED
    BY <2>5, <2>6
<1> QED
  BY <1>1, <1>2

\* Rings are freed with stopped engines.
LEMMA RetireContext ==
  ASSUME NEW d \in Adapter, DevOK(d), NEW session \in BOOLEAN,
         session \/ ~d.rings,
         NEW r \in crystalhd_retire_hw_context(d, session)
  PROVE  /\ Sound(d, r.d) /\ Kept(d, r.d) /\ r.d.l0s = d.l0s
         /\ r.ok => ~r.d.rings /\ r.d.present = d.present
<1>1. CASE ~d.hw
  <2>1. r.d = d
    BY <1>1 DEF crystalhd_retire_hw_context, Ok, Then
  <2> QED
    BY <1>1, <2>1, SoundRefl DEF Kept, DevOK
<1>2. CASE d.hw /\ d.fault
  <2>1. r.d = d /\ r.ok = FALSE
    BY <1>2 DEF crystalhd_retire_hw_context, Bad, Then
  <2> QED
    BY <1>2, <2>1, SoundRefl DEF Kept
<1>3. CASE d.hw /\ ~d.fault
  <2>1. PICK e \in Adapter :
          /\ EnginesOnly(d, e)
          /\ \/ r.d = e /\ ~r.ok
             \/ /\ ~e.busy /\ e.present = d.present
                /\ r = Ok(FreeContext(e, session))
    <3>1. PICK q :
            /\ \E a \in IF session THEN StopEngines(d) ELSE {Ok(d)} :
                  q \in IF a.ok THEN crystalhd_hw_close(a.d) ELSE {a}
            /\ r \in IF q.ok
                     THEN {Ok(FreeContext(q.d, session))}
                     ELSE {q}
      BY <1>3 DEF crystalhd_retire_hw_context, Then
    <3>2. PICK a \in IF session THEN StopEngines(d) ELSE {Ok(d)} :
            q \in IF a.ok THEN crystalhd_hw_close(a.d) ELSE {a}
      BY <3>1
    <3>3. EnginesOnly(d, a.d) /\ (a.ok => a.d.present = d.present) /\ a.d \in Adapter
      <4>1. CASE session
        BY <3>2, <4>1, EnginesStop DEF EnginesOnly
      <4>2. CASE ~session
        BY <3>2, <4>2, EnginesRefl DEF Ok
      <4> QED
        BY <4>1, <4>2
    <3>4. /\ EnginesOnly(d, q.d) /\ q.d \in Adapter
          /\ q.ok => ~q.d.busy /\ q.d.present = d.present
      BY <3>2, <3>3, HwClose, EnginesCompose DEF EnginesOnly
    <3> QED
      BY <3>1, <3>4
  <2>2. CASE r.d = e /\ ~r.ok
    BY <2>1, <2>2, EnginesKeep DEF EnginesOnly, SameSession
  <2>3. CASE ~(r.d = e /\ ~r.ok)
    <3> DEFINE g == FreeContext(e, session)
    <3>2. g \in Adapter
      <4>1. ASSUME NEW v \in BOOLEAN
            PROVE  [e EXCEPT !.hw = FALSE, !.fault = FALSE, !.state = {},
                             !.rings = v] \in Adapter
        BY DEF Adapter
      <4> QED
        BY <4>1 DEF FreeContext
    <3>3. /\ SameFrame(e, g) /\ Kept(e, g) /\ g.l0s = e.l0s /\ g.present = e.present
          /\ g.busy = e.busy /\ ~g.hw /\ g.master = e.master
          /\ g.rings = (e.rings /\ ~session)
      BY DEF FreeContext, Adapter, SameFrame, Kept
    <3>4. r = Ok(g) /\ ~e.busy /\ e.present = d.present
      BY <2>1, <2>3
    <3> HIDE DEF g
    <3>5. ~g.rings
      BY <2>1, <3>3 DEF EnginesOnly, SameSession
    <3>6. DevOK(e)
      BY <2>1, EnginesKeep DEF Sound
    <3>7. DevOK(g)
      BY <3>3, <3>4, <3>5, <3>6 DEF DevOK, SameFrame, Kept
    <3> QED
      BY <2>1, <3>2, <3>3, <3>4, <3>5, <3>7
         DEF Ok, Sound, EnginesOnly, SameFrame, SameSession, Kept
  <2> QED
    BY <2>2, <2>3
<1> QED
  BY <1>1, <1>2, <1>3

\* The pin is dropped once nothing of the session is left.
LEMMA Unpin ==
  ASSUME NEW d \in Adapter, DevOK(d), d.owner = NONE, ~d.rings, ~d.quar,
         d.l0s => ~d.present, d.put = NONE
  PROVE  LET e == crystalhd_session_unpin(d) IN
         /\ Sound(d, e) /\ Dropped(d, e) /\ e.present = d.present
         /\ e.rings = d.rings /\ e.hw = d.hw /\ e.l0s = d.l0s
<1>1. CASE ~d.pinned
  BY <1>1, SoundRefl DEF crystalhd_session_unpin, Dropped, DevOK
<1>2. CASE d.pinned
  <2> DEFINE e == [d EXCEPT !.put = d.life, !.life = NONE, !.pinned = FALSE]
  <2>1. e \in Adapter
    BY DEF Adapter
  <2>2. /\ SameFrame(d, e) /\ Dropped(d, e) /\ e.present = d.present
        /\ e.rings = d.rings /\ e.hw = d.hw /\ e.l0s = d.l0s
        /\ e.busy = d.busy /\ e.master = d.master
    BY DEF Adapter, SameFrame, Dropped
  <2>3. DevOK(e)
    BY <2>2 DEF DevOK, SameFrame, Dropped
  <2>4. crystalhd_session_unpin(d) = e
    BY <1>2 DEF crystalhd_session_unpin
  <2> HIDE DEF e
  <2> QED
    BY <2>1, <2>2, <2>3, <2>4 DEF Sound
<1> QED
  BY <1>1, <1>2

\* A session that was never published is dropped whole, or kept whole.
LEMMA RetireUnpublished ==
  ASSUME NEW d \in Adapter, DevOK(d), ~d.quar, d.put = NONE,
         NEW r \in crystalhd_session_retire_unpublished(d)
  PROVE  /\ Sound(d, r.d)
         /\ Kept(d, r.d) \/ (d.owner = NONE /\ Dropped(d, r.d))
<1>1. CASE d.owner # NONE \/ ~d.pinned
  <2>1. r.d = d
    BY <1>1 DEF crystalhd_session_retire_unpublished, Bad, Then
  <2> QED
    BY <2>1, SoundRefl DEF Kept
<1>2. CASE ~(d.owner # NONE \/ ~d.pinned)
  <2>1. PICK a \in crystalhd_session_l0s_end(d) :
          \/ ~a.ok /\ r = a
          \/ /\ a.ok
             /\ \E c \in crystalhd_retire_hw_context(a.d, TRUE) :
                 \/ r = c
                 \/ c.ok /\ r = Ok(crystalhd_session_unpin(c.d))
    BY <1>2 DEF crystalhd_session_retire_unpublished, Then, RetireSession, Unpinned
  <2>2. /\ LinkOnly(d, a.d) /\ Sound(d, a.d) /\ (a.ok => ~a.d.l0s)
        /\ Kept(d, a.d)
    <3>1. /\ LinkOnly(d, a.d)
          /\ a.d.master => d.master
          /\ a.d.l0s => d.l0s
          /\ a.ok /\ SessionGuard => ~a.d.l0s
      BY L0sEnd
    <3>2. Sound(d, a.d)
      BY <3>1, LinkKeeps
    <3> QED
      BY <3>1, <3>2 DEF Sound, DevOK, LinkOnly, SameSession
  <2>3. CASE ~a.ok
    BY <2>1, <2>2, <2>3
  <2>4. CASE a.ok
    <3>1. PICK c \in crystalhd_retire_hw_context(a.d, TRUE) :
                 \/ r = c
                 \/ c.ok /\ r = Ok(crystalhd_session_unpin(c.d))
      BY <2>1, <2>4
    <3>2. /\ Sound(a.d, c.d) /\ Kept(a.d, c.d) /\ c.d.l0s = a.d.l0s
          /\ c.ok => ~c.d.rings
      BY <2>2, RetireContext DEF Sound
    <3>3. Sound(d, c.d) /\ Kept(d, c.d)
      BY <2>2, <3>2, SoundCompose DEF Kept
    <3>4. CASE r = c
      BY <3>3, <3>4
    <3>5. CASE c.ok /\ r = Ok(crystalhd_session_unpin(c.d))
      <4> DEFINE e == crystalhd_session_unpin(c.d)
      <4>1. Sound(c.d, e) /\ Dropped(c.d, e)
        <5>1. c.d \in Adapter /\ DevOK(c.d) /\ ~c.d.quar
          BY <3>3 DEF Sound, SameFrame
        <5>2. c.d.owner = NONE /\ c.d.put = NONE
          BY <1>2, <3>3 DEF Kept
        <5>3. ~c.d.rings /\ ~c.d.l0s
          BY <2>1, <2>2, <2>4, <3>2, <3>5
        <5> QED
          BY <5>1, <5>2, <5>3, Unpin
      <4>2. r.d = e
        BY <3>5 DEF Ok
      <4> HIDE DEF e
      <4> QED
        BY <1>2, <3>3, <4>1, <4>2, SoundCompose DEF Kept, Dropped
    <3> QED
      BY <3>1, <3>4, <3>5
  <2> QED
    BY <2>3, <2>4
<1> QED
  BY <1>1, <1>2

\* A new pin, not published yet.
Pinning(d, e) ==
    /\ Sound(d, e) /\ e.pinned
    /\ e.owner = NONE /\ e.life = NONE /\ e.put = NONE
Unpinning(d, e) ==
    /\ Sound(d, e) /\ ~e.pinned
    /\ e.owner = NONE /\ e.life = NONE /\ e.put = NONE

\* The pin of a failed attempt goes back.
LEMMA PinDropped ==
  ASSUME NEW d, NEW e, ~d.quar, Pinning(d, e), ~e.rings, ~e.l0s
  PROVE  Unpinning(d, crystalhd_session_unpin(e))
<1>1. /\ e \in Adapter /\ DevOK(e) /\ e.owner = NONE /\ ~e.quar /\ e.put = NONE
  BY DEF Pinning, Sound, SameFrame
<1> DEFINE g == crystalhd_session_unpin(e)
<1>2. Sound(e, g) /\ Dropped(e, g)
  BY <1>1, Unpin
<1> HIDE DEF g
<1>3. Sound(d, g)
  BY <1>2, SoundCompose DEF Pinning
<1>4. g.owner = NONE /\ g.life = NONE /\ g.put = NONE /\ ~g.pinned
  BY <1>2 DEF Pinning, Dropped
<1> QED
  BY <1>3, <1>4 DEF Unpinning, g

\* The stages of an acquisition: each ends with the new pin, or without it.
LEMMA EnsureStage ==
  ASSUME NEW d \in Adapter, DevOK(d), d.present, ~d.quar, ~d.rings, ~d.l0s, d.put = NONE,
         d.owner = NONE, d.life = NONE, d.pinned, NEW q \in EnsureOrUnpin(d)
  PROVE  /\ q.ok \in BOOLEAN
         /\ q.ok => Pinning(d, q.d) /\ ~q.d.rings /\ ~q.d.l0s /\ q.d.hw /\ q.d.present
         /\ ~q.ok => Unpinning(d, q.d)
<1>1. PICK a \in crystalhd_ensure_hw_context(d) :
        q \in IF a.ok THEN {a} ELSE {Bad(x.d) : x \in Unpinned(a.d)}
  BY DEF EnsureOrUnpin, OnError
<1>2. /\ Sound(d, a.d) /\ Kept(d, a.d) /\ a.ok \in BOOLEAN
      /\ a.d.present /\ ~a.d.rings /\ ~a.d.l0s
      /\ a.ok => a.d.hw
  BY EnsureHw
<1>3. Pinning(d, a.d)
  BY <1>2 DEF Pinning, Kept
<1>4. Unpinning(d, crystalhd_session_unpin(a.d))
  BY <1>2, <1>3, PinDropped
<1>5. CASE a.ok
  BY <1>1, <1>2, <1>3, <1>5
<1>6. CASE ~a.ok
  <2>1. q = Bad(crystalhd_session_unpin(a.d))
    BY <1>1, <1>6 DEF Unpinned, Ok
  <2>2. q.d = crystalhd_session_unpin(a.d) /\ q.ok = FALSE
    BY <2>1 DEF Bad
  <2> QED
    BY <1>4, <2>2
<1> QED
  BY <1>5, <1>6

LEMMA SetupStage ==
  ASSUME NEW d, NEW e, ~d.quar, Pinning(d, e), ~e.rings, ~e.l0s, e.hw,
         NEW had \in BOOLEAN, NEW q \in SetupOrUnwind(e, had)
  PROVE  /\ q.ok \in BOOLEAN
         /\ q.ok => Pinning(d, q.d) /\ q.d.rings /\ ~q.d.l0s /\ q.d.hw
         /\ ~q.ok => Pinning(d, q.d) \/ Unpinning(d, q.d)
<1>1. PICK s \in crystalhd_session_setup(e) :
        IF s.ok THEN q = s
        ELSE \/ \E x \in Unpinned(s.d) : q = Bad(x.d)
             \/ \E c \in crystalhd_retire_hw_context(s.d, FALSE) :
                   \/ q = Bad(c.d)
                   \/ c.ok /\ \E x \in Unpinned(c.d) : q = Bad(x.d)
  <2>1. CASE had
    BY <2>1 DEF SetupOrUnwind, OnError, Then
  <2>2. CASE ~had
    <3>1. PICK s \in crystalhd_session_setup(e) :
            q \in IF s.ok THEN {s}
                  ELSE {Bad(x.d) : x \in
                          UNION {IF c.ok THEN Unpinned(c.d) ELSE {c} :
                                    c \in crystalhd_retire_hw_context(s.d, FALSE)}}
      BY <2>2 DEF SetupOrUnwind, OnError, Then
    <3> QED
      BY <3>1
  <2> QED
    BY <2>1, <2>2
<1>2. /\ Sound(e, s.d) /\ Kept(e, s.d) /\ s.d.hw /\ ~s.d.l0s
      /\ s.ok \in BOOLEAN
      /\ s.ok => s.d.rings
      /\ ~s.ok => ~s.d.rings
  <2>1. e \in Adapter /\ DevOK(e)
    BY DEF Pinning, Sound
  <2> QED
    BY <2>1, SessionSetup
<1>3. Pinning(d, s.d)
  BY <1>2, SoundCompose DEF Pinning, Kept
<1>4. CASE s.ok
  BY <1>1, <1>2, <1>3, <1>4
<1> DEFINE Goal == q.ok = FALSE /\ (Pinning(d, q.d) \/ Unpinning(d, q.d))
<1>5. ASSUME NEW x \in Unpinned(s.d), q = Bad(x.d), ~s.ok PROVE Goal
  <2>1. q.d = crystalhd_session_unpin(s.d) /\ q.ok = FALSE
    BY <1>5 DEF Bad, Unpinned, Ok
  <2> QED
    BY <1>2, <1>3, <1>5, <2>1, PinDropped
<1>6. ASSUME NEW c \in crystalhd_retire_hw_context(s.d, FALSE), ~s.ok,
             \/ q = Bad(c.d)
             \/ c.ok /\ \E x \in Unpinned(c.d) : q = Bad(x.d)
      PROVE  Goal
  <2>1. /\ Sound(s.d, c.d) /\ Kept(s.d, c.d) /\ ~c.d.l0s
        /\ c.ok => ~c.d.rings
    BY <1>2, <1>6, RetireContext DEF Sound
  <2>2. Pinning(d, c.d)
    BY <1>3, <2>1, SoundCompose DEF Pinning, Kept
  <2>3. CASE q = Bad(c.d)
    BY <2>2, <2>3 DEF Bad
  <2>4. CASE c.ok /\ \E x \in Unpinned(c.d) : q = Bad(x.d)
    <3>1. q.d = crystalhd_session_unpin(c.d) /\ q.ok = FALSE
      BY <2>4 DEF Bad, Unpinned, Ok
    <3> QED
      BY <2>1, <2>2, <2>4, <3>1, PinDropped
  <2> QED
    BY <1>6, <2>3, <2>4
<1> HIDE DEF Goal
<1>7. CASE ~s.ok
  <2>1. Goal
    BY <1>1, <1>5, <1>6, <1>7
  <2> QED
    BY <2>1 DEF Goal
<1> QED
  BY <1>4, <1>7

LEMMA GuardStage ==
  ASSUME NEW d, NEW e, ~d.quar, Pinning(d, e), e.rings, e.hw, ~e.quiesced,
         NEW q \in GuardOrRetire(e)
  PROVE  /\ q.ok => Pinning(d, q.d) /\ q.d.rings
         /\ ~q.ok => Pinning(d, q.d) \/ Unpinning(d, q.d)
<1>1. PICK s \in crystalhd_session_l0s_begin(e) :
        \/ s.ok /\ q = s
        \/ ~s.ok /\ \E x \in crystalhd_session_retire_unpublished(s.d) : q = Bad(x.d)
  BY DEF GuardOrRetire, OnError
<1>2. LinkOnly(e, s.d) /\ Sound(e, s.d)
  BY L0sBegin, LinkKeeps DEF Pinning, Sound, DevOK
<1>3. Pinning(d, s.d) /\ s.d.rings
  BY <1>2, SoundCompose DEF Pinning, LinkOnly, SameSession, Kept
<1>4. CASE s.ok /\ q = s
  BY <1>3, <1>4
<1>5. ASSUME NEW x \in crystalhd_session_retire_unpublished(s.d), q = Bad(x.d)
      PROVE  ~q.ok /\ (Pinning(d, q.d) \/ Unpinning(d, q.d))
  <2>1. s.d \in Adapter /\ DevOK(s.d) /\ ~s.d.quar /\ s.d.put = NONE
    BY <1>3 DEF Pinning, Sound, SameFrame
  <2>2. Sound(s.d, x.d) /\ (Kept(s.d, x.d) \/ (s.d.owner = NONE /\ Dropped(s.d, x.d)))
    BY <2>1, RetireUnpublished
  <2>3. q.d = x.d /\ ~q.ok
    BY <1>5 DEF Bad
  <2>4. Sound(d, x.d)
    BY <1>3, <2>2, SoundCompose DEF Pinning
  <2>5. CASE Kept(s.d, x.d)
    BY <1>3, <2>3, <2>4, <2>5 DEF Pinning, Kept
  <2>6. CASE Dropped(s.d, x.d)
    BY <1>3, <2>3, <2>4, <2>6 DEF Pinning, Unpinning, Dropped
  <2> QED
    BY <2>2, <2>5, <2>6
<1> QED
  BY <1>1, <1>4, <1>5

\* The attempt changes nothing, or ends with or without the pin it took.
LEMMA Acquire ==
  ASSUME NEW d \in Adapter, DevOK(d), d.present, d.put = NONE, NEW o \in Slots \cup Leases,
         NEW r \in crystalhd_session_acquire_locked(d, o)
  PROVE  \/ r.d = d /\ ~r.ok
         \/ /\ d.owner = NONE /\ ~d.pinned /\ d.life = NONE /\ mod = "live"
            /\ Sound(d, r.d) /\ r.d.life = NONE /\ r.d.put = NONE
            /\ r.d.owner \in {NONE, o}
<1>1. CASE d.owner # NONE \/ d.state # {} \/ d.pinned \/ d.life # NONE \/ mod # "live"
  BY <1>1 DEF crystalhd_session_acquire_locked, Bad, Then
<1>2. CASE ~(d.owner # NONE \/ d.state # {} \/ d.pinned \/ d.life # NONE \/ mod # "live")
  <2> DEFINE p == [d EXCEPT !.pinned = TRUE]
  <2>0. \E a \in EnsureOrUnpin(p) :
         \E s \in IF a.ok THEN SetupOrUnwind(a.d, d.hw) ELSE {a} :
         \E q \in IF s.ok THEN GuardOrRetire(s.d) ELSE {s} :
            r \in IF q.ok THEN {Ok([q.d EXCEPT !.owner = o])} ELSE {q}
    <3>1. PICK q \in UNION {IF s.ok THEN GuardOrRetire(s.d) ELSE {s} : s \in
                       UNION {IF a.ok THEN SetupOrUnwind(a.d, d.hw) ELSE {a} :
                                a \in EnsureOrUnpin(p)}} :
            r \in IF q.ok THEN {Ok([q.d EXCEPT !.owner = o])} ELSE {q}
      BY <1>2 DEF crystalhd_session_acquire_locked, Then
    <3> HIDE DEF p
    <3>2. PICK s \in UNION {IF a.ok THEN SetupOrUnwind(a.d, d.hw) ELSE {a} :
                              a \in EnsureOrUnpin(p)} :
            q \in IF s.ok THEN GuardOrRetire(s.d) ELSE {s}
      BY <3>1
    <3>3. PICK a \in EnsureOrUnpin(p) :
            s \in IF a.ok THEN SetupOrUnwind(a.d, d.hw) ELSE {a}
      BY <3>2
    <3> QED
      BY <3>1, <3>2, <3>3
  <2>6. PICK a \in EnsureOrUnpin(p) :
         \E s \in IF a.ok THEN SetupOrUnwind(a.d, d.hw) ELSE {a} :
         \E q \in IF s.ok THEN GuardOrRetire(s.d) ELSE {s} :
            r \in IF q.ok THEN {Ok([q.d EXCEPT !.owner = o])} ELSE {q}
    BY <2>0
  <2>66. PICK s \in IF a.ok THEN SetupOrUnwind(a.d, d.hw) ELSE {a} :
         \E q \in IF s.ok THEN GuardOrRetire(s.d) ELSE {s} :
            r \in IF q.ok THEN {Ok([q.d EXCEPT !.owner = o])} ELSE {q}
    BY <2>6
  <2>1. PICK q \in IF s.ok THEN GuardOrRetire(s.d) ELSE {s} :
            r \in IF q.ok THEN {Ok([q.d EXCEPT !.owner = o])} ELSE {q}
    BY <2>66
  <2>2. p \in Adapter
    BY DEF Adapter
  <2>3. /\ SameFrame(d, p) /\ p.present = d.present /\ p.rings = d.rings
        /\ p.l0s = d.l0s /\ p.owner = NONE /\ p.life = NONE /\ p.put = NONE
        /\ p.pinned /\ p.hw = d.hw /\ p.busy = d.busy /\ p.master = d.master
    BY <1>2 DEF Adapter, SameFrame
  <2> HIDE DEF p
  <2>4. ~d.quar /\ ~d.rings /\ ~d.l0s /\ ~d.quiesced /\ d.hw \in BOOLEAN
    BY <1>2 DEF DevOK, Adapter
  <2>5. DevOK(p)
    BY <1>2, <2>3, <2>4 DEF DevOK, SameFrame
  <2>7. /\ a.ok \in BOOLEAN
        /\ a.ok => Pinning(p, a.d) /\ ~a.d.rings /\ ~a.d.l0s /\ a.d.hw
        /\ ~a.ok => Unpinning(p, a.d)
    BY <2>2, <2>3, <2>4, <2>5, EnsureStage DEF SameFrame
  <2>8. ~p.quar /\ ~p.quiesced
    BY <2>3, <2>4 DEF SameFrame
  <2>9. /\ s.ok => Pinning(p, s.d) /\ s.d.rings /\ s.d.hw
        /\ ~s.ok => Pinning(p, s.d) \/ Unpinning(p, s.d)
    BY <2>4, <2>6, <2>7, <2>8, SetupStage
  <2>10. /\ q.ok => Pinning(p, q.d) /\ q.d.rings
         /\ ~q.ok => Pinning(p, q.d) \/ Unpinning(p, q.d)
    BY <2>6, <2>8, <2>9, GuardStage DEF Pinning, Sound, SameFrame
  <2>11. ASSUME NEW e, Sound(p, e) PROVE Sound(d, e)
    BY <2>3, <2>11 DEF Sound, SameFrame
  <2>12. CASE ~q.ok
    BY <1>2, <2>1, <2>10, <2>11, <2>12 DEF Pinning, Unpinning
  <2>13. CASE q.ok
    <3> DEFINE g == [q.d EXCEPT !.owner = o]
    <3>1. q.d \in Adapter /\ DevOK(q.d) /\ Sound(d, q.d) /\ q.d.pinned
          /\ q.d.life = NONE /\ q.d.put = NONE
      BY <2>10, <2>11, <2>13 DEF Pinning, Sound
    <3>2. g \in Adapter
      BY <3>1 DEF Adapter
    <3>3. /\ SameFrame(q.d, g) /\ g.present = q.d.present /\ g.rings = q.d.rings
          /\ g.l0s = q.d.l0s /\ g.owner = o /\ g.life = NONE /\ g.put = NONE
          /\ g.pinned = q.d.pinned /\ g.hw = q.d.hw /\ g.busy = q.d.busy /\ g.master = q.d.master
      BY <3>1 DEF Adapter, SameFrame
    <3>4. r.d = g
      BY <2>1, <2>13 DEF Ok
    <3> HIDE DEF g
    <3>5. DevOK(g)
      BY <3>1, <3>3 DEF DevOK, SameFrame
    <3>6. Sound(d, g)
      BY <3>1, <3>2, <3>3, <3>5 DEF Sound, SameFrame
    <3> QED
      BY <1>2, <3>3, <3>4, <3>6
  <2> QED
    BY <2>12, <2>13
<1> QED
  BY <1>1, <1>2

\* A lease that ends with the pin is its lifetime owner.
LEMMA AcquireRef ==
  ASSUME NEW d \in Adapter, DevOK(d), d.present, d.put = NONE, NEW l \in Leases,
         NEW r \in crystalhd_session_acquire_ref_locked(d, l)
  PROVE  \/ r.d = d
         \/ /\ d.owner = NONE /\ ~d.pinned /\ d.life = NONE /\ mod = "live"
            /\ Sound(d, r.d) /\ r.d.put = NONE
            /\ \/ r.d.pinned /\ r.d.life = l /\ r.d.owner \in {NONE, l}
               \/ ~r.d.pinned /\ r.d.life = NONE /\ r.d.owner = NONE
<1>1. PICK q \in crystalhd_session_acquire_locked(d, l) :
        r = IF ~d.pinned /\ q.d.pinned THEN [d |-> [q.d EXCEPT !.life = l], ok |-> q.ok] ELSE q
  BY DEF crystalhd_session_acquire_ref_locked
<1>2. \/ q.d = d /\ ~q.ok
      \/ /\ d.owner = NONE /\ ~d.pinned /\ d.life = NONE /\ mod = "live"
         /\ Sound(d, q.d) /\ q.d.life = NONE /\ q.d.put = NONE
         /\ q.d.owner \in {NONE, l}
  BY Acquire
<1>3. CASE q.d = d /\ ~q.ok
  BY <1>1, <1>3
<1>4. CASE ~(q.d = d /\ ~q.ok)
  <2>1. /\ d.owner = NONE /\ ~d.pinned /\ d.life = NONE /\ mod = "live"
        /\ Sound(d, q.d) /\ q.d.life = NONE /\ q.d.put = NONE
        /\ q.d.owner \in {NONE, l}
    BY <1>2, <1>4
  <2>2. q.d \in Adapter /\ DevOK(q.d)
    BY <2>1 DEF Sound
  <2>3. CASE ~q.d.pinned
    BY <1>1, <2>1, <2>2, <2>3 DEF DevOK
  <2>4. CASE q.d.pinned
    <3> DEFINE g == [q.d EXCEPT !.life = l]
    <3>1. g \in Adapter
      BY <2>2 DEF Adapter
    <3>2. /\ SameFrame(q.d, g) /\ g.present = q.d.present /\ g.rings = q.d.rings
          /\ g.l0s = q.d.l0s /\ g.owner = q.d.owner /\ g.life = l /\ g.put = NONE
          /\ g.pinned = q.d.pinned /\ g.hw = q.d.hw /\ g.busy = q.d.busy
          /\ g.master = q.d.master
      BY <2>1, <2>2 DEF Adapter, SameFrame
    <3>3. r.d = g
      BY <1>1, <2>1, <2>4
    <3> HIDE DEF g
    <3>5. DevOK(g)
      BY <2>2, <2>4, <3>2 DEF DevOK, SameFrame
    <3>6. Sound(d, g)
      BY <2>1, <3>1, <3>2, <3>5 DEF Sound, SameFrame
    <3> QED
      BY <2>1, <2>4, <3>2, <3>3, <3>6
  <2> QED
    BY <2>3, <2>4
<1> QED
  BY <1>3, <1>4

\* A release drops the session whole, or keeps its owners and its pin.
LEMMA Release ==
  ASSUME NEW d \in Adapter, DevOK(d), ~d.quar, d.put = NONE, NEW o,
         NEW r \in crystalhd_session_release_locked(d, o)
  PROVE  /\ Sound(d, r.d)
         /\ Kept(d, r.d) \/ (Dropped(d, r.d) /\ o \in {d.owner, d.life})
<1>1. CASE d.owner = o
  <2>1. PICK c \in UNION {IF a.ok THEN crystalhd_session_l0s_end(a.d) ELSE {a} :
                             a \in crystalhd_retire_hw_context(d, TRUE)} :
          r \in IF c.ok THEN {Ok(crystalhd_session_unpin([c.d EXCEPT !.owner = NONE]))}
                ELSE {c}
    BY <1>1 DEF crystalhd_session_release_locked, RetireSession, Then
  <2>2. PICK a \in crystalhd_retire_hw_context(d, TRUE) :
          c \in IF a.ok THEN crystalhd_session_l0s_end(a.d) ELSE {a}
    BY <2>1
  <2>3. /\ Sound(d, a.d) /\ Kept(d, a.d)
        /\ a.ok => ~a.d.rings
    BY RetireContext
  <2>4. /\ Sound(d, c.d) /\ Kept(d, c.d)
        /\ c.ok => ~c.d.rings /\ ~c.d.l0s
    <3>1. CASE ~a.ok
      BY <2>2, <2>3, <3>1
    <3>2. CASE a.ok
      <4>1. a.d \in Adapter /\ DevOK(a.d)
        BY <2>3 DEF Sound
      <4>2. /\ LinkOnly(a.d, c.d)
            /\ c.d.master => a.d.master
            /\ c.d.l0s => a.d.l0s
            /\ c.ok /\ SessionGuard => ~c.d.l0s
        BY <2>2, <3>2, <4>1, L0sEnd
      <4>3. Sound(a.d, c.d)
        BY <4>1, <4>2, LinkKeeps
      <4>4. Sound(d, c.d)
        BY <2>3, <4>3, SoundCompose
      <4> QED
        BY <2>3, <3>2, <4>2, <4>3, <4>4 DEF LinkOnly, SameSession, Kept, Sound, DevOK
    <3> QED
      BY <3>1, <3>2
  <2>5. CASE ~c.ok
    BY <2>1, <2>4, <2>5
  <2>6. CASE c.ok
    <3> DEFINE g == [c.d EXCEPT !.owner = NONE]
               e == crystalhd_session_unpin(g)
    <3>1. c.d \in Adapter /\ DevOK(c.d)
      BY <2>4 DEF Sound
    <3>2. g \in Adapter
      BY <3>1 DEF Adapter
    <3>3. /\ SameFrame(c.d, g) /\ g.present = c.d.present /\ g.rings = c.d.rings
          /\ g.l0s = c.d.l0s /\ g.owner = NONE /\ g.life = c.d.life /\ g.put = c.d.put
          /\ g.pinned = c.d.pinned /\ g.hw = c.d.hw /\ g.busy = c.d.busy
          /\ g.master = c.d.master
      BY <3>1 DEF Adapter, SameFrame
    <3>4. r.d = e
      BY <2>1, <2>6 DEF Ok
    <3> HIDE DEF g
    <3>5. DevOK(g)
      BY <3>1, <3>3 DEF DevOK, SameFrame
    <3>6. Sound(d, g)
      BY <2>4, <3>2, <3>3, <3>5 DEF Sound, SameFrame
    <3>7. Sound(g, e) /\ Dropped(g, e)
      <4>1. ~g.quar
        BY <3>6 DEF Sound, SameFrame
      <4>2. ~g.rings /\ ~g.l0s /\ g.put = NONE
        BY <2>4, <2>6, <3>3 DEF Kept
      <4> QED
        BY <3>2, <3>3, <3>5, <4>1, <4>2, Unpin
    <3> HIDE DEF e
    <3>8. Sound(d, e)
      BY <3>6, <3>7, SoundCompose
    <3>9. Dropped(d, e)
      BY <2>4, <3>3, <3>7 DEF Dropped, Kept
    <3> QED
      BY <1>1, <3>4, <3>8, <3>9
  <2> QED
    BY <2>5, <2>6
<1>2. CASE d.owner # o /\ d.owner = NONE /\ d.life = o /\ d.pinned
  <2>1. r \in crystalhd_session_retire_unpublished(d)
    BY <1>2 DEF crystalhd_session_release_locked, Then
  <2> QED
    BY <1>2, <2>1, RetireUnpublished
<1>3. CASE d.owner # o /\ ~(d.owner = NONE /\ d.life = o /\ d.pinned)
  <2>1. r.d = d
    BY <1>3 DEF crystalhd_session_release_locked, Then, Bad
  <2> QED
    BY <2>1, SoundRefl DEF Kept
<1> QED
  BY <1>1, <1>2, <1>3

\* A firmware download changes the state flags only.
LEMMA Download ==
  ASSUME NEW d \in Adapter, DevOK(d), NEW o, NEW r \in crystalhd_fw_download_locked(d, o)
  PROVE  Sound(d, r.d) /\ Kept(d, r.d) /\ r.d.present = d.present
<1> DEFINE up == [d EXCEPT !.state = @ \cup {"INIT"}]
<1>1. up \in Adapter
  BY DEF Adapter
<1>3. /\ SameFrame(d, up) /\ Kept(d, up) /\ up.present = d.present
      /\ up.rings = d.rings /\ up.l0s = d.l0s /\ up.hw = d.hw
      /\ up.busy = d.busy /\ up.master = d.master
  BY DEF Adapter, SameFrame, Kept
<1>4. r = Bad(d) \/ r \in MayFail(up, {d})
  BY DEF crystalhd_fw_download_locked
<1> HIDE DEF up
<1>5. DevOK(up)
  BY <1>3 DEF DevOK, SameFrame, Kept
<1>6. CASE r = Bad(d)
  <2>1. r.d = d
    BY <1>6 DEF Bad
  <2> QED
    BY <2>1, SoundRefl DEF Kept
<1>7. CASE r \in MayFail(up, {d}) /\ r.ok
  <2>1. r.d = up
    BY <1>1, <1>7, MayFailOutcome
  <2> QED
    BY <1>1, <1>3, <1>5, <2>1 DEF Sound
<1>8. CASE r \in MayFail(up, {d}) /\ ~r.ok
  <2>1. Same(d, r.d)
    BY <1>1, <1>8, MayFailOutcome
  <2> QED
    BY <2>1, LinkKeeps DEF Same, LinkOnly, SameSession
<1> QED
  BY <1>4, <1>6, <1>7, <1>8

\* Setting the fields of the frame.
LEMMA PresentFalls ==
  ASSUME NEW d \in Adapter, DevOK(d)
  PROVE  LET e == [d EXCEPT !.present = FALSE] IN
         /\ e \in Adapter /\ DevOK(e) /\ SameFrame(d, e) /\ SameSession(d, e)
         /\ ~e.present
<1> DEFINE e == [d EXCEPT !.present = FALSE]
<1>1. EnginesOnly(d, e) /\ ~e.present
  <2>1. e \in Adapter
    BY DEF Adapter
  <2> QED
    BY <2>1 DEF EnginesOnly, SameFrame, SameSession, Kept, Adapter
<1> HIDE DEF e
<1>2. Sound(d, e)
  BY <1>1, EnginesKeep
<1> QED
  BY <1>1, <1>2 DEF Sound, EnginesOnly, e

\* cfg_users never underflows.
LEMMA UserDropped ==
  ASSUME NEW d \in Adapter, DevOK(d)
  PROVE  LET e == DropUser(d) IN
         /\ e \in Adapter /\ DevOK(e) /\ SameSession(d, e)
         /\ e.bound = d.bound /\ e.quar = d.quar /\ e.susp = d.susp
         /\ e.present = d.present /\ e.v4l2 = d.v4l2
         /\ e.users = IF d.users > 0 THEN d.users - 1 ELSE 0
<1> DEFINE n == IF d.users > 0 THEN d.users - 1 ELSE 0
           e == [d EXCEPT !.users = n]
<1>1. n \in 0 .. MaxOpens
  BY DEF Adapter
<1> HIDE DEF n
<1>2. e \in Adapter
  BY <1>1 DEF Adapter
<1>3. /\ SameSession(d, e) /\ e.users = n /\ e.bound = d.bound
      /\ e.quar = d.quar /\ e.susp = d.susp /\ e.present = d.present
      /\ e.v4l2 = d.v4l2 /\ e.cmdsAdp = d.cmdsAdp /\ e.quiesced = d.quiesced
      /\ e.l0s = d.l0s /\ e.busy = d.busy /\ e.master = d.master
  BY DEF SameSession, Kept, Adapter
<1>4. e = DropUser(d)
  BY DEF DropUser, n
<1> HIDE DEF e
<1>5. DevOK(e)
  BY <1>3 DEF DevOK, SameSession, Kept
<1> QED
  BY <1>2, <1>3, <1>4, <1>5 DEF n

\* The close of a user drops the session whole, or keeps it.
LEMMA UserClose ==
  ASSUME dev \in Adapter, DevOK(dev), ~dev.quar, dev.put = NONE, NEW s,
         NEW e \in crystalhd_user_close(s)
  PROVE  /\ e \in Adapter /\ DevOK(e)
         /\ Kept(dev, e) \/ Dropped(dev, e)
         /\ e.bound = dev.bound /\ e.quar = dev.quar /\ e.susp = dev.susp
         /\ e.present => dev.present
         /\ e.users = IF dev.users > 0 THEN dev.users - 1 ELSE 0
<1> DEFINE others == \E t \in Slots \ {s} : slot[t].used
<1>1. PICK r : /\ \/ r \in crystalhd_session_release_locked(dev, s)
                  \/ r = Ok(dev)
                  \/ r \in crystalhd_session_retire_unpublished(dev)
                  \/ r \in crystalhd_retire_hw_context(dev, TRUE)
               /\ e = DropUser(r.d)
  <2>1. PICK r \in
            IF dev.owner = s THEN crystalhd_session_release_locked(dev, s)
            ELSE IF dev.owner # NONE \/ others THEN {Ok(dev)}
            ELSE IF dev.pinned THEN crystalhd_session_retire_unpublished(dev)
            ELSE crystalhd_retire_hw_context(dev, TRUE) : e = DropUser(r.d)
    BY DEF crystalhd_user_close, RetireSession
  <2> HIDE DEF others
  <2> QED
    BY <2>1
<1>2. Sound(dev, r.d) /\ (Kept(dev, r.d) \/ Dropped(dev, r.d))
  <2>1. CASE r \in crystalhd_session_release_locked(dev, s)
    BY <2>1, Release
  <2>2. CASE r = Ok(dev)
    BY <2>2, SoundRefl DEF Ok, Kept
  <2>3. CASE r \in crystalhd_session_retire_unpublished(dev)
    BY <2>3, RetireUnpublished
  <2>4. CASE r \in crystalhd_retire_hw_context(dev, TRUE)
    BY <2>4, RetireContext
  <2> QED
    BY <1>1, <2>1, <2>2, <2>3, <2>4
<1>3. /\ e \in Adapter /\ DevOK(e) /\ SameSession(r.d, e)
      /\ e.bound = r.d.bound /\ e.quar = r.d.quar /\ e.susp = r.d.susp
      /\ e.present = r.d.present
      /\ e.users = IF r.d.users > 0 THEN r.d.users - 1 ELSE 0
  BY <1>1, <1>2, UserDropped DEF Sound
<1> QED
  BY <1>2, <1>3 DEF Sound, SameFrame, SameSession, Kept, Dropped

\* Suspend and resume of the decoder keep the session.
LEMMA Suspend ==
  ASSUME NEW d \in Adapter, DevOK(d), NEW r \in crystalhd_suspend(d)
  PROVE  /\ Sound(d, r.d) /\ Kept(d, r.d)
         /\ r.ok => r.d.present = d.present
<1>1. CASE d.state = {} \/ (d.hw /\ "SUSPEND" \in d.state)
  <2>1. r.d = d
    BY <1>1 DEF crystalhd_suspend, Ok, Then
  <2> QED
    BY <2>1, SoundRefl DEF Kept
<1>2. CASE ~(d.state = {} \/ (d.hw /\ "SUSPEND" \in d.state)) /\ (~d.hw \/ d.fault)
  <2>1. r.d = d
    BY <1>2 DEF crystalhd_suspend, Bad, Then
  <2> QED
    BY <2>1, SoundRefl DEF Kept
<1>3. CASE ~(d.state = {} \/ (d.hw /\ "SUSPEND" \in d.state)) /\ ~(~d.hw \/ d.fault)
  <2>1. PICK q \in UNION {IF a.ok THEN {Ok([a.d EXCEPT !.state = {"SUSPEND"}])} ELSE {a} :
                             a \in StopEngines(d)} :
          r \in IF q.ok THEN crystalhd_hw_close(q.d) ELSE {q}
    BY <1>3 DEF crystalhd_suspend, Then
  <2>2. PICK a \in StopEngines(d) :
          q \in IF a.ok THEN {Ok([a.d EXCEPT !.state = {"SUSPEND"}])} ELSE {a}
    BY <2>1
  <2>3. /\ Sound(d, a.d) /\ Kept(d, a.d)
        /\ a.ok => a.d.present = d.present
    BY EnginesStop, EnginesKeep DEF EnginesOnly, SameSession
  <2>4. /\ Sound(d, q.d) /\ Kept(d, q.d)
        /\ q.ok => q.d.present = d.present
    <3>1. CASE ~a.ok
      BY <2>2, <2>3, <3>1
    <3>2. CASE a.ok
      <4> DEFINE g == [a.d EXCEPT !.state = {"SUSPEND"}]
      <4>1. a.d \in Adapter /\ DevOK(a.d)
        BY <2>3 DEF Sound
      <4>2. g \in Adapter
        BY <4>1 DEF Adapter
      <4>3. /\ SameFrame(a.d, g) /\ Kept(a.d, g) /\ g.present = a.d.present
            /\ g.rings = a.d.rings /\ g.l0s = a.d.l0s /\ g.hw = a.d.hw
            /\ g.busy = a.d.busy /\ g.master = a.d.master
        BY <4>1 DEF Adapter, SameFrame, Kept
      <4>4. q.d = g
        BY <2>2, <3>2 DEF Ok
      <4> HIDE DEF g
      <4>5. DevOK(g)
        BY <4>1, <4>3 DEF DevOK, SameFrame, Kept
      <4> QED
        BY <2>3, <3>2, <4>2, <4>3, <4>4, <4>5 DEF Sound, SameFrame, Kept
    <3> QED
      BY <3>1, <3>2
  <2>5. CASE ~q.ok
    BY <2>1, <2>4, <2>5
  <2>6. CASE q.ok
    <3>1. q.d \in Adapter /\ DevOK(q.d)
      BY <2>4 DEF Sound
    <3>2. EnginesOnly(q.d, r.d) /\ (r.ok => r.d.present = q.d.present)
      BY <2>1, <2>6, <3>1, HwClose
    <3>3. Sound(q.d, r.d) /\ Kept(q.d, r.d)
      BY <3>1, <3>2, EnginesKeep DEF EnginesOnly, SameSession
    <3>4. Sound(d, r.d)
      BY <2>4, <3>3, SoundCompose
    <3> QED
      BY <2>4, <2>6, <3>2, <3>3, <3>4 DEF Kept
  <2> QED
    BY <2>5, <2>6
<1> QED
  BY <1>1, <1>2, <1>3

LEMMA Resume ==
  ASSUME NEW d \in Adapter, DevOK(d), NEW r \in crystalhd_resume(d)
  PROVE  Sound(d, r.d) /\ Kept(d, r.d) /\ r.d.present = d.present
<1>1. CASE ~d.hw \/ d.fault
  <2>1. r.d = d
    BY <1>1 DEF crystalhd_resume, Ok, Bad
  <2> QED
    BY <2>1, SoundRefl DEF Kept
<1>2. CASE ~(~d.hw \/ d.fault)
  <2> DEFINE st == IF d.state = {} THEN {} ELSE {"RESUME"}
             g == [d EXCEPT !.busy = FALSE, !.state = st]
  <2>1. st \in SUBSET Flags
    OBVIOUS
  <2> HIDE DEF st
  <2>2. g \in Adapter
    BY <2>1 DEF Adapter
  <2>3. /\ SameFrame(d, g) /\ Kept(d, g) /\ g.present = d.present
        /\ g.rings = d.rings /\ g.l0s = d.l0s /\ g.hw = d.hw
        /\ ~g.busy /\ g.master = d.master
    BY DEF Adapter, SameFrame, Kept
  <2>4. r \in MayFail(g, {d})
    BY <1>2 DEF crystalhd_resume, st
  <2> HIDE DEF g
  <2>5. DevOK(g)
    BY <2>3 DEF DevOK, SameFrame, Kept
  <2>6. CASE r.ok
    <3>1. r.d = g
      BY <2>2, <2>4, <2>6, MayFailOutcome
    <3> QED
      BY <2>2, <2>3, <2>5, <3>1 DEF Sound
  <2>7. CASE ~r.ok
    <3>1. Same(d, r.d)
      BY <2>2, <2>4, <2>7, MayFailOutcome
    <3> QED
      BY <3>1, LinkKeeps DEF Same, LinkOnly, SameSession
  <2> QED
    BY <2>6, <2>7
<1> QED
  BY <1>1, <1>2

\* A terminal drain that succeeds proves that mastering is off.
LEMMA Quiesce ==
  ASSUME NEW d \in Adapter, DevOK(d), ~d.present, ~d.susp,
         NEW r \in chd_dec_quiesce_terminal_dma(d)
  PROVE  /\ r.d \in Adapter /\ DevOK(r.d) /\ SameSession(d, r.d)
         /\ ~r.d.present /\ ~r.d.susp /\ r.d.bound = d.bound
         /\ r.d.users = d.users /\ r.d.quar = d.quar /\ r.d.cmdsAdp = d.cmdsAdp
         /\ r.ok => r.d.quiesced
<1>1. CASE d.quiesced
  <2>1. r.d = d
    BY <1>1 DEF chd_dec_quiesce_terminal_dma, Ok, Then
  <2> QED
    BY <1>1, <2>1 DEF SameSession, Kept
<1>2. CASE ~d.quiesced
  <2>1. PICK c \in chd_dec_clear_master_and_drain(d) :
          r \in IF c.ok THEN {Ok([c.d EXCEPT !.quiesced = TRUE])} ELSE {c}
    BY <1>2 DEF chd_dec_quiesce_terminal_dma, Then
  <2>2. /\ LinkOnly(d, c.d) /\ c.d.l0s = d.l0s
        /\ c.d.master => d.master
        /\ c.ok => ~c.d.master
    BY ClearMaster
  <2>3. Sound(d, c.d)
    BY <2>2, LinkKeeps
  <2>4. /\ c.d \in Adapter /\ DevOK(c.d) /\ SameSession(d, c.d)
        /\ ~c.d.present /\ ~c.d.susp /\ c.d.bound = d.bound
        /\ c.d.users = d.users /\ c.d.quar = d.quar /\ c.d.cmdsAdp = d.cmdsAdp
    BY <2>2, <2>3 DEF Sound, LinkOnly, SameFrame
  <2>5. CASE ~c.ok
    BY <2>1, <2>4, <2>5
  <2>6. CASE c.ok
    <3> DEFINE g == [c.d EXCEPT !.quiesced = TRUE]
    <3>1. g \in Adapter
      BY <2>4 DEF Adapter
    <3>2. /\ SameSession(c.d, g) /\ g.present = c.d.present /\ g.susp = c.d.susp
          /\ g.bound = c.d.bound /\ g.users = c.d.users /\ g.quar = c.d.quar
          /\ g.cmdsAdp = c.d.cmdsAdp /\ g.l0s = c.d.l0s /\ g.busy = c.d.busy
          /\ g.master = c.d.master /\ g.quiesced
      BY <2>4 DEF Adapter, SameSession, Kept
    <3>3. r.d = g
      BY <2>1, <2>6 DEF Ok
    <3> HIDE DEF g
    <3>4. DevOK(g)
      BY <2>2, <2>4, <2>6, <3>2 DEF DevOK, SameSession, Kept
    <3> QED
      BY <2>4, <3>1, <3>2, <3>3, <3>4 DEF SameSession, Kept
  <2> QED
    BY <2>5, <2>6
<1> QED
  BY <1>1, <1>2

\* The fields that the terminal cleanup resets.
LEMMA TypeDisowned ==
  ASSUME NEW d \in Adapter
  PROVE  [d EXCEPT !.owner = NONE, !.cmdsAdp = FALSE] \in Adapter
  BY DEF Adapter

LEMMA TypeUnpinned ==
  ASSUME NEW d \in Adapter
  PROVE  [d EXCEPT !.put = d.life, !.life = NONE, !.pinned = FALSE] \in Adapter
  BY DEF Adapter

\* Terminal cleanup: nothing is left that the device could use.
LEMMA DeleteContext ==
  ASSUME NEW d \in Adapter, DevOK(d), ~d.present, ~d.quar, d.put = NONE,
         d.quiesced \/ chd_dec_session_dma_absent(d)
  PROVE  LET e == crystalhd_delete_cmd_context(d) IN
         /\ e \in Adapter /\ DevOK(e) /\ Dropped(d, e) /\ ~e.hw
         /\ ~e.present /\ e.susp = d.susp /\ e.bound = d.bound
         /\ e.users = d.users /\ ~e.quar
<1> DEFINE g == [d EXCEPT !.hw = FALSE, !.fault = FALSE, !.rings = FALSE,
                          !.state = {}, !.owner = NONE, !.cmdsAdp = FALSE]
           e == crystalhd_session_unpin(g)
           u == [g EXCEPT !.put = g.life, !.life = NONE, !.pinned = FALSE]
<1>1. crystalhd_delete_cmd_context(d) = e
  BY DEF crystalhd_delete_cmd_context, chd_dec_session_dma_absent
<1>2. g \in Adapter
  <2>1. [d EXCEPT !.hw = FALSE, !.fault = FALSE, !.rings = FALSE, !.state = {}] \in Adapter
    BY DEF Adapter
  <2> QED
    BY <2>1, TypeDisowned
<1>3. /\ g.life = d.life /\ g.put = d.put /\ g.pinned = d.pinned /\ g.owner = NONE
      /\ ~g.hw /\ ~g.rings /\ ~g.cmdsAdp /\ g.present = d.present /\ g.susp = d.susp
      /\ g.bound = d.bound /\ g.users = d.users /\ g.quar = d.quar
      /\ g.l0s = d.l0s /\ g.busy = d.busy /\ g.master = d.master
      /\ g.quiesced = d.quiesced
  BY DEF Adapter
<1> HIDE DEF g
<1>4. u \in Adapter
  BY <1>2, TypeUnpinned
<1>5. /\ u.life = NONE /\ u.put = g.life /\ ~u.pinned /\ u.owner = g.owner
      /\ u.hw = g.hw /\ u.rings = g.rings /\ u.cmdsAdp = g.cmdsAdp
      /\ u.present = g.present /\ u.susp = g.susp
      /\ u.bound = g.bound /\ u.users = g.users /\ u.quar = g.quar
      /\ u.l0s = g.l0s /\ u.busy = g.busy /\ u.master = g.master
      /\ u.quiesced = g.quiesced
  BY <1>2 DEF Adapter
<1>6. e = IF g.pinned THEN u ELSE g
  BY DEF crystalhd_session_unpin
<1> HIDE DEF u, e
<1>7. d.busy => ~d.master
  BY DEF DevOK, chd_dec_session_dma_absent
<1>8. CASE g.pinned
  <2>1. DevOK(u)
    BY <1>3, <1>5, <1>7 DEF DevOK
  <2> QED
    BY <1>1, <1>3, <1>4, <1>5, <1>6, <1>8, <2>1 DEF Dropped
<1>9. CASE ~g.pinned
  <2>1. DevOK(g)
    BY <1>3, <1>7, <1>9 DEF DevOK
  <2>2. d.life = NONE
    BY <1>3, <1>9 DEF DevOK
  <2> QED
    BY <1>1, <1>2, <1>3, <1>6, <1>9, <2>1, <2>2 DEF Dropped
<1> QED
  BY <1>8, <1>9

\* Fail closed either drops everything or quarantines everything.
LEMMA FailClosedOutcome ==
  ASSUME NEW d \in Adapter, DevOK(d), ~d.present, ~d.susp, ~d.quar, d.put = NONE,
         NEW e \in chd_dec_fail_closed(d)
  PROVE  /\ e \in Adapter /\ DevOK(e)
         /\ ~e.present /\ ~e.susp /\ e.bound = d.bound /\ e.users = d.users
         /\ \/ e.quar /\ Kept(d, e)
            \/ ~e.quar /\ Dropped(d, e) /\ ~e.hw
<1>1. PICK r \in chd_dec_quiesce_terminal_dma(d) :
        e = IF r.ok \/ chd_dec_session_dma_absent(r.d)
            THEN IF r.d.cmdsAdp THEN crystalhd_delete_cmd_context(r.d) ELSE r.d
            ELSE [r.d EXCEPT !.quar = TRUE]
  BY DEF chd_dec_fail_closed
<1>2. /\ r.d \in Adapter /\ DevOK(r.d) /\ SameSession(d, r.d)
      /\ ~r.d.present /\ ~r.d.susp /\ r.d.bound = d.bound
      /\ r.d.users = d.users /\ ~r.d.quar
      /\ r.ok => r.d.quiesced
  BY Quiesce
<1>3. r.d.put = NONE /\ r.d.life = d.life
  BY <1>2 DEF SameSession, Kept
<1>4. CASE (r.ok \/ chd_dec_session_dma_absent(r.d)) /\ r.d.cmdsAdp
  <2> DEFINE g == crystalhd_delete_cmd_context(r.d)
  <2>1. r.d.quiesced \/ chd_dec_session_dma_absent(r.d)
    BY <1>2, <1>4
  <2>2. /\ g \in Adapter /\ DevOK(g) /\ Dropped(r.d, g) /\ ~g.hw
        /\ ~g.present /\ g.susp = r.d.susp /\ g.bound = r.d.bound
        /\ g.users = r.d.users /\ ~g.quar
    BY <1>2, <1>3, <2>1, DeleteContext
  <2>3. e = g
    BY <1>1, <1>4
  <2> HIDE DEF g
  <2> QED
    BY <1>2, <1>3, <2>2, <2>3 DEF Dropped
<1>5. CASE (r.ok \/ chd_dec_session_dma_absent(r.d)) /\ ~r.d.cmdsAdp
  <2>1. e = r.d
    BY <1>1, <1>5
  <2> QED
    BY <1>2, <1>3, <1>5, <2>1 DEF DevOK, Dropped
<1>6. CASE ~(r.ok \/ chd_dec_session_dma_absent(r.d))
  <2> DEFINE g == [r.d EXCEPT !.quar = TRUE]
  <2>1. g \in Adapter
    BY <1>2 DEF Adapter
  <2>2. /\ SameSession(r.d, g) /\ g.present = r.d.present /\ g.susp = r.d.susp
        /\ g.bound = r.d.bound /\ g.users = r.d.users /\ g.quar
        /\ g.cmdsAdp = r.d.cmdsAdp /\ g.l0s = r.d.l0s /\ g.busy = r.d.busy
        /\ g.master = r.d.master /\ g.quiesced = r.d.quiesced
    BY <1>2 DEF Adapter, SameSession, Kept
  <2>3. e = g
    BY <1>1, <1>6
  <2> HIDE DEF g
  <2>4. r.d.pinned
    BY <1>2, <1>6 DEF DevOK, chd_dec_session_dma_absent
  <2>5. DevOK(g)
    BY <1>2, <2>2, <2>4 DEF DevOK, SameSession, Kept
  <2> QED
    BY <1>2, <2>1, <2>2, <2>3, <2>5 DEF SameSession, Kept
<1> QED
  BY <1>4, <1>5, <1>6

\* What the steps of the PM callbacks leave alone.
PmKept(d, e) ==
    /\ e \in Adapter /\ DevOK(e) /\ Kept(d, e)
    /\ e.bound = d.bound /\ e.quar = d.quar /\ e.users = d.users /\ e.v4l2 = d.v4l2

\* The steps of the PM callbacks, one after the other.
LEMMA SoundIsPmKept ==
  ASSUME NEW d, NEW e, Sound(d, e), Kept(d, e)
  PROVE  PmKept(d, e) /\ e.susp = d.susp /\ e.access = d.access
  BY DEF Sound, SameFrame, PmKept

LEMMA PmCompose ==
  ASSUME NEW d, NEW e, NEW f, PmKept(d, e), PmKept(e, f)
  PROVE  PmKept(d, f)
  BY DEF PmKept, Kept

LEMMA ClearMasterPm ==
  ASSUME NEW d, DevOK(d), d \in Adapter, NEW r \in chd_dec_clear_master_and_drain(d)
  PROVE  /\ PmKept(d, r.d) /\ r.d.susp = d.susp /\ r.d.present = d.present
         /\ r.d.access = d.access
<1>1. LinkOnly(d, r.d) /\ r.d.l0s = d.l0s /\ (r.d.master => d.master)
  BY ClearMaster
<1>2. Sound(d, r.d)
  BY <1>1, LinkKeeps
<1> QED
  BY <1>1, <1>2, SoundIsPmKept DEF LinkOnly, SameSession

LEMMA RestoreL0s ==
  ASSUME NEW d, DevOK(d), d \in Adapter, NEW r \in chd_restore_l0s(d)
  PROVE  /\ PmKept(d, r.d) /\ r.d.susp = d.susp /\ r.d.present = d.present
         /\ r.d.access = d.access
<1>1. r = Ok(d) \/ r \in MayFail(d, {d})
  BY DEF chd_restore_l0s
<1>2. r.d = d \/ Same(d, r.d)
  <2>1. CASE r = Ok(d)
    BY <2>1 DEF Ok
  <2>2. CASE r \in MayFail(d, {d})
    BY <2>2, MayFailOutcome
  <2> QED
    BY <1>1, <2>1, <2>2
<1>3. Same(d, r.d)
  BY <1>2, SameRefl
<1>4. Sound(d, r.d)
  BY <1>3, LinkKeeps DEF Same
<1> QED
  BY <1>3, <1>4, SoundIsPmKept DEF Same, LinkOnly, SameSession

LEMMA AccessTo ==
  ASSUME NEW d \in Adapter, DevOK(d), NEW b \in BOOLEAN
  PROVE  LET e == [d EXCEPT !.access = b]
         IN  /\ PmKept(d, e) /\ e.susp = d.susp /\ e.present = d.present
             /\ e.access = b
<1> DEFINE e == [d EXCEPT !.access = b]
<1>1. e \in Adapter
  BY DEF Adapter
<1>2. /\ SameSession(d, e) /\ e.present = d.present /\ e.susp = d.susp /\ e.access = b
      /\ e.bound = d.bound /\ e.users = d.users /\ e.quar = d.quar /\ e.v4l2 = d.v4l2
      /\ e.cmdsAdp = d.cmdsAdp /\ e.l0s = d.l0s /\ e.busy = d.busy
      /\ e.master = d.master /\ e.quiesced = d.quiesced
  BY DEF Adapter, SameSession, Kept
<1> HIDE DEF e
<1>3. DevOK(e)
  BY <1>2 DEF DevOK, SameSession, Kept
<1> QED
  BY <1>1, <1>2, <1>3 DEF PmKept, SameSession, e

LEMMA SuspTo ==
  ASSUME NEW d \in Adapter, DevOK(d), NEW b \in BOOLEAN, NEW m \in BOOLEAN,
         b => d.present, m => d.master
  PROVE  LET e == [d EXCEPT !.susp = b, !.master = m]
         IN  PmKept(d, e) /\ e.susp = b /\ e.present = d.present /\ e.hw = d.hw
<1> DEFINE e == [d EXCEPT !.susp = b, !.master = m]
<1>1. e \in Adapter
  BY DEF Adapter
<1>2. /\ SameSession(d, e) /\ e.present = d.present /\ e.susp = b
      /\ e.bound = d.bound /\ e.users = d.users /\ e.quar = d.quar /\ e.v4l2 = d.v4l2
      /\ e.cmdsAdp = d.cmdsAdp /\ e.l0s = d.l0s /\ e.busy = d.busy
      /\ e.master = m /\ e.quiesced = d.quiesced
  BY DEF Adapter, SameSession, Kept
<1> HIDE DEF e
<1>3. DevOK(e)
  BY <1>2 DEF DevOK, SameSession, Kept
<1> QED
  BY <1>1, <1>2, <1>3 DEF PmKept, SameSession, e

LEMMA SleepTo ==
  ASSUME NEW d \in Adapter, DevOK(d), d.present
  PROVE  LET e == [d EXCEPT !.susp = TRUE]
         IN  PmKept(d, e) /\ e.susp /\ e.present = d.present /\ e.access = d.access
<1> DEFINE e == [d EXCEPT !.susp = TRUE]
<1>1. e \in Adapter
  BY DEF Adapter
<1>2. /\ SameSession(d, e) /\ e.present = d.present /\ e.susp /\ e.access = d.access
      /\ e.bound = d.bound /\ e.users = d.users /\ e.quar = d.quar /\ e.v4l2 = d.v4l2
      /\ e.cmdsAdp = d.cmdsAdp /\ e.l0s = d.l0s /\ e.busy = d.busy
      /\ e.master = d.master /\ e.quiesced = d.quiesced
  BY DEF Adapter, SameSession, Kept
<1> HIDE DEF e
<1>3. DevOK(e)
  BY <1>2 DEF DevOK, SameSession, Kept
<1> QED
  BY <1>1, <1>2, <1>3 DEF PmKept, SameSession, e

-----------------------------------------------------------------------------
(* The lease's record and the leases after a session operation.            *)

\* A lease without references has no holder.
LEMMA LeaseCounts ==
  ASSUME NEW r \in LeaseType, LeaseOK(r)
  PROVE  /\ r.refs >= Count(r.base) + Count(r.core) + Count(r.pending)
         /\ r.refs = 0 => ~r.base /\ ~r.core /\ ~r.active /\ ~r.pending /\ r.phase = "off"
         /\ r.refs \in Nat
  BY DEF LeaseType, LeaseOK, Count

\* Queueing the work takes one reference, and only when none is held for it.
LEMMA QueueClose ==
  ASSUME NEW r \in LeaseType, LeaseOK(r)
  PROVE  LET q == crystalhd_v4l2_queue_close_locked(r) IN
         /\ q \in LeaseType /\ LeaseOK(q)
         /\ q.core = r.core /\ q.gen = r.gen /\ q.base = r.base
         /\ q.closing = r.closing
         /\ r.refs = 0 => q = r
<1> DEFINE k == [r EXCEPT !.kick = TRUE]
           a == [r EXCEPT !.kick = TRUE, !.active = TRUE, !.refs = @ + 1,
                          !.phase = "queued"]
<1>1. CASE ~r.closing \/ r.done
  BY <1>1 DEF crystalhd_v4l2_queue_close_locked
<1>2. CASE ~(~r.closing \/ r.done) /\ r.active
  <2>1. k \in LeaseType
    BY DEF LeaseType
  <2>2. LeaseOK(k) /\ k.core = r.core /\ k.gen = r.gen /\ k.base = r.base
        /\ k.closing = r.closing
    BY DEF LeaseType, LeaseOK, Count
  <2>3. crystalhd_v4l2_queue_close_locked(r) = k
    BY <1>2 DEF crystalhd_v4l2_queue_close_locked
  <2>4. r.refs # 0
    BY <1>2, LeaseCounts
  <2> QED
    BY <2>1, <2>2, <2>3, <2>4
<1>3. CASE ~(~r.closing \/ r.done) /\ ~r.active
  <2>1. r.refs + 1 \in 0 .. 4 /\ r.refs # 0
    BY <1>3 DEF LeaseType, LeaseOK, Count
  <2>2. a \in LeaseType
    BY <2>1 DEF LeaseType
  <2>3. LeaseOK(a) /\ a.core = r.core /\ a.gen = r.gen /\ a.base = r.base
        /\ a.closing = r.closing
    BY <1>3 DEF LeaseType, LeaseOK, Count
  <2>4. crystalhd_v4l2_queue_close_locked(r) = a
    BY <1>3 DEF crystalhd_v4l2_queue_close_locked
  <2> QED
    BY <2>1, <2>2, <2>3, <2>4
<1> QED
  BY <1>1, <1>2, <1>3

\* The core takes a reference, retires the owner, gives the reference back.
LEMMA OwnerGet ==
  ASSUME NEW r \in LeaseType, LeaseOK(r), ~r.core, r.base, ~r.closing
  PROVE  LET q == crystalhd_v4l2_owner_get(r) IN
         /\ q \in LeaseType /\ LeaseOK(q) /\ q.core /\ q.gen = r.gen
<1>1. r.refs + 1 \in 0 .. 4
  BY DEF LeaseType, LeaseOK, Count
<1>2. crystalhd_v4l2_owner_get(r) \in LeaseType
  BY <1>1 DEF LeaseType, crystalhd_v4l2_owner_get
<1> QED
  BY <1>2 DEF LeaseType, LeaseOK, Count, crystalhd_v4l2_owner_get

LEMMA OwnerRetired ==
  ASSUME NEW r \in LeaseType, LeaseOK(r)
  PROVE  LET q == crystalhd_v4l2_owner_retired(r) IN
         /\ q \in LeaseType /\ LeaseOK(q) /\ q.core = r.core /\ q.gen = r.gen
         /\ q.base = r.base /\ q.closing = r.closing
<1> DEFINE t == [r EXCEPT !.owner = "RETIRED"]
<1>1. t \in LeaseType
  BY DEF LeaseType
<1>2. LeaseOK(t) /\ t.core = r.core /\ t.gen = r.gen /\ t.base = r.base
      /\ t.closing = r.closing
  BY DEF LeaseType, LeaseOK, Count
<1> HIDE DEF t
<1>3. crystalhd_v4l2_owner_retired(r) = crystalhd_v4l2_queue_close_locked(t)
  BY DEF crystalhd_v4l2_owner_retired, t
<1> QED
  BY <1>1, <1>2, <1>3, QueueClose

LEMMA OwnerPutBack ==
  ASSUME NEW r \in LeaseType, LeaseOK(r), r.core
  PROVE  LET q == crystalhd_v4l2_owner_put(r) IN
         /\ q \in LeaseType /\ LeaseOK(q) /\ ~q.core /\ q.gen = r.gen
<1> DEFINE t == [r EXCEPT !.refs = @ - 1, !.core = FALSE]
<1>1. r.refs - 1 \in 0 .. 4
  BY DEF LeaseType, LeaseOK, Count
<1>2. t \in LeaseType
  BY <1>1 DEF LeaseType
<1>3. LeaseOK(t) /\ ~t.core /\ t.gen = r.gen
  BY DEF LeaseType, LeaseOK, Count
<1> HIDE DEF t
<1>4. crystalhd_v4l2_owner_put(r) = crystalhd_v4l2_queue_close_locked(t)
  BY DEF crystalhd_v4l2_owner_put, t
<1> QED
  BY <1>2, <1>3, <1>4, QueueClose

\* The leases fit an adapter.
Fit(ls, d) ==
    /\ ls \in [Leases -> LeaseType]
    /\ \A l \in Leases : /\ LeaseOK(ls[l])
                         /\ ls[l].core <=> l \in {d.life, d.put}
                         /\ ls[l].gen <= gen

\* After a session operation the leases agree with the adapter again.
LEMMA AdoptedFits ==
  ASSUME TypeOK, LeaseInv, dev.put = NONE, NEW d,
         \/ Kept(dev, d)
         \/ Dropped(dev, d)
         \/ /\ dev.life = NONE /\ d.put = NONE
            /\ d.life = NONE \/ (d.life \in Leases /\ lease[d.life].base
                                                    /\ ~lease[d.life].closing)
  PROVE  Fit(Adopted(d), d)
<1>1. lease \in [Leases -> LeaseType] /\ dev.life \in Leases \cup {NONE}
  BY DEF TypeOK, Adapter
<1>2. ASSUME NEW l \in Leases
      PROVE  LET q == Adopted(d)[l] IN
             /\ q \in LeaseType /\ LeaseOK(q) /\ q.gen <= gen
             /\ q.core <=> l \in {d.life, d.put}
  <2> DEFINE r == lease[l]
             q == Adopted(d)[l]
  <2>1. /\ r \in LeaseType /\ LeaseOK(r) /\ r.gen <= gen
        /\ r.core <=> l \in {dev.life, dev.put}
    BY <1>1 DEF LeaseInv
  <2>2. r.core <=> l = dev.life
    BY <2>1
  <2>3. CASE d.life = l /\ dev.life # l
    <3>1. q = crystalhd_v4l2_owner_get(r)
      BY <2>3 DEF Adopted
    <3>2. r.base /\ ~r.closing
      BY <2>3 DEF Kept, Dropped
    <3> HIDE DEF q, r
    <3>3. q \in LeaseType /\ LeaseOK(q) /\ q.core /\ q.gen = r.gen
      BY <2>1, <2>2, <2>3, <3>1, <3>2, OwnerGet
    <3> QED
      BY <2>1, <2>3, <3>3 DEF q
  <2>4. CASE ~(d.life = l /\ dev.life # l) /\ d.put = l
    <3>1. q = crystalhd_v4l2_owner_retired(r)
      BY <2>4 DEF Adopted
    <3>2. dev.life = l
      BY <2>4 DEF Kept, Dropped
    <3> HIDE DEF q, r
    <3>3. q \in LeaseType /\ LeaseOK(q) /\ q.core = r.core /\ q.gen = r.gen
      BY <2>1, <3>1, OwnerRetired
    <3> QED
      BY <2>1, <2>2, <2>4, <3>2, <3>3 DEF q
  <2>5. CASE ~(d.life = l /\ dev.life # l) /\ d.put # l
    <3>1. q = r
      BY <2>5 DEF Adopted
    <3>2. l = dev.life <=> l = d.life
      BY <2>5 DEF Kept, Dropped
    <3> HIDE DEF q, r
    <3> QED
      BY <2>1, <2>2, <2>5, <3>1, <3>2 DEF q
  <2> QED
    BY <2>3, <2>4, <2>5
<1>3. Adopted(d) = [l \in Leases |-> Adopted(d)[l]]
  BY DEF Adopted
<1> DEFINE A == Adopted(d)
<1> HIDE DEF A
<1>4. A = [l \in Leases |-> A[l]] /\ \A l \in Leases : A[l] \in LeaseType
  BY <1>2, <1>3 DEF A
<1>5. A \in [Leases -> LeaseType]
  BY <1>4
<1> QED
  BY <1>2, <1>5 DEF Fit, A

-----------------------------------------------------------------------------
(* User slots.                                                             *)

Used == {s \in Slots : slot[s].used}

\* Slots are finite, and a free one has a least one.
LEMMA UsedFinite == IsFiniteSet(Used)
<1>1. Used \in SUBSET Nat /\ MaxOpens \in Nat /\ \A s \in Used : s <= MaxOpens
  BY BoundAssumption DEF Used, Slots
<1> QED
  BY <1>1, FS_BoundedSetOfNaturals

LEMMA FreshSlotIsFree ==
  ASSUME \E s \in Slots : ~slot[s].used
  PROVE  FreshSlot \in Slots /\ ~slot[FreshSlot].used
<1> DEFINE T == {s \in Slots : ~slot[s].used}
<1>1. T \in SUBSET Nat /\ T # {}
  BY BoundAssumption DEF Slots
<1>2. PICK m \in T : \A n \in T : m <= n
  <2> DEFINE R == OpToRel(<, Nat)
  <2>1. PICK m \in T : \A n \in T : ~(<<n, m>> \in R)
    BY <1>1, NatLessThanWellFounded, WFMin
  <2>2. R = {ss \in Nat \X Nat : ss[1] < ss[2]}
    BY DEF OpToRel
  <2> HIDE DEF R
  <2>3. ASSUME NEW n \in T PROVE m <= n
    <3>1. m \in Nat /\ n \in Nat /\ ~(<<n, m>> \in R)
      BY <1>1, <2>1
    <3>2. ~(n < m)
      BY <2>2, <3>1
    <3> QED
      BY <3>1, <3>2
  <2> QED
    BY <2>1, <2>3
<1>3. \E s \in Slots : ~slot[s].used /\ \A t \in Slots : ~slot[t].used => s <= t
  BY <1>2
<1> QED
  BY <1>3 DEF FreshSlot

\* The slot and file part of the type invariant.
UserTypes ==
    /\ slot \in [Slots -> [used : BOOLEAN, mode : {"INV", "MON", "PLAY"}]]
    /\ file \in [Files -> [gen : 0 .. MaxGen, slot : 0 .. MaxOpens]]
UserInv == UserTypes /\ BindingInv /\ SlotInv

\* The end of an operation of f, whatever it did to the files.
Ends(f) ==
    /\ f \in Files /\ op[f] # "none"
    /\ op' = [op EXCEPT ![f] = "none"] /\ gate' = NONE
    /\ gen' = gen /\ dev'.bound = dev.bound

\* An operation that ends was on a bound adapter of a live module.
LEMMA EndsFacts ==
  ASSUME IInv, NEW f, Ends(f)
  PROVE  /\ \A g \in Files : op'[g] = IF g = f THEN "none" ELSE op[g]
         /\ dev.bound /\ gen > 0 /\ gen \in Nat /\ gen \in 0 .. MaxGen
         /\ file[f].gen \in 0 .. MaxGen /\ file[f].slot \in 0 .. MaxOpens
         /\ mod = "live" /\ pci \notin {"failed", "removed"}
  BY BoundAssumption DEF IInv, TypeOK, Ends, BindingInv, ModInv, PciInv

\* No file changes hands.
\* Every file's binding still serves its operation.
LEMMA EndsBinding ==
  ASSUME IInv, NEW f, Ends(f),
         \A g \in Files :
            /\ file'[g].gen <= gen
            /\ file'[g].gen = 0 => file'[g].slot = 0
            /\ g # f => file'[g] = file[g]
  PROVE  BindingInv'
<1>1. ASSUME NEW g \in Files
      PROVE  /\ op'[g] # "none" => dev'.bound
             /\ op'[g] = "open" => file'[g].gen = 0
             /\ op'[g] \notin {"none", "open"} => file'[g].gen = gen
             /\ op'[g] \notin {"none", "open", "close"} => file'[g].slot # 0
  <2>1. op'[g] = IF g = f THEN "none" ELSE op[g]
    BY EndsFacts
  <2>2. CASE g = f
    BY <2>1, <2>2
  <2>3. CASE g # f
    BY <2>1, <2>3 DEF IInv, BindingInv, Ends
  <2> QED
    BY <2>2, <2>3
<1>2. gen' = gen /\ gate' = NONE /\ gen > 0
  BY EndsFacts DEF Ends
<1> QED
  BY <1>1, <1>2 DEF BindingInv

LEMMA EndsPlain ==
  ASSUME IInv, NEW f, Ends(f), file' = file,
         slot' \in [Slots -> [used : BOOLEAN, mode : {"INV", "MON", "PLAY"}]],
         \A s \in Slots : slot'[s].used = slot[s].used, dev'.users = dev.users
  PROVE  UserInv'
<1>1. UserTypes'
  BY DEF IInv, TypeOK, UserTypes
<1>2. BindingInv'
  BY EndsFacts DEF IInv, BindingInv, Ends
<1>3. SlotInv'
  <2>1. {s \in Slots : slot'[s].used} = {s \in Slots : slot[s].used}
    OBVIOUS
  <2> DEFINE U == {s \in Slots : slot[s].used}
  <2>2. dev'.users = Cardinality({s \in Slots : slot'[s].used})
    BY <2>1, EndsFacts DEF IInv, SlotInv
  <2>3. ASSUME NEW g \in Files, file[g].gen = gen, file[g].slot # 0
        PROVE  file[g].slot \in Slots
    BY <2>3 DEF IInv, TypeOK, Slots
  <2> QED
    BY <2>2, <2>3, EndsFacts DEF IInv, SlotInv, Ends
<1> QED
  BY <1>1, <1>2, <1>3 DEF UserInv

\* An open takes a slot that no file has.
LEMMA EndsBound ==
  ASSUME IInv, NEW f, Ends(f), op[f] = "open", SlotAvailable, BindSlot(f),
         dev'.users = dev.users + 1
  PROVE  UserInv'
<1> DEFINE n == FreshSlot
<1>1. n \in Slots /\ ~slot[n].used
  BY FreshSlotIsFree DEF SlotAvailable
<1>2. /\ slot' = [slot EXCEPT ![n] = [used |-> TRUE, mode |-> "INV"]]
      /\ file' = [file EXCEPT ![f] = [gen |-> gen, slot |-> n]]
  BY DEF BindSlot
<1> HIDE DEF n
<1>3. n \in 0 .. MaxOpens /\ n # 0
  BY <1>1, BoundAssumption DEF Slots
<1>t. /\ slot \in [Slots -> [used : BOOLEAN, mode : {"INV", "MON", "PLAY"}]]
      /\ file \in [Files -> [gen : 0 .. MaxGen, slot : 0 .. MaxOpens]]
      /\ f \in Files
  BY DEF IInv, TypeOK, Ends
<1>4. UserTypes'
  BY <1>2, <1>3, <1>t, EndsFacts DEF UserTypes
<1>5. /\ \A g \in Files : file'[g] = IF g = f THEN [gen |-> gen, slot |-> n] ELSE file[g]
      /\ \A s \in Slots : slot'[s].used <=> (s = n \/ slot[s].used)
  BY <1>2, <1>t
<1>6. BindingInv'
  <2>1. ASSUME NEW g \in Files
        PROVE  /\ file'[g].gen <= gen
               /\ file'[g].gen = 0 => file'[g].slot = 0
               /\ g # f => file'[g] = file[g]
    <3>1. file[g].gen <= gen /\ (file[g].gen = 0 => file[g].slot = 0)
      BY DEF IInv, BindingInv
    <3> QED
      BY <1>5, <3>1, EndsFacts
  <2> QED
    BY <2>1, EndsBinding
<1>7. SlotInv'
  <2>1. {s \in Slots : slot'[s].used} = Used \cup {n} /\ n \notin Used
    BY <1>1, <1>5 DEF Used
  <2>2. Cardinality({s \in Slots : slot'[s].used}) = Cardinality(Used) + 1
    BY <2>1, UsedFinite, FS_AddElement
  <2>3. dev.users = Cardinality(Used)
    BY EndsFacts DEF IInv, SlotInv, Used
  <2>4. dev'.users = Cardinality({s \in Slots : slot'[s].used})
    BY <2>2, <2>3
  <2>5. ASSUME NEW g \in Files, file[g].gen = gen, file[g].slot # 0
        PROVE  /\ file[g].slot \in Slots /\ slot[file[g].slot].used
               /\ file[g].slot # n
    BY <1>1, <2>5, EndsFacts DEF IInv, TypeOK, Slots, SlotInv
  <2>6. \A g \in Files : file'[g].gen = gen /\ file'[g].slot # 0
            => slot'[file'[g].slot].used
    BY <1>1, <1>5, <2>5
  <2>7. \A g, h \in Files :
          (/\ file'[g].gen = gen /\ file'[h].gen = gen
           /\ file'[g].slot = file'[h].slot /\ file'[g].slot # 0) => g = h
    <3>1. \A g, h \in Files :
            (/\ file[g].gen = gen /\ file[h].gen = gen
             /\ file[g].slot = file[h].slot /\ file[g].slot # 0) => g = h
      BY EndsFacts DEF IInv, SlotInv
    <3> QED
      BY <1>5, <2>5, <3>1
  <2>8. \A s \in Slots : slot'[s].used =>
          \E g \in Files : file'[g].gen = gen /\ file'[g].slot = s
    <3>1. ASSUME NEW s \in Slots, slot[s].used
          PROVE  \E g \in Files : file'[g].gen = gen /\ file'[g].slot = s
      <4>1. PICK g \in Files : file[g].gen = gen /\ file[g].slot = s
        BY <3>1, EndsFacts DEF IInv, SlotInv
      <4>2. file[f].gen = 0
        BY <1>t DEF IInv, BindingInv
      <4> QED
        BY <1>5, <4>1, <4>2, EndsFacts
    <3>2. file'[f].gen = gen /\ file'[f].slot = n
      BY <1>5, <1>t
    <3> QED
      BY <1>5, <1>t, <3>1, <3>2
  <2> QED
    BY <2>4, <2>6, <2>7, <2>8 DEF SlotInv, Ends
<1> QED
  BY <1>4, <1>6, <1>7 DEF UserInv

\* The file gives its slot back.
LEMMA EndsFreed ==
  ASSUME IInv, NEW f, Ends(f), op[f] \in {"release", "close"}, file[f].slot # 0,
         slot' = [slot EXCEPT ![file[f].slot] = FreeSlot], Unbind(f),
         dev'.users = IF dev.users > 0 THEN dev.users - 1 ELSE 0
  PROVE  UserInv'
<1> DEFINE n == file[f].slot
<1>t. /\ slot \in [Slots -> [used : BOOLEAN, mode : {"INV", "MON", "PLAY"}]]
      /\ file \in [Files -> [gen : 0 .. MaxGen, slot : 0 .. MaxOpens]]
      /\ f \in Files
  BY DEF IInv, TypeOK, Ends
<1>1. n \in Slots /\ file[f].gen = gen /\ slot[n].used
  <2>1. n \in Slots
    BY <1>t, BoundAssumption DEF Slots
  <2>2. file[f].gen = gen
    BY <1>t DEF IInv, BindingInv
  <2> QED
    BY <1>t, <2>1, <2>2, EndsFacts DEF IInv, SlotInv
<1>2. PICK x : /\ x \in [gen : 0 .. MaxGen, slot : 0 .. MaxOpens] /\ x.slot = 0
               /\ x.gen \in {0, gen} /\ (op[f] = "close" => x.gen = 0)
               /\ file' = [file EXCEPT ![f] = x]
  <2>1. CASE op[f] = "close"
    <3>1. [gen |-> 0, slot |-> 0] \in [gen : 0 .. MaxGen, slot : 0 .. MaxOpens]
      BY BoundAssumption
    <3> QED
      BY <2>1, <3>1 DEF Unbind
  <2>2. CASE op[f] # "close"
    <3>1. [file[f] EXCEPT !.slot = 0] \in [gen : 0 .. MaxGen, slot : 0 .. MaxOpens]
      <4>1. file[f] \in [gen : 0 .. MaxGen, slot : 0 .. MaxOpens] /\ 0 \in 0 .. MaxOpens
        BY <1>t, BoundAssumption
      <4> QED
        BY <4>1
    <3>2. [file[f] EXCEPT !.slot = 0].slot = 0 /\ [file[f] EXCEPT !.slot = 0].gen = gen
      BY <1>1, <1>t
    <3> QED
      BY <2>2, <3>1, <3>2 DEF Unbind
  <2> QED
    BY <2>1, <2>2
<1>n. slot' = [slot EXCEPT ![n] = FreeSlot]
  OBVIOUS
<1>4. UserTypes'
  BY <1>2, <1>n, <1>t DEF UserTypes, FreeSlot
<1>5. /\ \A g \in Files : file'[g] = IF g = f THEN x ELSE file[g]
      /\ \A s \in Slots : slot'[s].used <=> (s # n /\ slot[s].used)
  BY <1>2, <1>n, <1>t DEF FreeSlot
<1>6. BindingInv'
  <2>1. ASSUME NEW g \in Files
        PROVE  /\ file'[g].gen <= gen
               /\ file'[g].gen = 0 => file'[g].slot = 0
               /\ g # f => file'[g] = file[g]
    <3>1. file[g].gen <= gen /\ (file[g].gen = 0 => file[g].slot = 0)
      BY DEF IInv, BindingInv
    <3> QED
      BY <1>2, <1>5, <3>1, EndsFacts
  <2> QED
    BY <2>1, EndsBinding
<1>7. SlotInv'
  <2> HIDE DEF n
  <2>1. {s \in Slots : slot'[s].used} = Used \ {n} /\ n \in Used
    BY <1>1, <1>5 DEF Used
  <2>2. Cardinality({s \in Slots : slot'[s].used}) = Cardinality(Used) - 1
    BY <2>1, UsedFinite, FS_RemoveElement
  <2>3. dev.users = Cardinality(Used) /\ dev.users \in Nat
    BY EndsFacts DEF IInv, SlotInv, Used, TypeOK, Adapter
  <2>a. dev.users > 0
    BY <2>1, <2>3, UsedFinite, FS_EmptySet
  <2>4. dev'.users = Cardinality({s \in Slots : slot'[s].used})
    BY <2>2, <2>3, <2>a
  <2>5. ASSUME NEW g \in Files, file[g].gen = gen, file[g].slot # 0
        PROVE  file[g].slot \in Slots /\ slot[file[g].slot].used
    BY <2>5, EndsFacts DEF IInv, TypeOK, Slots, SlotInv
  <2>b. \A g, h \in Files :
          (/\ file[g].gen = gen /\ file[h].gen = gen
           /\ file[g].slot = file[h].slot /\ file[g].slot # 0) => g = h
    BY EndsFacts DEF IInv, SlotInv
  <2>6. \A g \in Files : file'[g].gen = gen /\ file'[g].slot # 0
            => slot'[file'[g].slot].used
    BY <1>1, <1>2, <1>5, <1>t, <2>5, <2>b DEF n
  <2>7. \A g, h \in Files :
          (/\ file'[g].gen = gen /\ file'[h].gen = gen
           /\ file'[g].slot = file'[h].slot /\ file'[g].slot # 0) => g = h
    BY <1>2, <1>5, <2>b
  <2>8. \A s \in Slots : slot'[s].used =>
          \E g \in Files : file'[g].gen = gen /\ file'[g].slot = s
    <3>1. ASSUME NEW s \in Slots, slot[s].used, s # n
          PROVE  \E g \in Files : file'[g].gen = gen /\ file'[g].slot = s
      <4>1. PICK g \in Files : file[g].gen = gen /\ file[g].slot = s
        BY <3>1, EndsFacts DEF IInv, SlotInv
      <4>2. g # f
        BY <3>1, <4>1 DEF n
      <4> QED
        BY <1>5, <4>1, <4>2
    <3> QED
      BY <1>5, <3>1
  <2> QED
    BY <2>4, <2>6, <2>7, <2>8 DEF SlotInv, Ends
<1> QED
  BY <1>4, <1>6, <1>7 DEF UserInv

\* The close of a file that has no slot any more.
LEMMA EndsForgotten ==
  ASSUME IInv, NEW f, Ends(f), op[f] = "close", file[f].slot = 0,
         slot' = slot, Unbind(f), dev'.users = dev.users
  PROVE  UserInv'
<1> DEFINE x == [gen |-> 0, slot |-> 0]
<1>t. /\ slot \in [Slots -> [used : BOOLEAN, mode : {"INV", "MON", "PLAY"}]]
      /\ file \in [Files -> [gen : 0 .. MaxGen, slot : 0 .. MaxOpens]]
      /\ f \in Files
  BY DEF IInv, TypeOK, Ends
<1>2. file' = [file EXCEPT ![f] = x]
  BY DEF Unbind
<1>3. x \in [gen : 0 .. MaxGen, slot : 0 .. MaxOpens] /\ x.gen = 0 /\ x.slot = 0
  BY BoundAssumption
<1> HIDE DEF x
<1>4. UserTypes'
  BY <1>2, <1>3, <1>t DEF UserTypes
<1>5. \A g \in Files : file'[g] = IF g = f THEN x ELSE file[g]
  BY <1>2, <1>t
<1>6. BindingInv'
  <2>1. ASSUME NEW g \in Files
        PROVE  /\ file'[g].gen <= gen
               /\ file'[g].gen = 0 => file'[g].slot = 0
               /\ g # f => file'[g] = file[g]
    <3>1. file[g].gen <= gen /\ (file[g].gen = 0 => file[g].slot = 0)
      BY DEF IInv, BindingInv
    <3> QED
      BY <1>3, <1>5, <3>1, EndsFacts
  <2> QED
    BY <2>1, EndsBinding
<1>7. SlotInv'
  <2>1. dev'.users = Cardinality({s \in Slots : slot'[s].used})
    BY EndsFacts DEF IInv, SlotInv
  <2>2. \A g \in Files : file'[g].gen = gen /\ file'[g].slot # 0
            => slot'[file'[g].slot].used
    BY <1>3, <1>5, EndsFacts DEF IInv, SlotInv
  <2>3. \A g, h \in Files :
          (/\ file'[g].gen = gen /\ file'[h].gen = gen
           /\ file'[g].slot = file'[h].slot /\ file'[g].slot # 0) => g = h
    BY <1>3, <1>5, EndsFacts DEF IInv, SlotInv
  <2>4. \A s \in Slots : slot'[s].used =>
          \E g \in Files : file'[g].gen = gen /\ file'[g].slot = s
    <3>1. ASSUME NEW s \in Slots, slot[s].used
          PROVE  \E g \in Files : file'[g].gen = gen /\ file'[g].slot = s
      <4>1. PICK g \in Files : file[g].gen = gen /\ file[g].slot = s
        BY <3>1, EndsFacts DEF IInv, SlotInv
      <4>2. g # f
        BY <3>1, <4>1, BoundAssumption DEF Slots
      <4> QED
        BY <1>5, <4>1, <4>2
    <3> QED
      BY <3>1
  <2> QED
    BY <2>1, <2>2, <2>3, <2>4 DEF SlotInv, Ends
<1> QED
  BY <1>4, <1>6, <1>7 DEF UserInv

-----------------------------------------------------------------------------
(* Operations of the legacy files.                                         *)

\* What an operation under the user lock may do to the adapter.
Turn(d, e) ==
    /\ e \in Adapter /\ DevOK(e)
    /\ e.bound = d.bound /\ e.quar = d.quar /\ e.susp = d.susp
    /\ e.present => d.present
    /\ \/ Kept(d, e)
       \/ Dropped(d, e)
       \/ /\ d.life = NONE /\ e.put = NONE /\ e.life = NONE
          /\ e.owner \notin Leases

\* The identity, and one more user.
LEMMA TurnRefl ==
  ASSUME NEW d \in Adapter, DevOK(d) PROVE Turn(d, d)
  BY DEF Turn, Kept

LEMMA UserAdded ==
  ASSUME NEW d \in Adapter, DevOK(d), d.users < MaxOpens
  PROVE  LET e == [d EXCEPT !.users = @ + 1] IN
         /\ e \in Adapter /\ DevOK(e) /\ Kept(d, e) /\ e.users = d.users + 1
         /\ e.bound = d.bound /\ e.quar = d.quar /\ e.susp = d.susp
         /\ e.present = d.present
<1> DEFINE n == d.users + 1
           e == [d EXCEPT !.users = n]
<1>1. n \in 0 .. MaxOpens
  BY BoundAssumption DEF Adapter
<1> HIDE DEF n
<1>2. e \in Adapter
  BY <1>1 DEF Adapter
<1>3. /\ SameSession(d, e) /\ e.users = n /\ e.bound = d.bound
      /\ e.quar = d.quar /\ e.susp = d.susp /\ e.present = d.present
      /\ e.cmdsAdp = d.cmdsAdp /\ e.quiesced = d.quiesced
      /\ e.l0s = d.l0s /\ e.busy = d.busy /\ e.master = d.master
  BY DEF SameSession, Kept, Adapter
<1>4. e = [d EXCEPT !.users = @ + 1]
  BY DEF n
<1> HIDE DEF e
<1>5. DevOK(e)
  BY <1>3 DEF DevOK, SameSession, Kept
<1> QED
  BY <1>2, <1>3, <1>4, <1>5 DEF n, SameSession

\* The rest of the invariant after an operation ended.
LEMMA EndsRest ==
  ASSUME IInv, NEW f, Ends(f), ~dev.susp, dev.put = NONE, Turn(dev, dev'),
         input' \in [Files -> BOOLEAN], pci' = pci, mod' = mod,
         lease' \in [Leases -> LeaseType], Fit(lease', dev'), UserInv'
  PROVE  IInv'
<1>1. TypeOK'
  <2>1. op' \in [Files -> Kinds \cup {"none"}]
    BY DEF Ends, IInv, TypeOK
  <2> QED
    BY <2>1 DEF IInv, TypeOK, Turn, UserInv, UserTypes, Ends
<1>2. PciInv'
  <2>1. dev'.owner \in Leases => dev'.life = dev'.owner
    BY IdentityAssumption DEF Turn, Kept, Dropped, IInv, PciInv
  <2> QED
    BY <2>1, EndsFacts DEF IInv, PciInv, Turn
<1>3. ModInv'
  BY EndsFacts DEF ModInv
<1>4. LeaseInv'
  BY DEF Fit, LeaseInv, Ends
<1> QED
  BY <1>1, <1>2, <1>3, <1>4 DEF IInv, Turn, UserInv

\* The end of an operation under the exclusive user lock.
LEMMA ExclusiveEnds ==
  ASSUME IInv, NEW f \in Files, Exclusive(f), dev'.bound = dev.bound
  PROVE  /\ Ends(f) /\ ~dev.susp /\ dev.put = NONE
         /\ input' \in [Files -> BOOLEAN] /\ pci' = pci /\ mod' = mod
         /\ lease' = Adopted(dev')
<1>1. gate # NONE /\ gate = f
  BY IdentityAssumption DEF Exclusive
<1>2. op[f] # "none"
  BY <1>1 DEF IInv, BindingInv
<1> QED
  BY <1>2 DEF Exclusive, Ends, IInv, TypeOK

LEMMA ExclusiveKeeps ==
  ASSUME IInv, NEW f \in Files, Exclusive(f), Turn(dev, dev'), UserInv'
  PROVE  IInv'
<1>0. dev'.bound = dev.bound
  BY DEF Turn
<1>1. /\ Ends(f) /\ ~dev.susp /\ dev.put = NONE
      /\ input' \in [Files -> BOOLEAN] /\ pci' = pci /\ mod' = mod
      /\ lease' = Adopted(dev')
  BY <1>0, ExclusiveEnds
<1>2. TypeOK /\ LeaseInv
  BY DEF IInv
<1>3. Fit(Adopted(dev'), dev')
  <2>1. CASE Kept(dev, dev')
    BY <1>1, <1>2, <2>1, AdoptedFits
  <2>2. CASE Dropped(dev, dev')
    BY <1>1, <1>2, <2>2, AdoptedFits
  <2>3. CASE dev.life = NONE /\ dev'.put = NONE /\ dev'.life = NONE
    BY <1>1, <1>2, <2>3, AdoptedFits
  <2> QED
    BY <2>1, <2>2, <2>3 DEF Turn
<1>4. Fit(lease', dev') /\ lease' \in [Leases -> LeaseType]
  BY <1>1, <1>3 DEF Fit
<1> QED
  BY <1>1, <1>4, EndsRest

\* The slot of an operation.
LEMMA OpSlot ==
  ASSUME IInv, NEW f \in Files, op[f] \notin {"none", "open", "close"}
  PROVE  file[f].slot \in Slots /\ file[f].slot # 0
  BY BoundAssumption DEF IInv, BindingInv, TypeOK, Slots

\* A mode is not an allocation.
LEMMA ModeSet ==
  ASSUME IInv, NEW s \in Slots, NEW m \in {"INV", "MON", "PLAY"},
         slot' = [slot EXCEPT ![s].mode = m]
  PROVE  /\ slot' \in [Slots -> [used : BOOLEAN, mode : {"INV", "MON", "PLAY"}]]
         /\ \A t \in Slots : slot'[t].used = slot[t].used
<1>1. slot \in [Slots -> [used : BOOLEAN, mode : {"INV", "MON", "PLAY"}]]
  BY DEF IInv, TypeOK
<1> QED
  BY <1>1

LEMMA SlotKept ==
  ASSUME IInv, slot' = slot
  PROVE  /\ slot' \in [Slots -> [used : BOOLEAN, mode : {"INV", "MON", "PLAY"}]]
         /\ \A t \in Slots : slot'[t].used = slot[t].used
  BY DEF IInv, TypeOK

\* One lemma per operation: it keeps the inductive invariant.
LEMMA KeepsOpen ==
  ASSUME IInv, NEW f \in Files, OpenBody(f)
  PROVE  IInv'
<1>0. dev \in Adapter /\ DevOK(dev) /\ dev.present
  BY DEF IInv, TypeOK, OpenBody
<1>1. PICK r \in crystalhd_ensure_hw_context(dev) :
          \/ r.ok /\ dev' = [r.d EXCEPT !.users = @ + 1] /\ BindSlot(f)
          \/ ~r.ok /\ dev' = r.d /\ UNCHANGED <<slot, file>>
  BY DEF OpenBody
<1>2. Sound(dev, r.d) /\ Kept(dev, r.d)
  BY <1>0, <1>1, EnsureHw
<1>3. Exclusive(f) /\ SlotAvailable /\ op[f] = "open"
  BY DEF OpenBody
<1>4. CASE r.ok
  <2>1. r.d \in Adapter /\ DevOK(r.d) /\ r.d.users = dev.users /\ dev.users < MaxOpens
    BY <1>2, <1>3 DEF Sound, SameFrame, SlotAvailable
  <2>2. dev' = [r.d EXCEPT !.users = @ + 1] /\ BindSlot(f)
    BY <1>1, <1>4
  <2>3. /\ dev' \in Adapter /\ DevOK(dev') /\ Kept(r.d, dev')
        /\ dev'.users = r.d.users + 1
        /\ dev'.bound = r.d.bound /\ dev'.quar = r.d.quar /\ dev'.susp = r.d.susp
        /\ dev'.present = r.d.present
    BY <2>1, <2>2, UserAdded
  <2>4. Turn(dev, dev') /\ dev'.users = dev.users + 1
    BY <1>2, <2>1, <2>3 DEF Turn, Sound, SameFrame, Kept
  <2>5. Ends(f)
    BY <1>3, <2>4, ExclusiveEnds DEF Turn
  <2>6. UserInv'
    BY <1>3, <2>2, <2>4, <2>5, EndsBound
  <2> QED
    BY <1>3, <2>4, <2>6, ExclusiveKeeps
<1>5. CASE ~r.ok
  <2>1. dev' = r.d /\ slot' = slot /\ file' = file
    BY <1>1, <1>5
  <2>2. Turn(dev, dev') /\ dev'.users = dev.users
    BY <1>2, <2>1 DEF Turn, Sound, SameFrame
  <2>3. Ends(f)
    BY <1>3, <2>2, ExclusiveEnds DEF Turn
  <2>4. UserInv'
    BY <2>1, <2>2, <2>3, SlotKept, EndsPlain
  <2> QED
    BY <1>3, <2>2, <2>4, ExclusiveKeeps
<1> QED
  BY <1>4, <1>5

LEMMA KeepsMonitor ==
  ASSUME IInv, NEW f \in Files, MonitorBody(f)
  PROVE  IInv'
<1>0. dev \in Adapter /\ DevOK(dev)
  BY DEF IInv, TypeOK
<1>1. /\ Exclusive(f) /\ dev' = dev /\ file' = file /\ op[f] = "monitor"
      /\ slot' = [slot EXCEPT ![file[f].slot].mode = "MON"]
  BY DEF MonitorBody
<1>2. Turn(dev, dev') /\ dev'.users = dev.users
  BY <1>0, <1>1, TurnRefl
<1>3. file[f].slot \in Slots
  BY <1>1, OpSlot
<1>4. Ends(f)
  BY <1>1, ExclusiveEnds
<1>5. UserInv'
  BY <1>1, <1>3, <1>4, ModeSet, EndsPlain
<1> QED
  BY <1>1, <1>2, <1>5, ExclusiveKeeps

LEMMA KeepsPlay ==
  ASSUME IInv, NEW f \in Files, PlayBody(f)
  PROVE  IInv'
<1> DEFINE s == file[f].slot
<1>0. dev \in Adapter /\ DevOK(dev) /\ dev.present
  BY DEF IInv, TypeOK, PlayBody
<1>1. Exclusive(f) /\ file' = file /\ op[f] = "play"
  BY DEF PlayBody
<1>a. dev.put = NONE
  BY <1>1 DEF Exclusive
<1>2. PICK r \in UNION {IF a.ok THEN crystalhd_session_acquire_locked(a.d, s) ELSE {a} :
                           a \in crystalhd_ensure_hw_context(dev)} :
        dev' = r.d /\ slot' = IF r.ok THEN [slot EXCEPT ![s].mode = "PLAY"] ELSE slot
  BY DEF PlayBody, Then
<1>3. PICK a \in crystalhd_ensure_hw_context(dev) :
        r \in IF a.ok THEN crystalhd_session_acquire_locked(a.d, s) ELSE {a}
  BY <1>2
<1>4. s \in Slots
  BY <1>1, OpSlot
<1>5. Sound(dev, a.d) /\ Kept(dev, a.d) /\ a.d.present
  BY <1>0, <1>3, EnsureHw
<1> HIDE DEF s
<1>6. Turn(dev, dev') /\ dev'.users = dev.users
  <2>1. CASE ~a.ok
    <3>1. r = a
      BY <1>3, <2>1
    <3> QED
      BY <1>2, <1>5, <3>1 DEF Turn, Sound, SameFrame
  <2>2. CASE a.ok
    <3>1. a.d \in Adapter /\ DevOK(a.d) /\ a.d.put = NONE /\ s \in Slots \cup Leases
      BY <1>4, <1>5, <1>a DEF Sound, Kept
    <3>2. r \in crystalhd_session_acquire_locked(a.d, s)
      BY <1>3, <2>2
    <3>3. \/ r.d = a.d /\ ~r.ok
          \/ /\ a.d.owner = NONE /\ ~a.d.pinned /\ a.d.life = NONE /\ mod = "live"
             /\ Sound(a.d, r.d) /\ r.d.life = NONE /\ r.d.put = NONE
             /\ r.d.owner \in {NONE, s}
      BY <1>5, <3>1, <3>2, Acquire
    <3>4. CASE r.d = a.d
      BY <1>2, <1>5, <3>4 DEF Turn, Sound, SameFrame
    <3>5. CASE r.d # a.d
      <4>1. Sound(dev, r.d)
        BY <1>5, <3>3, <3>5, SoundCompose
      <4>2. r.d.owner \notin Leases
        BY <1>4, <3>3, <3>5, IdentityAssumption DEF Slots
      <4> QED
        BY <1>2, <1>5, <3>3, <3>5, <4>1, <4>2 DEF Turn, Sound, SameFrame, Kept
    <3> QED
      BY <3>4, <3>5
  <2> QED
    BY <2>1, <2>2
<1>7. Ends(f)
  BY <1>1, <1>6, ExclusiveEnds DEF Turn
<1>8. /\ slot' \in [Slots -> [used : BOOLEAN, mode : {"INV", "MON", "PLAY"}]]
      /\ \A t \in Slots : slot'[t].used = slot[t].used
  <2>1. CASE r.ok
    BY <1>2, <1>4, <2>1, ModeSet
  <2>2. CASE ~r.ok
    BY <1>2, <2>2, SlotKept
  <2> QED
    BY <2>1, <2>2
<1>9. UserInv'
  BY <1>1, <1>6, <1>7, <1>8, EndsPlain
<1> QED
  BY <1>1, <1>6, <1>9, ExclusiveKeeps

LEMMA KeepsDownload ==
  ASSUME IInv, NEW f \in Files, DownloadBody(f)
  PROVE  IInv'
<1>0. dev \in Adapter /\ DevOK(dev)
  BY DEF IInv, TypeOK
<1>1. Exclusive(f) /\ file' = file /\ slot' = slot
  BY DEF DownloadBody
<1>2. PICK r \in crystalhd_fw_download_locked(dev, file[f].slot) : dev' = r.d
  BY DEF DownloadBody
<1>3. Sound(dev, r.d) /\ Kept(dev, r.d)
  BY <1>0, <1>2, Download
<1>4. Turn(dev, dev') /\ dev'.users = dev.users
  BY <1>2, <1>3 DEF Turn, Sound, SameFrame
<1>5. Ends(f)
  BY <1>1, <1>4, ExclusiveEnds DEF Turn
<1>6. UserInv'
  BY <1>1, <1>4, <1>5, SlotKept, EndsPlain
<1> QED
  BY <1>1, <1>4, <1>6, ExclusiveKeeps

\* The adapter after a user was closed.
LEMMA CloseTurns ==
  ASSUME IInv, dev.put = NONE, dev.present, NEW s, dev' \in crystalhd_user_close(s)
  PROVE  /\ Turn(dev, dev')
         /\ dev'.users = IF dev.users > 0 THEN dev.users - 1 ELSE 0
<1>1. dev \in Adapter /\ DevOK(dev) /\ ~dev.quar
  BY DEF IInv, TypeOK, DevOK
<1> QED
  BY <1>1, UserClose DEF Turn

\* The same for a device that is gone.
LEMMA DropTurns ==
  ASSUME IInv, dev' = DropUser(dev)
  PROVE  /\ Turn(dev, dev')
         /\ dev'.users = IF dev.users > 0 THEN dev.users - 1 ELSE 0
<1>1. dev \in Adapter /\ DevOK(dev)
  BY DEF IInv, TypeOK, DevOK
<1> QED
  BY <1>1, UserDropped DEF Turn, SameSession

LEMMA KeepsRelease ==
  ASSUME IInv, NEW f \in Files, ReleaseBody(f)
  PROVE  IInv'
<1>1. /\ Exclusive(f) /\ op[f] = "release" /\ dev.present /\ Unbind(f)
      /\ slot' = [slot EXCEPT ![file[f].slot] = FreeSlot]
      /\ dev' \in crystalhd_user_close(file[f].slot)
  BY DEF ReleaseBody
<1>2. dev.put = NONE
  BY <1>1 DEF Exclusive
<1>3. /\ Turn(dev, dev')
      /\ dev'.users = IF dev.users > 0 THEN dev.users - 1 ELSE 0
  BY <1>1, <1>2, CloseTurns
<1>4. Ends(f)
  BY <1>1, <1>3, ExclusiveEnds DEF Turn
<1>5. file[f].slot # 0
  BY <1>1, OpSlot
<1>6. UserInv'
  BY <1>1, <1>3, <1>4, <1>5, EndsFreed
<1> QED
  BY <1>1, <1>3, <1>6, ExclusiveKeeps

LEMMA KeepsClose ==
  ASSUME IInv, NEW f \in Files, CloseBody(f)
  PROVE  IInv'
<1>1. /\ Exclusive(f) /\ op[f] = "close" /\ Unbind(f)
      /\ slot' = IF file[f].slot = 0 THEN slot
                 ELSE [slot EXCEPT ![file[f].slot] = FreeSlot]
      /\ dev' \in IF file[f].slot = 0 THEN {dev}
                  ELSE IF dev.present THEN crystalhd_user_close(file[f].slot)
                  ELSE {DropUser(dev)}
  BY DEF CloseBody
<1>2. dev.put = NONE
  BY <1>1 DEF Exclusive
<1>3. CASE file[f].slot = 0
  <2>1. dev' = dev /\ slot' = slot
    BY <1>1, <1>3
  <2>2. Turn(dev, dev')
    BY <2>1, TurnRefl DEF IInv, TypeOK
  <2>3. Ends(f)
    BY <1>1, <2>1, ExclusiveEnds
  <2>4. UserInv'
    BY <1>1, <1>3, <2>1, <2>3, EndsForgotten
  <2> QED
    BY <1>1, <2>2, <2>4, ExclusiveKeeps
<1>4. CASE file[f].slot # 0
  <2>1. /\ Turn(dev, dev')
        /\ dev'.users = IF dev.users > 0 THEN dev.users - 1 ELSE 0
    <3>1. CASE dev.present
      BY <1>1, <1>2, <1>4, <3>1, CloseTurns
    <3>2. CASE ~dev.present
      <4>1. dev' = DropUser(dev)
        BY <1>1, <1>4, <3>2
      <4> QED
        BY <4>1, DropTurns
    <3> QED
      BY <3>1, <3>2
  <2>3. Ends(f)
    BY <1>1, <2>1, ExclusiveEnds DEF Turn
  <2>4. UserInv'
    BY <1>1, <1>4, <2>1, <2>3, EndsFreed
  <2> QED
    BY <1>1, <2>1, <2>4, ExclusiveKeeps
<1> QED
  BY <1>3, <1>4

LEMMA KeepsRefused ==
  ASSUME IInv, NEW f \in Files, RefusedBody(f)
  PROVE  IInv'
<1>1. Exclusive(f) /\ dev' = dev /\ file' = file /\ slot' = slot
  BY DEF RefusedBody
<1>2. Turn(dev, dev') /\ dev'.users = dev.users
  BY <1>1, TurnRefl DEF IInv, TypeOK
<1>3. Ends(f)
  BY <1>1, ExclusiveEnds
<1>4. UserInv'
  BY <1>1, <1>3, SlotKept, EndsPlain
<1> QED
  BY <1>1, <1>2, <1>4, ExclusiveKeeps

LEMMA KeepsNative ==
  ASSUME IInv, NEW f \in Files, NativeBody(f)
  PROVE  IInv'
<1> DEFINE s == file[f].slot
<1>0. dev \in Adapter /\ DevOK(dev)
  BY DEF IInv, TypeOK
<1>1. /\ op[f] # "none" /\ ~dev.susp /\ gate = NONE /\ dev.put = NONE
      /\ op' = [op EXCEPT ![f] = "none"] /\ gate' = NONE /\ gen' = gen
      /\ input' = input /\ lease' = lease /\ pci' = pci /\ mod' = mod
  BY DEF NativeBody, GateOpen
<1>2. Turn(dev, dev') /\ Kept(dev, dev') /\ UserInv'
  <2>1. CASE /\ op[f] = "open" /\ SlotAvailable /\ BindSlot(f)
             /\ dev' = [dev EXCEPT !.users = @ + 1]
    <3>1. /\ dev' \in Adapter /\ DevOK(dev') /\ Kept(dev, dev')
          /\ dev'.users = dev.users + 1
          /\ dev'.bound = dev.bound /\ dev'.quar = dev.quar /\ dev'.susp = dev.susp
          /\ dev'.present = dev.present
      BY <1>0, <2>1, UserAdded DEF SlotAvailable
    <3>2. Ends(f)
      BY <1>1, <3>1 DEF Ends
    <3>3. UserInv'
      BY <2>1, <3>1, <3>2, EndsBound
    <3> QED
      BY <3>1, <3>3 DEF Turn
  <2>2. CASE /\ op[f] = "monitor" /\ slot' = [slot EXCEPT ![s].mode = "MON"]
             /\ dev' = dev /\ file' = file
    <3>1. Turn(dev, dev') /\ Kept(dev, dev')
      BY <1>0, <2>2, TurnRefl DEF Kept
    <3>2. Ends(f)
      BY <1>1, <2>2 DEF Ends
    <3>3. s \in Slots
      BY <2>2, OpSlot
    <3>4. UserInv'
      BY <2>2, <3>2, <3>3, ModeSet, EndsPlain
    <3> QED
      BY <3>1, <3>4
  <2>3. CASE /\ op[f] = "release" \/ (op[f] = "close" /\ s # 0)
             /\ slot' = [slot EXCEPT ![s] = FreeSlot]
             /\ Unbind(f) /\ dev' = DropUser(dev)
    <3>1. /\ Turn(dev, dev') /\ Kept(dev, dev')
          /\ dev'.users = IF dev.users > 0 THEN dev.users - 1 ELSE 0
      BY <1>0, <2>3, DropTurns, UserDropped DEF SameSession
    <3>2. Ends(f)
      BY <1>1, <3>1 DEF Ends, Turn
    <3>3. s # 0
      BY <2>3, OpSlot
    <3>4. UserInv'
      BY <2>3, <3>1, <3>2, <3>3, EndsFreed
    <3> QED
      BY <3>1, <3>4
  <2>4. CASE op[f] = "close" /\ s = 0 /\ Unbind(f) /\ dev' = dev /\ slot' = slot
    <3>1. Turn(dev, dev') /\ Kept(dev, dev')
      BY <1>0, <2>4, TurnRefl DEF Kept
    <3>2. Ends(f)
      BY <1>1, <2>4 DEF Ends
    <3>4. UserInv'
      BY <2>4, <3>2, EndsForgotten
    <3> QED
      BY <3>1, <3>4
  <2>5. CASE dev' = dev /\ slot' = slot /\ file' = file
    <3>1. Turn(dev, dev') /\ Kept(dev, dev')
      BY <1>0, <2>5, TurnRefl DEF Kept
    <3>2. Ends(f)
      BY <1>1, <2>5 DEF Ends
    <3>4. UserInv'
      BY <2>5, <3>2, SlotKept, EndsPlain
    <3> QED
      BY <3>1, <3>4
  <2> QED
    BY <2>1, <2>2, <2>3, <2>4, <2>5 DEF NativeBody
<1>3. Ends(f)
  BY <1>1, <1>2 DEF Ends, Turn
<1>4. Fit(lease', dev') /\ lease' \in [Leases -> LeaseType]
  BY <1>1, <1>2 DEF Fit, IInv, LeaseInv, TypeOK, Kept
<1>5. input' \in [Files -> BOOLEAN]
  BY <1>1 DEF IInv, TypeOK
<1> QED
  BY <1>1, <1>2, <1>3, <1>4, <1>5, EndsRest

LEMMA KeepsReceive ==
  ASSUME IInv, NEW f \in Files, ReceiveBody(f)
  PROVE  IInv'
<1>1. /\ op[f] # "none" /\ ~dev.susp /\ gate = NONE /\ dev.put = NONE
      /\ op' = [op EXCEPT ![f] = "none"] /\ gate' = NONE /\ gen' = gen
      /\ lease' = lease /\ pci' = pci /\ mod' = mod
      /\ dev' = dev /\ slot' = slot /\ file' = file
  BY DEF ReceiveBody, GateOpen
<1>2. input' \in [Files -> BOOLEAN]
  BY DEF ReceiveBody, IInv, TypeOK
<1>3. Turn(dev, dev') /\ Kept(dev, dev')
  BY <1>1, TurnRefl DEF Kept, IInv, TypeOK
<1>4. Ends(f)
  BY <1>1 DEF Ends
<1>5. UserInv'
  BY <1>1, <1>4, SlotKept, EndsPlain
<1>6. Fit(lease', dev') /\ lease' \in [Leases -> LeaseType]
  BY <1>1 DEF Fit, IInv, LeaseInv, TypeOK
<1> QED
  BY <1>1, <1>2, <1>3, <1>4, <1>5, <1>6, EndsRest

\* The start of an operation, stale closes, the gate and the input thread.
LEMMA KeepsBegin ==
  ASSUME IInv, NEW f \in Files, NEW k \in Kinds, LegacyBegin(f, k)
  PROVE  IInv'
<1>1. /\ op[f] = "none" /\ pci = "idle" /\ dev.bound /\ mod = "live"
      /\ k = "open" => file[f].gen = 0
      /\ k # "open" => file[f].gen = gen
      /\ k \notin {"open", "close"} => file[f].slot # 0
      /\ op' = [op EXCEPT ![f] = k]
      /\ UNCHANGED <<dev, gen, slot, file, input, gate, lease, pci, mod>>
  <2>1. /\ op[f] = "none" /\ pci = "idle"
        /\ op' = [op EXCEPT ![f] = k]
        /\ UNCHANGED <<dev, gen, slot, file, input, gate, lease, pci, mod>>
    BY DEF LegacyBegin, DeviceReadable
  <2>2. CASE k = "open"
    BY <2>1, <2>2 DEF LegacyBegin
  <2>3. CASE k = "close"
    BY <2>1, <2>3 DEF LegacyBegin, Bound, IInv, ModInv
  <2>4. CASE k \notin {"open", "close"}
    <3>1. Bound(f) /\ file[f].slot # 0
      BY <2>4 DEF LegacyBegin
    <3> QED
      BY <2>1, <2>4, <3>1 DEF Bound, IInv, ModInv
  <2> QED
    BY <2>2, <2>3, <2>4
<1>2. op' \in [Files -> Kinds \cup {"none"}]
  BY <1>1 DEF IInv, TypeOK
<1>3. \A g \in Files : op'[g] = IF g = f THEN k ELSE op[g]
  BY <1>1 DEF IInv, TypeOK
<1>4. k # "none"
  BY DEF Kinds
<1>5. TypeOK' /\ DevOK(dev)'
  BY <1>1, <1>2 DEF IInv, TypeOK
<1>6. PciInv' /\ ModInv' /\ SlotInv' /\ LeaseInv'
  BY <1>1 DEF IInv, PciInv, ModInv, SlotInv, LeaseInv
<1>7. BindingInv'
  <2>1. gate' # NONE => op'[gate'] # "none"
    BY <1>1, <1>3, <1>4 DEF IInv, BindingInv, TypeOK
  <2>2. ASSUME NEW g \in Files
        PROVE  /\ op'[g] # "none" => dev.bound
               /\ op'[g] = "open" => file[g].gen = 0
               /\ op'[g] \notin {"none", "open"} => file[g].gen = gen
               /\ op'[g] \notin {"none", "open", "close"} => file[g].slot # 0
    <3>1. CASE g = f
      BY <1>1, <1>3, <3>1
    <3>2. CASE g # f
      BY <1>1, <1>3, <3>2 DEF IInv, BindingInv
    <3> QED
      BY <3>1, <3>2
  <2>3. /\ dev.bound \/ dev.v4l2 => gen > 0
        /\ \A g \in Files : file[g].gen <= gen /\ (file[g].gen = 0 => file[g].slot = 0)
    BY DEF IInv, BindingInv
  <2>4. dev' = dev /\ gen' = gen /\ file' = file
    BY <1>1
  <2> QED
    BY <2>1, <2>2, <2>3, <2>4 DEF BindingInv
<1> QED
  BY <1>5, <1>6, <1>7 DEF IInv

LEMMA KeepsCloseStale ==
  ASSUME IInv, NEW f \in Files, CloseStale(f)
  PROVE  IInv'
<1> DEFINE x == [gen |-> 0, slot |-> 0]
<1>1. /\ op[f] = "none" /\ ~Bound(f) /\ file[f].gen > 0
      /\ file' = [file EXCEPT ![f] = x]
      /\ UNCHANGED <<dev, gen, slot, op, input, gate, lease, pci, mod>>
  BY DEF CloseStale
<1>2. x \in [gen : 0 .. MaxGen, slot : 0 .. MaxOpens] /\ x.gen = 0 /\ x.slot = 0
  BY BoundAssumption
<1> HIDE DEF x
<1>3. file \in [Files -> [gen : 0 .. MaxGen, slot : 0 .. MaxOpens]]
  BY DEF IInv, TypeOK
<1>4. file' \in [Files -> [gen : 0 .. MaxGen, slot : 0 .. MaxOpens]]
  BY <1>1, <1>2, <1>3
<1>5. \A g \in Files : file'[g] = IF g = f THEN x ELSE file[g]
  BY <1>1, <1>3
<1>6. TypeOK' /\ DevOK(dev)' /\ PciInv' /\ LeaseInv'
  BY <1>1, <1>4 DEF IInv, TypeOK, PciInv, LeaseInv
<1>7. ModInv'
  BY <1>1, <1>2, <1>5 DEF IInv, ModInv
<1>8. BindingInv'
  <2>1. ASSUME NEW g \in Files
        PROVE  /\ file'[g].gen <= gen
               /\ file'[g].gen = 0 => file'[g].slot = 0
               /\ op[g] = "open" => file'[g].gen = 0
               /\ op[g] \notin {"none", "open"} => file'[g].gen = gen
               /\ op[g] \notin {"none", "open", "close"} => file'[g].slot # 0
    <3>1. CASE g = f
      <4>1. gen \in Nat
        BY BoundAssumption DEF IInv, TypeOK
      <4> QED
        BY <1>1, <1>2, <1>5, <3>1, <4>1
    <3>2. CASE g # f
      BY <1>5, <3>2 DEF IInv, BindingInv
    <3> QED
      BY <3>1, <3>2
  <2> QED
    BY <1>1, <2>1 DEF IInv, BindingInv
<1>9. SlotInv'
  <2> SUFFICES ASSUME dev.bound PROVE SlotInv'
    BY <1>1 DEF SlotInv
  <2>0. gen > 0 /\ file[f].gen # gen
    BY <1>1 DEF Bound, IInv, BindingInv
  <2>1. dev.users = Cardinality({s \in Slots : slot[s].used})
    BY DEF IInv, SlotInv
  <2>2. \A g \in Files : file'[g].gen = gen => g # f /\ file'[g] = file[g]
    BY <1>2, <1>5, <2>0
  <2>3. \A g \in Files : file'[g].gen = gen /\ file'[g].slot # 0
            => slot[file'[g].slot].used
    BY <2>2 DEF IInv, SlotInv
  <2>4. \A g, h \in Files :
          (/\ file'[g].gen = gen /\ file'[h].gen = gen
           /\ file'[g].slot = file'[h].slot /\ file'[g].slot # 0) => g = h
    BY <2>2 DEF IInv, SlotInv
  <2>5. \A s \in Slots : slot[s].used =>
          \E g \in Files : file'[g].gen = gen /\ file'[g].slot = s
    <3>1. ASSUME NEW s \in Slots, slot[s].used
          PROVE  \E g \in Files : file'[g].gen = gen /\ file'[g].slot = s
      <4>1. PICK g \in Files : file[g].gen = gen /\ file[g].slot = s
        BY <3>1 DEF IInv, SlotInv
      <4> QED
        BY <1>5, <2>0, <4>1
    <3> QED
      BY <3>1
  <2> QED
    BY <1>1, <2>1, <2>3, <2>4, <2>5 DEF SlotInv
<1> QED
  BY <1>6, <1>7, <1>8, <1>9 DEF IInv

LEMMA KeepsUpgrade ==
  ASSUME IInv, NEW f \in Files, LegacyUpgrade(f)
  PROVE  IInv'
<1>1. /\ op[f] # "none" /\ gate' = f
      /\ UNCHANGED <<dev, gen, slot, file, op, input, lease, pci, mod>>
  BY DEF LegacyUpgrade, GateOpen
<1>2. TypeOK' /\ DevOK(dev)' /\ PciInv' /\ ModInv' /\ SlotInv' /\ LeaseInv'
  BY <1>1 DEF IInv, TypeOK, PciInv, ModInv, SlotInv, LeaseInv
<1>3. BindingInv'
  BY <1>1 DEF IInv, BindingInv
<1> QED
  BY <1>2, <1>3 DEF IInv

\* A step that leaves the files alone and keeps the session's owners.
LEMMA QuietKeeps ==
  ASSUME IInv, UNCHANGED <<gen, slot, file, op, gate, pci, mod>>,
         input' \in [Files -> BOOLEAN],
         dev' \in Adapter, DevOK(dev'), dev'.bound = dev.bound, dev'.v4l2 = dev.v4l2,
         dev'.quar = dev.quar, dev'.susp = dev.susp, dev'.users = dev.users,
         dev'.present => dev.present, dev'.susp => dev'.present /\ ~dev'.access,
         dev'.owner \in Leases => dev'.life = dev'.owner,
         mod # "live" => ~dev'.pinned,
         pci = "removed" /\ ~dev.quar => ~dev'.pinned /\ ~dev'.hw,
         Fit(lease', dev'),
         mod # "live" => \A l \in Leases : lease'[l].refs = 0
  PROVE  IInv'
<1>1. TypeOK'
  BY DEF IInv, TypeOK, Fit
<1>2. PciInv'
  BY DEF IInv, PciInv
<1>3. ModInv'
  BY DEF IInv, ModInv
<1>4. BindingInv'
  BY DEF IInv, BindingInv
<1>5. SlotInv'
  BY DEF IInv, SlotInv
<1>6. LeaseInv'
  BY DEF Fit, LeaseInv
<1> QED
  BY <1>1, <1>2, <1>3, <1>4, <1>5, <1>6 DEF IInv

\* The leases of the inductive invariant.
LEMMA LeasesFit ==
  ASSUME IInv
  PROVE  Fit(lease, dev) /\ (mod # "live" => \A l \in Leases : lease[l].refs = 0)
  BY DEF IInv, TypeOK, LeaseInv, Fit, ModInv

\* The adapter's step alone: the leases stay.
LEMMA DeviceKeeps ==
  ASSUME IInv, UNCHANGED <<gen, slot, file, op, gate, lease, pci, mod>>,
         input' \in [Files -> BOOLEAN], Kept(dev, dev'),
         dev' \in Adapter, DevOK(dev'), dev'.bound = dev.bound, dev'.v4l2 = dev.v4l2,
         dev'.quar = dev.quar, dev'.susp = dev.susp, dev'.users = dev.users,
         dev'.present => dev.present, dev'.susp => dev'.present /\ ~dev'.access,
         dev'.hw => dev.hw \/ pci = "idle"
  PROVE  IInv'
<1>1. Fit(lease', dev') /\ (mod # "live" => \A l \in Leases : lease'[l].refs = 0)
  BY LeasesFit DEF Fit, Kept
<1>2. /\ dev'.owner \in Leases => dev'.life = dev'.owner
      /\ mod # "live" => ~dev'.pinned
      /\ pci = "removed" /\ ~dev.quar => ~dev'.pinned /\ ~dev'.hw
  BY DEF Kept, IInv, PciInv, ModInv
<1> QED
  BY <1>1, <1>2, QuietKeeps

\* The leases' step alone: the adapter stays.
LEMMA LeaseKeeps ==
  ASSUME IInv, UNCHANGED <<dev, gen, userVars, pci, mod>>, Fit(lease', dev),
         mod # "live" => \A l \in Leases : lease'[l].refs = 0
  PROVE  IInv'
<1>1. UNCHANGED <<dev, gen, slot, file, op, input, gate, pci, mod>>
  BY DEF userVars
<1>2. TypeOK'
  BY <1>1 DEF IInv, TypeOK, Fit
<1>3. PciInv' /\ BindingInv' /\ SlotInv' /\ DevOK(dev)'
  BY <1>1 DEF IInv, PciInv, BindingInv, SlotInv
<1>4. ModInv'
  BY <1>1 DEF IInv, ModInv
<1>5. LeaseInv'
  BY <1>1 DEF Fit, LeaseInv
<1> QED
  BY <1>2, <1>3, <1>4, <1>5 DEF IInv

\* Descriptors are posted to existing rings.
LEMMA Posted ==
  ASSUME NEW d \in Adapter, DevOK(d), d.rings
  PROVE  LET e == [d EXCEPT !.busy = TRUE] IN
         /\ e \in Adapter /\ DevOK(e) /\ SameFrame(d, e) /\ Kept(d, e)
         /\ e.present = d.present /\ e.hw = d.hw
<1> DEFINE e == [d EXCEPT !.busy = TRUE]
<1>1. e \in Adapter
  BY DEF Adapter
<1>2. /\ SameFrame(d, e) /\ SameSession(d, e) /\ e.present = d.present
      /\ e.master = d.master /\ e.l0s = d.l0s
  BY DEF Adapter, SameFrame, SameSession, Kept
<1> HIDE DEF e
<1>3. DevOK(e)
  BY <1>2 DEF DevOK, SameFrame, SameSession, Kept
<1> QED
  BY <1>1, <1>2, <1>3 DEF e, SameSession

LEMMA KeepsInputBegin ==
  ASSUME IInv, NEW f \in Files, InputBegin(f)
  PROVE  IInv'
<1>1. /\ dev' = [dev EXCEPT !.busy = TRUE] /\ dev.rings /\ ~dev.susp
      /\ UNCHANGED <<gen, slot, file, op, gate, lease, pci, mod>>
  BY DEF InputBegin
<1>2. input' \in [Files -> BOOLEAN]
  BY DEF InputBegin, IInv, TypeOK
<1>3. /\ dev' \in Adapter /\ DevOK(dev') /\ SameFrame(dev, dev') /\ Kept(dev, dev')
      /\ dev'.present = dev.present /\ dev'.hw = dev.hw
  BY <1>1, Posted DEF IInv, TypeOK
<1> QED
  BY <1>1, <1>2, <1>3, DeviceKeeps DEF SameFrame

LEMMA KeepsInputDone ==
  ASSUME IInv, NEW f \in Files, InputDrains(f) \/ InputEnd(f)
  PROVE  IInv'
<1>1. UNCHANGED <<dev, gen, slot, file, op, gate, lease, pci, mod>>
  BY DEF InputDrains, InputEnd
<1>2. input' \in [Files -> BOOLEAN]
  BY DEF InputDrains, InputEnd, IInv, TypeOK
<1>3. dev \in Adapter /\ DevOK(dev) /\ Kept(dev, dev) /\ (dev.susp => dev.present /\ ~dev.access)
  BY DEF IInv, TypeOK, Kept, PciInv
<1> QED
  BY <1>1, <1>2, <1>3, DeviceKeeps

-----------------------------------------------------------------------------
(* Leases and their close worker.                                          *)

\* One lease changes and stays in agreement with the adapter.
LEMMA OneLease ==
  ASSUME IInv, NEW l \in Leases, NEW q, q \in LeaseType, LeaseOK(q), q.gen <= gen,
         q.core <=> l \in {dev.life, dev.put}, lease' = [lease EXCEPT ![l] = q],
         mod = "live", UNCHANGED <<dev, gen, userVars, pci, mod>>
  PROVE  IInv'
<1>1. Fit(lease', dev)
  BY LeasesFit DEF Fit
<1> QED
  BY <1>1, LeaseKeeps

\* What the invariant says of one lease.
LEMMA LeaseFacts ==
  ASSUME IInv, NEW l \in Leases
  PROVE  LET r == lease[l] IN
         /\ r \in LeaseType /\ LeaseOK(r) /\ r.gen <= gen
         /\ r.core <=> l \in {dev.life, dev.put}
         /\ r.base \/ r.core \/ r.active \/ r.pending => mod = "live"
<1>1. /\ lease[l] \in LeaseType /\ LeaseOK(lease[l]) /\ lease[l].gen <= gen
      /\ lease[l].core <=> l \in {dev.life, dev.put}
  BY DEF IInv, TypeOK, LeaseInv
<1>2. lease[l].refs # 0 => mod = "live"
  BY DEF IInv, ModInv
<1> QED
  BY <1>1, <1>2, LeaseCounts

\* One lemma per step of a lease and of its worker.
LEMMA KeepsCreate ==
  ASSUME IInv, NEW l \in Leases, crystalhd_v4l2_ctx_create(l)
  PROVE  IInv'
<1> DEFINE q == [NewLease EXCEPT !.gen = gen, !.refs = 1, !.base = TRUE]
<1>1. /\ lease[l].gen = 0 /\ dev.v4l2 /\ mod = "live"
      /\ lease' = [lease EXCEPT ![l] = q] /\ UNCHANGED <<dev, gen, userVars, pci, mod>>
  BY DEF crystalhd_v4l2_ctx_create
<1>2. gen \in 0 .. MaxGen /\ gen > 0
  BY <1>1 DEF IInv, TypeOK, BindingInv
<1>3. q \in LeaseType /\ LeaseOK(q) /\ q.gen = gen /\ ~q.core
  <2>1. NewLease \in LeaseType /\ 1 \in 0 .. 4
    BY BoundAssumption DEF NewLease, LeaseType
  <2>2. q \in LeaseType
    BY <1>2, <2>1 DEF LeaseType
  <2>3. /\ q.gen = gen /\ q.refs = 1 /\ q.base /\ ~q.core /\ ~q.closing
        /\ ~q.active /\ ~q.done /\ ~q.pending /\ q.phase = "off"
    BY DEF NewLease
  <2> HIDE DEF q
  <2> QED
    BY <1>2, <2>2, <2>3 DEF LeaseOK, Count
<1> HIDE DEF q
<1>4. l \notin {dev.life, dev.put}
  BY <1>1, LeaseFacts, LeaseCounts DEF LeaseOK
<1>5. q.gen <= gen
  BY <1>2, <1>3, BoundAssumption
<1> QED
  BY <1>1, <1>3, <1>4, <1>5, OneLease

LEMMA KeepsAcquire ==
  ASSUME IInv, NEW l \in Leases, crystalhd_v4l2_ctx_acquire(l)
  PROVE  IInv'
<1>1. /\ lease[l].base /\ ~lease[l].closing /\ ~dev.susp /\ pci = "idle"
      /\ dev.present /\ dev.put = NONE /\ lease' = Adopted(dev')
      /\ UNCHANGED <<gen, userVars, pci, mod>>
  BY DEF crystalhd_v4l2_ctx_acquire, DeviceReadable
<1>2. PICK r \in crystalhd_session_acquire_ref_locked(dev, l) : dev' = r.d
  BY DEF crystalhd_v4l2_ctx_acquire
<1>3. dev \in Adapter /\ DevOK(dev) /\ TypeOK /\ LeaseInv
  BY DEF IInv, TypeOK
<1>4. mod = "live"
  BY <1>1, LeaseFacts
<1>5. \/ r.d = dev
      \/ /\ dev.owner = NONE /\ ~dev.pinned /\ dev.life = NONE /\ mod = "live"
         /\ Sound(dev, r.d) /\ r.d.put = NONE
         /\ \/ r.d.pinned /\ r.d.life = l /\ r.d.owner \in {NONE, l}
            \/ ~r.d.pinned /\ r.d.life = NONE /\ r.d.owner = NONE
  BY <1>1, <1>2, <1>3, AcquireRef
<1>6. /\ dev' \in Adapter /\ DevOK(dev') /\ SameFrame(dev, dev')
      /\ dev'.present => dev.present
      /\ dev'.owner \in Leases => dev'.life = dev'.owner
      /\ Fit(Adopted(dev'), dev')
  <2>1. CASE r.d = dev
    <3>1. Kept(dev, dev')
      BY <1>2, <2>1 DEF Kept
    <3>2. Fit(Adopted(dev'), dev')
      BY <1>1, <1>3, <3>1, AdoptedFits
    <3> QED
      BY <1>2, <1>3, <2>1, <3>2 DEF SameFrame, IInv, PciInv
  <2>2. CASE r.d # dev
    <3>1. /\ dev.life = NONE /\ Sound(dev, dev') /\ dev'.put = NONE
          /\ \/ dev'.life = l /\ dev'.owner \in {NONE, l}
             \/ dev'.life = NONE /\ dev'.owner = NONE
      BY <1>2, <1>5, <2>2
    <3>2. Fit(Adopted(dev'), dev')
      BY <1>1, <1>3, <3>1, AdoptedFits
    <3> QED
      BY <3>1, <3>2, IdentityAssumption DEF Sound
  <2> QED
    BY <2>1, <2>2
<1>7. /\ UNCHANGED <<gen, slot, file, op, gate, pci, mod>>
      /\ input' \in [Files -> BOOLEAN]
  BY <1>1 DEF userVars, IInv, TypeOK
<1>8. /\ dev'.bound = dev.bound /\ dev'.v4l2 = dev.v4l2
      /\ dev'.quar = dev.quar /\ dev'.susp = dev.susp /\ dev'.users = dev.users
  BY <1>6 DEF SameFrame
<1> QED
  BY <1>1, <1>4, <1>6, <1>7, <1>8, QuietKeeps

LEMMA KeepsLeaseDownload ==
  ASSUME IInv, NEW l \in Leases, LeaseDownload(l)
  PROVE  IInv'
<1>1. /\ ~dev.susp /\ pci = "idle" /\ UNCHANGED <<gen, userVars, lease, pci, mod>>
  BY DEF LeaseDownload, LeaseEnter, DeviceReadable
<1>2. PICK r \in crystalhd_fw_download_locked(dev, l) : dev' = r.d
  BY DEF LeaseDownload
<1>3. Sound(dev, dev') /\ Kept(dev, dev')
  BY <1>2, Download DEF IInv, TypeOK
<1>7. /\ UNCHANGED <<gen, slot, file, op, gate, lease, pci, mod>>
      /\ input' \in [Files -> BOOLEAN]
  BY <1>1 DEF userVars, IInv, TypeOK
<1> QED
  BY <1>1, <1>3, <1>7, DeviceKeeps DEF Sound, SameFrame

LEMMA KeepsLeasePost ==
  ASSUME IInv, NEW l \in Leases, LeasePost(l)
  PROVE  IInv'
<1>1. /\ ~dev.susp /\ UNCHANGED <<gen, userVars, lease, pci, mod>>
      /\ dev' = [dev EXCEPT !.busy = TRUE] /\ dev.rings
  BY DEF LeasePost, LeaseEnter
<1>3. /\ dev' \in Adapter /\ DevOK(dev') /\ SameFrame(dev, dev') /\ Kept(dev, dev')
      /\ dev'.present = dev.present /\ dev'.hw = dev.hw
  BY <1>1, Posted DEF IInv, TypeOK
<1>7. /\ UNCHANGED <<gen, slot, file, op, gate, lease, pci, mod>>
      /\ input' \in [Files -> BOOLEAN]
  BY <1>1 DEF userVars, IInv, TypeOK
<1> QED
  BY <1>1, <1>3, <1>7, DeviceKeeps DEF SameFrame

LEMMA KeepsLeaseClose ==
  ASSUME IInv, NEW l \in Leases, crystalhd_v4l2_ctx_close(l)
  PROVE  IInv'
<1> DEFINE r == lease[l]
           t == [r EXCEPT !.closing = TRUE, !.pending = TRUE, !.refs = @ + 1]
           q == crystalhd_v4l2_queue_close_locked(t)
<1>1. /\ r.base /\ ~r.closing /\ UNCHANGED <<dev, gen, userVars, pci, mod>>
  BY DEF crystalhd_v4l2_ctx_close
<1>l. lease' = [lease EXCEPT ![l] = q]
  BY DEF crystalhd_v4l2_ctx_close
<1>2. /\ r \in LeaseType /\ LeaseOK(r) /\ r.gen <= gen
      /\ r.core <=> l \in {dev.life, dev.put}
      /\ mod = "live"
  BY <1>1, LeaseFacts
<1> HIDE DEF r
<1>3. r.refs + 1 \in 0 .. 4
  BY <1>1, <1>2 DEF LeaseType, LeaseOK, Count
<1>4. t \in LeaseType
  BY <1>2, <1>3 DEF LeaseType
<1>5. LeaseOK(t) /\ t.core = r.core /\ t.gen = r.gen
  BY <1>1, <1>2 DEF LeaseType, LeaseOK, Count
<1> HIDE DEF t
<1>6. q \in LeaseType /\ LeaseOK(q) /\ q.core = r.core /\ q.gen = r.gen
  BY <1>4, <1>5, QueueClose
<1> HIDE DEF q
<1> QED
  BY <1>1, <1>2, <1>6, <1>l, OneLease

LEMMA KeepsBasePut ==
  ASSUME IInv, NEW l \in Leases, LeaseBasePut(l)
  PROVE  IInv'
<1> DEFINE r == lease[l]
           q == [r EXCEPT !.base = FALSE, !.refs = @ - 1]
<1>1. /\ r.base /\ r.closing /\ UNCHANGED <<dev, gen, userVars, pci, mod>>
  BY DEF LeaseBasePut
<1>2. /\ r \in LeaseType /\ LeaseOK(r) /\ r.gen <= gen
      /\ r.core <=> l \in {dev.life, dev.put}
      /\ mod = "live"
  BY <1>1, LeaseFacts
<1>l. lease' = [lease EXCEPT ![l] = q]
  BY DEF LeaseBasePut, IInv, TypeOK
<1> HIDE DEF r
<1>3. r.refs - 1 \in 0 .. 4
  BY <1>1, <1>2 DEF LeaseType, LeaseOK, Count
<1>4. q \in LeaseType
  BY <1>2, <1>3 DEF LeaseType
<1>5. LeaseOK(q) /\ q.core = r.core /\ q.gen = r.gen
  BY <1>1, <1>2 DEF LeaseType, LeaseOK, Count
<1> HIDE DEF q
<1> QED
  BY <1>1, <1>2, <1>4, <1>5, <1>l, OneLease

LEMMA KeepsWorkerStart ==
  ASSUME IInv, NEW l \in Leases, WorkerStart(l)
  PROVE  IInv'
<1> DEFINE r == lease[l]
           p == IF ~crystalhd_v4l2_ctx_retired(r) /\ Connected(l)
                THEN "try" ELSE "check"
           q == [r EXCEPT !.kick = FALSE, !.phase = p]
<1>1. r.phase = "queued" /\ UNCHANGED <<dev, gen, userVars, pci, mod>>
  BY DEF WorkerStart
<1>2. /\ r \in LeaseType /\ LeaseOK(r) /\ r.gen <= gen
      /\ r.core <=> l \in {dev.life, dev.put}
  BY LeaseFacts
<1>m. mod = "live"
  BY <1>1, <1>2, LeaseFacts DEF LeaseOK
<1>l. lease' = [lease EXCEPT ![l] = q]
  BY DEF WorkerStart, IInv, TypeOK
<1>p. p \in {"try", "check"}
  OBVIOUS
<1> HIDE DEF r, p
<1>4. q \in LeaseType
  BY <1>2, <1>p DEF LeaseType
<1>5. LeaseOK(q) /\ q.core = r.core /\ q.gen = r.gen
  BY <1>1, <1>2, <1>p DEF LeaseType, LeaseOK, Count
<1> HIDE DEF q
<1> QED
  BY <1>1, <1>2, <1>4, <1>5, <1>l, <1>m, OneLease

LEMMA KeepsWorkerCheck ==
  ASSUME IInv, NEW l \in Leases, WorkerCheck(l)
  PROVE  IInv'
<1> DEFINE r == lease[l]
           c == [r EXCEPT !.done = TRUE, !.active = FALSE, !.kick = FALSE,
                          !.pending = FALSE, !.refs = @ - 2, !.phase = "off"]
           k == [r EXCEPT !.phase = "queued"]
           w == [r EXCEPT !.active = FALSE, !.refs = @ - 1, !.phase = "off"]
<1>1. r.phase = "check" /\ UNCHANGED <<dev, gen, userVars, pci, mod>>
  BY DEF WorkerCheck
<1>2. /\ r \in LeaseType /\ LeaseOK(r) /\ r.gen <= gen
      /\ r.core <=> l \in {dev.life, dev.put}
  BY LeaseFacts
<1>m. mod = "live"
  BY <1>1, <1>2, LeaseFacts DEF LeaseOK
<1>3. PICK q : /\ lease' = [lease EXCEPT ![l] = q]
               /\ (q = c /\ ~r.core) \/ q = k \/ q = w
  BY DEF WorkerCheck, crystalhd_v4l2_ctx_retired
<1> HIDE DEF r
<1>4. r.refs - 2 \in 0 .. 4 /\ r.refs - 1 \in 0 .. 4
  BY <1>1, <1>2 DEF LeaseType, LeaseOK, Count
<1>5. c \in LeaseType /\ k \in LeaseType /\ w \in LeaseType
  <2>1. c \in LeaseType
    BY <1>2, <1>4 DEF LeaseType
  <2>2. k \in LeaseType
    BY <1>2 DEF LeaseType
  <2>3. w \in LeaseType
    BY <1>2, <1>4 DEF LeaseType
  <2> QED
    BY <2>1, <2>2, <2>3
<1>6. ~r.core => LeaseOK(c) /\ c.core = r.core /\ c.gen = r.gen
  BY <1>1, <1>2 DEF LeaseType, LeaseOK, Count
<1>7. LeaseOK(k) /\ k.core = r.core /\ k.gen = r.gen
  BY <1>1, <1>2 DEF LeaseType, LeaseOK, Count
<1>8. LeaseOK(w) /\ w.core = r.core /\ w.gen = r.gen
  BY <1>1, <1>2 DEF LeaseType, LeaseOK, Count
<1> HIDE DEF c, k, w
<1>9. q \in LeaseType /\ LeaseOK(q) /\ q.core = r.core /\ q.gen = r.gen
  BY <1>3, <1>5, <1>6, <1>7, <1>8
<1> QED
  BY <1>1, <1>2, <1>3, <1>9, <1>m, OneLease

\* put() is done.
LEMMA PutCleared ==
  ASSUME NEW d \in Adapter, DevOK(d)
  PROVE  LET e == [d EXCEPT !.put = NONE] IN
         /\ e \in Adapter /\ DevOK(e) /\ SameFrame(d, e)
         /\ e.present = d.present /\ e.hw = d.hw /\ e.pinned = d.pinned
         /\ e.owner = d.owner /\ e.life = d.life /\ e.put = NONE
<1> DEFINE e == [d EXCEPT !.put = NONE]
<1>1. e \in Adapter
  BY DEF Adapter
<1>2. /\ SameFrame(d, e) /\ e.present = d.present /\ e.hw = d.hw
      /\ e.pinned = d.pinned /\ e.owner = d.owner /\ e.life = d.life /\ e.put = NONE
      /\ e.master = d.master /\ e.l0s = d.l0s /\ e.busy = d.busy /\ e.rings = d.rings
  BY DEF Adapter, SameFrame
<1> HIDE DEF e
<1>3. DevOK(e)
  BY <1>2 DEF DevOK, SameFrame
<1> QED
  BY <1>1, <1>2, <1>3 DEF e

\* The worker's release: the lease it works for is the owner that retires.
LEMMA KeepsWorkerTry ==
  ASSUME IInv, NEW l \in Leases, WorkerTry(l)
  PROVE  IInv'
<1> DEFINE r == [lease[l] EXCEPT !.phase = "check"]
<1>1. /\ lease[l].phase = "try" /\ pci = "idle" /\ dev.put = NONE
      /\ UNCHANGED <<gen, userVars, pci, mod>>
  BY DEF WorkerTry, DeviceReadable
<1>2. PICK d \in IF dev.bound /\ dev.present /\ dev.access /\ Connected(l)
                 THEN {r1.d : r1 \in crystalhd_session_release_locked(dev, l)}
                 ELSE {dev} :
          /\ dev' = [d EXCEPT !.put = NONE]
          /\ lease' = [lease EXCEPT ![l] = IF d.put # l THEN r
                ELSE crystalhd_v4l2_owner_put(crystalhd_v4l2_owner_retired(r))]
  BY DEF WorkerTry, IInv, TypeOK
<1>3. /\ dev \in Adapter /\ DevOK(dev) /\ (dev.present => ~dev.quar)
      /\ dev.susp => dev.present /\ ~dev.access
      /\ dev.owner \in Leases => dev.life = dev.owner
  BY DEF IInv, TypeOK, DevOK, PciInv
<1>4. /\ Sound(dev, d)
      /\ Kept(dev, d) \/ (Dropped(dev, d) /\ dev.life = l)
  <2>1. CASE d = dev
    BY <1>3, <2>1, SoundRefl DEF Kept
  <2>2. CASE dev.present /\ \E r1 \in crystalhd_session_release_locked(dev, l) : d = r1.d
    <3>1. PICK r1 \in crystalhd_session_release_locked(dev, l) : d = r1.d
      BY <2>2
    <3>2. /\ Sound(dev, d)
          /\ Kept(dev, d) \/ (Dropped(dev, d) /\ l \in {dev.owner, dev.life})
      BY <1>1, <1>3, <2>2, <3>1, Release
    <3> QED
      BY <1>3, <3>2
  <2> QED
    BY <1>2, <2>1, <2>2
<1>5. /\ dev' \in Adapter /\ DevOK(dev') /\ SameFrame(d, dev')
      /\ dev'.present = d.present /\ dev'.hw = d.hw /\ dev'.pinned = d.pinned
      /\ dev'.owner = d.owner /\ dev'.life = d.life /\ dev'.put = NONE
  BY <1>2, <1>4, PutCleared DEF Sound
<1>6. /\ lease[l] \in LeaseType /\ LeaseOK(lease[l]) /\ lease[l].gen <= gen
      /\ lease[l].core <=> l \in {dev.life, dev.put}
  BY LeaseFacts
<1>m. mod = "live"
  BY <1>1, <1>6, LeaseFacts DEF LeaseOK
<1>7. r \in LeaseType
  BY <1>6 DEF LeaseType
<1>8. LeaseOK(r) /\ r.core = lease[l].core /\ r.gen = lease[l].gen
  BY <1>1, <1>6 DEF LeaseType, LeaseOK, Count
<1> HIDE DEF r
<1>n. l # NONE
  BY IdentityAssumption
<1>9. Fit(lease', dev')
  <2>1. CASE Kept(dev, d)
    <3>1. lease' = [lease EXCEPT ![l] = r]
      BY <1>1, <1>2, <1>n, <2>1 DEF Kept
    <3> QED
      BY <1>1, <1>5, <1>6, <1>7, <1>8, <2>1, <3>1, LeasesFit DEF Fit, Kept
  <2>2. CASE Dropped(dev, d) /\ dev.life = l
    <3> DEFINE p == crystalhd_v4l2_owner_retired(r)
               q == crystalhd_v4l2_owner_put(p)
    <3>1. lease' = [lease EXCEPT ![l] = q]
      BY <1>2, <2>2 DEF Dropped
    <3>2. p \in LeaseType /\ LeaseOK(p) /\ p.core = r.core /\ p.gen = r.gen
      BY <1>7, <1>8, OwnerRetired
    <3> HIDE DEF p
    <3>3. p.core
      BY <1>6, <1>8, <2>2, <3>2
    <3>4. q \in LeaseType /\ LeaseOK(q) /\ ~q.core /\ q.gen = p.gen
      BY <3>2, <3>3, OwnerPutBack
    <3> HIDE DEF q
    <3>5. dev'.life = NONE /\ dev'.put = NONE /\ gen' = gen
      BY <1>1, <1>5, <2>2 DEF Dropped
    <3>6. lease \in [Leases -> LeaseType]
      BY DEF IInv, TypeOK
    <3>7. ASSUME NEW k \in Leases
          PROVE  /\ LeaseOK(lease'[k]) /\ lease'[k].gen <= gen
                 /\ ~lease'[k].core
      <4>1. CASE k = l
        BY <1>6, <1>8, <3>1, <3>2, <3>4, <3>6, <4>1
      <4>2. CASE k # l
        <5>1. lease'[k] = lease[k]
          BY <3>1, <3>6, <4>2
        <5>2. LeaseOK(lease[k]) /\ lease[k].gen <= gen /\ ~lease[k].core
          BY <1>1, <2>2, <4>2, LeaseFacts, IdentityAssumption
        <5> QED
          BY <5>1, <5>2
      <4> QED
        BY <4>1, <4>2
    <3>8. lease' \in [Leases -> LeaseType]
      BY <3>1, <3>4, <3>6
    <3> QED
      BY <3>5, <3>7, <3>8, IdentityAssumption DEF Fit
  <2> QED
    BY <1>4, <2>1, <2>2
<1>10. /\ dev'.bound = dev.bound /\ dev'.v4l2 = dev.v4l2
       /\ dev'.quar = dev.quar /\ dev'.susp = dev.susp /\ dev'.users = dev.users
       /\ dev'.present => dev.present
       /\ dev'.owner \in Leases => dev'.life = dev'.owner
  BY <1>3, <1>4, <1>5, IdentityAssumption DEF Sound, SameFrame, Kept, Dropped
<1>11. dev'.susp => dev'.present /\ ~dev'.access
  <2>1. CASE d = dev
    BY <1>3, <1>5, <1>10, <2>1 DEF SameFrame
  <2>2. CASE d # dev
    <3>1. ~dev.susp
      BY <1>2, <1>3, <2>2
    <3> QED
      BY <1>10, <3>1
  <2> QED
    BY <2>1, <2>2
<1>12. /\ UNCHANGED <<gen, slot, file, op, gate, pci, mod>>
       /\ input' \in [Files -> BOOLEAN]
  BY <1>1 DEF userVars, IInv, TypeOK
<1> QED
  BY <1>1, <1>5, <1>9, <1>10, <1>11, <1>12, <1>m, QuietKeeps

\* put() after retired(), and a fault seen by the interrupt handler.
LEMMA KeepsOwnerPut ==
  ASSUME IInv, OwnerPut
  PROVE  IInv'
<1> DEFINE l == dev.put
           q == crystalhd_v4l2_owner_put(lease[l])
<1>1. /\ l # NONE /\ dev' = [dev EXCEPT !.put = NONE]
      /\ lease' = [lease EXCEPT ![l] = q] /\ UNCHANGED <<gen, userVars, pci, mod>>
  BY DEF OwnerPut
<1>2. /\ l \in Leases /\ dev \in Adapter /\ DevOK(dev)
      /\ lease \in [Leases -> LeaseType]
  BY <1>1 DEF IInv, TypeOK, Adapter
<1>3. dev.life = NONE /\ ~dev.pinned
  BY <1>1, <1>2 DEF DevOK
<1>4. /\ dev' \in Adapter /\ DevOK(dev') /\ SameFrame(dev, dev')
      /\ dev'.present = dev.present /\ dev'.hw = dev.hw /\ dev'.pinned = dev.pinned
      /\ dev'.owner = dev.owner /\ dev'.life = dev.life /\ dev'.put = NONE
  BY <1>1, <1>2, PutCleared
<1>5. /\ lease[l] \in LeaseType /\ LeaseOK(lease[l]) /\ lease[l].gen <= gen
      /\ lease[l].core /\ mod = "live"
  BY <1>2, LeaseFacts
<1>6. q \in LeaseType /\ LeaseOK(q) /\ ~q.core /\ q.gen = lease[l].gen
  BY <1>5, OwnerPutBack
<1> HIDE DEF q
<1>7. ASSUME NEW k \in Leases
      PROVE  LeaseOK(lease'[k]) /\ lease'[k].gen <= gen /\ ~lease'[k].core
  <2>1. CASE k = l
    BY <1>1, <1>2, <1>5, <1>6, <2>1
  <2>2. CASE k # l
    <3>1. lease'[k] = lease[k]
      BY <1>1, <1>2, <2>2
    <3>2. LeaseOK(lease[k]) /\ lease[k].gen <= gen /\ ~lease[k].core
      BY <1>3, <2>2, LeaseFacts, IdentityAssumption
    <3> QED
      BY <3>1, <3>2
  <2> QED
    BY <2>1, <2>2
<1>8. Fit(lease', dev')
  <2>1. lease' \in [Leases -> LeaseType]
    BY <1>1, <1>2, <1>6
  <2> QED
    BY <1>3, <1>4, <1>7, <2>1, IdentityAssumption DEF Fit
<1>9. /\ dev'.bound = dev.bound /\ dev'.v4l2 = dev.v4l2
      /\ dev'.quar = dev.quar /\ dev'.susp = dev.susp /\ dev'.users = dev.users
      /\ dev'.owner \in Leases => dev'.life = dev'.owner
      /\ dev'.susp => dev'.present /\ ~dev'.access
      /\ pci = "removed" /\ ~dev.quar => ~dev'.pinned /\ ~dev'.hw
  BY <1>4 DEF SameFrame, IInv, PciInv
<1>10. /\ UNCHANGED <<gen, slot, file, op, gate, pci, mod>>
       /\ input' \in [Files -> BOOLEAN]
  BY <1>1 DEF userVars, IInv, TypeOK
<1> QED
  BY <1>4, <1>5, <1>8, <1>9, <1>10, QuietKeeps

LEMMA KeepsHwFault ==
  ASSUME IInv, HwFault
  PROVE  IInv'
<1> DEFINE n == dev.fails + 1
           e == [dev EXCEPT !.fault = TRUE, !.present = FALSE, !.fails = n]
<1>1. ~dev.susp /\ dev.fails < MaxFail /\ UNCHANGED <<gen, userVars, lease, pci, mod>>
  BY DEF HwFault
<1>2. dev \in Adapter /\ DevOK(dev)
  BY DEF IInv, TypeOK
<1>3. n \in 0 .. MaxFail
  BY <1>1, <1>2, BoundAssumption DEF Adapter
<1>4. dev' = e
  BY <1>2 DEF HwFault, crystalhd_hw_publish_fault, Adapter
<1> HIDE DEF n
<1>5. e \in Adapter
  BY <1>2, <1>3 DEF Adapter
<1>6. EnginesOnly(dev, e) /\ ~e.present
  BY <1>2, <1>5 DEF EnginesOnly, SameFrame, SameSession, Kept, Adapter
<1> HIDE DEF e
<1>7. Sound(dev, e)
  BY <1>2, <1>6, EnginesKeep
<1>8. /\ UNCHANGED <<gen, slot, file, op, gate, lease, pci, mod>>
      /\ input' \in [Files -> BOOLEAN]
  BY <1>1 DEF userVars, IInv, TypeOK
<1> QED
  BY <1>1, <1>4, <1>6, <1>7, <1>8, DeviceKeeps DEF EnginesOnly, SameSession, Sound, SameFrame

-----------------------------------------------------------------------------
(* The PCI callbacks and the module.                                       *)

\* A step of the PCI lock's holder that leaves the files alone.
LEMMA PciKeeps ==
  ASSUME IInv, UNCHANGED <<gen, userVars, mod>>, pci' \in PciPhases,
         dev' \in Adapter, DevOK(dev'), dev'.bound = dev.bound, dev'.users = dev.users,
         dev'.v4l2 => gen > 0, PciInv', Fit(lease', dev'),
         mod # "live" => ~dev'.pinned /\ \A l \in Leases : lease'[l].refs = 0
  PROVE  IInv'
<1>0. UNCHANGED <<gen, slot, file, op, input, gate, mod>>
  BY DEF userVars
<1>1. TypeOK'
  BY <1>0 DEF IInv, TypeOK, Fit
<1>3. ModInv'
  BY <1>0 DEF IInv, ModInv
<1>4. BindingInv'
  BY <1>0 DEF IInv, BindingInv
<1>5. SlotInv'
  BY <1>0 DEF IInv, SlotInv
<1>6. LeaseInv'
  BY <1>0 DEF Fit, LeaseInv
<1> QED
  BY <1>1, <1>3, <1>4, <1>5, <1>6 DEF IInv

\* A power management callback that went wrong.
LEMMA PmFails ==
  ASSUME IInv, NEW d, PmKept(dev, d), ~d.susp, dev.present, FailPm(d),
         UNCHANGED <<gen, userVars, lease, mod>>
  PROVE  IInv'
<1>1. dev' = [d EXCEPT !.present = FALSE] /\ pci' = "failing" /\ lease' = lease
  BY DEF FailPm
<1>2. d \in Adapter /\ DevOK(d)
  BY DEF PmKept
<1>3. /\ dev' \in Adapter /\ DevOK(dev') /\ SameFrame(d, dev') /\ SameSession(d, dev')
      /\ ~dev'.present
  BY <1>1, <1>2, PresentFalls
<1>4. /\ dev'.bound = dev.bound /\ dev'.users = dev.users /\ dev'.v4l2 = dev.v4l2
      /\ dev'.quar = dev.quar /\ ~dev'.susp /\ Kept(dev, dev')
  BY <1>3 DEF PmKept, SameFrame, SameSession, Kept
<1>5. PciInv'
  BY <1>1, <1>3, <1>4 DEF PciInv, IInv, Kept, DevOK
<1>6. Fit(lease', dev') /\ (mod # "live" => \A l \in Leases : lease'[l].refs = 0)
  BY <1>1, <1>4, LeasesFit DEF Fit, Kept
<1>7. (dev'.v4l2 => gen > 0) /\ (mod # "live" => ~dev'.pinned)
  BY <1>4 DEF IInv, BindingInv, ModInv, Kept
<1> QED
  BY <1>1, <1>3, <1>4, <1>5, <1>6, <1>7, PciKeeps DEF PciPhases

\* Suspend ends asleep with access closed, or awake and failing.
LEMMA SuspendOutcome ==
  ASSUME IInv, dev.bound, dev.present, ~dev.susp, chd_dec_pci_suspend
  PROVE  \E r : /\ PmKept(dev, r.d)
                /\ r.ok => r.d.susp /\ r.d.present /\ ~r.d.access
                /\ ~r.ok => ~r.d.susp
                /\ IF r.ok THEN dev' = r.d /\ UNCHANGED pci ELSE FailPm(r.d)
<1> DEFINE S1 == crystalhd_suspend(dev)
           S2 == UNION {IF r.ok THEN {Ok([r.d EXCEPT !.access = FALSE])} ELSE {r} : r \in S1}
           S3 == UNION {IF r.ok THEN chd_dec_clear_master_and_drain(r.d) ELSE {r} : r \in S2}
           S4 == UNION {IF r.ok THEN chd_restore_l0s(r.d) ELSE {r} : r \in S3}
           S5 == UNION {IF r.ok THEN {Ok([r.d EXCEPT !.susp = TRUE])} ELSE {r} : r \in S4}
           Awake(r) == /\ PmKept(dev, r.d) /\ ~r.d.susp
                       /\ r.ok => r.d.present
           Closed(r) == Awake(r) /\ (r.ok => ~r.d.access)
<1>0. PICK r \in S5 : IF r.ok THEN dev' = r.d /\ UNCHANGED pci ELSE FailPm(r.d)
  BY DEF chd_dec_pci_suspend, Then
<1>1. \A z \in S1 : Awake(z)
  <2>1. ASSUME NEW z \in S1 PROVE Awake(z)
    <3>1. /\ Sound(dev, z.d) /\ Kept(dev, z.d)
          /\ z.ok => z.d.present = dev.present
      BY Suspend DEF IInv, TypeOK
    <3> QED
      BY <3>1, SoundIsPmKept
  <2> QED
    BY <2>1
<1> HIDE DEF S1
<1>2. \A z \in S2 : Closed(z)
  <2>1. ASSUME NEW z \in S2 PROVE Closed(z)
    <3>1. PICK y \in S1 : z \in IF y.ok THEN {Ok([y.d EXCEPT !.access = FALSE])} ELSE {y}
      OBVIOUS
    <3>2. Awake(y) /\ y.d \in Adapter /\ DevOK(y.d)
      BY <1>1 DEF PmKept
    <3>3. CASE y.ok
      <4> DEFINE e == [y.d EXCEPT !.access = FALSE]
      <4>1. /\ PmKept(y.d, e) /\ e.susp = y.d.susp /\ e.present = y.d.present
            /\ e.access = FALSE
        BY <3>2, AccessTo
      <4>2. z.d = e
        BY <3>1, <3>3 DEF Ok
      <4> HIDE DEF e
      <4>3. PmKept(dev, e)
        BY <3>2, <4>1, PmCompose
      <4> QED
        BY <3>2, <3>3, <4>1, <4>2, <4>3
    <3>4. CASE ~y.ok
      BY <3>1, <3>2, <3>4
    <3> QED
      BY <3>3, <3>4
  <2> QED
    BY <2>1
<1> HIDE DEF S2
<1>3. \A z \in S3 : Closed(z)
  <2>1. ASSUME NEW z \in S3 PROVE Closed(z)
    <3>1. PICK y \in S2 : z \in IF y.ok THEN chd_dec_clear_master_and_drain(y.d) ELSE {y}
      OBVIOUS
    <3>2. Closed(y) /\ y.d \in Adapter /\ DevOK(y.d)
      BY <1>2 DEF PmKept
    <3>3. CASE y.ok
      <4>1. z \in chd_dec_clear_master_and_drain(y.d)
        BY <3>1, <3>3
      <4>2. /\ PmKept(y.d, z.d) /\ z.d.susp = y.d.susp /\ z.d.present = y.d.present
            /\ z.d.access = y.d.access
        BY <3>2, <4>1, ClearMasterPm
      <4>3. PmKept(dev, z.d)
        BY <3>2, <4>2, PmCompose
      <4> QED
        BY <3>2, <3>3, <4>2, <4>3
    <3>4. CASE ~y.ok
      BY <3>1, <3>2, <3>4
    <3> QED
      BY <3>3, <3>4
  <2> QED
    BY <2>1
<1> HIDE DEF S3
<1>4. \A z \in S4 : Closed(z)
  <2>1. ASSUME NEW z \in S4 PROVE Closed(z)
    <3>1. PICK y \in S3 : z \in IF y.ok THEN chd_restore_l0s(y.d) ELSE {y}
      OBVIOUS
    <3>2. Closed(y) /\ y.d \in Adapter /\ DevOK(y.d)
      BY <1>3 DEF PmKept
    <3>3. CASE y.ok
      <4>1. z \in chd_restore_l0s(y.d)
        BY <3>1, <3>3
      <4>2. /\ PmKept(y.d, z.d) /\ z.d.susp = y.d.susp /\ z.d.present = y.d.present
            /\ z.d.access = y.d.access
        BY <3>2, <4>1, RestoreL0s
      <4>3. PmKept(dev, z.d)
        BY <3>2, <4>2, PmCompose
      <4> QED
        BY <3>2, <3>3, <4>2, <4>3
    <3>4. CASE ~y.ok
      BY <3>1, <3>2, <3>4
    <3> QED
      BY <3>3, <3>4
  <2> QED
    BY <2>1
<1> HIDE DEF S4
<1>5. PICK y \in S4 : r \in IF y.ok THEN {Ok([y.d EXCEPT !.susp = TRUE])} ELSE {y}
  BY <1>0
<1>6. Closed(y) /\ y.d \in Adapter /\ DevOK(y.d)
  BY <1>4 DEF PmKept
<1>7. CASE ~y.ok
  <2>1. r = y
    BY <1>5, <1>7
  <2> QED
    BY <1>0, <1>6, <1>7, <2>1
<1>8. CASE y.ok
  <2> DEFINE e == [y.d EXCEPT !.susp = TRUE]
  <2>1. PmKept(y.d, e) /\ e.susp /\ e.present = y.d.present /\ e.access = y.d.access
    BY <1>6, <1>8, SleepTo
  <2>2. r.d = e /\ r.ok
    BY <1>5, <1>8 DEF Ok
  <2> HIDE DEF e
  <2>3. PmKept(dev, e)
    BY <1>6, <2>1, PmCompose
  <2> QED
    BY <1>0, <1>6, <1>8, <2>1, <2>2, <2>3
<1> QED
  BY <1>7, <1>8

LEMMA KeepsSuspend ==
  ASSUME IInv, chd_dec_pci_suspend
  PROVE  IInv'
<1>1. /\ pci = "idle" /\ dev.bound /\ dev.present /\ ~dev.susp
      /\ UNCHANGED <<gen, userVars, lease, mod>>
  BY DEF chd_dec_pci_suspend
<1>2. PICK r : /\ PmKept(dev, r.d)
               /\ r.ok => r.d.susp /\ r.d.present /\ ~r.d.access
               /\ ~r.ok => ~r.d.susp
               /\ IF r.ok THEN dev' = r.d /\ UNCHANGED pci ELSE FailPm(r.d)
  BY <1>1, SuspendOutcome
<1>3. CASE r.ok
  <2>1. /\ dev' = r.d /\ pci' = "idle" /\ PmKept(dev, dev')
        /\ dev'.susp => dev'.present /\ ~dev'.access
    BY <1>1, <1>2, <1>3
  <2>2. PciInv'
    BY <2>1 DEF PciInv, IInv, PmKept, Kept
  <2>3. Fit(lease', dev') /\ (mod # "live" => \A l \in Leases : lease'[l].refs = 0)
    BY <1>1, <2>1, LeasesFit DEF Fit, PmKept, Kept
  <2>4. (dev'.v4l2 => gen > 0) /\ (mod # "live" => ~dev'.pinned)
    BY <2>1 DEF IInv, BindingInv, ModInv, PmKept, Kept
  <2> QED
    BY <1>1, <2>1, <2>2, <2>3, <2>4, PciKeeps DEF PmKept, PciPhases
<1>4. CASE ~r.ok
  <2>1. FailPm(r.d) /\ ~r.d.susp
    BY <1>2, <1>4
  <2> QED
    BY <1>1, <1>2, <2>1, PmFails
<1> QED
  BY <1>3, <1>4

\* Every pending lease is kicked.
LEMMA KickFits ==
  ASSUME IInv, NEW d, d.life = dev.life, d.put = dev.put
  PROVE  /\ Fit(KickPending(lease), d)
         /\ \A l \in Leases : lease[l].refs = 0 => KickPending(lease)[l].refs = 0
<1> DEFINE K == KickPending(lease)
<1>1. ASSUME NEW l \in Leases
      PROVE  /\ K[l] \in LeaseType /\ LeaseOK(K[l]) /\ K[l].gen <= gen
             /\ K[l].core = lease[l].core
             /\ lease[l].refs = 0 => K[l].refs = 0
  <2>1. /\ lease[l] \in LeaseType /\ LeaseOK(lease[l]) /\ lease[l].gen <= gen
    BY LeaseFacts
  <2>2. K[l] = lease[l] \/ K[l] = crystalhd_v4l2_queue_close_locked(lease[l])
    BY DEF KickPending
  <2> HIDE DEF K
  <2> QED
    BY <2>1, <2>2, QueueClose
<1>2. K = [l \in Leases |-> K[l]]
  BY DEF KickPending
<1> HIDE DEF K
<1>3. K \in [Leases -> LeaseType]
  BY <1>1, <1>2
<1>4. \A l \in Leases : lease[l].core <=> l \in {d.life, d.put}
  BY LeaseFacts
<1> QED
  BY <1>1, <1>3, <1>4 DEF Fit, K

\* Resume ends awake; mastering comes back only with a context.
LEMMA ResumeOutcome ==
  ASSUME IInv, dev.susp, chd_dec_pci_resume
  PROVE  \E r : /\ PmKept(dev, r.d) /\ ~r.d.susp
                /\ \/ r.ok /\ dev' = r.d /\ lease' = KickPending(lease) /\ UNCHANGED pci
                   \/ ~r.ok /\ FailPm(r.d) /\ UNCHANGED lease
<1> DEFINE awake == [dev EXCEPT !.susp = FALSE, !.master = FALSE]
           S1 == MayFail(awake, {awake})
           S2 == UNION {IF r.ok THEN IF r.d.hw /\ ~r.d.fault
                                     THEN chd_dec_set_master_checked(r.d) ELSE {Ok(r.d)}
                        ELSE {r} : r \in S1}
           S3 == UNION {IF r.ok THEN crystalhd_resume(r.d) ELSE {r} : r \in S2}
           S4 == UNION {IF r.ok THEN {Ok([r.d EXCEPT !.access = TRUE])} ELSE {r} : r \in S3}
           Awake(r) == /\ PmKept(dev, r.d) /\ ~r.d.susp /\ r.d.present
<1>0. PICK r \in S4 :
         \/ r.ok /\ dev' = r.d /\ lease' = KickPending(lease) /\ UNCHANGED pci
         \/ ~r.ok /\ FailPm(r.d) /\ UNCHANGED lease
  BY DEF chd_dec_pci_resume, Then
<1>d. dev \in Adapter /\ DevOK(dev) /\ dev.present
  BY DEF IInv, TypeOK, PciInv
<1>a. /\ PmKept(dev, awake) /\ awake.susp = FALSE /\ awake.present = dev.present
      /\ awake.hw = dev.hw
  BY <1>d, SuspTo
<1> HIDE DEF awake
<1>1. \A z \in S1 : Awake(z)
  <2>1. ASSUME NEW z \in S1 PROVE Awake(z)
    <3>1. awake \in Adapter /\ DevOK(awake)
      BY <1>a DEF PmKept
    <3>2. Same(awake, z.d)
      BY <3>1, MayFailOutcome, SameRefl
    <3>3. Sound(awake, z.d) /\ Kept(awake, z.d) /\ z.d.present = awake.present
      BY <3>1, <3>2, LinkKeeps DEF Same, LinkOnly, SameSession
    <3>4. PmKept(awake, z.d) /\ z.d.susp = awake.susp
      BY <3>3, SoundIsPmKept
    <3>5. PmKept(dev, z.d)
      BY <1>a, <3>4, PmCompose
    <3> QED
      BY <1>a, <1>d, <3>3, <3>4, <3>5
  <2> QED
    BY <2>1
<1> HIDE DEF S1
<1>2. \A z \in S2 : Awake(z)
  <2>1. ASSUME NEW z \in S2 PROVE Awake(z)
    <3>1. PICK y \in S1 : z \in IF y.ok THEN IF y.d.hw /\ ~y.d.fault
                                     THEN chd_dec_set_master_checked(y.d) ELSE {Ok(y.d)}
                                ELSE {y}
      OBVIOUS
    <3>2. Awake(y) /\ y.d \in Adapter /\ DevOK(y.d)
      BY <1>1 DEF PmKept
    <3>3. CASE y.ok /\ y.d.hw /\ ~y.d.fault
      <4>1. z \in chd_dec_set_master_checked(y.d)
        BY <3>1, <3>3
      <4>2. LinkOnly(y.d, z.d) /\ z.d.l0s = y.d.l0s
        BY <3>2, <4>1, SetMaster
      <4>3. ~y.d.quiesced
        BY <3>2 DEF DevOK
      <4>4. Sound(y.d, z.d)
        BY <3>2, <3>3, <4>2, <4>3, LinkKeeps
      <4>5. PmKept(y.d, z.d) /\ z.d.susp = y.d.susp /\ z.d.present = y.d.present
        BY <4>2, <4>4, SoundIsPmKept DEF LinkOnly, SameSession
      <4>6. PmKept(dev, z.d)
        BY <3>2, <4>5, PmCompose
      <4> QED
        BY <3>2, <4>5, <4>6
    <3>4. CASE ~(y.ok /\ y.d.hw /\ ~y.d.fault)
      <4>1. z.d = y.d
        BY <3>1, <3>4 DEF Ok
      <4> QED
        BY <3>2, <4>1
    <3> QED
      BY <3>3, <3>4
  <2> QED
    BY <2>1
<1> HIDE DEF S2
<1>3. \A z \in S3 : Awake(z)
  <2>1. ASSUME NEW z \in S3 PROVE Awake(z)
    <3>1. PICK y \in S2 : z \in IF y.ok THEN crystalhd_resume(y.d) ELSE {y}
      OBVIOUS
    <3>2. Awake(y) /\ y.d \in Adapter /\ DevOK(y.d)
      BY <1>2 DEF PmKept
    <3>3. CASE y.ok
      <4>1. z \in crystalhd_resume(y.d)
        BY <3>1, <3>3
      <4>2. Sound(y.d, z.d) /\ Kept(y.d, z.d) /\ z.d.present = y.d.present
        BY <3>2, <4>1, Resume
      <4>3. PmKept(y.d, z.d) /\ z.d.susp = y.d.susp
        BY <4>2, SoundIsPmKept
      <4>4. PmKept(dev, z.d)
        BY <3>2, <4>3, PmCompose
      <4> QED
        BY <3>2, <4>2, <4>3, <4>4
    <3>4. CASE ~y.ok
      BY <3>1, <3>2, <3>4
    <3> QED
      BY <3>3, <3>4
  <2> QED
    BY <2>1
<1> HIDE DEF S3
<1>5. PICK y \in S3 : r \in IF y.ok THEN {Ok([y.d EXCEPT !.access = TRUE])} ELSE {y}
  BY <1>0
<1>6. Awake(y) /\ y.d \in Adapter /\ DevOK(y.d)
  BY <1>3 DEF PmKept
<1>7. CASE ~y.ok
  <2>1. r = y
    BY <1>5, <1>7
  <2> QED
    BY <1>0, <1>6, <2>1
<1>8. CASE y.ok
  <2> DEFINE e == [y.d EXCEPT !.access = TRUE]
  <2>1. PmKept(y.d, e) /\ e.susp = y.d.susp
    BY <1>6, AccessTo
  <2>2. r.d = e
    BY <1>5, <1>8 DEF Ok
  <2> HIDE DEF e
  <2>3. PmKept(dev, e)
    BY <1>6, <2>1, PmCompose
  <2> QED
    BY <1>0, <1>6, <2>1, <2>2, <2>3
<1> QED
  BY <1>7, <1>8

LEMMA KeepsResume ==
  ASSUME IInv, chd_dec_pci_resume
  PROVE  IInv'
<1>1. pci = "idle" /\ dev.susp /\ UNCHANGED <<gen, userVars, mod>>
  BY DEF chd_dec_pci_resume
<1>2. PICK r : /\ PmKept(dev, r.d) /\ ~r.d.susp
               /\ \/ r.ok /\ dev' = r.d /\ lease' = KickPending(lease) /\ UNCHANGED pci
                  \/ ~r.ok /\ FailPm(r.d) /\ UNCHANGED lease
  BY <1>1, ResumeOutcome
<1>3. CASE r.ok
  <2>1. /\ dev' = r.d /\ pci' = "idle" /\ PmKept(dev, dev') /\ ~dev'.susp
        /\ lease' = KickPending(lease)
    BY <1>1, <1>2, <1>3
  <2>2. PciInv'
    BY <2>1 DEF PciInv, IInv, PmKept, Kept
  <2>3. Fit(lease', dev') /\ (mod # "live" => \A l \in Leases : lease'[l].refs = 0)
    BY <2>1, KickFits, LeasesFit DEF PmKept, Kept
  <2>4. (dev'.v4l2 => gen > 0) /\ (mod # "live" => ~dev'.pinned)
    BY <2>1 DEF IInv, BindingInv, ModInv, PmKept, Kept
  <2> QED
    BY <1>1, <2>1, <2>2, <2>3, <2>4, PciKeeps DEF PmKept, PciPhases
<1>4. CASE ~r.ok
  <2>1. FailPm(r.d) /\ lease' = lease
    BY <1>2, <1>4
  <2>2. dev.present
    BY <1>1 DEF IInv, PciInv
  <2> QED
    BY <1>1, <1>2, <2>1, <2>2, PmFails
<1> QED
  BY <1>3, <1>4

\* The adapter without a device, as it is before a probe.
LEMMA AbsentSound ==
  ASSUME NEW n \in 0 .. MaxFail
  PROVE  LET e == [Absent0 EXCEPT !.fails = n] IN
         /\ e \in Adapter /\ DevOK(e) /\ ~e.bound /\ ~e.present /\ ~e.susp /\ ~e.v4l2
         /\ ~e.pinned /\ ~e.quar /\ e.life = NONE /\ e.put = NONE /\ e.owner = NONE
<1> DEFINE e == [Absent0 EXCEPT !.fails = n]
<1>1. Absent0 \in Adapter
  BY BoundAssumption DEF Absent0, Adapter
<1>2. e \in Adapter
  BY <1>1 DEF Adapter
<1>3. /\ ~e.bound /\ ~e.present /\ ~e.susp /\ ~e.v4l2 /\ ~e.pinned /\ ~e.quar
      /\ e.life = NONE /\ e.put = NONE /\ e.owner = NONE /\ ~e.cmdsAdp
      /\ ~e.hw /\ ~e.rings /\ ~e.busy /\ ~e.l0s /\ ~e.quiesced
  BY DEF Absent0
<1> HIDE DEF e
<1>4. DevOK(e)
  BY <1>3 DEF DevOK
<1> QED
  BY <1>2, <1>3, <1>4 DEF e

\* The adapter after a successful probe.
LEMMA ProbedSound ==
  ASSUME NEW n \in 0 .. MaxFail
  PROVE  LET e == [Absent0 EXCEPT !.bound = TRUE, !.present = TRUE,
                      !.access = TRUE, !.cmdsAdp = TRUE, !.v4l2 = TRUE,
                      !.master = TRUE, !.fails = n] IN
         /\ e \in Adapter /\ DevOK(e) /\ e.users = 0 /\ ~e.susp
         /\ e.life = NONE /\ e.put = NONE /\ e.owner = NONE
<1> DEFINE e == [Absent0 EXCEPT !.bound = TRUE, !.present = TRUE,
                    !.access = TRUE, !.cmdsAdp = TRUE, !.v4l2 = TRUE,
                    !.master = TRUE, !.fails = n]
<1>1. Absent0 \in Adapter
  BY BoundAssumption DEF Absent0, Adapter
<1>2. e \in Adapter
  BY <1>1 DEF Adapter
<1>3. /\ e.bound /\ e.present /\ ~e.susp /\ ~e.pinned /\ ~e.quar /\ e.cmdsAdp
      /\ e.life = NONE /\ e.put = NONE /\ e.owner = NONE /\ e.users = 0
      /\ ~e.hw /\ ~e.rings /\ ~e.busy /\ ~e.l0s /\ ~e.quiesced
  BY DEF Absent0
<1> HIDE DEF e
<1>4. DevOK(e)
  BY <1>3 DEF DevOK
<1> QED
  BY <1>2, <1>3, <1>4 DEF e

\* A probe starts from an empty adapter.
LEMMA ProbeOutcome ==
  ASSUME dev \in Adapter, chd_dec_pci_probe
  PROVE  /\ dev' \in Adapter /\ DevOK(dev')
         /\ ~dev'.susp /\ dev'.life = NONE /\ dev'.put = NONE /\ dev'.owner = NONE
         /\ dev'.bound => dev'.users = 0
<1> DEFINE n == dev.fails
           up == [Absent0 EXCEPT !.bound = TRUE, !.present = TRUE,
                    !.access = TRUE, !.cmdsAdp = TRUE, !.v4l2 = TRUE,
                    !.master = TRUE, !.fails = n]
           no == [Absent0 EXCEPT !.fails = n]
<1>1. n \in 0 .. MaxFail
  BY DEF Adapter
<1>2. PICK r \in MayFail(up, {no}) : dev' = r.d
  BY DEF chd_dec_pci_probe
<1> HIDE DEF n
<1>3. /\ up \in Adapter /\ DevOK(up) /\ up.users = 0 /\ ~up.susp
      /\ up.life = NONE /\ up.put = NONE /\ up.owner = NONE
  BY <1>1, ProbedSound
<1>4. /\ no \in Adapter /\ DevOK(no) /\ ~no.bound /\ ~no.susp
      /\ no.life = NONE /\ no.put = NONE /\ no.owner = NONE
  BY <1>1, AbsentSound
<1> HIDE DEF up, no
<1>5. CASE r.ok
  <2>1. r.d = up
    BY <1>2, <1>3, <1>4, <1>5, MayFailOutcome
  <2> QED
    BY <1>2, <1>3, <2>1
<1>6. CASE ~r.ok
  <2>1. Same(no, r.d)
    BY <1>2, <1>3, <1>4, <1>6, MayFailOutcome
  <2>2. Sound(no, r.d)
    BY <1>4, <2>1, LinkKeeps DEF Same
  <2> QED
    BY <1>2, <1>4, <2>1, <2>2 DEF Sound, SameFrame, Same, LinkOnly, SameSession, Kept
<1> QED
  BY <1>5, <1>6

\* A new adapter has no used slot.
LEMMA SlotsCleared ==
  ASSUME slot' = [s \in Slots |-> FreeSlot]
  PROVE  /\ slot' \in [Slots -> [used : BOOLEAN, mode : {"INV", "MON", "PLAY"}]]
         /\ \A s \in Slots : ~slot'[s].used
         /\ Cardinality({s \in Slots : slot'[s].used}) = 0
<1>1. \A s \in Slots : ~slot'[s].used
  BY DEF FreeSlot
<1>2. {s \in Slots : slot'[s].used} = {}
  BY <1>1
<1> QED
  BY <1>1, <1>2, FS_EmptySet DEF FreeSlot

LEMMA KeepsProbe ==
  ASSUME IInv, chd_dec_pci_probe
  PROVE  IInv'
<1>1. /\ pci = "idle" /\ mod = "live" /\ dev.put = NONE /\ ~dev.bound /\ ~dev.quar
      /\ gen < MaxGen /\ gen' = gen + 1 /\ slot' = [s \in Slots |-> FreeSlot]
      /\ UNCHANGED <<file, op, input, gate, lease, pci, mod>>
      /\ \A f \in Files : op[f] = "none"
  BY DEF chd_dec_pci_probe, DeviceWritable
<1>2. /\ dev' \in Adapter /\ DevOK(dev')
      /\ ~dev'.susp /\ dev'.life = NONE /\ dev'.put = NONE /\ dev'.owner = NONE
      /\ dev'.bound => dev'.users = 0
  BY ProbeOutcome DEF IInv, TypeOK
<1>3. /\ slot' \in [Slots -> [used : BOOLEAN, mode : {"INV", "MON", "PLAY"}]]
      /\ \A s \in Slots : ~slot'[s].used
      /\ Cardinality({s \in Slots : slot'[s].used}) = 0
  BY <1>1, SlotsCleared
<1>4. gen \in Nat /\ gen' \in 0 .. MaxGen /\ gen' > 0
  BY <1>1, BoundAssumption DEF IInv, TypeOK
<1>5. dev.life = NONE
  BY <1>1 DEF IInv, DevOK
<1>6. TypeOK'
  BY <1>1, <1>2, <1>3, <1>4 DEF IInv, TypeOK
<1>7. PciInv' /\ ModInv'
  BY <1>1, <1>2, IdentityAssumption DEF PciInv, ModInv
<1>8. ASSUME NEW f \in Files PROVE file[f].gen < gen' /\ file[f].gen \in Nat
  <2>1. file[f].gen <= gen /\ file[f].gen \in Nat
    BY BoundAssumption DEF IInv, BindingInv, TypeOK
  <2> QED
    BY <1>1, <1>4, <2>1
<1>9. BindingInv'
  <2>1. gate = NONE
    BY <1>1 DEF IInv, BindingInv, TypeOK
  <2>2. \A f \in Files : file[f].gen = 0 => file[f].slot = 0
    BY DEF IInv, BindingInv
  <2>3. \A f \in Files : file[f].gen <= gen'
    BY <1>4, <1>8
  <2> QED
    BY <1>1, <1>4, <2>1, <2>2, <2>3 DEF BindingInv
<1>10. SlotInv'
  BY <1>1, <1>2, <1>3, <1>8 DEF SlotInv
<1>11. LeaseInv'
  <2>1. ASSUME NEW l \in Leases
        PROVE  LeaseOK(lease[l]) /\ ~lease[l].core /\ lease[l].gen <= gen'
    <3>1. /\ LeaseOK(lease[l]) /\ lease[l].gen <= gen /\ lease[l].gen \in Nat
          /\ ~lease[l].core
      BY <1>1, <1>5, LeaseFacts, IdentityAssumption, BoundAssumption DEF LeaseType
    <3> QED
      BY <1>1, <1>4, <3>1
  <2> QED
    BY <1>1, <1>2, <2>1, IdentityAssumption DEF LeaseInv
<1> QED
  BY <1>2, <1>6, <1>7, <1>9, <1>10, <1>11 DEF IInv

\* The cleanup of a failed callback and of a removal.
LEMMA CleanupKeeps ==
  ASSUME IInv, NEW d \in Adapter, DevOK(d), ~d.present, ~d.susp, ~d.quar,
         dev.put = NONE, Kept(dev, d), d.bound = dev.bound, d.users = dev.users,
         dev.bound, NEW e \in chd_dec_fail_closed(d), dev' = e,
         lease' = Adopted(dev'), pci' \in {"failed", "removed"},
         \A f \in Files : op[f] = "none", UNCHANGED <<gen, userVars, mod>>
  PROVE  IInv'
<1>1. d.put = NONE /\ d.life = dev.life
  BY DEF Kept
<1>2. /\ dev' \in Adapter /\ DevOK(dev')
      /\ ~dev'.present /\ ~dev'.susp /\ dev'.bound = d.bound /\ dev'.users = d.users
      /\ \/ dev'.quar /\ Kept(d, dev')
         \/ ~dev'.quar /\ Dropped(d, dev') /\ ~dev'.hw
  BY <1>1, FailClosedOutcome
<1>3. Kept(dev, dev') \/ Dropped(dev, dev')
  BY <1>2 DEF Kept, Dropped
<1>4. Fit(lease', dev')
  BY <1>3, AdoptedFits DEF IInv
<1>5. mod # "live" => ~dev'.pinned /\ \A l \in Leases : lease'[l].refs = 0
  <2> SUFFICES ASSUME mod # "live"
               PROVE  ~dev'.pinned /\ \A l \in Leases : lease'[l].refs = 0
    OBVIOUS
  <2>1. ~dev.pinned /\ \A l \in Leases : lease[l].refs = 0
    BY DEF IInv, ModInv
  <2>2. dev.life = NONE
    BY <2>1 DEF IInv, DevOK
  <2>3. ~dev'.pinned /\ dev'.life = NONE /\ dev'.put = NONE
    BY <1>3, <2>1, <2>2 DEF Kept, Dropped
  <2>4. \A l \in Leases : Adopted(dev')[l] = lease[l]
    BY <2>3, IdentityAssumption DEF Adopted
  <2> QED
    BY <2>1, <2>3, <2>4
<1>6. PciInv'
  <2>1. dev'.owner \in Leases => dev'.life = dev'.owner
    BY <1>3, IdentityAssumption DEF Kept, Dropped, IInv, PciInv
  <2>2. op' = op
    BY DEF userVars
  <2> QED
    BY <1>2, <2>1, <2>2 DEF PciInv, Dropped
<1>7. gen > 0
  BY DEF IInv, BindingInv
<1> QED
  BY <1>2, <1>4, <1>5, <1>6, <1>7, PciKeeps DEF PciPhases

\* The callbacks that clean up, and those that only announce it.
LEMMA KeepsFailClosed ==
  ASSUME IInv, FailClosed
  PROVE  IInv'
<1> DEFINE d == [dev EXCEPT !.present = FALSE]
<1>1. /\ pci = "failing" /\ dev.put = NONE /\ \A f \in Files : op[f] = "none"
      /\ lease' = Adopted(dev') /\ pci' = "failed" /\ UNCHANGED <<gen, userVars, mod>>
  BY DEF FailClosed, DeviceWritable
<1>2. PICK e \in chd_dec_fail_closed(d) : dev' = e
  BY DEF FailClosed
<1>3. /\ dev \in Adapter /\ DevOK(dev) /\ dev.bound /\ ~dev.susp /\ ~dev.quar
  BY <1>1 DEF IInv, TypeOK, PciInv
<1>4. /\ d \in Adapter /\ DevOK(d) /\ SameFrame(dev, d) /\ SameSession(dev, d)
      /\ ~d.present
  BY <1>3, PresentFalls
<1> HIDE DEF d
<1>5. ~d.susp /\ ~d.quar /\ Kept(dev, d) /\ d.bound = dev.bound /\ d.users = dev.users
  BY <1>3, <1>4 DEF SameFrame, SameSession
<1> QED
  BY <1>1, <1>2, <1>3, <1>4, <1>5, CleanupKeeps

\* Removal may lift a quarantine.
LEMMA QuarantineLifted ==
  ASSUME NEW d \in Adapter, DevOK(d), d.bound
  PROVE  LET e == [d EXCEPT !.quar = FALSE] IN
         /\ e \in Adapter /\ DevOK(e) /\ Kept(d, e) /\ ~e.quar
         /\ e.present = d.present /\ e.susp = d.susp /\ e.bound = d.bound
         /\ e.users = d.users
<1> DEFINE e == [d EXCEPT !.quar = FALSE]
<1>1. e \in Adapter
  BY DEF Adapter
<1>2. /\ SameSession(d, e) /\ e.present = d.present /\ e.susp = d.susp /\ ~e.quar
      /\ e.bound = d.bound /\ e.users = d.users /\ e.cmdsAdp = d.cmdsAdp
      /\ e.l0s = d.l0s /\ e.busy = d.busy /\ e.master = d.master
      /\ e.quiesced = d.quiesced
  BY DEF Adapter, SameSession, Kept
<1> HIDE DEF e
<1>3. DevOK(e)
  BY <1>2 DEF DevOK, SameSession, Kept
<1> QED
  BY <1>1, <1>2, <1>3 DEF SameSession, e

LEMMA KeepsRemove ==
  ASSUME IInv, chd_dec_pci_remove
  PROVE  IInv'
<1> DEFINE d == [dev EXCEPT !.quar = FALSE]
<1>1. /\ pci = "removing" /\ dev.put = NONE /\ \A f \in Files : op[f] = "none"
      /\ lease' = Adopted(dev') /\ pci' = "removed" /\ UNCHANGED <<gen, userVars, mod>>
  BY DEF chd_dec_pci_remove, DeviceWritable
<1>2. PICK e \in chd_dec_fail_closed(d) : dev' = e
  BY DEF chd_dec_pci_remove
<1>3. dev \in Adapter /\ DevOK(dev) /\ dev.bound /\ ~dev.susp /\ ~dev.present
  BY <1>1 DEF IInv, TypeOK, PciInv
<1>4. /\ d \in Adapter /\ DevOK(d) /\ Kept(dev, d) /\ ~d.quar
      /\ d.present = dev.present /\ d.susp = dev.susp /\ d.bound = dev.bound
      /\ d.users = dev.users
  BY <1>3, QuarantineLifted
<1> HIDE DEF d
<1> QED
  BY <1>1, <1>2, <1>3, <1>4, CleanupKeeps

LEMMA KeepsRemoveBegin ==
  ASSUME IInv, RemoveBegin
  PROVE  IInv'
<1>1. /\ pci = "idle" /\ dev.bound /\ ~dev.susp /\ dev' = [dev EXCEPT !.present = FALSE]
      /\ pci' = "removing" /\ UNCHANGED <<gen, userVars, lease, mod>>
  BY DEF RemoveBegin
<1>2. /\ dev' \in Adapter /\ DevOK(dev') /\ SameFrame(dev, dev') /\ SameSession(dev, dev')
      /\ ~dev'.present
  BY <1>1, PresentFalls DEF IInv, TypeOK
<1>3. PciInv'
  BY <1>1, <1>2 DEF IInv, PciInv, SameFrame, SameSession, Kept
<1>4. Fit(lease', dev') /\ (mod # "live" => \A l \in Leases : lease'[l].refs = 0)
  BY <1>1, <1>2, LeasesFit DEF Fit, SameSession, Kept
<1>5. gen > 0 /\ (mod # "live" => ~dev'.pinned)
  BY <1>1, <1>2 DEF IInv, BindingInv, ModInv, SameSession, Kept
<1> QED
  BY <1>1, <1>2, <1>3, <1>4, <1>5, PciKeeps DEF SameFrame, PciPhases

\* Disconnecting the parent, and forgetting the adapter of a quarantine.
LEMMA ParentGone ==
  ASSUME NEW d \in Adapter, DevOK(d), NEW b \in BOOLEAN, b = d.bound \/ (d.quar /\ ~b)
  PROVE  LET e == [d EXCEPT !.v4l2 = FALSE, !.bound = b] IN
         /\ e \in Adapter /\ DevOK(e) /\ Kept(d, e) /\ e.quar = d.quar
         /\ e.present = d.present /\ e.susp = d.susp /\ e.bound = b
         /\ e.users = d.users /\ ~e.v4l2
<1> DEFINE e == [d EXCEPT !.v4l2 = FALSE, !.bound = b]
<1>1. e \in Adapter
  BY DEF Adapter
<1>2. /\ SameSession(d, e) /\ e.present = d.present /\ e.susp = d.susp
      /\ e.quar = d.quar /\ e.bound = b /\ e.users = d.users /\ e.cmdsAdp = d.cmdsAdp
      /\ e.l0s = d.l0s /\ e.busy = d.busy /\ e.master = d.master
      /\ e.quiesced = d.quiesced /\ ~e.v4l2
  BY DEF Adapter, SameSession, Kept
<1> HIDE DEF e
<1>3. DevOK(e)
  BY <1>2 DEF DevOK, SameSession, Kept
<1> QED
  BY <1>1, <1>2, <1>3 DEF SameSession, e

\* The adapter is kept after a failure, forgotten after a removal.
LEMMA UnregisterOutcome ==
  ASSUME IInv, crystalhd_v4l2_unregister
  PROVE  /\ dev' \in Adapter /\ DevOK(dev') /\ ~dev'.susp /\ ~dev'.v4l2
         /\ dev'.life = dev.life /\ dev'.put = dev.put
         /\ dev'.owner \in Leases => dev'.life = dev'.owner
         /\ dev'.pinned => dev.pinned
         /\ \/ dev'.bound /\ dev.bound /\ dev'.users = dev.users
            \/ ~dev'.bound
<1>1. /\ pci \in {"failed", "removed"} /\ dev.put = NONE
      /\ dev' = IF pci = "failed" THEN [dev EXCEPT !.v4l2 = FALSE]
                ELSE IF dev.quar THEN [dev EXCEPT !.v4l2 = FALSE, !.bound = FALSE]
                ELSE [Absent0 EXCEPT !.fails = dev.fails]
  BY DEF crystalhd_v4l2_unregister
<1>2. /\ dev \in Adapter /\ DevOK(dev) /\ dev.bound /\ ~dev.present /\ ~dev.susp
      /\ dev.owner \in Leases => dev.life = dev.owner
  BY <1>1 DEF IInv, TypeOK, PciInv
<1>3. CASE pci = "failed"
  <2> DEFINE e == [dev EXCEPT !.v4l2 = FALSE, !.bound = dev.bound]
  <2>1. dev' = e
    BY <1>1, <1>2, <1>3 DEF Adapter
  <2>2. dev.bound \in BOOLEAN
    BY <1>2 DEF Adapter
  <2>3. /\ e \in Adapter /\ DevOK(e) /\ Kept(dev, e) /\ e.quar = dev.quar
        /\ e.present = dev.present /\ e.susp = dev.susp /\ e.bound = dev.bound
        /\ e.users = dev.users /\ ~e.v4l2
    BY <1>2, <2>2, ParentGone
  <2> HIDE DEF e
  <2> QED
    BY <1>2, <2>1, <2>3 DEF Kept
<1>4. CASE pci # "failed" /\ dev.quar
  <2>1. dev' = [dev EXCEPT !.v4l2 = FALSE, !.bound = FALSE]
    BY <1>1, <1>4
  <2>3. /\ dev' \in Adapter /\ DevOK(dev') /\ Kept(dev, dev') /\ dev'.quar = dev.quar
        /\ dev'.present = dev.present /\ dev'.susp = dev.susp /\ dev'.bound = FALSE
        /\ dev'.users = dev.users /\ ~dev'.v4l2
    BY <1>2, <1>4, <2>1, ParentGone
  <2> QED
    BY <1>2, <2>3 DEF Kept
<1>5. CASE pci # "failed" /\ ~dev.quar
  <2>1. dev' = [Absent0 EXCEPT !.fails = dev.fails] /\ dev.fails \in 0 .. MaxFail
    BY <1>1, <1>2, <1>5 DEF Adapter
  <2>2. ~dev.pinned
    BY <1>1, <1>5 DEF IInv, PciInv
  <2>3. dev.life = NONE
    BY <1>2, <2>2 DEF DevOK
  <2>4. /\ dev' \in Adapter /\ DevOK(dev') /\ ~dev'.bound /\ ~dev'.susp /\ ~dev'.v4l2
        /\ ~dev'.pinned /\ dev'.life = NONE /\ dev'.put = NONE /\ dev'.owner = NONE
    BY <2>1, AbsentSound
  <2> QED
    BY <1>1, <2>3, <2>4, IdentityAssumption
<1> QED
  BY <1>3, <1>4, <1>5

LEMMA KeepsUnregister ==
  ASSUME IInv, crystalhd_v4l2_unregister
  PROVE  IInv'
<1>1. /\ pci \in {"failed", "removed"} /\ pci' = "idle"
      /\ lease' = IF dev.v4l2 THEN KickPending(lease) ELSE lease
      /\ slot' = IF dev'.bound THEN slot ELSE [s \in Slots |-> FreeSlot]
      /\ UNCHANGED <<gen, file, op, input, gate, mod>>
  BY DEF crystalhd_v4l2_unregister
<1>2. /\ dev' \in Adapter /\ DevOK(dev') /\ ~dev'.susp /\ ~dev'.v4l2
      /\ dev'.life = dev.life /\ dev'.put = dev.put
      /\ dev'.owner \in Leases => dev'.life = dev'.owner
      /\ dev'.pinned => dev.pinned
      /\ \/ dev'.bound /\ dev.bound /\ dev'.users = dev.users
         \/ ~dev'.bound
  BY UnregisterOutcome
<1>3. Fit(lease', dev') /\ (mod # "live" => \A l \in Leases : lease'[l].refs = 0)
  <2>1. CASE dev.v4l2
    BY <1>1, <1>2, <2>1, KickFits, LeasesFit
  <2>2. CASE ~dev.v4l2
    BY <1>1, <1>2, <2>2, LeasesFit DEF Fit
  <2> QED
    BY <2>1, <2>2
<1>4. slot' \in [Slots -> [used : BOOLEAN, mode : {"INV", "MON", "PLAY"}]]
  <2>1. CASE dev'.bound
    BY <1>1, <2>1 DEF IInv, TypeOK
  <2>2. CASE ~dev'.bound
    BY <1>1, <2>2, SlotsCleared
  <2> QED
    BY <2>1, <2>2
<1>5. TypeOK'
  BY <1>1, <1>2, <1>3, <1>4 DEF IInv, TypeOK, Fit, PciPhases
<1>6. PciInv'
  BY <1>1, <1>2 DEF PciInv
<1>7. ModInv'
  BY <1>1, <1>2, <1>3 DEF IInv, ModInv
<1>8. BindingInv'
  <2>1. \A f \in Files : op[f] = "none"
    BY <1>1 DEF IInv, PciInv
  <2>2. gate = NONE
    BY <2>1 DEF IInv, BindingInv, TypeOK
  <2> QED
    BY <1>1, <1>2, <2>1, <2>2 DEF IInv, BindingInv
<1>9. SlotInv'
  <2>1. CASE dev'.bound
    <3>1. slot' = slot
      BY <1>1, <2>1
    <3> QED
      BY <1>1, <1>2, <2>1, <3>1 DEF IInv, SlotInv
  <2>2. CASE ~dev'.bound
    BY <2>2 DEF SlotInv
  <2> QED
    BY <2>1, <2>2
<1>10. LeaseInv'
  BY <1>1, <1>3 DEF Fit, LeaseInv
<1> QED
  BY <1>2, <1>5, <1>6, <1>7, <1>8, <1>9, <1>10 DEF IInv

\* Module exit begins only when nothing refers to the module.
LEMMA KeepsModule ==
  ASSUME IInv, chd_dec_module_cleanup
  PROVE  IInv'
<1>1. /\ UNCHANGED <<dev, gen, slot, file, op, input, gate, lease, pci>>
      /\ \/ ModuleIdle /\ mod' = "going"
         \/ mod = "going" /\ ~dev.bound /\ mod' = "gone"
  BY DEF chd_dec_module_cleanup, userVars
<1>2. TypeOK' /\ DevOK(dev)' /\ PciInv' /\ BindingInv' /\ SlotInv' /\ LeaseInv'
  BY <1>1 DEF IInv, TypeOK, PciInv, BindingInv, SlotInv, LeaseInv
<1>3. ModInv'
  BY <1>1 DEF IInv, ModInv, ModuleIdle
<1> QED
  BY <1>2, <1>3 DEF IInv

-----------------------------------------------------------------------------
(* The inductive invariant and what follows from it.                       *)

\* The invariant holds initially, every step keeps it.
LEMMA InitIInv == Init => IInv
<1> SUFFICES ASSUME Init PROVE IInv
  OBVIOUS
<1>1. Absent0 \in Adapter /\ DevOK(Absent0)
  <2>1. Absent0 \in Adapter
    BY BoundAssumption DEF Absent0, Adapter
  <2>2. DevOK(Absent0)
    BY DEF DevOK, Absent0
  <2> QED
    BY <2>1, <2>2
<1>2. NewLease \in LeaseType /\ LeaseOK(NewLease) /\ ~NewLease.core /\ NewLease.gen = 0
      /\ NewLease.refs = 0
  BY BoundAssumption DEF NewLease, LeaseType, LeaseOK, Count
<1>3. TypeOK
  <2>1. slot \in [Slots -> [used : BOOLEAN, mode : {"INV", "MON", "PLAY"}]]
    BY DEF Init, FreeSlot
  <2>2. file \in [Files -> [gen : 0 .. MaxGen, slot : 0 .. MaxOpens]]
    BY BoundAssumption DEF Init
  <2>3. gen \in 0 .. MaxGen
    BY BoundAssumption DEF Init
  <2>4. lease \in [Leases -> LeaseType]
    BY <1>2 DEF Init
  <2> QED
    BY <1>1, <2>1, <2>2, <2>3, <2>4 DEF Init, TypeOK, PciPhases
<1>4. PciInv /\ SlotInv /\ ModInv
  BY IdentityAssumption DEF Init, PciInv, SlotInv, ModInv, Absent0
<1>5. BindingInv
  BY DEF Init, BindingInv, Absent0
<1>6. LeaseInv
  BY <1>2, IdentityAssumption DEF Init, LeaseInv, Absent0
<1> QED
  BY <1>1, <1>3, <1>4, <1>5, <1>6 DEF IInv, Init

LEMMA NextIInv == IInv /\ [Next]_vars => IInv'
<1> SUFFICES ASSUME IInv, [Next]_vars PROVE IInv'
  OBVIOUS
<1>1. ASSUME NEW f \in Files, FileStep(f) PROVE IInv'
  <2>1. CASE \E k \in Kinds : LegacyBegin(f, k)
    BY <2>1, KeepsBegin
  <2>2. CASE CloseStale(f)
    BY <2>2, KeepsCloseStale
  <2>3. CASE NativeBody(f)
    BY <2>3, KeepsNative
  <2>4. CASE ReceiveBody(f)
    BY <2>4, KeepsReceive
  <2>5. CASE LegacyUpgrade(f)
    BY <2>5, KeepsUpgrade
  <2>6. CASE LegacyBody(f)
    BY <2>6, KeepsOpen, KeepsMonitor, KeepsPlay, KeepsDownload, KeepsRelease,
       KeepsClose, KeepsRefused DEF LegacyBody
  <2>7. CASE InputBegin(f)
    BY <2>7, KeepsInputBegin
  <2>8. CASE InputDrains(f) \/ InputEnd(f)
    BY <2>8, KeepsInputDone
  <2> QED
    BY <1>1, <2>1, <2>2, <2>3, <2>4, <2>5, <2>6, <2>7, <2>8 DEF FileStep
<1>2. ASSUME NEW l \in Leases, LeaseStep(l) PROVE IInv'
  <2>1. CASE crystalhd_v4l2_ctx_create(l)
    BY <2>1, KeepsCreate
  <2>2. CASE crystalhd_v4l2_ctx_acquire(l)
    BY <2>2, KeepsAcquire
  <2>3. CASE LeaseDownload(l)
    BY <2>3, KeepsLeaseDownload
  <2>4. CASE LeasePost(l)
    BY <2>4, KeepsLeasePost
  <2>5. CASE crystalhd_v4l2_ctx_close(l)
    BY <2>5, KeepsLeaseClose
  <2>6. CASE LeaseBasePut(l)
    BY <2>6, KeepsBasePut
  <2>7. CASE WorkerStart(l)
    BY <2>7, KeepsWorkerStart
  <2>8. CASE WorkerTry(l)
    BY <2>8, KeepsWorkerTry
  <2>9. CASE WorkerCheck(l)
    BY <2>9, KeepsWorkerCheck
  <2> QED
    BY <1>2, <2>1, <2>2, <2>3, <2>4, <2>5, <2>6, <2>7, <2>8, <2>9 DEF LeaseStep
<1>3. CASE PciStep
  BY <1>3, KeepsProbe, KeepsSuspend, KeepsResume, KeepsFailClosed, KeepsUnregister,
     KeepsRemoveBegin, KeepsRemove, KeepsModule DEF PciStep
<1>4. CASE OwnerPut
  BY <1>4, KeepsOwnerPut
<1>5. CASE HwFault
  BY <1>5, KeepsHwFault
<1>6. CASE UNCHANGED vars
  <2>1. UNCHANGED <<dev, gen, slot, file, op, input, gate, lease, pci, mod>>
    BY <1>6 DEF vars
  <2>2. TypeOK' /\ DevOK(dev)' /\ PciInv' /\ ModInv'
    BY <2>1 DEF IInv, TypeOK, PciInv, ModInv
  <2>3. BindingInv' /\ SlotInv' /\ LeaseInv'
    BY <2>1 DEF IInv, BindingInv, SlotInv, LeaseInv
  <2> QED
    BY <2>2, <2>3 DEF IInv
<1> QED
  BY <1>1, <1>2, <1>3, <1>4, <1>5, <1>6 DEF Next

LEMMA Inductive == Spec => []IInv
  BY InitIInv, NextIInv, PTL DEF Spec

(* Every variable keeps the type of the C object it models; no lease's     *)
(* kref of crystalhd_v4l2.c underflows or exceeds its four holders.        *)
THEOREM TypeCorrect == Spec => []TypeOK
<1>1. IInv => TypeOK
  BY DEF IInv
<1> QED
  BY <1>1, Inductive, PTL

(* The rings are freed only when no engine of a mastering device works on  *)
(* them, on every path of crystalhd_cmds.c and crystalhd_lnx.c that frees. *)
THEOREM RingsOutliveDma == Spec => []NoFreeUnderDma
<1>1. IInv => NoFreeUnderDma
  BY DEF IInv, DevOK, NoFreeUnderDma
<1> QED
  BY <1>1, Inductive, PTL

(* The session's module pin covers all that the driver must still clean    *)
(* up, and an unloaded module leaves nothing behind.                       *)
THEOREM PinCoversResources == Spec => []ResourcesPinned
<1>1. ASSUME IInv PROVE ResourcesPinned
  <2>1. /\ dev.rings \/ dev.owner # NONE \/ dev.life # NONE \/ dev.quar => dev.pinned
        /\ dev.l0s /\ dev.present => dev.pinned
    BY <1>1 DEF IInv, DevOK
  <2>2. mod = "gone" => /\ ~dev.pinned /\ ~dev.hw /\ ~dev.bound
                        /\ \A l \in Leases : lease[l].refs = 0
    BY <1>1 DEF IInv, DevOK, ModInv
  <2> QED
    BY <2>1, <2>2 DEF ResourcesPinned
<1> QED
  BY <1>1, Inductive, PTL

(* cfg_users counts the used slots, and every used slot has exactly one    *)
(* file of the current generation (crystalhd_user_open, _close, probe).    *)
THEOREM SlotsHaveOneFile == Spec => []SlotsAccounted
<1>1. ASSUME IInv, dev.bound, NEW s \in Slots
      PROVE  Cardinality({f \in Files : file[f].gen = gen /\ file[f].slot = s})
                = IF slot[s].used THEN 1 ELSE 0
  <2> DEFINE M == {f \in Files : file[f].gen = gen /\ file[f].slot = s}
  <2>0. s # 0
    BY BoundAssumption DEF Slots
  <2>1. CASE slot[s].used
    <3>1. PICK f \in Files : file[f].gen = gen /\ file[f].slot = s
      BY <1>1, <2>1 DEF IInv, SlotInv
    <3>2. \A g \in M : g = f
      BY <1>1, <2>0, <3>1 DEF IInv, SlotInv
    <3>3. M = {f}
      BY <3>1, <3>2
    <3> QED
      BY <2>1, <3>3, FS_Singleton
  <2>2. CASE ~slot[s].used
    <3>1. M = {}
      BY <1>1, <2>0, <2>2 DEF IInv, SlotInv
    <3> QED
      BY <2>2, <3>1, FS_EmptySet
  <2> QED
    BY <2>1, <2>2
<1>2. IInv => SlotsAccounted
  BY <1>1 DEF SlotsAccounted, IInv, SlotInv
<1> QED
  BY <1>2, Inductive, PTL

(* The kref of a lease counts its holders, and nobody reaches a lease      *)
(* whose last reference is gone (crystalhd_v4l2.c, the core's owner ops).  *)
THEOREM LeaseOutlivesUsers == Spec => []LeaseNotUsedAfterFree
<1>1. ASSUME IInv, NEW l \in Leases
      PROVE  LET r == lease[l] n(b) == IF b THEN 1 ELSE 0 IN
             /\ r.refs = n(r.base) + n(r.core) + n(r.active) + n(r.pending)
             /\ r.core <=> l \in {dev.life, dev.put}
             /\ r.core => r.base \/ r.pending
             /\ r.gen > 0 /\ r.refs = 0 => r.done /\ r.phase = "off"
  <2> DEFINE r == lease[l]
  <2>1. r \in LeaseType /\ LeaseOK(r) /\ (r.core <=> l \in {dev.life, dev.put})
    BY <1>1, LeaseFacts
  <2>2. r.core => r.base \/ r.pending
    <3>1. r.core => r.refs # 0
      BY <2>1, LeaseCounts
    <3>2. r.core => r.gen > 0
      <4>1. r.gen \in Nat
        BY <2>1, BoundAssumption DEF LeaseType
      <4>2. r.core => r.gen # 0
        BY <2>1, <3>1 DEF LeaseOK
      <4> QED
        BY <4>1, <4>2
    <3> QED
      BY <2>1, <3>2 DEF LeaseOK
  <2>3. r.gen > 0 /\ r.refs = 0 => r.done /\ r.phase = "off"
    BY <2>1, LeaseCounts DEF LeaseOK
  <2>4. r.refs = Count(r.base) + Count(r.core) + Count(r.active) + Count(r.pending)
    BY <2>1 DEF LeaseOK
  <2> HIDE DEF r
  <2> QED
    BY <2>1, <2>2, <2>3, <2>4 DEF r, Count
<1>2. IInv => LeaseNotUsedAfterFree
  BY <1>1 DEF LeaseNotUsedAfterFree
<1> QED
  BY <1>2, Inductive, PTL
=============================================================================
