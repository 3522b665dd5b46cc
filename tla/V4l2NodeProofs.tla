-------------------------- MODULE V4l2NodeProofs --------------------------
(***************************************************************************)
(* What V4l2Node promises for any clips, any number of CAPTURE buffers and *)
(* any bounds on resets and failures: its variables keep their types, no   *)
(* CAPTURE buffer is lost or handed out twice, and a joined worker stays   *)
(* joined.                                                                 *)
(*                                                                         *)
(* The inductive invariant FileInv is about the struct file alone, so that *)
(* each function of the source is shown to keep it once and the actions    *)
(* are put together from those lemmas.  It adds to the properties          *)
(*   - what the TX worker has in its hands while run_lock is dropped: the  *)
(*     head of the source queue, or nothing (InputOK);                     *)
(*   - that without the OUTPUT queue there is no session, no channel, no   *)
(*     work and no registration (OffOK);                                   *)
(*   - that a drain that is over has no marker and no transfer left, and   *)
(*     a channel that drains has seen input (PhaseOK);                     *)
(*   - that a marker kept back excludes a registration and a source change *)
(*     (MarkerOK), without which STREAMOFF of a pending change would lose  *)
(*     its buffer.                                                         *)
(* IoInv says what an ioctl that waits for the workers found before and    *)
(* relies on after the wait.                                               *)
(***************************************************************************)
EXTENDS V4l2Node, FiniteSetTheorems, TLAPS

Fields ==
    {"closing", "admitted", "fatal", "out", "cap", "session", "known", "pending",
     "started", "drain", "left", "seen", "empty", "unopened", "eosDone", "txActive",
     "txStopping", "run", "tx", "txau", "phase", "epoch", "tokens", "fmt", "quant",
     "alloc", "src", "next", "dst", "held", "active", "disc", "last", "staged",
     "faults", "late", "crossed", "stale"}

\* y is x with no field changed but those of S.
But(x, y, S) == \A g \in Fields \ S : y[g] = x[g]

\* Every CAPTURE buffer is in one place.
PostedCount(x) == IF x.active = NONE THEN 0 ELSE 1
KeptCount(x) == IF x.last = NONE THEN 0 ELSE 1
CountOK(x) == x.held + Len(x.dst) + PostedCount(x) + KeptCount(x) = NBufs

LedgerOK(x) == Cardinality(x.tokens) <= clip.ledger

\* The TX worker and the head of the source queue.
InputOK(x) ==
    /\ x.left <= Len(x.src) /\ (~x.drain => x.left = 0)
    /\ x.txActive <=> x.tx # "idle"
    /\ x.tx \in {"idle", "queued"} => x.txau = EOS
    /\ x.txau # EOS => x.src # <<>> /\ Head(x.src) = x.txau
    /\ x.tx = "queued" /\ ~x.seen => x.src # <<>> /\ (x.drain => x.left > 0)

\* Without the OUTPUT queue there is no session and nothing runs.
OffOK(x) ==
    /\ x.session = x.out
    /\ ~x.out => /\ ~x.admitted /\ ~x.run /\ ~x.txActive /\ x.phase = "OFF"
                 /\ ~x.started /\ ~x.drain
                 /\ x.disc = NONE /\ x.active = NONE /\ x.last = NONE

PhaseOK(x) ==
    /\ x.phase = "DRAINING" => x.seen
    /\ x.phase = "DRAINED" => x.last = NONE /\ ~x.txActive

\* A marker that is kept back stops everything else that needs a buffer.
MarkerOK(x) ==
    /\ x.last # NONE => x.active = NONE /\ x.known /\ ~x.pending /\ x.seen
    /\ x.active # NONE => x.known /\ ~x.pending
    /\ ~x.cap => x.active = NONE /\ x.last = NONE

FileInv(x) ==
    /\ x \in File /\ CountOK(x) /\ LedgerOK(x) /\ InputOK(x)
    /\ OffOK(x) /\ PhaseOK(x) /\ MarkerOK(x)

\* What an ioctl that waits for the workers relies on.
IoInv ==
    /\ io = "closed" => ~f.admitted /\ ~f.run /\ ~f.txActive
    /\ io \in {"off_output", "off_capture", "reqbufs"} => f.epoch < MaxEpoch
    /\ io \in {"resume_on", "resume_cmd"} => f.phase = "DRAINED"
    /\ io = "off_output" => f.out

IInv == TypeOK /\ FileInv(f) /\ IoInv

-----------------------------------------------------------------------------
(* The types of the fields, and of what they may hold.                     *)

LEMMA FileTypes ==
  ASSUME NEW x \in File
  PROVE  /\ \A g \in {"closing", "admitted", "fatal", "out", "cap", "session", "known",
                      "pending", "started", "drain", "seen", "empty", "unopened",
                      "eosDone", "txActive", "txStopping", "run", "late", "crossed",
                      "stale"} :
               x[g] \in BOOLEAN
         /\ x.left \in Nat /\ x.fmt \in Nat /\ x.alloc \in Nat /\ x.next \in Nat
         /\ x.held \in Nat /\ x.tx \in TxStates /\ x.txau \in Transfers
         /\ x.phase \in Phases /\ x.epoch \in Epochs /\ x.tokens \in Ledgers
         /\ x.quant \in Quants /\ x.src \in Sources /\ x.dst \in Buffers
         /\ x.active \in Registrations /\ x.disc \in Discoveries /\ x.last \in Markers
         /\ x.staged \in StagedPictures /\ x.faults \in Budget
  BY DEF File

LEMMA NoneTypes ==
  /\ NONE \in Registrations /\ NONE \in Discoveries /\ NONE \in Markers
  /\ NONE \in StagedPictures
  BY DEF Registrations, Discoveries, Markers, StagedPictures

LEMMA SeqElement ==
  ASSUME NEW S, NEW s \in Seq(S), NEW i \in 1 .. Len(s)
  PROVE  s[i] \in S
  OBVIOUS

LEMMA ClipTypes ==
  ASSUME clip \in Clips
  PROVE  /\ AUs \in SUBSET Nat /\ EOS \notin AUs /\ IsFiniteSet(AUs)
         /\ \A a \in AUs : clip.aus[a].fmt \in Nat /\ clip.aus[a].range \in Quants
         /\ clip.hint \in Nat /\ clip.ledger \in Nat
<1>1. /\ clip.aus \in Seq([fmt : Nat, range : Quants])
      /\ clip.hint \in Nat /\ clip.ledger \in Nat
  BY NodeAssumption
<1>2. Len(clip.aus) \in Nat /\ AUs = 1 .. Len(clip.aus)
  BY <1>1 DEF AUs
<1>3. IsFiniteSet(AUs)
  BY <1>2, FS_Interval
<1>4. ASSUME NEW a \in AUs
      PROVE  clip.aus[a].fmt \in Nat /\ clip.aus[a].range \in Quants
  <2>1. clip.aus[a] \in [fmt : Nat, range : Quants]
    BY <1>1, <1>2, SeqElement
  <2> QED
    BY <2>1
<1> QED
  BY <1>1, <1>2, <1>3, <1>4 DEF EOS

LEMMA FreshTypes ==
  ASSUME clip \in Clips
  PROVE  /\ NONE \notin Posts(AUs) /\ NONE \notin Probes(AUs) /\ NONE \notin Copies(AUs)
         /\ NONE \notin Answers(AUs) /\ NONE \notin Nat /\ NONE # "src"
<1>1. AUs \in SUBSET Nat
  BY ClipTypes
<1>2. Answers(AUs) \in SUBSET Answers(Nat)
  BY <1>1 DEF Answers
<1>3. Posts(AUs) \in SUBSET Posts(Nat) /\ Probes(AUs) \in SUBSET Probes(Nat)
  BY <1>2 DEF Posts, Probes
<1>4. Copies(AUs) \in SUBSET Copies(Nat)
  BY <1>1 DEF Copies
<1> QED
  BY <1>2, <1>3, <1>4, NoneIsFresh

-----------------------------------------------------------------------------
(* What each function changes.                                             *)

LEMMA ButRefl == ASSUME NEW x PROVE But(x, x, {})
  BY DEF But

LEMMA KickEffect ==
  ASSUME NEW x \in File
  PROVE  /\ chd_kick(x) \in File /\ But(x, chd_kick(x), {"run"})
         /\ chd_kick(x).run => x.run \/ x.admitted
<1> DEFINE y == [x EXCEPT !.run = TRUE]
<1>1. y \in File /\ But(x, y, {"run"})
  BY DEF File, But, Fields
<1>2. chd_kick(x) = (IF x.admitted /\ (~x.closing \/ x.txActive) THEN y ELSE x)
  BY DEF chd_kick
<1> HIDE DEF y
<1> QED
  BY <1>1, <1>2 DEF But

LEMMA AdmitEffect ==
  ASSUME NEW x \in File, NEW b \in BOOLEAN
  PROVE  LET y == chd_admit(x, b)
         IN  /\ y \in File /\ But(x, y, {"admitted", "txStopping"})
             /\ y.admitted = (b /\ ~x.closing)
<1>1. x.closing \in BOOLEAN /\ x.txStopping \in BOOLEAN
  BY DEF File
<1>2. PICK a \in BOOLEAN : a = (b /\ ~x.closing)
  BY <1>1
<1>3. PICK s \in BOOLEAN : s = (x.txStopping /\ ~a)
  BY <1>1, <1>2
<1> DEFINE y == [x EXCEPT !.admitted = a, !.txStopping = s]
<1>4. chd_admit(x, b) = y
  BY <1>2, <1>3 DEF chd_admit
<1>5. y \in File
  BY DEF File
<1>6. But(x, y, {"admitted", "txStopping"})
  BY DEF File, But, Fields
<1>7. y.admitted = a
  BY DEF File
<1> QED
  BY <1>2, <1>4, <1>5, <1>6, <1>7

LEMMA ErrorEffect ==
  ASSUME NEW x \in File
  PROVE  LET y == chd_error(x)
         IN  /\ y \in File /\ But(x, y, {"fatal", "admitted", "txStopping"})
             /\ y.fatal = TRUE /\ y.admitted = FALSE
<1> DEFINE z == [x EXCEPT !.fatal = TRUE]
<1>1. z \in File /\ But(x, z, {"fatal"}) /\ z.fatal = TRUE
  BY DEF File, But, Fields
<1>2. chd_error(x) = chd_admit(z, FALSE)
  BY DEF chd_error
<1> DEFINE y == chd_error(x)
<1> HIDE DEF z, y
<1>3. /\ y \in File /\ But(z, y, {"admitted", "txStopping"}) /\ y.admitted = FALSE
  <2>1. y = chd_admit(z, FALSE)
    BY <1>2 DEF y
  <2> QED
    BY <1>1, <2>1, AdmitEffect
<1>4. y.fatal = TRUE
  BY <1>1, <1>3 DEF But, Fields
<1>5. But(x, y, {"fatal", "admitted", "txStopping"})
  BY <1>1, <1>3 DEF But
<1> QED
  BY <1>3, <1>4, <1>5 DEF y

LEMMA BufDoneEffect ==
  ASSUME NEW x \in File
  PROVE  LET y == BufDone(x)
         IN  y \in File /\ But(x, y, {"held"}) /\ y.held = x.held + 1
<1> DEFINE n == x.held + 1
           y == [x EXCEPT !.held = n]
<1>0. n \in Nat
  BY FileTypes
<1> HIDE DEF n
<1>1. y \in File
  BY <1>0 DEF File
<1>2. But(x, y, {"held"})
  BY DEF File, But, Fields
<1>3. y.held = n
  BY DEF File
<1>4. BufDone(x) = y
  BY DEF BufDone, n
<1> HIDE DEF y
<1> QED
  BY <1>1, <1>2, <1>3, <1>4 DEF n

LEMMA DstRemoveEffect ==
  ASSUME NEW x \in File, x.dst # <<>>
  PROVE  LET y == DstRemove(x)
         IN  /\ y \in File /\ But(x, y, {"dst"})
             /\ y.dst = Tail(x.dst) /\ Len(y.dst) = Len(x.dst) - 1
             /\ Head(x.dst) \in Nat /\ Len(x.dst) \in Nat
<1>1. /\ Tail(x.dst) \in Buffers /\ Len(Tail(x.dst)) = Len(x.dst) - 1
      /\ Head(x.dst) \in Nat /\ Len(x.dst) \in Nat
  BY FileTypes DEF Buffers
<1> QED
  BY <1>1 DEF File, But, Fields, DstRemove

LEMMA ReturnActiveEffect ==
  ASSUME NEW x \in File
  PROVE  LET y == chd_return_active(x)
         IN  /\ y \in File /\ But(x, y, {"held", "active"}) /\ y.active = NONE
             /\ y.held = x.held + (IF x.active = NONE THEN 0 ELSE 1)
<1> DEFINE z == [x EXCEPT !.active = NONE]
<1>1. z \in File /\ But(x, z, {"active"}) /\ z.active = NONE
  BY NoneTypes DEF File, But, Fields
<1>2. chd_return_active(x) = IF x.active = NONE THEN x ELSE BufDone(z)
  BY DEF chd_return_active
<1>3. x.held \in Nat /\ z.held = x.held
  BY FileTypes, <1>1 DEF But, Fields
<1> HIDE DEF z
<1>4. CASE x.active = NONE
  BY <1>2, <1>3, <1>4, ButRefl DEF But
<1>5. CASE x.active # NONE
  <2>1. BufDone(z) \in File /\ But(z, BufDone(z), {"held"}) /\ BufDone(z).held = z.held + 1
    BY <1>1, BufDoneEffect
  <2>2. But(x, BufDone(z), {"held", "active"}) /\ BufDone(z).active = NONE
    BY <1>1, <2>1 DEF But, Fields
  <2> QED
    BY <1>2, <1>3, <1>5, <2>1, <2>2
<1> QED
  BY <1>4, <1>5

LEMMA ReturnDstEffect ==
  ASSUME NEW x \in File
  PROVE  LET y == chd_return_dst(x)
         IN  /\ y \in File /\ But(x, y, {"held", "dst"})
             /\ y.dst = <<>> /\ Len(y.dst) = 0 /\ y.held = x.held + Len(x.dst)
<1>1. Len(x.dst) \in Nat /\ x.held \in Nat /\ <<>> \in Buffers /\ Len(<<>>) = 0
  BY FileTypes DEF Buffers
<1>2. x.held + Len(x.dst) \in Nat
  BY <1>1
<1> QED
  BY <1>1, <1>2 DEF File, But, Fields, chd_return_dst

LEMMA FaultyEffect ==
  ASSUME NEW x \in File, x.faults < MaxFault
  PROVE  LET y == Faulty(x)
         IN  y \in File /\ But(x, y, {"faults"}) /\ y.faults = x.faults + 1
<1>1. x.faults + 1 \in Budget
  <2>1. x.faults \in Budget /\ MaxFault \in Nat
    BY FileTypes, NodeAssumption
  <2> QED
    BY <2>1 DEF Budget
<1> QED
  BY <1>1 DEF File, But, Fields, Faulty

-----------------------------------------------------------------------------
(* The steps of chd_run.                                                   *)

\* What they change before input is scheduled, and what among it no part of
\* the invariant speaks of while the OUTPUT queue streams.
RunFields ==
    {"held", "dst", "active", "last", "tokens", "phase", "started", "disc", "fmt",
     "known", "pending", "quant", "staged", "faults"}
Loose == {"started", "disc", "fmt", "quant", "staged", "faults"}

RunInv(x) == FileInv(x) /\ x.out

RunStep(x, y) ==
    /\ RunInv(y) /\ But(x, y, RunFields)
    /\ x.phase = "DRAINED" => y.phase = "DRAINED"

LEMMA RunRefl == ASSUME NEW x, RunInv(x) PROVE RunStep(x, x)
  BY DEF RunStep, But

LEMMA RunTransitive ==
  ASSUME NEW x, NEW y, NEW z, RunStep(x, y), RunStep(y, z)
  PROVE  RunStep(x, z)
  BY DEF RunStep, But

LEMMA RunKeeps ==
  ASSUME clip \in Clips, NEW x, RunInv(x), NEW y \in File, But(x, y, RunFields),
         y.tokens \subseteq x.tokens, CountOK(y), PhaseOK(y), MarkerOK(y),
         x.phase = "DRAINED" => y.phase = "DRAINED"
  PROVE  RunStep(x, y)
<1>1. /\ y.left = x.left /\ y.src = x.src /\ y.drain = x.drain /\ y.txActive = x.txActive
      /\ y.tx = x.tx /\ y.txau = x.txau /\ y.seen = x.seen /\ y.session = x.session
      /\ y.out = x.out
  BY DEF But, Fields, RunFields
<1>2. x \in File /\ LedgerOK(x) /\ InputOK(x) /\ OffOK(x) /\ x.out
  BY DEF RunInv, FileInv
<1>3. LedgerOK(y)
  <2>1. x.tokens \in SUBSET AUs /\ IsFiniteSet(AUs) /\ clip.ledger \in Nat
    BY <1>2, FileTypes, ClipTypes DEF Ledgers
  <2>2. IsFiniteSet(x.tokens)
    BY <2>1, FS_Subset
  <2>3. /\ Cardinality(y.tokens) \in Nat /\ Cardinality(x.tokens) \in Nat
        /\ Cardinality(y.tokens) <= Cardinality(x.tokens)
    BY <2>2, FS_Subset, FS_CardinalityType
  <2> QED
    BY <1>2, <2>1, <2>3 DEF LedgerOK
<1>4. InputOK(y)
  BY <1>1, <1>2 DEF InputOK
<1>5. OffOK(y) /\ y.out
  BY <1>1, <1>2 DEF OffOK
<1> QED
  BY <1>3, <1>4, <1>5 DEF RunStep, RunInv, FileInv

\* The numbers that CountOK adds.
LEMMA CountTypes ==
  ASSUME NEW x \in File
  PROVE  /\ x.held \in Nat /\ Len(x.dst) \in Nat /\ NBufs \in Nat
         /\ PostedCount(x) \in {0, 1} /\ KeptCount(x) \in {0, 1}
  BY FileTypes, NodeAssumption DEF Buffers, PostedCount, KeptCount

LEMMA LooseKeeps ==
  ASSUME clip \in Clips, NEW x, RunInv(x), NEW y \in File, But(x, y, Loose)
  PROVE  RunStep(x, y)
<1>1. But(x, y, RunFields)
  BY DEF But, Loose, RunFields
<1>2. /\ y.held = x.held /\ y.dst = x.dst /\ y.active = x.active /\ y.last = x.last
      /\ y.tokens = x.tokens /\ y.phase = x.phase /\ y.known = x.known
      /\ y.pending = x.pending /\ y.seen = x.seen /\ y.cap = x.cap
      /\ y.txActive = x.txActive
  BY DEF But, Loose, Fields
<1>3. CountOK(x) /\ PhaseOK(x) /\ MarkerOK(x)
  BY DEF RunInv, FileInv
<1>4. CountOK(y)
  BY <1>2, <1>3 DEF CountOK, PostedCount, KeptCount
<1>5. PhaseOK(y)
  BY <1>2, <1>3 DEF PhaseOK
<1>6. MarkerOK(y)
  BY <1>2, <1>3 DEF MarkerOK
<1> QED
  BY <1>1, <1>2, <1>4, <1>5, <1>6, RunKeeps

\* A client's buffer goes back to it.
DstReturned(x, y) ==
    /\ Len(x.dst) > 0 /\ Len(y.dst) = Len(x.dst) - 1 /\ y.held = x.held + 1

LEMMA DstReturnedEffect ==
  ASSUME NEW x \in File, x.dst # <<>>
  PROVE  LET y == BufDone(DstRemove(x))
         IN  y \in File /\ DstReturned(x, y) /\ But(x, y, {"dst", "held"})
<1> DEFINE y == DstRemove(x)  z == BufDone(y)
<1>1. /\ y \in File /\ But(x, y, {"dst"}) /\ Len(y.dst) = Len(x.dst) - 1
      /\ Len(x.dst) \in Nat /\ Len(x.dst) # 0
  <2>1. Len(x.dst) # 0
    BY FileTypes DEF Buffers
  <2> QED
    BY <2>1, DstRemoveEffect
<1> HIDE DEF y
<1>2. z \in File /\ But(y, z, {"held"}) /\ z.held = y.held + 1
  BY <1>1, BufDoneEffect
<1> HIDE DEF z
<1>3. z.dst = y.dst /\ y.held = x.held
  BY <1>1, <1>2 DEF But, Fields
<1>4. But(x, z, {"dst", "held"})
  BY <1>1, <1>2 DEF But
<1> QED
  BY <1>1, <1>2, <1>3, <1>4 DEF DstReturned, y, z

LEMMA DstReturnedKeeps ==
  ASSUME clip \in Clips, NEW x, RunInv(x), NEW y \in File, DstReturned(x, y),
         But(x, y, Loose \cup {"dst", "held"})
  PROVE  RunStep(x, y)
<1>1. But(x, y, RunFields)
  BY DEF But, Loose, RunFields
<1>2. /\ y.active = x.active /\ y.last = x.last
      /\ y.tokens = x.tokens /\ y.phase = x.phase /\ y.known = x.known
      /\ y.pending = x.pending /\ y.seen = x.seen /\ y.cap = x.cap
      /\ y.txActive = x.txActive
  BY DEF But, Loose, Fields
<1>3. x \in File /\ CountOK(x) /\ PhaseOK(x) /\ MarkerOK(x)
  BY DEF RunInv, FileInv
<1>4. CountOK(y)
  <2>1. PostedCount(y) = PostedCount(x) /\ KeptCount(y) = KeptCount(x)
    BY <1>2 DEF PostedCount, KeptCount
  <2>2. /\ x.held \in Nat /\ Len(x.dst) \in Nat /\ NBufs \in Nat
        /\ PostedCount(x) \in {0, 1} /\ KeptCount(x) \in {0, 1}
    BY <1>3, CountTypes
  <2> QED
    BY <1>3, <2>1, <2>2 DEF CountOK, DstReturned
<1>5. PhaseOK(y)
  BY <1>2, <1>3 DEF PhaseOK
<1>6. MarkerOK(y)
  BY <1>2, <1>3 DEF MarkerOK
<1> QED
  BY <1>1, <1>2, <1>4, <1>5, <1>6, RunKeeps

\* What a step of chd_run returns.
RunOutcome(x, r) == r.ok \in BOOLEAN /\ RunStep(x, r.f) /\ r.shown \in SUBSET AUs

LEMMA OkOutcome ==
  ASSUME NEW x, NEW y, RunStep(x, y), NEW sh \in SUBSET AUs, NEW r,
         r = Ok(y, sh) \/ r = Bad(y, sh)
  PROVE  RunOutcome(x, r) /\ r.f = y
<1>1. r.f = y /\ r.shown = sh /\ r.ok \in BOOLEAN
  <2>1. CASE r = Ok(y, sh)
    BY <2>1 DEF Ok
  <2>2. CASE r = Bad(y, sh)
    BY <2>2 DEF Bad
  <2> QED
    BY <2>1, <2>2
<1>2. RunStep(x, r.f)
  BY <1>1
<1> QED
  BY <1>1, <1>2 DEF RunOutcome

LEMMA OutcomeAfter ==
  ASSUME NEW x, NEW y, NEW r, RunStep(x, y), RunOutcome(y, r)
  PROVE  RunOutcome(x, r)
<1>1. RunStep(y, r.f) /\ r.ok \in BOOLEAN /\ r.shown \in SUBSET AUs
  BY DEF RunOutcome
<1>2. RunStep(x, r.f)
  BY <1>1, RunTransitive
<1> QED
  BY <1>1, <1>2 DEF RunOutcome

LEMMA MayFailKeeps ==
  ASSUME clip \in Clips, NEW x, NEW y, NEW bad, RunStep(x, y), RunStep(x, bad),
         bad.faults = y.faults, NEW sh \in SUBSET AUs, NEW r \in MayFail(y, bad, sh)
  PROVE  RunOutcome(x, r)
<1>1. bad \in File /\ RunInv(bad)
  BY DEF RunStep, RunInv, FileInv
<1>2. \/ r = Ok(y, sh)
      \/ bad.faults < MaxFault /\ r = Bad(Faulty(bad), sh)
  BY DEF MayFail
<1>3. CASE r = Ok(y, sh)
  BY <1>3, OkOutcome
<1>4. CASE bad.faults < MaxFault /\ r = Bad(Faulty(bad), sh)
  <2> DEFINE z == Faulty(bad)
  <2>1. z \in File /\ But(bad, z, {"faults"})
    BY <1>1, <1>4, FaultyEffect
  <2> HIDE DEF z
  <2>2. But(bad, z, Loose)
    BY <2>1 DEF But, Loose
  <2>3. RunStep(x, z)
    BY <1>1, <2>1, <2>2, LooseKeeps, RunTransitive
  <2> QED
    BY <1>4, <2>3, OkOutcome DEF z
<1> QED
  BY <1>2, <1>3, <1>4

LEMMA OpenKeeps ==
  ASSUME clip \in Clips, NEW x, RunInv(x), NEW sh \in SUBSET AUs,
         NEW r \in crystalhd_v4l2_decoder_open_locked(x, sh)
  PROVE  RunOutcome(x, r)
<1>1. x \in File /\ CountOK(x) /\ PhaseOK(x) /\ MarkerOK(x)
  BY DEF RunInv, FileInv
<1>2. CASE x.phase # "OFF"
  <2>1. r = Ok(x, sh)
    BY <1>2 DEF crystalhd_v4l2_decoder_open_locked
  <2> QED
    BY <2>1, RunRefl, OkOutcome
<1>3. CASE x.phase = "OFF"
  <2>1. ASSUME NEW p \in {"RUNNING", "FAILED"}
        PROVE  LET y == [x EXCEPT !.phase = p]
               IN  RunStep(x, y) /\ y.faults = x.faults
    <3> DEFINE y == [x EXCEPT !.phase = p]
    <3>1. p \in Phases
      BY DEF Phases
    <3>2. y \in File /\ y.phase = p
      BY <1>1, <3>1 DEF File
    <3>3. But(x, y, {"phase"})
      BY <1>1 DEF File, But, Fields
    <3> HIDE DEF y
    <3>4. But(x, y, RunFields)
      BY <3>3 DEF But, RunFields
    <3>5. /\ y.held = x.held /\ y.dst = x.dst /\ y.active = x.active /\ y.last = x.last
          /\ y.tokens = x.tokens /\ y.known = x.known /\ y.faults = x.faults
          /\ y.pending = x.pending /\ y.seen = x.seen /\ y.cap = x.cap
      BY <3>3 DEF But, Fields
    <3>6. CountOK(y)
      BY <1>1, <3>5 DEF CountOK, PostedCount, KeptCount
    <3>7. PhaseOK(y)
      BY <3>2 DEF PhaseOK
    <3>8. MarkerOK(y)
      BY <1>1, <3>5 DEF MarkerOK
    <3>9. RunStep(x, y)
      BY <1>3, <3>2, <3>4, <3>5, <3>6, <3>7, <3>8, RunKeeps
    <3> QED
      BY <3>5, <3>9 DEF y
  <2> DEFINE y == [x EXCEPT !.phase = "RUNNING"]  z == [x EXCEPT !.phase = "FAILED"]
  <2>2. r \in MayFail(y, z, sh)
    BY <1>3 DEF crystalhd_v4l2_decoder_open_locked
  <2>3. RunStep(x, y) /\ RunStep(x, z) /\ z.faults = y.faults
    BY <2>1
  <2> HIDE DEF y, z
  <2> QED
    BY <2>2, <2>3, MayFailKeeps
<1> QED
  BY <1>2, <1>3

\* The staged picture goes out: no other field than these changes.
LEMMA DeliverKeeps ==
  ASSUME clip \in Clips, NEW x, RunInv(x), NEW sh \in SUBSET AUs,
         NEW r \in chd_deliver_staged(x, sh)
  PROVE  RunOutcome(x, r) /\ But(x, r.f, {"dst", "held", "staged"})
<1>1. x \in File
  BY DEF RunInv, FileInv
<1> DEFINE y == [x EXCEPT !.staged = NONE]
           b == BufDone(DstRemove(x))  c == BufDone(DstRemove(y))
<1>2. \/ r = Ok(x, sh) \/ r = Bad(x, sh)
      \/ x.dst # <<>> /\ r = Bad(b, sh)
      \/ x.staged # NONE /\ x.dst # <<>> /\ r = Ok(c, sh \cup {x.staged.au})
  BY DEF chd_deliver_staged
<1>3. x.dst # <<>> => b \in File /\ DstReturned(x, b) /\ But(x, b, {"dst", "held"})
  BY <1>1, DstReturnedEffect
<1>4. y \in File /\ But(x, y, {"staged"})
  BY <1>1, NoneTypes DEF File, But, Fields
<1> HIDE DEF b, y
<1>5. CASE r = Ok(x, sh) \/ r = Bad(x, sh)
  BY <1>5, RunRefl, OkOutcome DEF But
<1>6. CASE x.dst # <<>> /\ r = Bad(b, sh)
  <2>1. But(x, b, Loose \cup {"dst", "held"}) /\ But(x, b, {"dst", "held", "staged"})
    BY <1>3, <1>6 DEF But
  <2>2. RunStep(x, b)
    BY <1>3, <1>6, <2>1, DstReturnedKeeps
  <2> QED
    BY <1>6, <2>1, <2>2, OkOutcome
<1>7. CASE x.staged # NONE /\ x.dst # <<>> /\ r = Ok(c, sh \cup {x.staged.au})
  <2>1. y.dst = x.dst /\ y.held = x.held
    BY <1>4 DEF But, Fields
  <2>2. c \in File /\ DstReturned(y, c) /\ But(y, c, {"dst", "held"})
    BY <1>4, <1>7, <2>1, DstReturnedEffect
  <2> HIDE DEF c
  <2>3. DstReturned(x, c)
    BY <2>1, <2>2 DEF DstReturned
  <2>4. But(x, c, Loose \cup {"dst", "held"}) /\ But(x, c, {"dst", "held", "staged"})
    BY <1>4, <2>2 DEF But, Loose
  <2>5. RunStep(x, c)
    BY <2>2, <2>3, <2>4, DstReturnedKeeps
  <2>6. x.staged \in Copies(AUs)
    BY <1>1, <1>7, FileTypes DEF StagedPictures
  <2>7. x.staged.au \in AUs
    BY <2>6 DEF Copies
  <2> QED
    BY <1>7, <2>4, <2>5, <2>7, OkOutcome
<1> QED
  BY <1>2, <1>5, <1>6, <1>7

LEMMA PostKeeps ==
  ASSUME clip \in Clips, NEW x, RunInv(x), NEW sh \in SUBSET AUs,
         x.cap, x.known, ~x.pending, x.active = NONE,
         NEW r \in PostCapture(x, sh)
  PROVE  RunOutcome(x, r)
<1> DEFINE reg == [fmt |-> Head(x.dst), ep |-> x.epoch, res |-> NONE]
           y == [x EXCEPT !.active = reg]
           z == DstRemove(y)  b == BufDone(DstRemove(x))
<1>1. x \in File /\ CountOK(x) /\ PhaseOK(x) /\ MarkerOK(x)
  BY DEF RunInv, FileInv
<1>2. \/ r = Ok(x, sh)
      \/ x.dst # <<>> /\ r = Bad(b, sh)
      \/ x.dst # <<>> /\ x.last = NONE /\ r \in MayFail(z, b, sh)
  BY DEF PostCapture
<1>3. x.dst # <<>> =>
         /\ b \in File /\ DstReturned(x, b) /\ But(x, b, {"dst", "held"}) /\ RunStep(x, b)
  <2> SUFFICES ASSUME x.dst # <<>>
               PROVE  /\ b \in File /\ DstReturned(x, b) /\ But(x, b, {"dst", "held"})
                      /\ RunStep(x, b)
    OBVIOUS
  <2>1. b \in File /\ DstReturned(x, b) /\ But(x, b, {"dst", "held"})
    BY <1>1, DstReturnedEffect
  <2> HIDE DEF b
  <2>2. But(x, b, Loose \cup {"dst", "held"})
    BY <2>1 DEF But
  <2> QED
    BY <2>1, <2>2, DstReturnedKeeps
<1>4. CASE r = Ok(x, sh)
  BY <1>4, RunRefl, OkOutcome
<1>5. CASE x.dst # <<>> /\ r = Bad(b, sh)
  BY <1>3, <1>5, OkOutcome
<1>6. CASE x.dst # <<>> /\ x.last = NONE /\ r \in MayFail(z, b, sh)
  <2>1. Head(x.dst) \in Nat /\ Len(x.dst) # 0 /\ Len(x.dst) \in Nat
    BY <1>1, <1>6, FileTypes DEF Buffers
  <2>2. x.epoch \in Nat
    BY <1>1, FileTypes, NodeAssumption DEF Epochs
  <2>3. reg \in Posts(AUs)
    BY <2>1, <2>2 DEF Posts
  <2>4. reg \in Registrations /\ reg # NONE
    BY <2>3, FreshTypes DEF Registrations
  <2> HIDE DEF reg
  <2>5. y \in File /\ y.active = reg
    BY <1>1, <2>4 DEF File
  <2>6. But(x, y, {"active"})
    BY <1>1 DEF File, But, Fields
  <2> HIDE DEF y
  <2>7. y.dst = x.dst
    BY <2>6 DEF But, Fields
  <2>8. /\ z \in File /\ But(y, z, {"dst"}) /\ Len(z.dst) = Len(x.dst) - 1
    BY <1>6, <2>5, <2>7, DstRemoveEffect
  <2> HIDE DEF z, b
  <2>9. z.active = reg
    BY <2>5, <2>8 DEF But, Fields
  <2>10. But(x, z, {"active", "dst"})
    BY <2>6, <2>8 DEF But
  <2>11. But(x, z, RunFields)
    BY <2>10 DEF But, RunFields
  <2>12. /\ z.held = x.held /\ z.last = x.last /\ z.tokens = x.tokens /\ z.phase = x.phase
         /\ z.known = x.known /\ z.pending = x.pending /\ z.seen = x.seen
         /\ z.cap = x.cap /\ z.txActive = x.txActive /\ z.faults = x.faults
    BY <2>10 DEF But, Fields
  <2>13. CountOK(z)
    <3>1. PostedCount(x) = 0 /\ PostedCount(z) = 1 /\ KeptCount(z) = KeptCount(x)
      BY <2>4, <2>9, <2>12 DEF PostedCount, KeptCount
    <3>2. x.held \in Nat /\ NBufs \in Nat /\ KeptCount(x) \in {0, 1}
      BY <1>1, CountTypes
    <3> QED
      BY <1>1, <2>1, <2>8, <2>12, <3>1, <3>2 DEF CountOK
  <2>14. PhaseOK(z)
    BY <1>1, <2>12 DEF PhaseOK
  <2>15. MarkerOK(z)
    BY <1>6, <2>12 DEF MarkerOK
  <2>16. RunStep(x, z)
    BY <2>8, <2>11, <2>12, <2>13, <2>14, <2>15, RunKeeps
  <2>17. b.faults = z.faults
    <3>1. b.faults = x.faults
      BY <1>3, <1>6 DEF But, Fields
    <3> QED
      BY <2>12, <3>1
  <2> QED
    BY <1>3, <1>6, <2>16, <2>17, MayFailKeeps
<1> QED
  BY <1>2, <1>4, <1>5, <1>6

LEMMA SubmitKeeps ==
  ASSUME clip \in Clips, NEW x, RunInv(x), NEW sh \in SUBSET AUs,
         NEW r \in chd_submit_capture(x, sh)
  PROVE  RunOutcome(x, r)
<1>1. CASE ~x.cap \/ ~x.known \/ x.pending \/ x.active # NONE
  <2>1. r = Ok(x, sh)
    BY <1>1 DEF chd_submit_capture
  <2> QED
    BY <2>1, RunRefl, OkOutcome
<1>2. CASE ~(~x.cap \/ ~x.known \/ x.pending \/ x.active # NONE)
  <2>1. r \in Then(chd_deliver_staged(x, sh), PostCapture)
    BY <1>2 DEF chd_submit_capture
  <2>2. PICK q \in chd_deliver_staged(x, sh) :
           r \in IF q.ok THEN PostCapture(q.f, q.shown) ELSE {q}
    BY <2>1 DEF Then
  <2>3. RunOutcome(x, q) /\ But(x, q.f, {"dst", "held", "staged"})
    BY DeliverKeeps
  <2>4. /\ q.f.cap = x.cap /\ q.f.known = x.known /\ q.f.pending = x.pending
        /\ q.f.active = x.active
    BY <2>3 DEF But, Fields
  <2>5. RunInv(q.f) /\ RunStep(x, q.f) /\ q.shown \in SUBSET AUs
    BY <2>3 DEF RunOutcome, RunStep
  <2>6. CASE q.ok
    <3>1. r \in PostCapture(q.f, q.shown)
      BY <2>2, <2>6
    <3>2. RunOutcome(q.f, r)
      BY <1>2, <2>4, <2>5, <3>1, PostKeeps
    <3> QED
      BY <2>5, <3>2, OutcomeAfter
  <2>7. CASE ~q.ok
    BY <2>2, <2>3, <2>7
  <2> QED
    BY <2>6, <2>7
<1> QED
  BY <1>1, <1>2

LEMMA StartKeeps ==
  ASSUME clip \in Clips, NEW x, RunInv(x), NEW sh \in SUBSET AUs,
         NEW r \in chd_start_capture(x, sh)
  PROVE  RunOutcome(x, r)
<1> DEFINE S(y) == [y EXCEPT !.started = TRUE]
           D == [x EXCEPT !.disc = [res |-> NONE]]
           Start(y, s) == MayFail(S(y), y, s)
<1>1. ASSUME NEW y, RunInv(y), NEW s \in SUBSET AUs, NEW q \in Start(y, s)
      PROVE  RunOutcome(y, q)
  <2>1. y \in File
    BY <1>1 DEF RunInv, FileInv
  <2>2. S(y) \in File /\ But(y, S(y), {"started"})
    BY <2>1 DEF File, But, Fields
  <2>3. But(y, S(y), Loose) /\ y.faults = S(y).faults
    BY <2>2 DEF But, Loose, Fields
  <2> HIDE DEF S
  <2>4. RunStep(y, S(y)) /\ RunStep(y, y)
    BY <1>1, <2>2, <2>3, LooseKeeps, RunRefl
  <2> QED
    BY <1>1, <2>3, <2>4, MayFailKeeps
<1>2. RunStep(x, D) /\ D.faults = x.faults /\ RunStep(x, x)
  <2>1. x \in File
    BY DEF RunInv, FileInv
  <2> DEFINE v == [res |-> NONE]
             E == [x EXCEPT !.disc = v]
  <2>2. v \in Discoveries
    BY DEF Discoveries, Probes
  <2> HIDE DEF v
  <2>3. E \in File
    BY <2>1, <2>2 DEF File
  <2>4. But(x, E, {"disc"})
    BY <2>1 DEF File, But, Fields
  <2> HIDE DEF E
  <2>5. But(x, E, Loose) /\ x.faults = E.faults
    BY <2>4 DEF But, Loose, Fields
  <2> QED
    BY <2>3, <2>5, LooseKeeps, RunRefl DEF E, v
<1> DEFINE First == IF x.disc # NONE THEN {Ok(x, sh)} ELSE MayFail(D, x, sh)
<1>3. \/ r = Ok(x, sh)
      \/ r \in Then(First, Start)
      \/ r \in Start(x, sh)
  BY DEF chd_start_capture
<1> HIDE DEF D
<1>4. CASE r = Ok(x, sh)
  BY <1>2, <1>4, OkOutcome
<1>5. CASE r \in Start(x, sh)
  BY <1>1, <1>5
<1>6. CASE r \in Then(First, Start)
  <2>1. PICK q \in First : r \in IF q.ok THEN Start(q.f, q.shown) ELSE {q}
    BY <1>6 DEF Then
  <2> HIDE DEF Start
  <2>2. RunOutcome(x, q)
    BY <1>2, OkOutcome, MayFailKeeps
  <2>3. RunInv(q.f) /\ RunStep(x, q.f) /\ q.shown \in SUBSET AUs
    BY <2>2 DEF RunOutcome, RunStep
  <2>4. CASE q.ok
    <3>1. RunOutcome(q.f, r)
      BY <1>1, <2>1, <2>3, <2>4
    <3> QED
      BY <2>3, <3>1, OutcomeAfter
  <2> QED
    BY <2>1, <2>2, <2>4
<1> QED
  BY <1>3, <1>4, <1>5, <1>6

LEMMA AnswerTypes ==
  ASSUME NEW r \in Answers(AUs)
  PROVE  /\ r.kind \in {"eos", "picture", "error", "format"}
         /\ r.kind # "eos" => r.au \in AUs
         /\ r.kind = "format" => r.fmt \in Nat
<1>1. CASE r \in [kind : {"eos"}]
  BY <1>1
<1>2. CASE r \in [kind : {"picture", "error"}, au : AUs]
  BY <1>2
<1>3. CASE r \in [kind : {"format"}, au : AUs, fmt : Nat]
  BY <1>3
<1> QED
  BY <1>1, <1>2, <1>3 DEF Answers

LEMMA PostTypes ==
  ASSUME NEW x \in File
  PROVE  /\ x.active # NONE => /\ x.active.fmt \in Nat /\ x.active.ep \in Nat
                               /\ x.active.res \in {NONE} \cup Answers(AUs)
         /\ x.disc # NONE => x.disc.res \in {NONE} \cup Answers(AUs)
<1>1. x.active # NONE => x.active \in Posts(AUs)
  BY FileTypes DEF Registrations
<1>2. x.disc # NONE => x.disc \in Probes(AUs)
  BY FileTypes DEF Discoveries
<1> QED
  BY <1>1, <1>2 DEF Posts, Probes

LEMMA PausedEffect ==
  ASSUME NEW x \in File
  PROVE  LET y == [x EXCEPT !.started = FALSE, !.disc = NONE]
         IN  y \in File /\ But(x, y, {"started", "disc"})
<1> DEFINE y == [x EXCEPT !.started = FALSE, !.disc = NONE]
<1>1. y \in File
  BY NoneTypes DEF File
<1>2. But(x, y, {"started", "disc"})
  BY DEF File, But, Fields
<1> QED
  BY <1>1, <1>2

LEMMA NewFormatEffect ==
  ASSUME NEW x \in File, NEW n \in Nat, NEW p \in BOOLEAN, NEW q \in Quants
  PROVE  LET y == [x EXCEPT !.fmt = n, !.known = TRUE, !.pending = p, !.quant = q]
         IN  /\ y \in File /\ But(x, y, {"fmt", "known", "pending", "quant"})
             /\ y.known = TRUE
<1> DEFINE y == [x EXCEPT !.fmt = n, !.known = TRUE, !.pending = p, !.quant = q]
<1>1. y \in File
  BY DEF File
<1>2. But(x, y, {"fmt", "known", "pending", "quant"})
  BY DEF File, But, Fields
<1>3. y.known = TRUE
  BY DEF File
<1> QED
  BY <1>1, <1>2, <1>3

LEMMA FormatKeeps ==
  ASSUME clip \in Clips, NEW x, RunInv(x), NEW sh \in SUBSET AUs, x.last = NONE,
         NEW a, a \in Answers(AUs), a.kind = "format", NEW r \in chd_format(x, a, sh)
  PROVE  RunOutcome(x, r)
<1>1. x \in File /\ CountOK(x) /\ PhaseOK(x) /\ MarkerOK(x)
  BY DEF RunInv, FileInv
<1> DEFINE w == [x EXCEPT !.started = FALSE, !.disc = NONE]
           y == chd_return_active(w)
           hinted == ~x.known /\ x.cap /\ x.dst # <<>> /\ Head(x.dst) = a.fmt
           g == crystalhd_v4l2_decoder_peek_range(x, a.au)
           q == IF g = "none" THEN y.quant ELSE g
           d == [x EXCEPT !.disc = NONE]
<1>2. w \in File /\ But(x, w, {"started", "disc"})
  BY <1>1, PausedEffect
<1>3. PICK p \in BOOLEAN : p = ~hinted
  <2>1. (~hinted) \in BOOLEAN
    OBVIOUS
  <2> QED
    BY <2>1
<1>7. /\ y \in File /\ But(w, y, {"held", "active"}) /\ y.active = NONE
      /\ y.held = w.held + (IF w.active = NONE THEN 0 ELSE 1)
  BY <1>2, ReturnActiveEffect
<1>4. q \in Quants /\ a.fmt \in Nat
  <2> HIDE DEF y
  <2>1. a.au \in AUs /\ a.fmt \in Nat
    BY AnswerTypes
  <2>2. g \in Quants
    BY <2>1, ClipTypes DEF crystalhd_v4l2_decoder_peek_range, Quants
  <2> QED
    BY <1>7, <2>1, <2>2, FileTypes
<1> DEFINE v == [y EXCEPT !.fmt = a.fmt, !.known = TRUE, !.pending = p, !.quant = q]
<1>5. r \in MayFail(v, d, sh)
  BY <1>3 DEF chd_format
<1>6. d \in File /\ But(x, d, {"disc"})
  BY <1>1, NoneTypes DEF File, But, Fields
<1> HIDE DEF w, q, d, hinted, y
<1>8. /\ v \in File /\ But(y, v, {"fmt", "known", "pending", "quant"})
      /\ v.known = TRUE
  BY <1>4, <1>7, NewFormatEffect
<1> HIDE DEF v
<1>10. But(x, v, {"fmt", "known", "pending", "quant", "held", "active", "started", "disc"})
  BY <1>2, <1>7, <1>8 DEF But
<1>11. But(x, v, RunFields)
  BY <1>10 DEF But, RunFields
<1>12. /\ v.dst = x.dst /\ v.last = x.last /\ v.tokens = x.tokens /\ v.phase = x.phase
       /\ v.seen = x.seen /\ v.cap = x.cap /\ v.txActive = x.txActive
       /\ v.faults = x.faults
  BY <1>10 DEF But, Fields
<1>13. v.active = NONE /\ v.held = x.held + PostedCount(x)
  <2>1. w.held = x.held /\ w.active = x.active
    BY <1>2 DEF But, Fields
  <2>2. v.held = y.held /\ v.active = y.active
    BY <1>8 DEF But, Fields
  <2> QED
    BY <1>7, <2>1, <2>2 DEF PostedCount
<1>14. CountOK(v)
  <2>1. /\ x.held \in Nat /\ Len(x.dst) \in Nat /\ NBufs \in Nat
        /\ PostedCount(x) \in {0, 1}
    BY <1>1, CountTypes
  <2>2. KeptCount(x) = 0 /\ KeptCount(v) = 0 /\ PostedCount(v) = 0
    BY <1>12, <1>13 DEF KeptCount, PostedCount
  <2> QED
    BY <1>1, <1>12, <1>13, <2>1, <2>2 DEF CountOK
<1>15. PhaseOK(v)
  BY <1>1, <1>12 DEF PhaseOK
<1>16. MarkerOK(v)
  BY <1>8, <1>12, <1>13 DEF MarkerOK
<1>17. RunStep(x, v)
  BY <1>8, <1>11, <1>12, <1>14, <1>15, <1>16, RunKeeps
<1>18. RunStep(x, d) /\ d.faults = v.faults
  <2>1. But(x, d, Loose) /\ d.faults = x.faults
    BY <1>6 DEF But, Loose, Fields
  <2> QED
    BY <1>6, <1>12, <2>1, LooseKeeps
<1> QED
  BY <1>5, <1>17, <1>18, MayFailKeeps

\* The registration is over and its buffer goes back to the client.
LEMMA AnsweredKeeps ==
  ASSUME clip \in Clips, NEW x, RunInv(x), x.active # NONE, NEW y \in File,
         But(x, y, Loose \cup {"active", "held", "tokens", "pending"}),
         y.active = NONE, y.held = x.held + 1, y.tokens \subseteq x.tokens
  PROVE  RunStep(x, y)
<1>1. x \in File /\ CountOK(x) /\ PhaseOK(x) /\ MarkerOK(x)
  BY DEF RunInv, FileInv
<1>2. But(x, y, RunFields)
  BY DEF But, RunFields, Loose
<1>3. /\ y.dst = x.dst /\ y.last = x.last /\ y.phase = x.phase /\ y.known = x.known
      /\ y.seen = x.seen /\ y.cap = x.cap /\ y.txActive = x.txActive
  BY DEF But, Fields, Loose
<1>4. CountOK(y)
  <2>1. /\ x.held \in Nat /\ Len(x.dst) \in Nat /\ NBufs \in Nat
        /\ KeptCount(x) \in {0, 1}
    BY <1>1, CountTypes
  <2>2. KeptCount(y) = KeptCount(x) /\ PostedCount(x) = 1 /\ PostedCount(y) = 0
    BY <1>3 DEF KeptCount, PostedCount
  <2> QED
    BY <1>1, <1>3, <2>1, <2>2 DEF CountOK
<1>5. PhaseOK(y)
  BY <1>1, <1>3 DEF PhaseOK
<1>6. MarkerOK(y)
  BY <1>1, <1>3 DEF MarkerOK
<1> QED
  BY <1>2, <1>3, <1>4, <1>5, <1>6, RunKeeps

LEMMA ReturnedKeeps ==
  ASSUME clip \in Clips, NEW x, RunInv(x), x.active # NONE, NEW w \in File,
         But(x, w, (Loose \ {"faults"}) \cup {"active", "tokens", "pending"}),
         w.active = NONE, w.tokens \subseteq x.tokens
  PROVE  RunStep(x, BufDone(w)) /\ BufDone(w).faults = x.faults
<1> DEFINE y == BufDone(w)
<1>1. y \in File /\ But(w, y, {"held"}) /\ y.held = w.held + 1
  BY BufDoneEffect
<1> HIDE DEF y
<1>2. w.held = x.held /\ w.faults = x.faults
  BY DEF But, Fields, Loose
<1>3. y.active = w.active /\ y.tokens = w.tokens /\ y.faults = w.faults
  BY <1>1 DEF But, Fields
<1>4. But(x, y, Loose \cup {"active", "held", "tokens", "pending"})
  BY <1>1 DEF But
<1>5. RunStep(x, y)
  BY <1>1, <1>2, <1>3, <1>4, AnsweredKeeps
<1> QED
  BY <1>2, <1>3, <1>5 DEF y

LEMMA UnregisteredEffect ==
  ASSUME NEW x \in File
  PROVE  LET y == [x EXCEPT !.active = NONE]
         IN  y \in File /\ But(x, y, {"active"}) /\ y.active = NONE
  BY NoneTypes DEF File, But, Fields

LEMMA CompletedEffect ==
  ASSUME NEW x \in File, NEW a
  PROVE  LET y == crystalhd_v4l2_decoder_complete_observed(x, a)
         IN  y \in File /\ But(x, y, {"tokens"}) /\ y.tokens \subseteq x.tokens
<1> DEFINE t == x.tokens \ {a}
           y == [x EXCEPT !.tokens = t]
<1>1. t \in Ledgers /\ t \subseteq x.tokens
  BY FileTypes DEF Ledgers
<1>2. crystalhd_v4l2_decoder_complete_observed(x, a) = y
  BY DEF crystalhd_v4l2_decoder_complete_observed
<1> HIDE DEF t
<1>3. y \in File /\ y.tokens = t
  BY <1>1 DEF File
<1>4. But(x, y, {"tokens"})
  BY DEF File, But, Fields
<1> QED
  BY <1>1, <1>2, <1>3, <1>4

LEMMA StagedEffect ==
  ASSUME NEW x \in File, NEW c \in StagedPictures, NEW q \in Quants
  PROVE  LET y == [x EXCEPT !.staged = c, !.started = FALSE, !.pending = TRUE, !.quant = q]
         IN  y \in File /\ But(x, y, {"staged", "started", "pending", "quant"})
<1> DEFINE y == [x EXCEPT !.staged = c, !.started = FALSE, !.pending = TRUE, !.quant = q]
<1>1. y \in File
  BY DEF File
<1>2. But(x, y, {"staged", "started", "pending", "quant"})
  BY DEF File, But, Fields
<1> QED
  BY <1>1, <1>2

LEMMA PictureKeeps ==
  ASSUME clip \in Clips, NEW x, RunInv(x), NEW sh \in SUBSET AUs, x.active # NONE,
         NEW a, a \in Answers(AUs), a.kind # "eos", NEW r \in chd_picture(x, a, sh)
  PROVE  RunOutcome(x, r)
<1> DEFINE y == [x EXCEPT !.active = NONE]
           z == crystalhd_v4l2_decoder_complete_observed(y, a.au)
           c == [au |-> a.au, fmt |-> z.fmt, ep |-> x.active.ep]
           s == [z EXCEPT !.staged = c, !.started = FALSE, !.pending = TRUE,
                          !.quant = clip.aus[a.au].range]
<1>1. x \in File
  BY DEF RunInv, FileInv
<1>2. a.au \in AUs /\ clip.aus[a.au].range \in Quants
  <2>1. a.au \in AUs
    BY AnswerTypes
  <2> QED
    BY <2>1, ClipTypes
<1>3. \/ r = Bad(BufDone(y), sh)
      \/ r = Bad(BufDone(z), sh)
      \/ r \in MayFail(BufDone(s), BufDone(z), sh)
      \/ r = Ok(BufDone(z), sh \cup {a.au})
  BY DEF chd_picture, chd_stage_range
<1>4. y \in File /\ But(x, y, {"active"}) /\ y.active = NONE
  BY <1>1, UnregisteredEffect
<1> HIDE DEF y
<1>5. z \in File /\ But(y, z, {"tokens"}) /\ z.tokens \subseteq y.tokens
  BY <1>4, CompletedEffect
<1> HIDE DEF z
<1>6. c \in StagedPictures
  <2>1. z.fmt \in Nat /\ x.active.ep \in Nat
    BY <1>1, <1>5, FileTypes, PostTypes
  <2> QED
    BY <1>2, <2>1 DEF StagedPictures, Copies
<1> HIDE DEF c
<1>7. s \in File /\ But(z, s, {"staged", "started", "pending", "quant"})
  BY <1>2, <1>5, <1>6, StagedEffect
<1> HIDE DEF s
<1>8. y.tokens = x.tokens /\ z.active = y.active /\ s.active = z.active /\ s.tokens = z.tokens
  BY <1>4, <1>5, <1>7 DEF But, Fields
<1> DEFINE W == (Loose \ {"faults"}) \cup {"active", "tokens", "pending"}
<1>9. But(x, y, W)
  BY <1>4 DEF But, Loose
<1>10. But(x, z, W)
  BY <1>5, <1>9 DEF But, Loose
<1>11. But(x, s, W)
  BY <1>7, <1>10 DEF But, Loose
<1>12. RunStep(x, BufDone(y))
  BY <1>4, <1>8, <1>9, ReturnedKeeps
<1>13. RunStep(x, BufDone(z)) /\ BufDone(z).faults = x.faults
  BY <1>4, <1>5, <1>8, <1>10, ReturnedKeeps
<1>14. RunStep(x, BufDone(s)) /\ BufDone(s).faults = x.faults
  BY <1>4, <1>5, <1>7, <1>8, <1>11, ReturnedKeeps
<1> HIDE DEF W
<1>15. sh \cup {a.au} \in SUBSET AUs
  BY <1>2
<1>16. CASE r \in MayFail(BufDone(s), BufDone(z), sh)
  BY <1>13, <1>14, <1>16, MayFailKeeps
<1>17. CASE r = Ok(BufDone(z), sh \cup {a.au})
  BY <1>13, <1>15, <1>17, OkOutcome
<1> QED
  BY <1>3, <1>12, <1>13, <1>16, <1>17, OkOutcome

LEMMA MarkerKeeps ==
  ASSUME clip \in Clips, NEW x, RunInv(x), x.active # NONE
  PROVE  LET m == chd_marker(x) IN m.ok \in BOOLEAN /\ RunStep(x, m.f)
<1> DEFINE y == [x EXCEPT !.active = NONE]
           n == x.active.ep
           z == [y EXCEPT !.last = n]
           m == chd_marker(x)
<1>1. x \in File /\ CountOK(x) /\ PhaseOK(x) /\ MarkerOK(x)
  BY DEF RunInv, FileInv
<1>2. \/ m = [ok |-> FALSE, f |-> BufDone(y)]
      \/ x.phase = "DRAINING" /\ m = [ok |-> TRUE, f |-> z]
  BY DEF chd_marker
<1>3. y \in File /\ But(x, y, {"active"}) /\ y.active = NONE
  BY <1>1, UnregisteredEffect
<1> HIDE DEF y
<1>4. RunStep(x, BufDone(y))
  <2>1. But(x, y, (Loose \ {"faults"}) \cup {"active", "tokens", "pending"})
    BY <1>3 DEF But, Loose
  <2>2. y.tokens = x.tokens
    BY <1>3 DEF But, Fields
  <2> QED
    BY <1>3, <2>1, <2>2, ReturnedKeeps
<1>5. x.phase = "DRAINING" => RunStep(x, z)
  <2> SUFFICES ASSUME x.phase = "DRAINING" PROVE RunStep(x, z)
    OBVIOUS
  <2>1. n \in Nat /\ n \in Markers /\ n # NONE
    BY <1>1, PostTypes, FreshTypes DEF Markers
  <2> HIDE DEF n
  <2>2. z \in File /\ z.last = n
    BY <1>3, <2>1 DEF File
  <2>3. But(y, z, {"last"})
    BY <1>3 DEF File, But, Fields
  <2> HIDE DEF z
  <2>4. But(x, z, {"active", "last"})
    BY <1>3, <2>3 DEF But
  <2>5. But(x, z, RunFields)
    BY <2>4 DEF But, RunFields
  <2>6. /\ z.held = x.held /\ z.dst = x.dst /\ z.tokens = x.tokens /\ z.phase = x.phase
        /\ z.known = x.known /\ z.pending = x.pending /\ z.seen = x.seen
        /\ z.cap = x.cap /\ z.txActive = x.txActive
    BY <2>4 DEF But, Fields
  <2>7. z.active = NONE
    BY <1>3, <2>3 DEF But, Fields
  <2>8. x.known /\ ~x.pending /\ x.last = NONE /\ x.cap /\ x.seen
    BY <1>1 DEF MarkerOK, PhaseOK
  <2>9. CountOK(z)
    <3>1. KeptCount(x) = 0 /\ KeptCount(z) = 1 /\ PostedCount(x) = 1 /\ PostedCount(z) = 0
      BY <2>1, <2>2, <2>7, <2>8 DEF KeptCount, PostedCount
    <3>2. x.held \in Nat /\ Len(x.dst) \in Nat /\ NBufs \in Nat
      BY <1>1, CountTypes
    <3> QED
      BY <1>1, <2>6, <3>1, <3>2 DEF CountOK
  <2>10. PhaseOK(z)
    BY <2>6, <2>8 DEF PhaseOK
  <2>11. MarkerOK(z)
    BY <2>6, <2>7, <2>8 DEF MarkerOK
  <2> QED
    BY <2>2, <2>5, <2>6, <2>9, <2>10, <2>11, RunKeeps
<1> HIDE DEF z, m
<1>6. CASE m = [ok |-> FALSE, f |-> BufDone(y)]
  BY <1>4, <1>6 DEF m
<1>7. CASE x.phase = "DRAINING" /\ m = [ok |-> TRUE, f |-> z]
  BY <1>5, <1>7 DEF m
<1> QED
  BY <1>2, <1>6, <1>7

LEMMA ReceiveKeeps ==
  ASSUME clip \in Clips, NEW x, RunInv(x), NEW sh \in SUBSET AUs,
         NEW r \in chd_receive(x, sh)
  PROVE  RunOutcome(x, r)
<1> DEFINE reg == IF x.known THEN x.active ELSE x.disc
           a == IF reg = NONE THEN NONE ELSE reg.res
           d == [x EXCEPT !.disc = NONE]
           m == [f |-> chd_marker(x).f, shown |-> sh, ok |-> chd_marker(x).ok]
<1>1. x \in File /\ MarkerOK(x)
  BY DEF RunInv, FileInv
<1>2. CASE ~x.started \/ a = NONE
  <2>1. r = Ok(x, sh)
    BY <1>2 DEF chd_receive
  <2> QED
    BY <2>1, RunRefl, OkOutcome
<1>3. CASE x.started /\ a # NONE
  <2>1. a \in Answers(AUs) /\ (x.known => x.active # NONE)
    BY <1>1, <1>3, PostTypes
  <2>2. x.last = NONE
    BY <1>1, <2>1 DEF MarkerOK
  <2>3. \/ a.kind = "format" /\ r \in chd_format(x, a, sh)
        \/ ~x.known /\ r = Bad(d, sh)
        \/ x.known /\ r = m
        \/ x.known /\ a.kind # "eos" /\ r \in chd_picture(x, a, sh)
    BY <1>3 DEF chd_receive
  <2> HIDE DEF a, m
  <2>4. CASE a.kind = "format" /\ r \in chd_format(x, a, sh)
    BY <2>1, <2>2, <2>4, FormatKeeps
  <2>5. CASE ~x.known /\ r = Bad(d, sh)
    <3>1. d \in File /\ But(x, d, {"disc"})
      BY <1>1, NoneTypes DEF File, But, Fields
    <3> HIDE DEF d
    <3>2. But(x, d, Loose)
      BY <3>1 DEF But, Loose
    <3>3. RunStep(x, d)
      BY <3>1, <3>2, LooseKeeps
    <3> QED
      BY <2>5, <3>3, OkOutcome
  <2>6. CASE x.known /\ r = m
    <3>1. chd_marker(x).ok \in BOOLEAN /\ RunStep(x, chd_marker(x).f)
      BY <2>1, <2>6, MarkerKeeps
    <3>2. r.f = chd_marker(x).f /\ r.ok = chd_marker(x).ok /\ r.shown = sh
      BY <2>6 DEF m
    <3> QED
      BY <3>1, <3>2 DEF RunOutcome
  <2>7. CASE x.known /\ a.kind # "eos" /\ r \in chd_picture(x, a, sh)
    BY <2>1, <2>7, PictureKeeps
  <2> QED
    BY <2>3, <2>4, <2>5, <2>6, <2>7
<1> QED
  BY <1>2, <1>3

\* The fields that say nothing of a queue, a buffer or a worker's input.
Flags ==
    {"closing", "fatal", "admitted", "txStopping", "run", "epoch", "empty", "unopened",
     "eosDone", "fmt", "quant", "alloc", "next", "staged", "faults", "late", "crossed",
     "stale"}

LEMMA FlagsKeep ==
  ASSUME NEW x, FileInv(x), NEW y \in File, But(x, y, Flags),
         y.admitted \/ y.run => x.out
  PROVE  FileInv(y) /\ y.phase = x.phase /\ y.out = x.out
<1>1. /\ y.left = x.left /\ y.src = x.src /\ y.drain = x.drain /\ y.txActive = x.txActive
      /\ y.tx = x.tx /\ y.txau = x.txau /\ y.seen = x.seen /\ y.session = x.session
      /\ y.out = x.out /\ y.tokens = x.tokens
  BY DEF But, Fields, Flags
<1>2. /\ y.held = x.held /\ y.dst = x.dst /\ y.active = x.active /\ y.last = x.last
      /\ y.phase = x.phase /\ y.known = x.known /\ y.cap = x.cap
      /\ y.pending = x.pending /\ y.started = x.started /\ y.disc = x.disc
  BY DEF But, Fields, Flags
<1>3. /\ CountOK(x) /\ LedgerOK(x) /\ InputOK(x) /\ OffOK(x) /\ PhaseOK(x) /\ MarkerOK(x)
  BY DEF FileInv
<1>4. CountOK(y)
  BY <1>2, <1>3 DEF CountOK, PostedCount, KeptCount
<1>5. LedgerOK(y) /\ InputOK(y)
  BY <1>1, <1>3 DEF LedgerOK, InputOK
<1>6. OffOK(y)
  BY <1>1, <1>2, <1>3 DEF OffOK
<1>7. PhaseOK(y) /\ MarkerOK(y)
  BY <1>1, <1>2, <1>3 DEF PhaseOK, MarkerOK
<1> QED
  BY <1>1, <1>2, <1>4, <1>5, <1>6, <1>7 DEF FileInv

\* What a worker may do to the file: an ioctl that waits for it notices none
\* of this.
WorkStep(x, y) ==
    /\ FileInv(y) /\ y.epoch = x.epoch /\ y.out = x.out
    /\ x.phase = "DRAINED" => y.phase = "DRAINED"

LEMMA WorkTransitive ==
  ASSUME NEW x, NEW y, NEW z, WorkStep(x, y), WorkStep(y, z)
  PROVE  WorkStep(x, z)
  BY DEF WorkStep

LEMMA RunIsWork ==
  ASSUME NEW x, NEW y, x.out, x \in File, RunStep(x, y)
  PROVE  WorkStep(x, y)
<1>1. y.epoch = x.epoch /\ y.out = x.out
  BY DEF RunStep, But, Fields, RunFields
<1> QED
  BY <1>1 DEF WorkStep, RunStep, RunInv

LEMMA FlagsWork ==
  ASSUME NEW x, FileInv(x), NEW y \in File, But(x, y, Flags \ {"epoch"}),
         y.admitted \/ y.run => x.out
  PROVE  WorkStep(x, y)
<1>1. But(x, y, Flags) /\ y.epoch = x.epoch
  BY DEF But, Fields, Flags
<1> QED
  BY <1>1, FlagsKeep DEF WorkStep

LEMMA ErrorKeeps ==
  ASSUME NEW x, FileInv(x)
  PROVE  WorkStep(x, chd_error(x))
<1> DEFINE y == chd_error(x)
<1>1. x \in File /\ OffOK(x)
  BY DEF FileInv
<1>2. /\ y \in File /\ But(x, y, {"fatal", "admitted", "txStopping"})
      /\ y.admitted = FALSE
  BY <1>1, ErrorEffect
<1> HIDE DEF y
<1>3. y.run = x.run /\ But(x, y, Flags \ {"epoch"})
  BY <1>2 DEF But, Fields, Flags
<1>4. x.run => x.out
  BY <1>1 DEF OffOK
<1>5. WorkStep(x, y)
  BY <1>2, <1>3, <1>4, FlagsWork
<1> QED
  BY <1>5 DEF y

LEMMA KickKeeps ==
  ASSUME NEW x, FileInv(x)
  PROVE  WorkStep(x, chd_kick(x)) /\ But(x, chd_kick(x), {"run"})
<1> DEFINE y == chd_kick(x)
<1>1. x \in File /\ OffOK(x)
  BY DEF FileInv
<1>2. y \in File /\ But(x, y, {"run"}) /\ (y.run => x.run \/ x.admitted)
  BY <1>1, KickEffect
<1> HIDE DEF y
<1>3. y.admitted = x.admitted /\ But(x, y, Flags \ {"epoch"})
  BY <1>2 DEF But, Fields, Flags
<1>4. x.admitted \/ x.run => x.out
  BY <1>1 DEF OffOK
<1>5. WorkStep(x, y)
  BY <1>2, <1>3, <1>4, FlagsWork
<1> QED
  BY <1>2, <1>5 DEF y

LEMMA FaultyKeeps ==
  ASSUME NEW x, FileInv(x), x.faults < MaxFault
  PROVE  WorkStep(x, Faulty(x)) /\ But(x, Faulty(x), {"faults"})
<1> DEFINE y == Faulty(x)
<1>1. x \in File /\ OffOK(x)
  BY DEF FileInv
<1>2. y \in File /\ But(x, y, {"faults"})
  BY <1>1, FaultyEffect
<1> HIDE DEF y
<1>3. y.admitted = x.admitted /\ y.run = x.run /\ But(x, y, Flags \ {"epoch"})
  BY <1>2 DEF But, Fields, Flags
<1>4. x.admitted \/ x.run => x.out
  BY <1>1 DEF OffOK
<1>5. WorkStep(x, y)
  BY <1>2, <1>3, <1>4, FlagsWork
<1> QED
  BY <1>2, <1>5 DEF y

LEMMA GoneKeeps ==
  ASSUME NEW x, FileInv(x), NEW y \in DeviceGone(x)
  PROVE  WorkStep(x, y)
<1>1. x.faults < MaxFault /\ y = chd_error(Faulty(x))
  BY DEF DeviceGone
<1>2. WorkStep(x, Faulty(x))
  BY <1>1, FaultyKeeps
<1>3. FileInv(Faulty(x))
  BY <1>2 DEF WorkStep
<1>4. WorkStep(Faulty(x), y)
  BY <1>1, <1>3, ErrorKeeps
<1> QED
  BY <1>2, <1>4, WorkTransitive

\* LAST is published, or the drain failed.
LEMMA FinishKeeps ==
  ASSUME clip \in Clips, NEW x, RunInv(x)
  PROVE  WorkStep(x, chd_finish_last(x))
<1> DEFINE y == [x EXCEPT !.last = NONE, !.phase = "DRAINED"]
           z == BufDone(y)
<1>1. x \in File /\ CountOK(x) /\ PhaseOK(x) /\ MarkerOK(x) /\ FileInv(x) /\ x.out
  BY DEF RunInv, FileInv
<1>2. \/ chd_finish_last(x) = x
      \/ chd_finish_last(x) = chd_error(x)
      \/ x.last # NONE /\ ~x.txActive /\ chd_finish_last(x) = z
  BY DEF chd_finish_last
<1>3. CASE chd_finish_last(x) = x
  BY <1>1, <1>3 DEF WorkStep
<1>4. CASE chd_finish_last(x) = chd_error(x)
  BY <1>1, <1>4, ErrorKeeps
<1>5. CASE x.last # NONE /\ ~x.txActive /\ chd_finish_last(x) = z
  <2>1. /\ y \in File /\ y.last = NONE /\ y.phase = "DRAINED"
        /\ But(x, y, {"last", "phase"})
    <3>1. "DRAINED" \in Phases /\ NONE \in Markers
      BY NoneTypes DEF Phases
    <3>2. y \in File
      BY <1>1, <3>1 DEF File
    <3>3. But(x, y, {"last", "phase"})
      BY <1>1 DEF File, But, Fields
    <3>4. y.last = NONE /\ y.phase = "DRAINED"
      BY <1>1 DEF File
    <3> QED
      BY <3>2, <3>3, <3>4
  <2> HIDE DEF y
  <2>2. z \in File /\ But(y, z, {"held"}) /\ z.held = y.held + 1
    BY <2>1, BufDoneEffect
  <2> HIDE DEF z
  <2>3. y.held = x.held /\ z.last = NONE /\ z.phase = "DRAINED"
    BY <2>1, <2>2 DEF But, Fields
  <2>4. But(x, z, {"last", "phase", "held"})
    BY <2>1, <2>2 DEF But
  <2>5. But(x, z, RunFields)
    BY <2>4 DEF But, RunFields
  <2>6. /\ z.dst = x.dst /\ z.active = x.active /\ z.tokens = x.tokens
        /\ z.known = x.known /\ z.pending = x.pending /\ z.seen = x.seen
        /\ z.cap = x.cap /\ z.txActive = x.txActive
    BY <2>4 DEF But, Fields
  <2>7. CountOK(z)
    <3>1. KeptCount(x) = 1 /\ KeptCount(z) = 0 /\ PostedCount(z) = PostedCount(x)
      BY <1>5, <2>3, <2>6 DEF KeptCount, PostedCount
    <3>2. /\ x.held \in Nat /\ Len(x.dst) \in Nat /\ NBufs \in Nat
          /\ PostedCount(x) \in {0, 1}
      BY <1>1, CountTypes
    <3> QED
      BY <1>1, <2>2, <2>3, <2>6, <3>1, <3>2 DEF CountOK
  <2>8. PhaseOK(z)
    BY <1>5, <2>3, <2>6 DEF PhaseOK
  <2>9. MarkerOK(z)
    BY <1>1, <2>3, <2>6 DEF MarkerOK
  <2>10. RunStep(x, z)
    BY <2>2, <2>3, <2>5, <2>6, <2>7, <2>8, <2>9, RunKeeps
  <2> QED
    BY <1>1, <1>5, <2>10, RunIsWork
<1> QED
  BY <1>2, <1>3, <1>4, <1>5

LEMMA EmptiedEffect ==
  ASSUME NEW x \in File, NEW u \in BOOLEAN
  PROVE  LET y == [x EXCEPT !.empty = TRUE, !.unopened = u, !.phase = "DRAINED",
                            !.eosDone = TRUE]
         IN  /\ y \in File /\ y.phase = "DRAINED"
             /\ But(x, y, {"empty", "unopened", "phase", "eosDone"})
<1> DEFINE y == [x EXCEPT !.empty = TRUE, !.unopened = u, !.phase = "DRAINED",
                          !.eosDone = TRUE]
<1>1. "DRAINED" \in Phases
  BY DEF Phases
<1>2. y \in File
  BY <1>1 DEF File
<1>3. But(x, y, {"empty", "unopened", "phase", "eosDone"})
  BY DEF File, But, Fields
<1>4. y.phase = "DRAINED"
  BY DEF File
<1> QED
  BY <1>2, <1>3, <1>4

LEMMA EmptyDrainKeeps ==
  ASSUME clip \in Clips, NEW x, RunInv(x), EmptyDrain(x)
  PROVE  WorkStep(x, chd_empty_drain(x))
<1> DEFINE y == [x EXCEPT !.empty = TRUE, !.unopened = (x.phase = "OFF"),
                         !.phase = "DRAINED", !.eosDone = TRUE]
           z == BufDone(DstRemove(y))
<1>1. x \in File /\ CountOK(x) /\ PhaseOK(x) /\ MarkerOK(x) /\ FileInv(x) /\ x.out
  BY DEF RunInv, FileInv
<1>2. CASE x.dst = <<>>
  BY <1>1, <1>2 DEF chd_empty_drain, WorkStep
<1>3. CASE x.dst # <<>>
  <2>1. chd_empty_drain(x) = z
    BY <1>3 DEF chd_empty_drain
  <2>2. y \in File /\ y.phase = "DRAINED" /\ But(x, y, {"empty", "unopened", "phase", "eosDone"})
    <3>1. PICK u \in BOOLEAN : u = (x.phase = "OFF")
      OBVIOUS
    <3> QED
      BY <1>1, <3>1, EmptiedEffect
  <2> HIDE DEF y
  <2>3. y.dst = x.dst /\ y.held = x.held
    BY <2>2 DEF But, Fields
  <2>4. z \in File /\ DstReturned(y, z) /\ But(y, z, {"dst", "held"})
    BY <1>3, <2>2, <2>3, DstReturnedEffect
  <2> HIDE DEF z
  <2>5. But(x, z, {"empty", "unopened", "phase", "eosDone", "dst", "held"})
    BY <2>2, <2>4 DEF But
  <2>6. /\ z.active = x.active /\ z.last = x.last /\ z.tokens = x.tokens
        /\ z.known = x.known /\ z.pending = x.pending /\ z.seen = x.seen
        /\ z.cap = x.cap /\ z.txActive = x.txActive /\ z.tx = x.tx /\ z.txau = x.txau
    BY <2>5 DEF But, Fields
  <2>7. /\ z.left = x.left /\ z.src = x.src /\ z.drain = x.drain
        /\ z.session = x.session /\ z.out = x.out /\ z.epoch = x.epoch
    BY <2>5 DEF But, Fields
  <2>8. z.phase = "DRAINED"
    BY <2>2, <2>4 DEF But, Fields
  <2>9. CountOK(z)
    <3>1. KeptCount(z) = KeptCount(x) /\ PostedCount(z) = PostedCount(x)
      BY <2>6 DEF KeptCount, PostedCount
    <3>2. /\ x.held \in Nat /\ Len(x.dst) \in Nat /\ NBufs \in Nat
          /\ PostedCount(x) \in {0, 1} /\ KeptCount(x) \in {0, 1}
      BY <1>1, CountTypes
    <3> QED
      BY <1>1, <2>3, <2>4, <3>1, <3>2 DEF CountOK, DstReturned
  <2>10. PhaseOK(z)
    <3>1. ~x.seen /\ ~x.txActive
      BY DEF EmptyDrain
    <3>2. x.last = NONE
      BY <1>1, <3>1 DEF MarkerOK
    <3> QED
      BY <2>6, <2>8, <3>1, <3>2 DEF PhaseOK
  <2>11. MarkerOK(z)
    BY <1>1, <2>6 DEF MarkerOK
  <2>12. LedgerOK(z) /\ InputOK(z)
    BY <1>1, <2>6, <2>7 DEF FileInv, LedgerOK, InputOK
  <2>13. OffOK(z)
    BY <1>1, <2>7 DEF FileInv, OffOK
  <2>14. FileInv(z)
    BY <2>4, <2>9, <2>10, <2>11, <2>12, <2>13 DEF FileInv
  <2> QED
    BY <2>1, <2>7, <2>8, <2>14 DEF WorkStep
<1> QED
  BY <1>2, <1>3

LEMMA ScheduledEffect ==
  ASSUME NEW x \in File
  PROVE  LET y == [x EXCEPT !.txActive = TRUE, !.tx = "queued"]
         IN  /\ y \in File /\ But(x, y, {"txActive", "tx"})
             /\ y.txActive = TRUE /\ y.tx = "queued"
<1> DEFINE y == [x EXCEPT !.txActive = TRUE, !.tx = "queued"]
<1>1. "queued" \in TxStates
  BY DEF TxStates
<1>2. y \in File
  BY <1>1 DEF File
<1>3. But(x, y, {"txActive", "tx"})
  BY DEF File, But, Fields
<1>4. y.txActive = TRUE /\ y.tx = "queued"
  BY DEF File
<1> QED
  BY <1>2, <1>3, <1>4

\* There is something to send, or there was.
Ready(x) == x.seen \/ chd_next_input(x) # NONE

LEMMA ScheduleKeeps ==
  ASSUME clip \in Clips, NEW x, RunInv(x), Ready(x)
  PROVE  WorkStep(x, chd_schedule_tx(x))
<1> DEFINE y == [x EXCEPT !.txActive = TRUE, !.tx = "queued"]
<1>1. /\ x \in File /\ FileInv(x) /\ CountOK(x) /\ LedgerOK(x) /\ InputOK(x) /\ OffOK(x)
      /\ PhaseOK(x) /\ MarkerOK(x) /\ x.out
  BY DEF RunInv, FileInv
<1>2. \/ chd_schedule_tx(x) = x
      \/ ~x.txActive /\ x.phase = "RUNNING" /\ chd_schedule_tx(x) = y
  BY DEF chd_schedule_tx
<1>3. CASE chd_schedule_tx(x) = x
  BY <1>1, <1>3 DEF WorkStep
<1>4. CASE ~x.txActive /\ x.phase = "RUNNING" /\ chd_schedule_tx(x) = y
  <2>1. /\ y \in File /\ But(x, y, {"txActive", "tx"})
        /\ y.txActive = TRUE /\ y.tx = "queued"
    BY <1>1, ScheduledEffect
  <2> HIDE DEF y
  <2>2. /\ y.left = x.left /\ y.src = x.src /\ y.drain = x.drain /\ y.txau = x.txau
        /\ y.seen = x.seen /\ y.session = x.session /\ y.out = x.out
        /\ y.tokens = x.tokens /\ y.epoch = x.epoch
    BY <2>1 DEF But, Fields
  <2>3. /\ y.held = x.held /\ y.dst = x.dst /\ y.active = x.active /\ y.last = x.last
        /\ y.phase = x.phase /\ y.known = x.known /\ y.cap = x.cap
        /\ y.pending = x.pending
    BY <2>1 DEF But, Fields
  <2>4. CountOK(y)
    BY <1>1, <2>3 DEF CountOK, PostedCount, KeptCount
  <2>5. InputOK(y)
    <3>1. x.tx = "idle" /\ x.txau = EOS
      BY <1>1, <1>4 DEF InputOK
    <3>2. ~x.seen => x.src # <<>> /\ (x.drain => x.left # 0)
      BY DEF Ready, chd_next_input
    <3>3. x.left \in Nat
      BY <1>1, FileTypes
    <3> QED
      BY <1>1, <2>1, <2>2, <3>1, <3>2, <3>3 DEF InputOK
  <2>6. LedgerOK(y) /\ OffOK(y)
    BY <1>1, <2>2 DEF LedgerOK, OffOK
  <2>7. PhaseOK(y)
    BY <1>4, <2>3 DEF PhaseOK
  <2>8. MarkerOK(y)
    BY <1>1, <2>2, <2>3 DEF MarkerOK
  <2>9. FileInv(y)
    BY <2>1, <2>4, <2>5, <2>6, <2>7, <2>8 DEF FileInv
  <2> QED
    BY <1>4, <2>2, <2>3, <2>9 DEF WorkStep
<1> QED
  BY <1>2, <1>3, <1>4

LEMMA SetRunEffect ==
  ASSUME NEW x \in File, NEW b \in BOOLEAN
  PROVE  LET y == [x EXCEPT !.run = b]
         IN  y \in File /\ But(x, y, {"run"}) /\ y.run = b
<1> DEFINE y == [x EXCEPT !.run = b]
<1>1. y \in File
  BY DEF File
<1>2. But(x, y, {"run"})
  BY DEF File, But, Fields
<1>3. y.run = b
  BY DEF File
<1> QED
  BY <1>1, <1>2, <1>3

LEMMA RunFlagKeeps ==
  ASSUME NEW x, FileInv(x), NEW b \in BOOLEAN, b => x.out
  PROVE  WorkStep(x, [x EXCEPT !.run = b])
<1> DEFINE y == [x EXCEPT !.run = b]
<1>1. x \in File /\ OffOK(x)
  BY DEF FileInv
<1>2. y \in File /\ But(x, y, {"run"}) /\ y.run = b
  BY <1>1, SetRunEffect
<1> HIDE DEF y
<1>3. y.admitted = x.admitted /\ But(x, y, Flags \ {"epoch"})
  BY <1>2 DEF But, Fields, Flags
<1>4. x.admitted => x.out
  BY <1>1 DEF OffOK
<1>5. WorkStep(x, y)
  BY <1>2, <1>3, <1>4, FlagsWork
<1> QED
  BY <1>5 DEF y

LEMMA RequeueKeeps ==
  ASSUME NEW x, FileInv(x), x.out
  PROVE  WorkStep(x, Requeue(x))
<1>1. PICK b \in BOOLEAN : b = (x.admitted /\ (~x.closing \/ x.txActive) /\ x.phase # "DRAINED")
  <2>1. (x.admitted /\ (~x.closing \/ x.txActive) /\ x.phase # "DRAINED") \in BOOLEAN
    OBVIOUS
  <2> QED
    BY <2>1
<1>2. Requeue(x) = [x EXCEPT !.run = b]
  BY <1>1 DEF Requeue
<1> QED
  BY <1>2, RunFlagKeeps

LEMMA WatchdogKeeps ==
  ASSUME NEW x, FileInv(x), NEW expired
  PROVE  WorkStep(x, chd_drain_watchdog(x, expired))
<1>1. WorkStep(x, x)
  BY DEF WorkStep
<1> QED
  BY <1>1, ErrorKeeps DEF chd_drain_watchdog

LEMMA TurnKeeps ==
  ASSUME clip \in Clips, shown \in SUBSET AUs, NEW x, RunInv(x), Ready(x),
         NEW expired, NEW t \in ChannelTurn(x, expired)
  PROVE  WorkStep(x, t.f) /\ t.shown \in SUBSET AUs
<1> DEFINE Begin(y, s) == IF y.started THEN {Ok(y, s)}
                          ELSE Then(chd_submit_capture(y, s), chd_start_capture)
           Receive(y, s) == IF y.started THEN Then(chd_receive(y, s), chd_submit_capture)
                            ELSE {Ok(y, s)}
           Last(y) == chd_drain_watchdog(chd_schedule_tx(y), expired)
           Finish(y, s) == {Ok(Last(y), s)}
           Opened == crystalhd_v4l2_decoder_open_locked(x, shown)
<1>1. ASSUME NEW y, RunInv(y), NEW s \in SUBSET AUs, NEW r \in Begin(y, s)
      PROVE  RunOutcome(y, r)
  <2>1. CASE y.started
    BY <1>1, <2>1, RunRefl, OkOutcome
  <2>2. CASE ~y.started
    <3>1. r \in Then(chd_submit_capture(y, s), chd_start_capture)
      BY <1>1, <2>2
    <3>2. PICK q \in chd_submit_capture(y, s) :
             r \in IF q.ok THEN chd_start_capture(q.f, q.shown) ELSE {q}
      BY <3>1 DEF Then
    <3>3. RunOutcome(y, q)
      BY <1>1, SubmitKeeps
    <3>4. RunInv(q.f) /\ RunStep(y, q.f) /\ q.shown \in SUBSET AUs
      BY <3>3 DEF RunOutcome, RunStep
    <3>5. CASE q.ok
      <4>1. RunOutcome(q.f, r)
        BY <3>2, <3>4, <3>5, StartKeeps
      <4> QED
        BY <3>4, <4>1, OutcomeAfter
    <3> QED
      BY <3>2, <3>3, <3>5
  <2> QED
    BY <2>1, <2>2
<1>2. ASSUME NEW y, RunInv(y), NEW s \in SUBSET AUs, NEW r \in Receive(y, s)
      PROVE  RunOutcome(y, r)
  <2>1. CASE ~y.started
    BY <1>2, <2>1, RunRefl, OkOutcome
  <2>2. CASE y.started
    <3>1. r \in Then(chd_receive(y, s), chd_submit_capture)
      BY <1>2, <2>2
    <3>2. PICK q \in chd_receive(y, s) :
             r \in IF q.ok THEN chd_submit_capture(q.f, q.shown) ELSE {q}
      BY <3>1 DEF Then
    <3>3. RunOutcome(y, q)
      BY <1>2, ReceiveKeeps
    <3>4. RunInv(q.f) /\ RunStep(y, q.f) /\ q.shown \in SUBSET AUs
      BY <3>3 DEF RunOutcome, RunStep
    <3>5. CASE q.ok
      <4>1. RunOutcome(q.f, r)
        BY <3>2, <3>4, <3>5, SubmitKeeps
      <4> QED
        BY <3>4, <4>1, OutcomeAfter
    <3> QED
      BY <3>2, <3>3, <3>5
  <2> QED
    BY <2>1, <2>2
<1>3. PICK r \in Then(Then(Then(Opened, Begin), Receive), Finish) :
         t = IF r.ok THEN Ok(Requeue(r.f), r.shown) ELSE Bad(chd_error(r.f), r.shown)
  BY DEF ChannelTurn
<1> HIDE DEF Begin, Receive, Opened, Last
<1>4. PICK r1 \in Then(Then(Opened, Begin), Receive) :
         r \in IF r1.ok THEN Finish(r1.f, r1.shown) ELSE {r1}
  BY <1>3 DEF Then
<1>5. PICK r2 \in Then(Opened, Begin) :
         r1 \in IF r2.ok THEN Receive(r2.f, r2.shown) ELSE {r2}
  BY <1>4 DEF Then
<1>6. PICK r3 \in Opened : r2 \in IF r3.ok THEN Begin(r3.f, r3.shown) ELSE {r3}
  BY <1>5 DEF Then
<1>7. RunOutcome(x, r3)
  BY OpenKeeps DEF Opened
<1>8. RunOutcome(x, r2)
  <2>1. RunInv(r3.f) /\ RunStep(x, r3.f) /\ r3.shown \in SUBSET AUs
    BY <1>7 DEF RunOutcome, RunStep
  <2>2. CASE r3.ok
    <3>1. RunOutcome(r3.f, r2)
      BY <1>1, <1>6, <2>1, <2>2
    <3> QED
      BY <2>1, <3>1, OutcomeAfter
  <2> QED
    BY <1>6, <1>7, <2>2
<1>9. RunOutcome(x, r1)
  <2>1. RunInv(r2.f) /\ RunStep(x, r2.f) /\ r2.shown \in SUBSET AUs
    BY <1>8 DEF RunOutcome, RunStep
  <2>2. CASE r2.ok
    <3>1. RunOutcome(r2.f, r1)
      BY <1>2, <1>5, <2>1, <2>2
    <3> QED
      BY <2>1, <3>1, OutcomeAfter
  <2> QED
    BY <1>5, <1>8, <2>2
<1>10. x \in File /\ x.out
  BY DEF RunInv, FileInv
<1>11. /\ RunInv(r1.f) /\ RunStep(x, r1.f) /\ r1.shown \in SUBSET AUs
       /\ WorkStep(x, r1.f) /\ FileInv(r1.f) /\ r1.f.out
  <2>1. RunInv(r1.f) /\ RunStep(x, r1.f) /\ r1.shown \in SUBSET AUs
    BY <1>9 DEF RunOutcome, RunStep
  <2> QED
    BY <1>10, <2>1, RunIsWork DEF RunInv
<1>12. Ready(r1.f)
  <2>1. /\ r1.f.seen = x.seen /\ r1.f.drain = x.drain /\ r1.f.left = x.left
        /\ r1.f.src = x.src
    BY <1>11 DEF RunStep, But, Fields, RunFields
  <2> QED
    BY <2>1 DEF Ready, chd_next_input
<1>13. WorkStep(x, r.f) /\ r.shown \in SUBSET AUs
  <2>1. CASE ~r1.ok
    BY <1>4, <1>11, <2>1
  <2>2. CASE r1.ok
    <3>1. r = Ok(Last(r1.f), r1.shown)
      BY <1>4, <2>2
    <3>2. r.f = Last(r1.f) /\ r.shown = r1.shown
      BY <3>1 DEF Ok
    <3>3. WorkStep(r1.f, chd_schedule_tx(r1.f))
      BY <1>11, <1>12, ScheduleKeeps
    <3>4. FileInv(chd_schedule_tx(r1.f))
      BY <3>3 DEF WorkStep
    <3>5. WorkStep(chd_schedule_tx(r1.f), Last(r1.f))
      BY <3>4, WatchdogKeeps DEF Last
    <3>6. WorkStep(x, Last(r1.f))
      BY <1>11, <3>3, <3>5, WorkTransitive
    <3> QED
      BY <1>11, <3>2, <3>6
  <2> QED
    BY <2>1, <2>2
<1>14. FileInv(r.f) /\ r.f.out
  BY <1>10, <1>13 DEF WorkStep
<1>15. WorkStep(r.f, Requeue(r.f)) /\ WorkStep(r.f, chd_error(r.f))
  BY <1>14, RequeueKeeps, ErrorKeeps
<1>16. t.shown = r.shown /\ (t.f = Requeue(r.f) \/ t.f = chd_error(r.f))
  <2>1. CASE r.ok
    BY <1>3, <2>1 DEF Ok
  <2>2. CASE ~r.ok
    BY <1>3, <2>2 DEF Bad
  <2> QED
    BY <2>1, <2>2
<1>17. WorkStep(r.f, t.f)
  BY <1>15, <1>16
<1> QED
  BY <1>13, <1>16, <1>17, WorkTransitive

-----------------------------------------------------------------------------
(* From the file to the state.                                             *)

LEMMA SameTypes ==
  ASSUME clip' = clip
  PROVE  File' = File /\ Channel' = Channel /\ AUs' = AUs
<1>1. AUs' = AUs
  BY DEF AUs
<1>2. /\ Transfers' = Transfers /\ Ledgers' = Ledgers /\ Sources' = Sources
      /\ Registrations' = Registrations /\ Discoveries' = Discoveries
      /\ StagedPictures' = StagedPictures
  BY <1>1 DEF Transfers, Ledgers, Sources, Registrations, Discoveries, StagedPictures,
              Posts, Probes, Copies, Answers
<1>3. File' = File
  BY <1>2 DEF File
<1>4. Channel' = Channel
  BY <1>2 DEF Channel
<1> QED
  BY <1>1, <1>3, <1>4

LEMMA Settle ==
  ASSUME clip \in Clips, FileInv(f'), clip' = clip, IoInv',
         io' \in Joins \cup {NONE, "closed"}, fw' \in Channel, shown' \in SUBSET AUs
  PROVE  IInv'
<1>1. /\ f' \in File /\ CountOK(f') /\ LedgerOK(f') /\ InputOK(f') /\ OffOK(f')
      /\ PhaseOK(f') /\ MarkerOK(f')
  BY DEF FileInv
<1>2. File' = File /\ Channel' = Channel /\ AUs' = AUs
  BY SameTypes
<1>3. FileInv(f)'
  <2>1. CountOK(f)'
    BY <1>1 DEF CountOK, PostedCount, KeptCount
  <2>2. LedgerOK(f)' /\ InputOK(f)'
    BY <1>1 DEF LedgerOK, InputOK
  <2>3. OffOK(f)' /\ PhaseOK(f)' /\ MarkerOK(f)'
    BY <1>1 DEF OffOK, PhaseOK, MarkerOK
  <2> QED
    BY <1>1, <1>2, <2>1, <2>2, <2>3 DEF FileInv
<1>4. f'.held <= NBufs
  <2>1. /\ f'.held \in Nat /\ Len(f'.dst) \in Nat /\ NBufs \in Nat
        /\ PostedCount(f') \in {0, 1} /\ KeptCount(f') \in {0, 1}
    BY <1>1, CountTypes
  <2> QED
    BY <1>1, <2>1 DEF CountOK
<1>5. Cardinality(f'.tokens) <= clip.ledger /\ f'.left <= Len(f'.src)
  BY <1>1 DEF LedgerOK, InputOK
<1>6. TypeOK'
  BY <1>1, <1>2, <1>4, <1>5 DEF TypeOK, Joins
<1> QED
  BY <1>3, <1>6 DEF IInv

\* After a step of a worker or of the firmware.
LEMMA WorkSettles ==
  ASSUME IInv, WorkStep(f, f'), clip' = clip, io' = io, fw' \in Channel,
         shown' \in SUBSET AUs,
         io = "closed" => ~f'.admitted /\ ~f'.run /\ ~f'.txActive
  PROVE  IInv'
<1>1. IoInv'
  BY DEF IInv, IoInv, WorkStep
<1> QED
  BY <1>1, Settle DEF IInv, TypeOK, WorkStep

LEMMA IInvFacts ==
  ASSUME IInv
  PROVE  /\ clip \in Clips /\ shown \in SUBSET AUs /\ fw \in Channel /\ f \in File
         /\ FileInv(f) /\ CountOK(f) /\ LedgerOK(f) /\ InputOK(f) /\ OffOK(f)
         /\ PhaseOK(f) /\ MarkerOK(f) /\ IoInv
  BY DEF IInv, TypeOK, FileInv

LEMMA RunStepInv ==
  ASSUME IInv, NEW expired, ChdRun(expired)
  PROVE  IInv'
<1> DEFINE y == [f EXCEPT !.run = FALSE]
           x == chd_finish_last(y)
<1>1. /\ clip \in Clips /\ shown \in SUBSET AUs /\ fw \in Channel /\ f \in File
      /\ FileInv(f) /\ OffOK(f) /\ IoInv
  BY IInvFacts
<1>2. f.run /\ UNCHANGED <<fw, io, clip>>
  BY DEF ChdRun
<1>3. f.out /\ io # "closed"
  BY <1>1, <1>2 DEF OffOK, IoInv
<1>4. WorkStep(f, y)
  BY <1>1, <1>3, RunFlagKeeps
<1> HIDE DEF y
<1>5. WorkStep(y, x) /\ WorkStep(f, x)
  <2>1. RunInv(y)
    BY <1>3, <1>4 DEF RunInv, WorkStep
  <2>2. WorkStep(y, x)
    BY <1>1, <2>1, FinishKeeps
  <2> QED
    BY <1>4, <2>2, WorkTransitive
<1>6. RunInv(x) /\ FileInv(x)
  BY <1>3, <1>5 DEF RunInv, WorkStep
<1>7. \/ f' = x /\ UNCHANGED shown
      \/ EmptyDrain(x) /\ f' = chd_empty_drain(x) /\ UNCHANGED shown
      \/ f' \in DeviceGone(x) /\ UNCHANGED shown
      \/ /\ x.seen \/ chd_next_input(x) # NONE
         /\ \E r \in ChannelTurn(x, expired) : f' = r.f /\ shown' = r.shown
  BY DEF ChdRun, y
<1> HIDE DEF x
<1>8. WorkStep(f, f') /\ shown' \in SUBSET AUs
  <2>1. CASE f' = x /\ UNCHANGED shown
    BY <1>1, <1>5, <2>1
  <2>2. CASE EmptyDrain(x) /\ f' = chd_empty_drain(x) /\ UNCHANGED shown
    <3>1. WorkStep(x, f')
      BY <1>1, <1>6, <2>2, EmptyDrainKeeps
    <3> QED
      BY <1>1, <1>5, <2>2, <3>1, WorkTransitive
  <2>3. CASE f' \in DeviceGone(x) /\ UNCHANGED shown
    <3>1. WorkStep(x, f')
      BY <1>6, <2>3, GoneKeeps
    <3> QED
      BY <1>1, <1>5, <2>3, <3>1, WorkTransitive
  <2>4. CASE /\ x.seen \/ chd_next_input(x) # NONE
             /\ \E r \in ChannelTurn(x, expired) : f' = r.f /\ shown' = r.shown
    <3>1. PICK r \in ChannelTurn(x, expired) : f' = r.f /\ shown' = r.shown
      BY <2>4
    <3>2. Ready(x)
      BY <2>4 DEF Ready
    <3>3. WorkStep(x, r.f) /\ r.shown \in SUBSET AUs
      BY <1>1, <1>6, <3>2, TurnKeeps
    <3> QED
      BY <1>5, <3>1, <3>3, WorkTransitive
  <2> QED
    BY <1>7, <2>1, <2>2, <2>3, <2>4
<1> QED
  BY <1>1, <1>2, <1>3, <1>8, WorkSettles

-----------------------------------------------------------------------------
(* chd_tx_run.                                                             *)

\* The invariant without what ties the worker to the head of the queue.
FreeInv(x) ==
    /\ x \in File /\ CountOK(x) /\ LedgerOK(x) /\ OffOK(x) /\ PhaseOK(x) /\ MarkerOK(x)
    /\ x.left <= Len(x.src) /\ (~x.drain => x.left = 0)

FreeStep(x, y) ==
    /\ FreeInv(y) /\ y.epoch = x.epoch /\ y.out = x.out
    /\ x.phase = "DRAINED" => y.phase = "DRAINED"

LEMMA WorkIsFree ==
  ASSUME NEW x, NEW y, WorkStep(x, y)
  PROVE  FreeStep(x, y)
  BY DEF WorkStep, FreeStep, FreeInv, FileInv, InputOK

LEMMA InactiveEffect ==
  ASSUME NEW x \in File
  PROVE  LET y == [x EXCEPT !.tx = "idle", !.txau = EOS, !.txActive = FALSE]
         IN  /\ y \in File /\ But(x, y, {"tx", "txau", "txActive"})
             /\ y.tx = "idle" /\ y.txau = EOS /\ y.txActive = FALSE
<1> DEFINE y == [x EXCEPT !.tx = "idle", !.txau = EOS, !.txActive = FALSE]
<1>1. "idle" \in TxStates /\ EOS \in Transfers
  BY DEF TxStates, Transfers
<1>2. y \in File
  BY <1>1 DEF File
<1>3. But(x, y, {"tx", "txau", "txActive"})
  BY DEF File, But, Fields
<1>4. y.tx = "idle" /\ y.txau = EOS /\ y.txActive = FALSE
  BY DEF File
<1> QED
  BY <1>2, <1>3, <1>4

\* A worker that is done with its input needs no tie.
LEMMA DoneKeeps ==
  ASSUME NEW x, FreeInv(x)
  PROVE  WorkStep(x, [x EXCEPT !.tx = "idle", !.txau = EOS, !.txActive = FALSE])
<1> DEFINE y == [x EXCEPT !.tx = "idle", !.txau = EOS, !.txActive = FALSE]
<1>1. /\ x \in File /\ CountOK(x) /\ LedgerOK(x) /\ OffOK(x) /\ PhaseOK(x) /\ MarkerOK(x)
      /\ x.left <= Len(x.src) /\ (~x.drain => x.left = 0)
  BY DEF FreeInv
<1>2. /\ y \in File /\ But(x, y, {"tx", "txau", "txActive"})
      /\ y.tx = "idle" /\ y.txau = EOS /\ y.txActive = FALSE
  BY <1>1, InactiveEffect
<1> HIDE DEF y
<1>3. /\ y.left = x.left /\ y.src = x.src /\ y.drain = x.drain
      /\ y.seen = x.seen /\ y.session = x.session /\ y.out = x.out
      /\ y.tokens = x.tokens /\ y.epoch = x.epoch /\ y.admitted = x.admitted
      /\ y.run = x.run /\ y.started = x.started /\ y.disc = x.disc
  BY <1>2 DEF But, Fields
<1>4. /\ y.held = x.held /\ y.dst = x.dst /\ y.active = x.active /\ y.last = x.last
      /\ y.phase = x.phase /\ y.known = x.known /\ y.cap = x.cap
      /\ y.pending = x.pending
  BY <1>2 DEF But, Fields
<1>5. CountOK(y)
  BY <1>1, <1>4 DEF CountOK, PostedCount, KeptCount
<1>6. InputOK(y)
  BY <1>1, <1>2, <1>3 DEF InputOK
<1>7. LedgerOK(y) /\ OffOK(y)
  BY <1>1, <1>2, <1>3, <1>4 DEF LedgerOK, OffOK
<1>8. PhaseOK(y)
  BY <1>1, <1>2, <1>3, <1>4 DEF PhaseOK
<1>9. MarkerOK(y)
  BY <1>1, <1>3, <1>4 DEF MarkerOK
<1>10. FileInv(y)
  BY <1>2, <1>5, <1>6, <1>7, <1>8, <1>9 DEF FileInv
<1>11. WorkStep(x, y)
  BY <1>3, <1>4, <1>10 DEF WorkStep
<1> QED
  BY <1>11 DEF y

LEMMA InactiveKeeps ==
  ASSUME NEW x, FreeInv(x)
  PROVE  WorkStep(x, TxInactive(x))
<1> DEFINE y == [x EXCEPT !.tx = "idle", !.txau = EOS, !.txActive = FALSE]
<1>1. WorkStep(x, y)
  BY DoneKeeps
<1>2. TxInactive(x) = chd_kick(y)
  BY DEF TxInactive
<1> HIDE DEF y
<1>3. WorkStep(y, chd_kick(y))
  BY <1>1, KickKeeps DEF WorkStep
<1> QED
  BY <1>1, <1>2, <1>3, WorkTransitive

LEMMA SrcDoneEffect ==
  ASSUME NEW x \in File, x.src # <<>>, x.left <= Len(x.src), ~x.drain => x.left = 0
  PROVE  LET y == SrcDone(x)
         IN  /\ y \in File /\ But(x, y, {"src", "left"})
             /\ y.left <= Len(y.src) /\ (x.left = 0 => y.left = 0)
<1> DEFINE s == Tail(x.src)
           n == IF x.drain /\ x.left > 0 THEN x.left - 1 ELSE x.left
           y == [x EXCEPT !.src = s, !.left = n]
<1>1. x.src \in Seq(AUs) /\ x.left \in Nat /\ x.drain \in BOOLEAN
  BY FileTypes DEF Sources
<1>2. s \in Sources /\ Len(s) = Len(x.src) - 1 /\ Len(x.src) \in Nat /\ Len(x.src) > 0
  BY <1>1 DEF Sources
<1>3. n \in Nat /\ n <= Len(s) /\ (x.left = 0 => n = 0)
  BY <1>1, <1>2
<1>4. SrcDone(x) = y
  BY DEF SrcDone
<1> HIDE DEF s, n
<1>5. y \in File
  BY <1>2, <1>3 DEF File
<1>6. But(x, y, {"src", "left"})
  BY DEF File, But, Fields
<1>7. y.src = s /\ y.left = n
  BY DEF File
<1> QED
  BY <1>2, <1>3, <1>4, <1>5, <1>6, <1>7

LEMMA SrcDoneKeeps ==
  ASSUME NEW x, FreeInv(x), x.src # <<>>
  PROVE  FreeStep(x, SrcDone(x))
<1> DEFINE y == SrcDone(x)
<1>1. /\ x \in File /\ CountOK(x) /\ LedgerOK(x) /\ OffOK(x) /\ PhaseOK(x) /\ MarkerOK(x)
      /\ x.left <= Len(x.src) /\ (~x.drain => x.left = 0)
  BY DEF FreeInv
<1>2. /\ y \in File /\ But(x, y, {"src", "left"})
      /\ y.left <= Len(y.src) /\ (x.left = 0 => y.left = 0)
  BY <1>1, SrcDoneEffect
<1> HIDE DEF y
<1>3. /\ y.drain = x.drain /\ y.txActive = x.txActive
      /\ y.seen = x.seen /\ y.session = x.session /\ y.out = x.out
      /\ y.tokens = x.tokens /\ y.epoch = x.epoch /\ y.admitted = x.admitted
      /\ y.run = x.run /\ y.started = x.started /\ y.disc = x.disc
  BY <1>2 DEF But, Fields
<1>4. /\ y.held = x.held /\ y.dst = x.dst /\ y.active = x.active /\ y.last = x.last
      /\ y.phase = x.phase /\ y.known = x.known /\ y.cap = x.cap
      /\ y.pending = x.pending
  BY <1>2 DEF But, Fields
<1>5. CountOK(y)
  BY <1>1, <1>4 DEF CountOK, PostedCount, KeptCount
<1>6. LedgerOK(y) /\ OffOK(y)
  BY <1>1, <1>3, <1>4 DEF LedgerOK, OffOK
<1>7. PhaseOK(y) /\ MarkerOK(y)
  BY <1>1, <1>3, <1>4 DEF PhaseOK, MarkerOK
<1>8. FreeStep(x, y)
  BY <1>1, <1>2, <1>3, <1>4, <1>5, <1>6, <1>7 DEF FreeStep, FreeInv
<1> QED
  BY <1>8 DEF y

\* An update of flags under the weaker invariant.
LEMMA FlagsFree ==
  ASSUME NEW x, FreeInv(x), NEW y \in File, But(x, y, Flags \ {"epoch"}),
         y.admitted \/ y.run => x.out
  PROVE  FreeStep(x, y)
<1>1. /\ x \in File /\ CountOK(x) /\ LedgerOK(x) /\ OffOK(x) /\ PhaseOK(x) /\ MarkerOK(x)
      /\ x.left <= Len(x.src) /\ (~x.drain => x.left = 0)
  BY DEF FreeInv
<1>2. /\ y.left = x.left /\ y.src = x.src /\ y.drain = x.drain /\ y.txActive = x.txActive
      /\ y.seen = x.seen /\ y.session = x.session /\ y.epoch = x.epoch
      /\ y.out = x.out /\ y.tokens = x.tokens
  BY DEF But, Fields, Flags
<1>3. /\ y.held = x.held /\ y.dst = x.dst /\ y.active = x.active /\ y.last = x.last
      /\ y.phase = x.phase /\ y.known = x.known /\ y.cap = x.cap
      /\ y.pending = x.pending /\ y.started = x.started /\ y.disc = x.disc
  BY DEF But, Fields, Flags
<1>4. CountOK(y)
  BY <1>1, <1>3 DEF CountOK, PostedCount, KeptCount
<1>5. LedgerOK(y) /\ OffOK(y)
  BY <1>1, <1>2, <1>3 DEF LedgerOK, OffOK
<1>6. PhaseOK(y) /\ MarkerOK(y)
  BY <1>1, <1>2, <1>3 DEF PhaseOK, MarkerOK
<1> QED
  BY <1>1, <1>2, <1>3, <1>4, <1>5, <1>6 DEF FreeStep, FreeInv

LEMMA SubmittedEffect ==
  ASSUME NEW x \in File
  PROVE  LET y == crystalhd_v4l2_decoder_submitted(x)
         IN  y \in File /\ But(x, y, {"phase"}) /\ y.phase = "FAILED"
<1> DEFINE y == [x EXCEPT !.phase = "FAILED"]
<1>1. "FAILED" \in Phases
  BY DEF Phases
<1>2. y \in File /\ y.phase = "FAILED"
  BY <1>1 DEF File
<1>3. But(x, y, {"phase"})
  BY DEF File, But, Fields
<1>4. crystalhd_v4l2_decoder_submitted(x) = y
  BY DEF crystalhd_v4l2_decoder_submitted
<1> QED
  BY <1>2, <1>3, <1>4

\* After an error no input is admitted, whatever became of the buffer.
LEMMA TxErrorKeeps ==
  ASSUME NEW x, FileInv(x), x.tx \in {"wire", "sent"}, NEW y \in TxError(x)
  PROVE  WorkStep(x, y)
<1>1. FreeInv(x) /\ x \in File /\ InputOK(x) /\ OffOK(x) /\ PhaseOK(x)
  BY DEF FreeInv, FileInv, InputOK
<1>2. x.txActive /\ x.out /\ x.phase # "DRAINED"
  BY <1>1 DEF InputOK, OffOK, PhaseOK
<1>3. PICK z : /\ z = x \/ (x.txau # EOS /\ z = SrcDone(x))
               /\ y = TxInactive(chd_error(crystalhd_v4l2_decoder_submitted(z)))
  BY DEF TxError
<1>4. FreeStep(x, z)
  <2>1. CASE z = x
    BY <1>1, <2>1 DEF FreeStep
  <2>2. CASE x.txau # EOS /\ z = SrcDone(x)
    BY <1>1, <2>2, SrcDoneKeeps DEF InputOK
  <2> QED
    BY <1>3, <2>1, <2>2
<1> DEFINE s == crystalhd_v4l2_decoder_submitted(z)
           e == chd_error(s)
<1>5. FreeInv(s) /\ s.epoch = x.epoch /\ s.out = x.out
  <2>1. z \in File /\ FreeInv(z) /\ z.epoch = x.epoch /\ z.out = x.out
    BY <1>4 DEF FreeStep, FreeInv
  <2>2. s \in File /\ But(z, s, {"phase"}) /\ s.phase = "FAILED"
    BY <2>1, SubmittedEffect
  <2> HIDE DEF s
  <2>3. /\ s.left = z.left /\ s.src = z.src /\ s.drain = z.drain
        /\ s.seen = z.seen /\ s.session = z.session /\ s.out = z.out
        /\ s.tokens = z.tokens /\ s.epoch = z.epoch
    BY <2>2 DEF But, Fields
  <2>4. /\ s.held = z.held /\ s.dst = z.dst /\ s.active = z.active /\ s.last = z.last
        /\ s.known = z.known /\ s.cap = z.cap /\ s.pending = z.pending
    BY <2>2 DEF But, Fields
  <2>5. CountOK(s)
    BY <2>1, <2>4 DEF FreeInv, CountOK, PostedCount, KeptCount
  <2>6. LedgerOK(s) /\ OffOK(s)
    BY <1>2, <2>1, <2>3 DEF FreeInv, LedgerOK, OffOK
  <2>7. PhaseOK(s) /\ MarkerOK(s)
    BY <2>1, <2>2, <2>3, <2>4 DEF FreeInv, PhaseOK, MarkerOK
  <2> QED
    BY <2>1, <2>2, <2>3, <2>5, <2>6, <2>7 DEF FreeInv
<1>6. FreeStep(s, e)
  <2> HIDE DEF s
  <2>1. s \in File
    BY <1>5 DEF FreeInv
  <2>2. /\ e \in File /\ But(s, e, {"fatal", "admitted", "txStopping"})
        /\ e.admitted = FALSE
    BY <2>1, ErrorEffect
  <2> HIDE DEF e
  <2>3. e.run = s.run /\ But(s, e, Flags \ {"epoch"})
    BY <2>2 DEF But, Fields, Flags
  <2> QED
    BY <1>2, <1>5, <2>2, <2>3, FlagsFree
<1> HIDE DEF s, e
<1>7. WorkStep(e, y)
  BY <1>3, <1>6, InactiveKeeps DEF FreeStep, s, e
<1> QED
  BY <1>2, <1>5, <1>6, <1>7 DEF WorkStep, FreeStep

\* The ledger becomes t and access unit a goes on the wire.
OnWire(x, t, a) ==
    [[x EXCEPT !.tokens = t] EXCEPT !.seen = TRUE, !.tx = "wire", !.txau = a]

LEMMA OnWireEffect ==
  ASSUME NEW x \in File, NEW t \in Ledgers, NEW a \in AUs
  PROVE  LET y == OnWire(x, t, a)
         IN  /\ y \in File /\ But(x, y, {"tokens", "seen", "tx", "txau"})
             /\ y.tokens = t /\ y.seen = TRUE /\ y.tx = "wire" /\ y.txau = a
<1> DEFINE z == [x EXCEPT !.tokens = t]
           y == [z EXCEPT !.seen = TRUE, !.tx = "wire", !.txau = a]
<1>1. "wire" \in TxStates /\ a \in Transfers
  BY DEF TxStates, Transfers
<1>2. z \in File /\ z.tokens = t
  BY DEF File
<1>3. But(x, z, {"tokens"})
  BY DEF File, But, Fields
<1> HIDE DEF z
<1>4. y \in File
  BY <1>1, <1>2 DEF File
<1>5. But(z, y, {"seen", "tx", "txau"})
  BY <1>2 DEF File, But, Fields
<1>6. y.seen = TRUE /\ y.tx = "wire" /\ y.txau = a
  BY <1>2 DEF File
<1> HIDE DEF y
<1>7. y.tokens = z.tokens
  BY <1>5 DEF But, Fields
<1>8. But(x, y, {"tokens", "seen", "tx", "txau"})
  BY <1>3, <1>5 DEF But
<1> QED
  BY <1>2, <1>4, <1>6, <1>7, <1>8 DEF y, z, OnWire

\* A token of the ledger is reserved only while one is free.
LEMMA ReserveKeeps ==
  ASSUME clip \in Clips, NEW x, FileInv(x), x.tx = "queued", x.src # <<>>,
         Cardinality(x.tokens) < clip.ledger
  PROVE  WorkStep(x, [crystalhd_v4l2_reserve_input(x) EXCEPT
                         !.seen = TRUE, !.tx = "wire", !.txau = Head(x.src)])
<1> DEFINE a == Head(x.src)
           t == x.tokens \cup {a}
           y == OnWire(x, t, a)
<1>1. /\ x \in File /\ CountOK(x) /\ LedgerOK(x) /\ InputOK(x) /\ OffOK(x)
      /\ PhaseOK(x) /\ MarkerOK(x)
  BY DEF FileInv
<1>2. x.src \in Seq(AUs) /\ x.tokens \in SUBSET AUs
  BY <1>1, FileTypes DEF Sources, Ledgers
<1>3. a \in AUs /\ t \in Ledgers
  BY <1>2 DEF Ledgers
<1>4. Cardinality(t) <= clip.ledger
  <2>1. IsFiniteSet(AUs) /\ clip.ledger \in Nat
    BY ClipTypes
  <2>2. IsFiniteSet(x.tokens)
    BY <1>2, <2>1, FS_Subset
  <2>3. Cardinality(x.tokens) \in Nat
    BY <2>2, FS_CardinalityType
  <2>4. Cardinality(t) = Cardinality(x.tokens) \/ Cardinality(t) = Cardinality(x.tokens) + 1
    BY <2>2, FS_AddElement
  <2> QED
    BY <2>1, <2>3, <2>4
<1>5. [crystalhd_v4l2_reserve_input(x) EXCEPT
          !.seen = TRUE, !.tx = "wire", !.txau = Head(x.src)] = y
  BY DEF crystalhd_v4l2_reserve_input, OnWire
<1>6. a # EOS
  BY <1>3, ClipTypes
<1> HIDE DEF t, a
<1>7. /\ y \in File /\ But(x, y, {"tokens", "seen", "tx", "txau"})
      /\ y.tokens = t /\ y.seen = TRUE /\ y.tx = "wire" /\ y.txau = a
  BY <1>1, <1>3, OnWireEffect
<1> HIDE DEF y
<1>8. /\ y.left = x.left /\ y.src = x.src /\ y.drain = x.drain /\ y.txActive = x.txActive
      /\ y.session = x.session /\ y.out = x.out /\ y.epoch = x.epoch
      /\ y.admitted = x.admitted /\ y.run = x.run /\ y.started = x.started
      /\ y.disc = x.disc
  BY <1>7 DEF But, Fields
<1>9. /\ y.held = x.held /\ y.dst = x.dst /\ y.active = x.active /\ y.last = x.last
      /\ y.phase = x.phase /\ y.known = x.known /\ y.cap = x.cap
      /\ y.pending = x.pending
  BY <1>7 DEF But, Fields
<1>10. CountOK(y)
  BY <1>1, <1>9 DEF CountOK, PostedCount, KeptCount
<1>11. LedgerOK(y)
  BY <1>4, <1>7 DEF LedgerOK
<1>12. InputOK(y)
  BY <1>1, <1>7, <1>8 DEF InputOK, a
<1>13. OffOK(y)
  BY <1>1, <1>8, <1>9 DEF OffOK
<1>14. PhaseOK(y)
  BY <1>1, <1>7, <1>8, <1>9 DEF PhaseOK
<1>15. MarkerOK(y)
  BY <1>1, <1>7, <1>9 DEF MarkerOK
<1>16. WorkStep(x, y)
  BY <1>7, <1>8, <1>9, <1>10, <1>11, <1>12, <1>13, <1>14, <1>15 DEF WorkStep, FileInv
<1> QED
  BY <1>5, <1>16

LEMMA WireEffect ==
  ASSUME NEW x \in File
  PROVE  LET y == [[x EXCEPT !.phase = "DRAINING"] EXCEPT !.tx = "wire"]
         IN  /\ y \in File /\ But(x, y, {"phase", "tx"})
             /\ y.phase = "DRAINING" /\ y.tx = "wire"
<1> DEFINE z == [x EXCEPT !.phase = "DRAINING"]
           y == [z EXCEPT !.tx = "wire"]
<1>1. "wire" \in TxStates /\ "DRAINING" \in Phases
  BY DEF TxStates, Phases
<1>2. z \in File /\ z.phase = "DRAINING"
  BY <1>1 DEF File
<1>3. But(x, z, {"phase"})
  BY DEF File, But, Fields
<1> HIDE DEF z
<1>4. y \in File /\ y.tx = "wire"
  BY <1>1, <1>2 DEF File
<1>5. But(z, y, {"tx"})
  BY <1>2 DEF File, But, Fields
<1> HIDE DEF y
<1>6. y.phase = z.phase
  BY <1>5 DEF But, Fields
<1>7. But(x, y, {"phase", "tx"})
  BY <1>3, <1>5 DEF But
<1> QED
  BY <1>2, <1>4, <1>6, <1>7 DEF y, z

\* The EOS sequence follows input, never an empty drain.
LEMMA BeginDrainKeeps ==
  ASSUME NEW x, FileInv(x), x.tx = "queued", x.drain, chd_next_input(x) = NONE
  PROVE  WorkStep(x, [crystalhd_v4l2_decoder_begin_drain(x) EXCEPT !.tx = "wire"])
<1> DEFINE y == [[x EXCEPT !.phase = "DRAINING"] EXCEPT !.tx = "wire"]
<1>1. /\ x \in File /\ CountOK(x) /\ LedgerOK(x) /\ InputOK(x) /\ OffOK(x)
      /\ PhaseOK(x) /\ MarkerOK(x)
  BY DEF FileInv
<1>2. [crystalhd_v4l2_decoder_begin_drain(x) EXCEPT !.tx = "wire"] = y
  BY DEF crystalhd_v4l2_decoder_begin_drain
<1>3. x.seen /\ x.txActive /\ x.out /\ x.phase # "DRAINED" /\ x.txau = EOS
  <2>1. x.txActive /\ x.txau = EOS
    BY <1>1 DEF InputOK
  <2>2. x.out /\ x.phase # "DRAINED"
    BY <1>1, <2>1 DEF OffOK, PhaseOK
  <2>3. x.seen
    <3>1. "src" # NONE
      BY NoneIsFresh
    <3>2. x.left \in Nat
      BY <1>1, FileTypes
    <3>3. x.left = 0 \/ x.src = <<>>
      BY <3>1 DEF chd_next_input
    <3> QED
      BY <1>1, <3>2, <3>3 DEF InputOK
  <2> QED
    BY <2>1, <2>2, <2>3
<1>4. /\ y \in File /\ But(x, y, {"phase", "tx"}) /\ y.phase = "DRAINING" /\ y.tx = "wire"
  BY <1>1, WireEffect
<1> HIDE DEF y
<1>5. /\ y.left = x.left /\ y.src = x.src /\ y.drain = x.drain /\ y.txActive = x.txActive
      /\ y.session = x.session /\ y.out = x.out /\ y.epoch = x.epoch
      /\ y.seen = x.seen /\ y.tokens = x.tokens /\ y.txau = x.txau
  BY <1>4 DEF But, Fields
<1>6. /\ y.held = x.held /\ y.dst = x.dst /\ y.active = x.active /\ y.last = x.last
      /\ y.known = x.known /\ y.cap = x.cap /\ y.pending = x.pending
  BY <1>4 DEF But, Fields
<1>7. CountOK(y)
  BY <1>1, <1>6 DEF CountOK, PostedCount, KeptCount
<1>8. LedgerOK(y) /\ OffOK(y)
  BY <1>1, <1>3, <1>5 DEF LedgerOK, OffOK
<1>9. InputOK(y)
  BY <1>1, <1>3, <1>4, <1>5 DEF InputOK
<1>10. PhaseOK(y) /\ MarkerOK(y)
  BY <1>1, <1>3, <1>4, <1>5, <1>6 DEF PhaseOK, MarkerOK
<1>11. WorkStep(x, y)
  BY <1>3, <1>4, <1>5, <1>7, <1>8, <1>9, <1>10 DEF WorkStep, FileInv
<1> QED
  BY <1>2, <1>11

LEMMA SentEffect ==
  ASSUME NEW x \in File
  PROVE  LET y == [x EXCEPT !.eosDone = TRUE]
             z == [x EXCEPT !.tx = "sent"]
             l == [x EXCEPT !.late = TRUE]
         IN  /\ y \in File /\ But(x, y, {"eosDone"})
             /\ z \in File /\ But(x, z, {"tx"}) /\ z.tx = "sent"
             /\ l \in File /\ But(x, l, {"late"})
<1> DEFINE y == [x EXCEPT !.eosDone = TRUE]
           z == [x EXCEPT !.tx = "sent"]
           l == [x EXCEPT !.late = TRUE]
<1>1. "sent" \in TxStates
  BY DEF TxStates
<1>2. y \in File
  BY DEF File
<1>3. But(x, y, {"eosDone"})
  BY DEF File, But, Fields
<1>4. z \in File /\ z.tx = "sent"
  BY <1>1 DEF File
<1>5. But(x, z, {"tx"})
  BY DEF File, But, Fields
<1>6. l \in File
  BY DEF File
<1>7. But(x, l, {"late"})
  BY DEF File, But, Fields
<1> QED
  BY <1>2, <1>3, <1>4, <1>5, <1>6, <1>7

LEMMA FreeWork ==
  ASSUME NEW x, NEW y, NEW z, FreeStep(x, y), WorkStep(y, z)
  PROVE  WorkStep(x, z)
  BY DEF FreeStep, WorkStep

LEMMA TxStepInv ==
  ASSUME IInv,
         \/ chd_tx_run_begin \/ chd_tx_run_suspended \/ chd_tx_run_sent
         \/ chd_tx_run_failed \/ chd_tx_run_timeout
  PROVE  IInv'
<1>1. /\ clip \in Clips /\ shown \in SUBSET AUs /\ fw \in Channel /\ f \in File
      /\ FileInv(f) /\ InputOK(f) /\ OffOK(f) /\ IoInv
  BY IInvFacts
<1>2. FreeInv(f) /\ WorkStep(f, f) /\ FreeStep(f, f)
  <2>1. WorkStep(f, f)
    BY <1>1 DEF WorkStep
  <2>2. FreeStep(f, f)
    BY <2>1, WorkIsFree
  <2> QED
    BY <2>1, <2>2 DEF FreeStep
<1>3. WorkStep(f, TxInactive(f))
  BY <1>2, InactiveKeeps
<1>4. f.tx # "idle" /\ UNCHANGED <<fw, io, clip, shown>>
  BY DEF chd_tx_run_begin, chd_tx_run_suspended, chd_tx_run_sent, chd_tx_run_failed,
         chd_tx_run_timeout
<1>5. io # "closed"
  BY <1>1, <1>4 DEF InputOK, IoInv
<1>6. CASE chd_tx_run_begin
  <2>1. f.tx = "queued"
    BY <1>6 DEF chd_tx_run_begin
  <2>2. \/ f' = TxInactive(f)
        \/ \E x \in DeviceGone(f) : f' = TxInactive(x)
        \/ /\ chd_next_input(f) # NONE /\ Cardinality(f.tokens) < clip.ledger
           /\ f' = [crystalhd_v4l2_reserve_input(f) EXCEPT
                       !.seen = TRUE, !.tx = "wire", !.txau = Head(f.src)]
        \/ /\ chd_next_input(f) = NONE /\ f.drain
           /\ f' = [crystalhd_v4l2_decoder_begin_drain(f) EXCEPT !.tx = "wire"]
    BY <1>6, Zenon DEF chd_tx_run_begin
  <2>3. CASE \E x \in DeviceGone(f) : f' = TxInactive(x)
    <3>1. PICK x \in DeviceGone(f) : f' = TxInactive(x)
      BY <2>3
    <3>2. FreeStep(f, x)
      BY <1>1, GoneKeeps, WorkIsFree
    <3>3. WorkStep(x, f')
      BY <3>1, <3>2, InactiveKeeps DEF FreeStep
    <3> QED
      BY <1>1, <1>4, <1>5, <3>2, <3>3, FreeWork, WorkSettles
  <2>4. CASE /\ chd_next_input(f) # NONE /\ Cardinality(f.tokens) < clip.ledger
             /\ f' = [crystalhd_v4l2_reserve_input(f) EXCEPT
                         !.seen = TRUE, !.tx = "wire", !.txau = Head(f.src)]
    <3>1. f.src # <<>>
      BY <2>4 DEF chd_next_input
    <3>2. WorkStep(f, f')
      BY <1>1, <2>1, <2>4, <3>1, ReserveKeeps
    <3> QED
      BY <1>1, <1>4, <1>5, <3>2, WorkSettles
  <2>5. CASE /\ chd_next_input(f) = NONE /\ f.drain
             /\ f' = [crystalhd_v4l2_decoder_begin_drain(f) EXCEPT !.tx = "wire"]
    <3>1. WorkStep(f, f')
      BY <1>1, <2>1, <2>5, BeginDrainKeeps
    <3> QED
      BY <1>1, <1>4, <1>5, <3>1, WorkSettles
  <2> QED
    BY <1>1, <1>3, <1>4, <1>5, <2>2, <2>3, <2>4, <2>5, WorkSettles
<1>7. CASE chd_tx_run_suspended
  <2>1. f' = TxInactive(f)
    BY <1>7 DEF chd_tx_run_suspended
  <2> QED
    BY <1>1, <1>3, <1>4, <1>5, <2>1, WorkSettles
<1>8. CASE chd_tx_run_sent
  <2> DEFINE y == [f EXCEPT !.eosDone = TRUE]
             x == IF f.txau = EOS THEN y ELSE SrcDone(f)
  <2>1. f' = TxInactive(x)
    BY <1>8 DEF chd_tx_run_sent
  <2>2. FreeStep(f, x)
    <3>1. CASE f.txau # EOS
      BY <1>1, <1>2, <3>1, SrcDoneKeeps DEF InputOK
    <3>2. CASE f.txau = EOS
      <4>1. y \in File /\ But(f, y, {"eosDone"})
        BY <1>1, SentEffect
      <4> HIDE DEF y
      <4>2. /\ But(f, y, Flags \ {"epoch"}) /\ y.admitted = f.admitted /\ y.run = f.run
        BY <4>1 DEF But, Fields, Flags
      <4>3. f.admitted \/ f.run => f.out
        BY <1>1 DEF OffOK
      <4> QED
        BY <1>2, <3>2, <4>1, <4>2, <4>3, FlagsFree
    <3> QED
      BY <3>1, <3>2
  <2> HIDE DEF x
  <2>3. WorkStep(x, f')
    BY <2>1, <2>2, InactiveKeeps DEF FreeStep
  <2> QED
    BY <1>1, <1>4, <1>5, <2>2, <2>3, FreeWork, WorkSettles
<1>9. CASE chd_tx_run_failed
  <2>1. f.tx \in {"wire", "sent"} /\ f.faults < MaxFault /\ f' \in TxError(Faulty(f))
    BY <1>9 DEF chd_tx_run_failed
  <2>2. WorkStep(f, Faulty(f)) /\ But(f, Faulty(f), {"faults"})
    BY <1>1, <2>1, FaultyKeeps
  <2>3. FileInv(Faulty(f)) /\ Faulty(f).tx \in {"wire", "sent"}
    BY <2>1, <2>2 DEF WorkStep, But, Fields
  <2>4. WorkStep(f, f')
    BY <2>1, <2>2, <2>3, TxErrorKeeps, WorkTransitive
  <2> QED
    BY <1>1, <1>4, <1>5, <2>4, WorkSettles
<1>10. CASE chd_tx_run_timeout
  <2> DEFINE y == [f EXCEPT !.late = TRUE]
  <2>1. f.tx = "wire" /\ f' \in TxError(y)
    BY <1>10 DEF chd_tx_run_timeout
  <2>2. y \in File /\ But(f, y, {"late"})
    BY <1>1, SentEffect
  <2> HIDE DEF y
  <2>3. /\ But(f, y, Flags \ {"epoch"}) /\ y.admitted = f.admitted /\ y.run = f.run
        /\ y.tx = f.tx
    BY <2>2 DEF But, Fields, Flags
  <2>4. WorkStep(f, y)
    <3>1. f.admitted \/ f.run => f.out
      BY <1>1 DEF OffOK
    <3> QED
      BY <1>1, <2>2, <2>3, <3>1, FlagsWork
  <2>5. WorkStep(f, f')
    <3>1. FileInv(y)
      BY <2>4 DEF WorkStep
    <3>2. WorkStep(y, f')
      BY <2>1, <2>3, <3>1, TxErrorKeeps
    <3> QED
      BY <2>4, <3>2, WorkTransitive
  <2> QED
    BY <1>1, <1>4, <1>5, <2>5, WorkSettles
<1> QED
  BY <1>6, <1>7, <1>8, <1>9, <1>10

-----------------------------------------------------------------------------
(* The firmware.                                                           *)

LEMMA ChannelTypes ==
  ASSUME fw \in Channel
  PROVE  /\ fw.held \in Seq(AUs)
         /\ \A h \in Seq(AUs) : [fw EXCEPT !.held = h] \in Channel
         /\ \A n \in Nat : [fw EXCEPT !.fmt = n] \in Channel
         /\ \A b \in BOOLEAN : [fw EXCEPT !.eos = b] \in Channel
         /\ [fw EXCEPT !.hung = TRUE] \in Channel
         /\ [fw EXCEPT !.held = <<>>, !.fmt = NONE, !.eos = FALSE] \in Channel
<1>1. fw.held \in Seq(AUs)
  BY DEF Channel, Sources
<1>2. ASSUME NEW h \in Seq(AUs) PROVE [fw EXCEPT !.held = h] \in Channel
  BY DEF Channel, Sources
<1>3. ASSUME NEW n \in Nat PROVE [fw EXCEPT !.fmt = n] \in Channel
  BY DEF Channel
<1>4. ASSUME NEW b \in BOOLEAN PROVE [fw EXCEPT !.eos = b] \in Channel
  BY DEF Channel
<1>5. [fw EXCEPT !.hung = TRUE] \in Channel
  BY DEF Channel
<1>6. [fw EXCEPT !.held = <<>>, !.fmt = NONE, !.eos = FALSE] \in Channel
  <2>1. <<>> \in Sources
    BY DEF Sources
  <2> QED
    BY <2>1 DEF Channel
<1> QED
  BY <1>1, <1>2, <1>3, <1>4, <1>5, <1>6

\* An answer arrives in the posted buffer, or in the private one.
LEMMA ActiveAnsweredEffect ==
  ASSUME clip \in Clips, NEW x \in File, NEW r \in Answers(AUs), x.active # NONE
  PROVE  LET y == [x EXCEPT !.active.res = r]
         IN  y \in File /\ But(x, y, {"active"}) /\ y.active # NONE
<1> DEFINE p == [x.active EXCEPT !.res = r]
           y == [x EXCEPT !.active = p]
<1>1. x.active \in Posts(AUs)
  BY FileTypes DEF Registrations
<1>2. p \in Posts(AUs)
  BY <1>1 DEF Posts
<1>3. p \in Registrations /\ p # NONE
  BY <1>2, FreshTypes DEF Registrations
<1>4. [x EXCEPT !.active.res = r] = y
  OBVIOUS
<1> HIDE DEF p
<1>5. y \in File /\ y.active = p
  BY <1>3 DEF File
<1>6. But(x, y, {"active"})
  BY DEF File, But, Fields
<1> QED
  BY <1>3, <1>4, <1>5, <1>6

LEMMA DiscAnsweredEffect ==
  ASSUME NEW x \in File, NEW r \in Answers(AUs), x.disc # NONE
  PROVE  LET y == [x EXCEPT !.disc.res = r]
         IN  y \in File /\ But(x, y, {"disc"})
<1> DEFINE p == [x.disc EXCEPT !.res = r]
           y == [x EXCEPT !.disc = p]
<1>1. x.disc \in Probes(AUs)
  BY FileTypes DEF Discoveries
<1>2. p \in Discoveries
  BY <1>1 DEF Probes, Discoveries
<1>3. [x EXCEPT !.disc.res = r] = y
  OBVIOUS
<1> HIDE DEF p
<1>4. y \in File
  BY <1>2 DEF File
<1>5. But(x, y, {"disc"})
  BY DEF File, But, Fields
<1> QED
  BY <1>3, <1>4, <1>5

\* An answer changes no other field but run.
LEMMA CompletedKeeps ==
  ASSUME IInv, Posted, NEW r \in Answers(AUs)
  PROVE  /\ WorkStep(f, Completed(r)) /\ Completed(r).faults = f.faults
         /\ io = "closed" => ~Completed(r).admitted /\ ~Completed(r).run
                             /\ ~Completed(r).txActive
<1> DEFINE y == IF f.known THEN [f EXCEPT !.active.res = r] ELSE [f EXCEPT !.disc.res = r]
           z == chd_kick(y)
<1>1. /\ clip \in Clips /\ f \in File /\ CountOK(f) /\ LedgerOK(f) /\ InputOK(f) /\ OffOK(f)
      /\ PhaseOK(f) /\ MarkerOK(f) /\ IoInv
  BY IInvFacts
<1>2. Completed(r) = z
  BY DEF Completed
<1>3. f.out
  BY <1>1 DEF Posted, OffOK
<1>4. /\ y \in File /\ But(f, y, {"active", "disc"}) /\ (y.active = NONE <=> f.active = NONE)
  <2>1. CASE f.known
    <3>1. f.active # NONE
      BY <2>1 DEF Posted
    <3>2. y \in File /\ But(f, y, {"active"}) /\ y.active # NONE
      BY <1>1, <2>1, <3>1, ActiveAnsweredEffect
    <3> QED
      BY <3>1, <3>2 DEF But
  <2>2. CASE ~f.known
    <3>1. f.disc # NONE
      BY <2>2 DEF Posted
    <3>2. y \in File /\ But(f, y, {"disc"})
      BY <1>1, <2>2, <3>1, DiscAnsweredEffect
    <3> HIDE DEF y
    <3>3. y.active = f.active
      BY <3>2 DEF But, Fields
    <3> QED
      BY <3>2, <3>3 DEF But
  <2> QED
    BY <2>1, <2>2
<1> HIDE DEF y
<1>5. /\ y.left = f.left /\ y.src = f.src /\ y.drain = f.drain /\ y.txActive = f.txActive
      /\ y.session = f.session /\ y.out = f.out /\ y.epoch = f.epoch
      /\ y.seen = f.seen /\ y.tokens = f.tokens /\ y.txau = f.txau /\ y.tx = f.tx
      /\ y.admitted = f.admitted /\ y.run = f.run /\ y.faults = f.faults
  BY <1>4 DEF But, Fields
<1>6. /\ y.held = f.held /\ y.dst = f.dst /\ y.last = f.last /\ y.phase = f.phase
      /\ y.known = f.known /\ y.cap = f.cap /\ y.pending = f.pending
  BY <1>4 DEF But, Fields
<1>7. CountOK(y)
  BY <1>1, <1>4, <1>6 DEF CountOK, PostedCount, KeptCount
<1>8. LedgerOK(y) /\ InputOK(y)
  BY <1>1, <1>5 DEF LedgerOK, InputOK
<1>9. OffOK(y)
  BY <1>1, <1>3, <1>5 DEF OffOK
<1>10. PhaseOK(y) /\ MarkerOK(y)
  BY <1>1, <1>4, <1>5, <1>6 DEF PhaseOK, MarkerOK
<1>11. FileInv(y) /\ WorkStep(f, y)
  BY <1>4, <1>5, <1>6, <1>7, <1>8, <1>9, <1>10 DEF WorkStep, FileInv
<1>12. /\ WorkStep(y, z) /\ But(y, z, {"run"}) /\ (z.run => y.run \/ y.admitted)
  BY <1>4, <1>11, KickKeeps, KickEffect
<1> HIDE DEF z
<1>13. z.faults = y.faults /\ z.admitted = y.admitted /\ z.txActive = y.txActive
  BY <1>12 DEF But, Fields
<1>14. io = "closed" => ~z.admitted /\ ~z.run /\ ~z.txActive
  BY <1>1, <1>5, <1>12, <1>13 DEF IoInv
<1> QED
  BY <1>2, <1>5, <1>11, <1>12, <1>13, <1>14, WorkTransitive

LEMMA AcceptStepInv ==
  ASSUME IInv, fw_accept
  PROVE  IInv'
<1>1. /\ clip \in Clips /\ shown \in SUBSET AUs /\ fw \in Channel /\ f \in File
      /\ CountOK(f) /\ LedgerOK(f) /\ InputOK(f) /\ OffOK(f) /\ PhaseOK(f)
      /\ MarkerOK(f) /\ IoInv
  BY IInvFacts
<1> DEFINE y == [f EXCEPT !.tx = "sent"]
<1>2. f.tx = "wire" /\ f' = y /\ UNCHANGED <<io, clip, shown>>
  BY DEF fw_accept
<1>3. y \in File /\ But(f, y, {"tx"}) /\ y.tx = "sent"
  BY <1>1, SentEffect
<1> HIDE DEF y
<1>4. /\ y.left = f.left /\ y.src = f.src /\ y.drain = f.drain /\ y.txActive = f.txActive
      /\ y.session = f.session /\ y.out = f.out /\ y.epoch = f.epoch
      /\ y.seen = f.seen /\ y.tokens = f.tokens /\ y.txau = f.txau
      /\ y.admitted = f.admitted /\ y.run = f.run
  BY <1>3 DEF But, Fields
<1>5. /\ y.held = f.held /\ y.dst = f.dst /\ y.last = f.last /\ y.phase = f.phase
      /\ y.known = f.known /\ y.cap = f.cap /\ y.pending = f.pending
      /\ y.active = f.active /\ y.started = f.started /\ y.disc = f.disc
  BY <1>3 DEF But, Fields
<1>6. f.txActive /\ io # "closed"
  BY <1>1, <1>2 DEF InputOK, IoInv
<1>7. CountOK(y)
  BY <1>1, <1>5 DEF CountOK, PostedCount, KeptCount
<1>8. LedgerOK(y) /\ InputOK(y)
  BY <1>1, <1>2, <1>3, <1>4 DEF LedgerOK, InputOK
<1>9. OffOK(y) /\ PhaseOK(y) /\ MarkerOK(y)
  BY <1>1, <1>4, <1>5 DEF OffOK, PhaseOK, MarkerOK
<1>10. WorkStep(f, f')
  BY <1>2, <1>3, <1>4, <1>5, <1>7, <1>8, <1>9 DEF WorkStep, FileInv
<1>11. fw' \in Channel
  <2>1. CASE f.txau = EOS
    BY <1>1, <2>1, ChannelTypes DEF fw_accept
  <2>2. CASE f.txau # EOS
    <3>1. f.txau \in AUs
      BY <1>1, <2>2, FileTypes DEF Transfers
    <3>2. fw.held \in Seq(AUs)
      BY <1>1, ChannelTypes
    <3>3. Append(fw.held, f.txau) \in Seq(AUs)
      BY <3>1, <3>2
    <3>4. fw' = [fw EXCEPT !.held = Append(fw.held, f.txau)]
      BY <2>2 DEF fw_accept
    <3> QED
      BY <1>1, <3>3, <3>4, ChannelTypes
  <2> QED
    BY <2>1, <2>2
<1> QED
  BY <1>1, <1>2, <1>6, <1>10, <1>11, WorkSettles

LEMMA OutputStepInv ==
  ASSUME IInv, fw_output
  PROVE  IInv'
<1>1. clip \in Clips /\ shown \in SUBSET AUs /\ fw \in Channel
  BY IInvFacts
<1>2. Posted /\ UNCHANGED <<io, clip, shown>>
  BY DEF fw_output
<1>3. PICK r \in Answers(AUs) : f' = Completed(r) /\ fw' \in Channel
  <2>1. CASE fw.held # <<>>
    <3> DEFINE a == Head(fw.held)
               n == clip.aus[a].fmt
               h == Tail(fw.held)
    <3>1. fw.held \in Seq(AUs)
      BY <1>1, ChannelTypes
    <3>2. a \in AUs /\ h \in Seq(AUs)
      BY <2>1, <3>1
    <3>3. n \in Nat
      BY <1>1, <3>2, ClipTypes
    <3>4. \/ /\ f' = Completed([kind |-> "format", au |-> a, fmt |-> n])
             /\ fw' = [fw EXCEPT !.fmt = n]
          \/ /\ \E k \in {"picture", "error"} : f' = Completed([kind |-> k, au |-> a])
             /\ fw' = [fw EXCEPT !.held = h]
      BY <2>1 DEF fw_output
    <3> HIDE DEF a, n, h
    <3>5. [kind |-> "format", au |-> a, fmt |-> n] \in Answers(AUs)
      BY <3>2, <3>3 DEF Answers
    <3>6. \A k \in {"picture", "error"} : [kind |-> k, au |-> a] \in Answers(AUs)
      BY <3>2 DEF Answers
    <3>7. [fw EXCEPT !.fmt = n] \in Channel /\ [fw EXCEPT !.held = h] \in Channel
      BY <1>1, <3>2, <3>3, ChannelTypes
    <3> QED
      BY <3>4, <3>5, <3>6, <3>7
  <2>2. CASE fw.held = <<>>
    <3>1. f' = Completed([kind |-> "eos"]) /\ fw' = [fw EXCEPT !.eos = FALSE]
      BY <2>2 DEF fw_output
    <3>2. [kind |-> "eos"] \in Answers(AUs)
      BY DEF Answers
    <3>3. fw' \in Channel
      BY <1>1, <3>1, ChannelTypes
    <3> QED
      BY <3>1, <3>2, <3>3
  <2> QED
    BY <2>1, <2>2
<1>4. /\ WorkStep(f, f')
      /\ io = "closed" => ~f'.admitted /\ ~f'.run /\ ~f'.txActive
  BY <1>2, <1>3, CompletedKeeps
<1> QED
  BY <1>1, <1>2, <1>3, <1>4, WorkSettles

LEMMA FaultStepInv ==
  ASSUME IInv, fw_fault
  PROVE  IInv'
<1>1. /\ clip \in Clips /\ shown \in SUBSET AUs /\ fw \in Channel /\ FileInv(f) /\ IoInv
  BY IInvFacts
<1>2. f.faults < MaxFault /\ UNCHANGED <<io, clip, shown>>
  BY DEF fw_fault
<1>3. /\ WorkStep(f, Faulty(f))
      /\ io = "closed" => ~Faulty(f).admitted /\ ~Faulty(f).run /\ ~Faulty(f).txActive
  <2>1. WorkStep(f, Faulty(f)) /\ But(f, Faulty(f), {"faults"})
    BY <1>1, <1>2, FaultyKeeps
  <2>2. /\ Faulty(f).admitted = f.admitted /\ Faulty(f).run = f.run
        /\ Faulty(f).txActive = f.txActive
    BY <2>1 DEF But, Fields
  <2> QED
    BY <1>1, <2>1, <2>2 DEF IoInv
<1> DEFINE e == [kind |-> "eos"]
           y == Completed(e)
<1>4. \/ fw.held # <<>> /\ fw' = [fw EXCEPT !.held = Tail(fw.held)] /\ f' = Faulty(f)
      \/ Posted /\ f' = Faulty(y) /\ fw' = fw
      \/ fw' = [fw EXCEPT !.hung = TRUE] /\ f' = Faulty(f)
  BY DEF fw_fault
<1>5. CASE fw.held # <<>> /\ fw' = [fw EXCEPT !.held = Tail(fw.held)] /\ f' = Faulty(f)
  <2>1. fw.held \in Seq(AUs)
    BY <1>1, ChannelTypes
  <2>2. Tail(fw.held) \in Seq(AUs)
    BY <1>5, <2>1
  <2>3. fw' \in Channel
    BY <1>1, <1>5, <2>2, ChannelTypes
  <2> QED
    BY <1>1, <1>2, <1>3, <1>5, <2>3, WorkSettles
<1>6. CASE Posted /\ f' = Faulty(y) /\ fw' = fw
  <2>1. e \in Answers(AUs)
    BY DEF Answers
  <2> HIDE DEF e
  <2>2. /\ WorkStep(f, y) /\ y.faults = f.faults
        /\ io = "closed" => ~y.admitted /\ ~y.run /\ ~y.txActive
    BY <1>6, <2>1, CompletedKeeps
  <2> HIDE DEF y
  <2>3. WorkStep(y, f') /\ But(y, f', {"faults"})
    BY <1>2, <1>6, <2>2, FaultyKeeps DEF WorkStep
  <2>4. f'.admitted = y.admitted /\ f'.run = y.run /\ f'.txActive = y.txActive
    BY <2>3 DEF But, Fields
  <2>5. WorkStep(f, f')
    BY <2>2, <2>3, WorkTransitive
  <2> QED
    BY <1>1, <1>2, <1>6, <2>2, <2>4, <2>5, WorkSettles
<1>7. CASE fw' = [fw EXCEPT !.hung = TRUE] /\ f' = Faulty(f)
  <2>1. fw' \in Channel
    BY <1>1, <1>7, ChannelTypes
  <2> QED
    BY <1>1, <1>2, <1>3, <1>7, <2>1, WorkSettles
<1> QED
  BY <1>4, <1>5, <1>6, <1>7

-----------------------------------------------------------------------------
(* The ioctls.                                                             *)

LEMMA IdleSettles ==
  ASSUME IInv, FileInv(f'), io' = NONE, clip' = clip, shown' = shown, fw' \in Channel
  PROVE  IInv'
<1>1. NONE \notin Joins \cup {"closed"}
  BY NoneIsFresh
<1>2. IoInv'
  BY <1>1 DEF IoInv, Joins
<1> QED
  BY <1>2, Settle, IInvFacts

LEMMA AdmitKeeps ==
  ASSUME NEW x, FileInv(x), NEW b \in BOOLEAN, b => x.out
  PROVE  LET y == chd_admit(x, b)
         IN  WorkStep(x, y) /\ But(x, y, {"admitted", "txStopping"}) /\ (y.admitted => b)
<1> DEFINE y == chd_admit(x, b)
<1>1. x \in File /\ OffOK(x)
  BY DEF FileInv
<1>2. /\ y \in File /\ But(x, y, {"admitted", "txStopping"})
      /\ y.admitted = (b /\ ~x.closing)
  BY <1>1, AdmitEffect
<1> HIDE DEF y
<1>3. y.run = x.run /\ But(x, y, Flags \ {"epoch"})
  BY <1>2 DEF But, Fields, Flags
<1>4. x.run => x.out
  BY <1>1 DEF OffOK
<1>5. WorkStep(x, y)
  BY <1>2, <1>3, <1>4, FlagsWork
<1> QED
  BY <1>2, <1>5 DEF y

LEMMA ReturnDstKeeps ==
  ASSUME NEW x, FileInv(x)
  PROVE  WorkStep(x, chd_return_dst(x)) /\ But(x, chd_return_dst(x), {"held", "dst"})
<1> DEFINE y == chd_return_dst(x)
<1>1. /\ x \in File /\ CountOK(x) /\ LedgerOK(x) /\ InputOK(x) /\ OffOK(x)
      /\ PhaseOK(x) /\ MarkerOK(x)
  BY DEF FileInv
<1>2. /\ y \in File /\ But(x, y, {"held", "dst"})
      /\ Len(y.dst) = 0 /\ y.held = x.held + Len(x.dst)
  BY <1>1, ReturnDstEffect
<1> HIDE DEF y
<1>3. /\ y.left = x.left /\ y.src = x.src /\ y.drain = x.drain /\ y.txActive = x.txActive
      /\ y.session = x.session /\ y.out = x.out /\ y.epoch = x.epoch
      /\ y.seen = x.seen /\ y.tokens = x.tokens /\ y.txau = x.txau /\ y.tx = x.tx
      /\ y.admitted = x.admitted /\ y.run = x.run
  BY <1>2 DEF But, Fields
<1>4. /\ y.last = x.last /\ y.phase = x.phase /\ y.active = x.active
      /\ y.started = x.started /\ y.disc = x.disc
      /\ y.known = x.known /\ y.cap = x.cap /\ y.pending = x.pending
  BY <1>2 DEF But, Fields
<1>5. CountOK(y)
  <2>1. KeptCount(y) = KeptCount(x) /\ PostedCount(y) = PostedCount(x)
    BY <1>4 DEF KeptCount, PostedCount
  <2>2. /\ x.held \in Nat /\ Len(x.dst) \in Nat /\ NBufs \in Nat
        /\ PostedCount(x) \in {0, 1} /\ KeptCount(x) \in {0, 1}
    BY <1>1, CountTypes
  <2> QED
    BY <1>1, <1>2, <2>1, <2>2 DEF CountOK
<1>6. LedgerOK(y) /\ InputOK(y)
  BY <1>1, <1>3 DEF LedgerOK, InputOK
<1>7. OffOK(y) /\ PhaseOK(y) /\ MarkerOK(y)
  BY <1>1, <1>3, <1>4 DEF OffOK, PhaseOK, MarkerOK
<1>8. WorkStep(x, y)
  BY <1>2, <1>3, <1>4, <1>5, <1>6, <1>7 DEF WorkStep, FileInv
<1> QED
  BY <1>2, <1>8 DEF y

LEMMA QueuedInputEffect ==
  ASSUME NEW x \in File, NEW a \in AUs, clip \in Clips
  PROVE  LET y == [x EXCEPT !.src = Append(@, a), !.next = @ + 1]
         IN  /\ y \in File /\ But(x, y, {"src", "next"}) /\ y.src = Append(x.src, a)
<1> DEFINE s == Append(x.src, a)
           n == x.next + 1
           y == [x EXCEPT !.src = s, !.next = n]
<1>1. s \in Sources /\ n \in Nat
  BY FileTypes DEF Sources
<1>2. [x EXCEPT !.src = Append(@, a), !.next = @ + 1] = y
  OBVIOUS
<1> HIDE DEF s, n
<1>3. y \in File
  BY <1>1 DEF File
<1>4. But(x, y, {"src", "next"})
  BY DEF File, But, Fields
<1>5. y.src = s
  BY DEF File
<1> QED
  BY <1>2, <1>3, <1>4, <1>5 DEF s

LEMMA QbufOutputInv ==
  ASSUME IInv, chd_qbuf_output
  PROVE  IInv'
<1> DEFINE y == [f EXCEPT !.src = Append(@, f.next), !.next = @ + 1]
<1>1. /\ clip \in Clips /\ fw \in Channel /\ f \in File
      /\ CountOK(f) /\ LedgerOK(f) /\ InputOK(f) /\ OffOK(f) /\ PhaseOK(f)
      /\ MarkerOK(f)
  BY IInvFacts
<1>2. /\ f.next \in AUs /\ f' = chd_kick(y) /\ io' = NONE
      /\ clip' = clip /\ shown' = shown /\ fw' = fw
  BY DEF chd_qbuf_output, Idle, Quiet
<1>3. y \in File /\ But(f, y, {"src", "next"}) /\ y.src = Append(f.src, f.next)
  BY <1>1, <1>2, QueuedInputEffect
<1> HIDE DEF y
<1>4. /\ y.left = f.left /\ y.drain = f.drain /\ y.txActive = f.txActive
      /\ y.session = f.session /\ y.out = f.out /\ y.epoch = f.epoch
      /\ y.seen = f.seen /\ y.tokens = f.tokens /\ y.txau = f.txau /\ y.tx = f.tx
      /\ y.admitted = f.admitted /\ y.run = f.run
  BY <1>3 DEF But, Fields
<1>5. /\ y.held = f.held /\ y.dst = f.dst /\ y.last = f.last /\ y.phase = f.phase
      /\ y.active = f.active /\ y.started = f.started /\ y.disc = f.disc
      /\ y.known = f.known /\ y.cap = f.cap /\ y.pending = f.pending
  BY <1>3 DEF But, Fields
<1>6. CountOK(y)
  BY <1>1, <1>5 DEF CountOK, PostedCount, KeptCount
<1>7. InputOK(y)
  <2>1. f.src \in Seq(AUs) /\ f.left \in Nat
    BY <1>1, FileTypes DEF Sources
  <2>2. /\ Len(y.src) = Len(f.src) + 1 /\ Len(f.src) \in Nat /\ y.src # <<>>
        /\ f.src # <<>> => Head(y.src) = Head(f.src)
    BY <1>2, <1>3, <2>1
  <2> QED
    BY <1>1, <1>4, <2>1, <2>2 DEF InputOK
<1>8. LedgerOK(y) /\ OffOK(y)
  BY <1>1, <1>4, <1>5 DEF LedgerOK, OffOK
<1>9. PhaseOK(y) /\ MarkerOK(y)
  BY <1>1, <1>4, <1>5 DEF PhaseOK, MarkerOK
<1>10. FileInv(y)
  BY <1>3, <1>6, <1>7, <1>8, <1>9 DEF FileInv
<1>11. FileInv(f')
  BY <1>2, <1>10, KickKeeps DEF WorkStep
<1> QED
  BY <1>1, <1>2, <1>11, IdleSettles

LEMMA QueuedBufferEffect ==
  ASSUME NEW x \in File, x.held > 0
  PROVE  LET y == [x EXCEPT !.dst = Append(@, x.fmt), !.held = @ - 1]
         IN  /\ y \in File /\ But(x, y, {"dst", "held"})
             /\ y.held = x.held - 1 /\ Len(y.dst) = Len(x.dst) + 1
<1> DEFINE s == Append(x.dst, x.fmt)
           n == x.held - 1
           y == [x EXCEPT !.dst = s, !.held = n]
<1>1. s \in Buffers /\ Len(s) = Len(x.dst) + 1 /\ n \in Nat
  BY FileTypes DEF Buffers
<1>2. [x EXCEPT !.dst = Append(@, x.fmt), !.held = @ - 1] = y
  OBVIOUS
<1> HIDE DEF s, n
<1>3. y \in File
  BY <1>1 DEF File
<1>4. But(x, y, {"dst", "held"})
  BY DEF File, But, Fields
<1>5. y.dst = s /\ y.held = n
  BY DEF File
<1> QED
  BY <1>1, <1>2, <1>3, <1>4, <1>5 DEF n

\* Only the number of the client's buffers matters to the invariant.
LEMMA BuffersKeep ==
  ASSUME NEW x, FileInv(x), NEW y \in File, CountOK(y),
         But(x, y, Loose \cup {"dst", "held", "alloc"}),
         y.started = x.started, y.disc = x.disc
  PROVE  FileInv(y)
<1>1. /\ x \in File /\ CountOK(x) /\ LedgerOK(x) /\ InputOK(x) /\ OffOK(x)
      /\ PhaseOK(x) /\ MarkerOK(x)
  BY DEF FileInv
<1>2. /\ y.left = x.left /\ y.src = x.src /\ y.drain = x.drain /\ y.txActive = x.txActive
      /\ y.session = x.session /\ y.out = x.out /\ y.epoch = x.epoch
      /\ y.seen = x.seen /\ y.tokens = x.tokens /\ y.txau = x.txau /\ y.tx = x.tx
      /\ y.admitted = x.admitted /\ y.run = x.run
  BY DEF But, Fields, Loose
<1>3. /\ y.last = x.last /\ y.phase = x.phase /\ y.active = x.active
      /\ y.known = x.known /\ y.cap = x.cap /\ y.pending = x.pending
  BY DEF But, Fields, Loose
<1>4. LedgerOK(y) /\ InputOK(y)
  BY <1>1, <1>2 DEF LedgerOK, InputOK
<1>5. OffOK(y) /\ PhaseOK(y) /\ MarkerOK(y)
  BY <1>1, <1>2, <1>3 DEF OffOK, PhaseOK, MarkerOK
<1> QED
  BY <1>4, <1>5 DEF FileInv

LEMMA QbufCaptureInv ==
  ASSUME IInv, chd_qbuf_capture
  PROVE  IInv'
<1> DEFINE y == [f EXCEPT !.dst = Append(@, f.fmt), !.held = @ - 1]
<1>1. clip \in Clips /\ fw \in Channel /\ f \in File /\ FileInv(f) /\ CountOK(f)
  BY IInvFacts
<1>2. /\ f.held > 0 /\ f' = chd_kick(y) /\ io' = NONE
      /\ clip' = clip /\ shown' = shown /\ fw' = fw
  BY DEF chd_qbuf_capture, Idle, Quiet
<1>3. /\ y \in File /\ But(f, y, {"dst", "held"})
      /\ y.held = f.held - 1 /\ Len(y.dst) = Len(f.dst) + 1
  BY <1>1, <1>2, QueuedBufferEffect
<1> HIDE DEF y
<1>4. y.active = f.active /\ y.last = f.last /\ y.started = f.started /\ y.disc = f.disc
  BY <1>3 DEF But, Fields
<1>5. CountOK(y)
  <2>1. KeptCount(y) = KeptCount(f) /\ PostedCount(y) = PostedCount(f)
    BY <1>4 DEF KeptCount, PostedCount
  <2>2. /\ f.held \in Nat /\ Len(f.dst) \in Nat /\ NBufs \in Nat
        /\ PostedCount(f) \in {0, 1} /\ KeptCount(f) \in {0, 1}
    BY <1>1, CountTypes
  <2> QED
    BY <1>1, <1>3, <2>1, <2>2 DEF CountOK
<1>6. But(f, y, Loose \cup {"dst", "held", "alloc"})
  BY <1>3 DEF But
<1>7. FileInv(y)
  BY <1>1, <1>3, <1>4, <1>5, <1>6, BuffersKeep
<1>8. FileInv(f')
  BY <1>2, <1>7, KickKeeps DEF WorkStep
<1> QED
  BY <1>1, <1>2, <1>8, IdleSettles

LEMMA StreamEffect ==
  ASSUME NEW x \in File, NEW b \in BOOLEAN, NEW s \in BOOLEAN
  PROVE  LET y == [x EXCEPT !.out = TRUE, !.session = TRUE]
             z == [x EXCEPT !.cap = TRUE, !.pending = b, !.stale = s]
             c == [x EXCEPT !.cap = FALSE]
         IN  /\ y \in File /\ But(x, y, {"out", "session"}) /\ y.out = TRUE
             /\ y.session = TRUE
             /\ z \in File /\ But(x, z, {"cap", "pending", "stale"}) /\ z.cap = TRUE
             /\ z.pending = b /\ z.stale = s
             /\ c \in File /\ But(x, c, {"cap"}) /\ c.cap = FALSE
<1> DEFINE y == [x EXCEPT !.out = TRUE, !.session = TRUE]
           z == [x EXCEPT !.cap = TRUE, !.pending = b, !.stale = s]
           c == [x EXCEPT !.cap = FALSE]
<1>1. y \in File /\ y.out = TRUE /\ y.session = TRUE
  BY DEF File
<1>2. But(x, y, {"out", "session"})
  BY DEF File, But, Fields
<1>3. z \in File
  BY DEF File
<1>7. z.cap = TRUE /\ z.pending = b /\ z.stale = s
  BY DEF File
<1>4. But(x, z, {"cap", "pending", "stale"})
  BY DEF File, But, Fields
<1>5. c \in File /\ c.cap = FALSE
  BY DEF File
<1>6. But(x, c, {"cap"})
  BY DEF File, But, Fields
<1> QED
  BY <1>1, <1>2, <1>3, <1>4, <1>5, <1>6, <1>7

\* The CAPTURE queue is streamed on, or its boundary is answered.
LEMMA CaptureKeeps ==
  ASSUME NEW x, FileInv(x), NEW y \in File, But(x, y, {"cap", "pending", "stale"}),
         y.cap = TRUE, y.pending => x.pending
  PROVE  FileInv(y) /\ y.out = x.out
<1>1. /\ x \in File /\ CountOK(x) /\ LedgerOK(x) /\ InputOK(x) /\ OffOK(x)
      /\ PhaseOK(x) /\ MarkerOK(x)
  BY DEF FileInv
<1>2. /\ y.left = x.left /\ y.src = x.src /\ y.drain = x.drain /\ y.txActive = x.txActive
      /\ y.session = x.session /\ y.out = x.out /\ y.epoch = x.epoch
      /\ y.seen = x.seen /\ y.tokens = x.tokens /\ y.txau = x.txau /\ y.tx = x.tx
      /\ y.admitted = x.admitted /\ y.run = x.run
  BY DEF But, Fields
<1>3. /\ y.held = x.held /\ y.dst = x.dst /\ y.last = x.last /\ y.phase = x.phase
      /\ y.active = x.active /\ y.known = x.known /\ y.started = x.started
      /\ y.disc = x.disc
  BY DEF But, Fields
<1>4. CountOK(y)
  BY <1>1, <1>3 DEF CountOK, PostedCount, KeptCount
<1>5. LedgerOK(y) /\ InputOK(y)
  BY <1>1, <1>2 DEF LedgerOK, InputOK
<1>6. OffOK(y) /\ PhaseOK(y) /\ MarkerOK(y)
  BY <1>1, <1>2, <1>3 DEF OffOK, PhaseOK, MarkerOK
<1> QED
  BY <1>2, <1>4, <1>5, <1>6 DEF FileInv

LEMMA FlagValues ==
  ASSUME NEW x \in File
  PROVE  \E b \in BOOLEAN, s \in BOOLEAN :
            b = (x.pending /\ ~x.known) /\ s = (x.stale \/ Outdated(x))
<1>1. x.pending \in BOOLEAN /\ x.known \in BOOLEAN /\ x.stale \in BOOLEAN
  BY FileTypes
<1>2. (x.pending /\ ~x.known) \in BOOLEAN
  OBVIOUS
<1>3. (x.stale \/ Outdated(x)) \in BOOLEAN
  OBVIOUS
<1> QED
  BY <1>2, <1>3

LEMMA CaptureOnKeeps ==
  ASSUME NEW x, FileInv(x)
  PROVE  FileInv(CaptureOn(x))
<1>1. x \in File /\ x.pending \in BOOLEAN /\ x.known \in BOOLEAN /\ x.out \in BOOLEAN
  BY FileTypes DEF FileInv
<1>2. PICK b \in BOOLEAN, s \in BOOLEAN : /\ b = (x.pending /\ ~x.known)
                                          /\ s = (x.stale \/ Outdated(x))
  BY <1>1, FlagValues
<1> DEFINE y == [x EXCEPT !.cap = TRUE, !.pending = b, !.stale = s]
           z == chd_admit(y, x.out)
<1>3. CaptureOn(x) = chd_kick(z)
  BY <1>2 DEF CaptureOn
<1>4. y \in File /\ But(x, y, {"cap", "pending", "stale"}) /\ y.cap = TRUE
      /\ y.pending = b
  BY <1>1, StreamEffect
<1> HIDE DEF y
<1>5. FileInv(y) /\ y.out = x.out
  BY <1>2, <1>4, CaptureKeeps
<1>6. FileInv(z)
  BY <1>1, <1>5, AdmitKeeps DEF WorkStep
<1> HIDE DEF z
<1> QED
  BY <1>3, <1>6, KickKeeps DEF WorkStep

LEMMA StreamonOutputInv ==
  ASSUME IInv, chd_streamon_output
  PROVE  IInv'
<1> DEFINE y == [f EXCEPT !.out = TRUE, !.session = TRUE]
           z == chd_admit(y, TRUE)
<1>1. /\ clip \in Clips /\ fw \in Channel /\ f \in File
      /\ CountOK(f) /\ LedgerOK(f) /\ InputOK(f) /\ PhaseOK(f) /\ MarkerOK(f)
  BY IInvFacts
<1>2. /\ f' = chd_kick(z) /\ io' = NONE
      /\ clip' = clip /\ shown' = shown /\ fw' = fw
  BY DEF chd_streamon_output, Idle, Quiet
<1>3. /\ y \in File /\ But(f, y, {"out", "session"}) /\ y.out = TRUE /\ y.session = TRUE
  BY <1>1, StreamEffect
<1> HIDE DEF y
<1>4. /\ y.left = f.left /\ y.src = f.src /\ y.drain = f.drain /\ y.txActive = f.txActive
      /\ y.seen = f.seen /\ y.tokens = f.tokens /\ y.txau = f.txau /\ y.tx = f.tx
  BY <1>3 DEF But, Fields
<1>5. /\ y.held = f.held /\ y.dst = f.dst /\ y.last = f.last /\ y.phase = f.phase
      /\ y.active = f.active /\ y.known = f.known /\ y.cap = f.cap
      /\ y.pending = f.pending
  BY <1>3 DEF But, Fields
<1>6. CountOK(y)
  BY <1>1, <1>5 DEF CountOK, PostedCount, KeptCount
<1>7. LedgerOK(y) /\ InputOK(y)
  BY <1>1, <1>4 DEF LedgerOK, InputOK
<1>8. OffOK(y) /\ PhaseOK(y) /\ MarkerOK(y)
  BY <1>1, <1>3, <1>4, <1>5 DEF OffOK, PhaseOK, MarkerOK
<1>9. FileInv(y)
  BY <1>3, <1>6, <1>7, <1>8 DEF FileInv
<1>10. FileInv(z)
  BY <1>3, <1>9, AdmitKeeps DEF WorkStep
<1> HIDE DEF z
<1>11. FileInv(f')
  BY <1>2, <1>10, KickKeeps DEF WorkStep
<1> QED
  BY <1>1, <1>2, <1>11, IdleSettles

LEMMA JoinEffect ==
  ASSUME NEW x \in File
  PROVE  LET y == [x EXCEPT !.txStopping = TRUE, !.admitted = TRUE, !.run = TRUE]
             z == [x EXCEPT !.txStopping = TRUE]
             c == [x EXCEPT !.closing = TRUE, !.admitted = FALSE]
         IN  /\ y \in File /\ But(x, y, {"txStopping", "admitted", "run"})
             /\ z \in File /\ But(x, z, {"txStopping"})
             /\ c \in File /\ But(x, c, {"closing", "admitted"}) /\ c.admitted = FALSE
<1> DEFINE y == [x EXCEPT !.txStopping = TRUE, !.admitted = TRUE, !.run = TRUE]
           z == [x EXCEPT !.txStopping = TRUE]
           c == [x EXCEPT !.closing = TRUE, !.admitted = FALSE]
<1>1. y \in File
  BY DEF File
<1>2. But(x, y, {"txStopping", "admitted", "run"})
  BY DEF File, But, Fields
<1>3. z \in File
  BY DEF File
<1>4. But(x, z, {"txStopping"})
  BY DEF File, But, Fields
<1>5. c \in File /\ c.admitted = FALSE
  BY DEF File
<1>6. But(x, c, {"closing", "admitted"})
  BY DEF File, But, Fields
<1> QED
  BY <1>1, <1>2, <1>3, <1>4, <1>5, <1>6

LEMMA JoinBeginKeeps ==
  ASSUME NEW x, FileInv(x)
  PROVE  WorkStep(x, chd_join_begin(x)) /\ chd_join_begin(x).phase = x.phase
<1> DEFINE y == [x EXCEPT !.txStopping = TRUE, !.admitted = TRUE, !.run = TRUE]
           z == [x EXCEPT !.txStopping = TRUE]
<1>1. x \in File /\ OffOK(x)
  BY DEF FileInv
<1>2. /\ y \in File /\ But(x, y, {"txStopping", "admitted", "run"})
      /\ z \in File /\ But(x, z, {"txStopping"})
  BY <1>1, JoinEffect
<1>3. (x.out /\ chd_join_begin(x) = y) \/ chd_join_begin(x) = z
  BY DEF chd_join_begin
<1> HIDE DEF y, z
<1>4. /\ But(x, y, Flags \ {"epoch"}) /\ But(x, z, Flags \ {"epoch"})
      /\ z.admitted = x.admitted /\ z.run = x.run /\ y.phase = x.phase /\ z.phase = x.phase
  BY <1>2 DEF But, Fields, Flags
<1>5. x.admitted \/ x.run => x.out
  BY <1>1 DEF OffOK
<1>6. x.out => WorkStep(x, y)
  BY <1>2, <1>4, FlagsWork
<1>7. WorkStep(x, z)
  BY <1>2, <1>4, <1>5, FlagsWork
<1> QED
  BY <1>3, <1>4, <1>6, <1>7

\* An ioctl begins to wait for the workers.
LEMMA JoinSettles ==
  ASSUME IInv, NEW op \in Joins, NEW x, FileInv(x), Join(op, x),
         op \in {"off_output", "off_capture", "reqbufs"} => x.epoch < MaxEpoch,
         op \in {"resume_on", "resume_cmd"} => x.phase = "DRAINED",
         op = "off_output" => x.out
  PROVE  IInv'
<1>1. io' = op /\ f' = chd_join_begin(x) /\ clip' = clip /\ shown' = shown /\ fw' = fw
  BY DEF Join, Quiet
<1>2. FileInv(f') /\ f'.epoch = x.epoch /\ f'.phase = x.phase /\ f'.out = x.out
  BY <1>1, JoinBeginKeeps DEF WorkStep
<1>3. op # "closed"
  BY DEF Joins
<1>4. IoInv'
  BY <1>1, <1>2, <1>3 DEF IoInv
<1> QED
  BY <1>1, <1>2, <1>4, Settle, IInvFacts

LEMMA StreamonCaptureInv ==
  ASSUME IInv, chd_streamon_capture
  PROVE  IInv'
<1>1. clip \in Clips /\ fw \in Channel /\ FileInv(f)
  BY IInvFacts
<1>2. CASE f.phase = "DRAINED"
  <2>1. Join("resume_on", f)
    BY <1>2 DEF chd_streamon_capture
  <2>2. "resume_on" \in Joins /\ "resume_on" \notin {"off_output", "off_capture", "reqbufs"}
    BY DEF Joins
  <2> QED
    BY <1>1, <1>2, <2>1, <2>2, JoinSettles
<1>3. CASE f.phase # "DRAINED"
  <2>1. /\ f' = CaptureOn(f) /\ io' = NONE /\ clip' = clip /\ shown' = shown /\ fw' = fw
    BY <1>3 DEF chd_streamon_capture, Idle, Quiet
  <2>2. FileInv(f')
    BY <1>1, <2>1, CaptureOnKeeps
  <2> QED
    BY <1>1, <2>1, <2>2, IdleSettles
<1> QED
  BY <1>2, <1>3

\* Every buffer of a CAPTURE queue that stops goes back.
LEMMA CaptureOffKeeps ==
  ASSUME NEW x, FileInv(x), x.last = NONE
  PROVE  FileInv(CaptureOff(x))
<1> DEFINE c == [x EXCEPT !.cap = FALSE]
           a == chd_return_active(c)
           y == chd_return_dst(a)
<1>1. /\ x \in File /\ CountOK(x) /\ LedgerOK(x) /\ InputOK(x) /\ OffOK(x)
      /\ PhaseOK(x) /\ MarkerOK(x)
  BY DEF FileInv
<1>2. \/ CaptureOff(x) = y
      \/ y.out /\ CaptureOff(x) = chd_kick(chd_admit(y, TRUE))
  BY DEF CaptureOff, chd_stop_streaming
<1>3. c \in File /\ But(x, c, {"cap"}) /\ c.cap = FALSE
  BY <1>1, StreamEffect
<1> HIDE DEF c
<1>4. /\ a \in File /\ But(c, a, {"held", "active"}) /\ a.active = NONE
      /\ a.held = c.held + (IF c.active = NONE THEN 0 ELSE 1)
  BY <1>3, ReturnActiveEffect
<1> HIDE DEF a
<1>5. FileInv(a)
  <2>1. c.held = x.held /\ c.active = x.active
    BY <1>3 DEF But, Fields
  <2>2. But(x, a, {"cap", "held", "active"})
    BY <1>3, <1>4 DEF But
  <2>3. /\ a.left = x.left /\ a.src = x.src /\ a.drain = x.drain /\ a.txActive = x.txActive
        /\ a.session = x.session /\ a.out = x.out /\ a.epoch = x.epoch
        /\ a.seen = x.seen /\ a.tokens = x.tokens /\ a.txau = x.txau /\ a.tx = x.tx
        /\ a.admitted = x.admitted /\ a.run = x.run
    BY <2>2 DEF But, Fields
  <2>4. /\ a.dst = x.dst /\ a.last = x.last /\ a.phase = x.phase /\ a.known = x.known
        /\ a.started = x.started /\ a.disc = x.disc
    BY <2>2 DEF But, Fields
  <2>5. CountOK(a)
    <3>1. /\ a.held = x.held + PostedCount(x) /\ PostedCount(a) = 0
          /\ KeptCount(a) = KeptCount(x)
      BY <1>4, <2>1, <2>4 DEF PostedCount, KeptCount
    <3>2. /\ x.held \in Nat /\ Len(x.dst) \in Nat /\ NBufs \in Nat
          /\ PostedCount(x) \in {0, 1} /\ KeptCount(x) \in {0, 1}
      BY <1>1, CountTypes
    <3> QED
      BY <1>1, <2>4, <3>1, <3>2 DEF CountOK
  <2>6. LedgerOK(a) /\ InputOK(a)
    BY <1>1, <2>3 DEF LedgerOK, InputOK
  <2>7. OffOK(a) /\ PhaseOK(a)
    BY <1>1, <1>4, <2>3, <2>4 DEF OffOK, PhaseOK
  <2>8. MarkerOK(a)
    BY <1>4, <2>4 DEF MarkerOK
  <2> QED
    BY <1>4, <2>5, <2>6, <2>7, <2>8 DEF FileInv
<1>6. FileInv(y)
  BY <1>5, ReturnDstKeeps DEF WorkStep
<1> HIDE DEF y
<1>7. y.out => FileInv(chd_admit(y, TRUE))
  BY <1>6, AdmitKeeps DEF WorkStep
<1> QED
  BY <1>2, <1>6, <1>7, KickKeeps DEF WorkStep

LEMMA StreamoffInv ==
  ASSUME IInv, chd_streamoff_capture \/ chd_streamoff_output
  PROVE  IInv'
<1>1. clip \in Clips /\ fw \in Channel /\ FileInv(f) /\ MarkerOK(f) /\ OffOK(f)
  BY IInvFacts
<1>2. CASE chd_streamoff_output
  <2>1. f.epoch < MaxEpoch /\ f.out /\ Join("off_output", f)
    BY <1>2 DEF chd_streamoff_output
  <2>2. "off_output" \in Joins /\ "off_output" \notin {"resume_on", "resume_cmd"}
    BY DEF Joins
  <2> QED
    BY <1>1, <2>1, <2>2, JoinSettles
<1>3. CASE chd_streamoff_capture /\ ~f.pending
  <2>1. f.epoch < MaxEpoch /\ Join("off_capture", f)
    BY <1>3 DEF chd_streamoff_capture
  <2>2. "off_capture" \in Joins /\ "off_capture" \notin {"resume_on", "resume_cmd"}
    BY DEF Joins
  <2> QED
    BY <1>1, <2>1, <2>2, JoinSettles
<1>4. CASE chd_streamoff_capture /\ f.pending
  <2> DEFINE y == [f EXCEPT !.run = FALSE]
             z == chd_admit(y, FALSE)
  <2>1. /\ f' = CaptureOff(z) /\ io' = NONE /\ clip' = clip /\ shown' = shown /\ fw' = fw
    BY <1>4 DEF chd_streamoff_capture, Idle, Quiet
  <2>2. WorkStep(f, y)
    BY <1>1, RunFlagKeeps
  <2>3. y.last = f.last
    <3>1. f \in File
      BY <1>1 DEF FileInv
    <3>2. But(f, y, {"run"})
      BY <3>1, SetRunEffect
    <3> HIDE DEF y
    <3> QED
      BY <3>2 DEF But, Fields
  <2> HIDE DEF y
  <2>4. WorkStep(y, z) /\ But(y, z, {"admitted", "txStopping"})
    BY <2>2, AdmitKeeps DEF WorkStep
  <2> HIDE DEF z
  <2>5. z.last = NONE
    <3>1. z.last = y.last
      BY <2>4 DEF But, Fields
    <3>2. f.last = NONE
      BY <1>1, <1>4 DEF MarkerOK
    <3> QED
      BY <2>3, <3>1, <3>2
  <2>6. FileInv(f')
    BY <2>1, <2>4, <2>5, CaptureOffKeeps DEF WorkStep
  <2> QED
    BY <1>1, <2>1, <2>6, IdleSettles
<1> QED
  BY <1>2, <1>3, <1>4

LEMMA StopEffect ==
  ASSUME NEW x \in File, NEW n \in Nat
  PROVE  LET y == [x EXCEPT !.drain = TRUE, !.left = n]
         IN  y \in File /\ But(x, y, {"drain", "left"}) /\ y.drain = TRUE /\ y.left = n
<1> DEFINE y == [x EXCEPT !.drain = TRUE, !.left = n]
<1>1. y \in File /\ y.drain = TRUE /\ y.left = n
  BY DEF File
<1>2. But(x, y, {"drain", "left"})
  BY DEF File, But, Fields
<1> QED
  BY <1>1, <1>2

LEMMA StopInv ==
  ASSUME IInv, chd_decoder_cmd_stop
  PROVE  IInv'
<1> DEFINE n == Len(f.src)
           y == [f EXCEPT !.drain = TRUE, !.left = n]
           x == IF f.phase = "DRAINED" THEN f ELSE y
<1>1. /\ clip \in Clips /\ fw \in Channel /\ f \in File /\ FileInv(f)
      /\ CountOK(f) /\ LedgerOK(f) /\ InputOK(f) /\ OffOK(f) /\ PhaseOK(f) /\ MarkerOK(f)
  BY IInvFacts
<1>2. /\ f.out /\ f' = chd_kick(x) /\ io' = NONE
      /\ clip' = clip /\ shown' = shown /\ fw' = fw
  BY DEF chd_decoder_cmd_stop, Idle, Quiet
<1>3. n \in Nat /\ (f.src # <<>> => n > 0)
  BY <1>1, FileTypes DEF Sources
<1>4. y \in File /\ But(f, y, {"drain", "left"}) /\ y.drain = TRUE /\ y.left = n
  BY <1>1, <1>3, StopEffect
<1> HIDE DEF y
<1>5. FileInv(y)
  <2>1. /\ y.src = f.src /\ y.txActive = f.txActive /\ y.session = f.session
        /\ y.out = f.out /\ y.seen = f.seen /\ y.tokens = f.tokens /\ y.txau = f.txau
        /\ y.tx = f.tx
    BY <1>4 DEF But, Fields
  <2>2. /\ y.held = f.held /\ y.dst = f.dst /\ y.last = f.last /\ y.phase = f.phase
        /\ y.active = f.active /\ y.known = f.known /\ y.cap = f.cap
        /\ y.pending = f.pending
    BY <1>4 DEF But, Fields
  <2>3. CountOK(y)
    BY <1>1, <2>2 DEF CountOK, PostedCount, KeptCount
  <2>4. InputOK(y)
    BY <1>1, <1>3, <1>4, <2>1 DEF InputOK
  <2>5. LedgerOK(y) /\ OffOK(y)
    BY <1>1, <1>2, <2>1 DEF LedgerOK, OffOK
  <2>6. PhaseOK(y) /\ MarkerOK(y)
    BY <1>1, <2>1, <2>2 DEF PhaseOK, MarkerOK
  <2> QED
    BY <1>4, <2>3, <2>4, <2>5, <2>6 DEF FileInv
<1>6. FileInv(x)
  BY <1>1, <1>5
<1> HIDE DEF x
<1>7. FileInv(f')
  BY <1>2, <1>6, KickKeeps DEF WorkStep
<1> QED
  BY <1>1, <1>2, <1>7, IdleSettles

LEMMA ReuseEffect ==
  ASSUME NEW x \in File
  PROVE  LET y == chd_reuse_capture(x)
         IN  /\ y \in File /\ But(x, y, {"pending", "dst"}) /\ y.pending = FALSE
             /\ Len(y.dst) = Len(x.dst)
<1> DEFINE d == [i \in DOMAIN x.dst |-> x.fmt]
           y == [x EXCEPT !.pending = FALSE, !.dst = d]
<1>1. x.dst \in Seq(Nat) /\ x.fmt \in Nat
  BY FileTypes DEF Buffers
<1>2. d \in Seq(Nat) /\ Len(d) = Len(x.dst)
  BY <1>1
<1>3. d \in Buffers
  BY <1>2 DEF Buffers
<1>4. chd_reuse_capture(x) = y
  BY DEF chd_reuse_capture
<1> HIDE DEF d
<1>5. y \in File
  BY <1>3 DEF File
<1>6. But(x, y, {"pending", "dst"})
  BY DEF File, But, Fields
<1>7. y.pending = FALSE /\ y.dst = d
  BY DEF File
<1> QED
  BY <1>2, <1>4, <1>5, <1>6, <1>7

LEMMA StartCmdInv ==
  ASSUME IInv, chd_decoder_cmd_start
  PROVE  IInv'
<1> DEFINE y == chd_reuse_capture(f)
<1>1. /\ clip \in Clips /\ fw \in Channel /\ f \in File /\ FileInv(f)
      /\ CountOK(f) /\ LedgerOK(f) /\ InputOK(f) /\ OffOK(f) /\ PhaseOK(f) /\ MarkerOK(f)
  BY IInvFacts
<1>2. \/ /\ f' = chd_kick(y) /\ io' = NONE
         /\ clip' = clip /\ shown' = shown /\ fw' = fw
      \/ f.phase = "DRAINED" /\ Join("resume_cmd", f)
  BY DEF chd_decoder_cmd_start, Idle, Quiet
<1>3. CASE f.phase = "DRAINED" /\ Join("resume_cmd", f)
  <2>1. "resume_cmd" \in Joins /\ "resume_cmd" \notin {"off_output", "off_capture", "reqbufs"}
    BY DEF Joins
  <2> QED
    BY <1>1, <1>3, <2>1, JoinSettles
<1>4. CASE /\ f' = chd_kick(y) /\ io' = NONE
           /\ clip' = clip /\ shown' = shown /\ fw' = fw
  <2>1. /\ y \in File /\ But(f, y, {"pending", "dst"}) /\ y.pending = FALSE
        /\ Len(y.dst) = Len(f.dst)
    BY <1>1, ReuseEffect
  <2> HIDE DEF y
  <2>2. /\ y.left = f.left /\ y.src = f.src /\ y.drain = f.drain /\ y.txActive = f.txActive
        /\ y.session = f.session /\ y.out = f.out /\ y.admitted = f.admitted
        /\ y.run = f.run /\ y.seen = f.seen /\ y.tokens = f.tokens /\ y.txau = f.txau
        /\ y.tx = f.tx
    BY <2>1 DEF But, Fields
  <2>3. /\ y.held = f.held /\ y.last = f.last /\ y.phase = f.phase
        /\ y.active = f.active /\ y.known = f.known /\ y.cap = f.cap
        /\ y.started = f.started /\ y.disc = f.disc
    BY <2>1 DEF But, Fields
  <2>4. CountOK(y)
    BY <1>1, <2>1, <2>3 DEF CountOK, PostedCount, KeptCount
  <2>5. LedgerOK(y) /\ InputOK(y)
    BY <1>1, <2>2 DEF LedgerOK, InputOK
  <2>6. OffOK(y) /\ PhaseOK(y) /\ MarkerOK(y)
    BY <1>1, <2>1, <2>2, <2>3 DEF OffOK, PhaseOK, MarkerOK
  <2>7. FileInv(y)
    BY <2>1, <2>4, <2>5, <2>6 DEF FileInv
  <2>8. FileInv(f')
    BY <1>4, <2>7, KickKeeps DEF WorkStep
  <2> QED
    BY <1>1, <1>4, <2>8, IdleSettles
<1> QED
  BY <1>2, <1>3, <1>4

LEMMA AllocEffect ==
  ASSUME NEW x \in File, NEW n \in Nat
  PROVE  LET y == [x EXCEPT !.alloc = n] IN y \in File /\ But(x, y, {"alloc"})
<1> DEFINE y == [x EXCEPT !.alloc = n]
<1>1. y \in File
  BY DEF File
<1>2. But(x, y, {"alloc"})
  BY DEF File, But, Fields
<1> QED
  BY <1>1, <1>2

LEMMA ReallocateKeeps ==
  ASSUME NEW x, FileInv(x)
  PROVE  FileInv(Reallocate(x))
<1> DEFINE y == chd_return_dst(x)
           z == [y EXCEPT !.alloc = x.fmt]
<1>1. Reallocate(x) = z
  BY DEF Reallocate
<1>2. FileInv(y)
  BY ReturnDstKeeps DEF WorkStep
<1> HIDE DEF y
<1>3. y \in File /\ x.fmt \in Nat /\ OffOK(y)
  BY <1>2, FileTypes DEF FileInv
<1>4. z \in File /\ But(y, z, {"alloc"})
  BY <1>3, AllocEffect
<1> HIDE DEF z
<1>5. But(y, z, Flags) /\ z.admitted = y.admitted /\ z.run = y.run
  BY <1>4 DEF But, Fields, Flags
<1>6. y.admitted \/ y.run => y.out
  BY <1>3 DEF OffOK
<1>7. FileInv(z)
  BY <1>2, <1>4, <1>5, <1>6, FlagsKeep
<1> QED
  BY <1>1, <1>7

LEMMA ReqbufsInv ==
  ASSUME IInv, chd_reqbufs
  PROVE  IInv'
<1>1. clip \in Clips /\ fw \in Channel /\ FileInv(f)
  BY IInvFacts
<1>2. \/ f.epoch < MaxEpoch /\ Join("reqbufs", f)
      \/ f' = Reallocate(f) /\ io' = NONE /\ clip' = clip /\ shown' = shown /\ fw' = fw
  BY DEF chd_reqbufs, Idle, Quiet
<1>3. CASE f.epoch < MaxEpoch /\ Join("reqbufs", f)
  <2>1. "reqbufs" \in Joins /\ "reqbufs" \notin {"resume_on", "resume_cmd"}
    BY DEF Joins
  <2> QED
    BY <1>1, <1>3, <2>1, JoinSettles
<1>4. CASE f' = Reallocate(f) /\ io' = NONE /\ clip' = clip /\ shown' = shown /\ fw' = fw
  <2>1. FileInv(f')
    BY <1>1, <1>4, ReallocateKeeps
  <2> QED
    BY <1>1, <1>4, <2>1, IdleSettles
<1> QED
  BY <1>2, <1>3, <1>4

LEMMA ReleaseInv ==
  ASSUME IInv, chd_release
  PROVE  IInv'
<1> DEFINE y == [f EXCEPT !.closing = TRUE, !.admitted = FALSE]
<1>1. f \in File /\ FileInv(f) /\ OffOK(f)
  BY IInvFacts
<1>2. Join("release", y)
  BY DEF chd_release
<1>3. y \in File /\ But(f, y, {"closing", "admitted"}) /\ y.admitted = FALSE
  BY <1>1, JoinEffect
<1> HIDE DEF y
<1>4. But(f, y, Flags) /\ y.run = f.run
  BY <1>3 DEF But, Fields, Flags
<1>5. f.run => f.out
  BY <1>1 DEF OffOK
<1>6. FileInv(y)
  BY <1>1, <1>3, <1>4, <1>5, FlagsKeep
<1>7. /\ "release" \in Joins
      /\ "release" \notin {"off_output", "off_capture", "reqbufs", "resume_on", "resume_cmd"}
  BY DEF Joins
<1> QED
  BY <1>2, <1>6, <1>7, JoinSettles

\* Both workers are joined: nothing runs and nothing is in flight.
LEMMA JoinEndKeeps ==
  ASSUME NEW x, FileInv(x)
  PROVE  LET y == chd_join_end(x)
         IN  /\ WorkStep(x, y)
             /\ But(x, y, {"run", "tx", "txau", "txActive", "admitted", "txStopping"})
             /\ ~y.run /\ ~y.txActive /\ ~y.admitted
<1> DEFINE w == [x EXCEPT !.run = FALSE]
           z == [w EXCEPT !.tx = "idle", !.txau = EOS, !.txActive = FALSE]
           y == chd_admit(z, FALSE)
<1>1. x \in File
  BY DEF FileInv
<1>2. chd_join_end(x) = y
  <2>1. [x EXCEPT !.run = FALSE, !.tx = "idle", !.txau = EOS, !.txActive = FALSE] = z
    OBVIOUS
  <2> QED
    BY <2>1 DEF chd_join_end
<1>3. WorkStep(x, w) /\ w \in File /\ But(x, w, {"run"}) /\ w.run = FALSE
  BY <1>1, RunFlagKeeps, SetRunEffect
<1> HIDE DEF w
<1>4. /\ WorkStep(w, z) /\ z \in File /\ But(w, z, {"tx", "txau", "txActive"})
      /\ z.txActive = FALSE
  <2>1. FreeInv(w)
    BY <1>3, WorkIsFree DEF FreeStep
  <2> QED
    BY <1>3, <2>1, DoneKeeps, InactiveEffect
<1> HIDE DEF z
<1>5. FileInv(z)
  BY <1>4 DEF WorkStep
<1>6. /\ WorkStep(z, y) /\ But(z, y, {"admitted", "txStopping"}) /\ ~y.admitted
  BY <1>5, AdmitKeeps
<1> HIDE DEF y
<1>7. y.run = z.run /\ z.run = w.run /\ y.txActive = z.txActive
  BY <1>4, <1>6 DEF But, Fields
<1>8. But(x, y, {"run", "tx", "txau", "txActive", "admitted", "txStopping"})
  BY <1>3, <1>4, <1>6 DEF But
<1>9. WorkStep(x, y)
  BY <1>3, <1>4, <1>6, WorkTransitive
<1> QED
  BY <1>2, <1>3, <1>4, <1>6, <1>7, <1>8, <1>9

LEMMA DecoderResetEffect ==
  ASSUME NEW x \in File, x.epoch < MaxEpoch
  PROVE  LET y == crystalhd_v4l2_decoder_reset(x)
         IN  /\ y \in File /\ But(x, y, {"tokens", "epoch", "phase"})
             /\ y.tokens = {} /\ y.phase = "OFF"
<1> DEFINE n == x.epoch + 1
           t == {}
           y == [x EXCEPT !.tokens = t, !.epoch = n, !.phase = "OFF"]
<1>1. n \in Epochs
  <2>1. x.epoch \in Epochs /\ MaxEpoch \in Nat
    BY FileTypes, NodeAssumption
  <2> QED
    BY <2>1 DEF Epochs
<1>2. t \in Ledgers /\ "OFF" \in Phases
  BY DEF Ledgers, Phases
<1>3. crystalhd_v4l2_decoder_reset(x) = y
  BY DEF crystalhd_v4l2_decoder_reset
<1> HIDE DEF n, t
<1>4. y \in File
  BY <1>1, <1>2 DEF File
<1>5. But(x, y, {"tokens", "epoch", "phase"})
  BY DEF File, But, Fields
<1>6. y.tokens = t /\ y.phase = "OFF"
  BY DEF File
<1> QED
  BY <1>3, <1>4, <1>5, <1>6 DEF t

LEMMA ReturnLastEffect ==
  ASSUME NEW x \in File
  PROVE  LET y == ReturnLast(x)
         IN  /\ y \in File /\ But(x, y, {"held", "last"}) /\ y.last = NONE
             /\ y.held = x.held + KeptCount(x)
<1> DEFINE z == [x EXCEPT !.last = NONE]
<1>1. z \in File /\ z.last = NONE
  BY NoneTypes DEF File
<1>2. But(x, z, {"last"})
  BY DEF File, But, Fields
<1>3. ReturnLast(x) = IF x.last = NONE THEN x ELSE BufDone(z)
  BY DEF ReturnLast
<1> HIDE DEF z
<1>4. CASE x.last = NONE
  <2>1. x.held \in Nat
    BY FileTypes
  <2> QED
    BY <1>3, <1>4, <2>1 DEF But, KeptCount
<1>5. CASE x.last # NONE
  <2> DEFINE y == BufDone(z)
  <2>1. y \in File /\ But(z, y, {"held"}) /\ y.held = z.held + 1
    BY <1>1, BufDoneEffect
  <2> HIDE DEF y
  <2>2. z.held = x.held /\ y.last = z.last
    BY <1>2, <2>1 DEF But, Fields
  <2>3. But(x, y, {"held", "last"})
    BY <1>2, <2>1 DEF But
  <2> QED
    BY <1>1, <1>3, <1>5, <2>1, <2>2, <2>3 DEF y, KeptCount
<1> QED
  BY <1>4, <1>5

Cleared ==
    {"staged", "disc", "started", "drain", "eosDone", "left", "seen", "empty", "known",
     "pending", "session", "crossed"}
ClearInput(x) == [x EXCEPT !.drain = FALSE, !.eosDone = FALSE, !.left = 0]
ClearCapture(x) == [x EXCEPT !.staged = NONE, !.disc = NONE, !.started = FALSE]
ClearFormat(x) == [x EXCEPT !.empty = FALSE, !.known = FALSE, !.pending = FALSE]
ClearSession(x, s, c) == [x EXCEPT !.seen = FALSE, !.session = s, !.crossed = c]

LEMMA ClearInputEffect ==
  ASSUME NEW x \in File
  PROVE  LET y == ClearInput(x)
         IN  /\ y \in File /\ But(x, y, {"drain", "eosDone", "left"})
             /\ y.drain = FALSE /\ y.left = 0
<1> DEFINE y == [x EXCEPT !.drain = FALSE, !.eosDone = FALSE, !.left = 0]
<1>1. y \in File
  BY DEF File
<1>2. But(x, y, {"drain", "eosDone", "left"})
  BY DEF File, But, Fields
<1>3. y.drain = FALSE /\ y.left = 0
  BY DEF File
<1> QED
  BY <1>1, <1>2, <1>3 DEF ClearInput

LEMMA ClearCaptureEffect ==
  ASSUME NEW x \in File
  PROVE  LET y == ClearCapture(x)
         IN  /\ y \in File /\ But(x, y, {"staged", "disc", "started"})
             /\ y.disc = NONE /\ y.started = FALSE
<1> DEFINE y == [x EXCEPT !.staged = NONE, !.disc = NONE, !.started = FALSE]
<1>1. NONE \in Discoveries /\ NONE \in StagedPictures
  BY NoneTypes
<1>2. y \in File
  BY <1>1 DEF File
<1>3. But(x, y, {"staged", "disc", "started"})
  BY DEF File, But, Fields
<1>4. y.disc = NONE /\ y.started = FALSE
  BY DEF File
<1> QED
  BY <1>2, <1>3, <1>4 DEF ClearCapture

LEMMA ClearFormatEffect ==
  ASSUME NEW x \in File
  PROVE  LET y == ClearFormat(x)
         IN  y \in File /\ But(x, y, {"empty", "known", "pending"})
<1> DEFINE y == [x EXCEPT !.empty = FALSE, !.known = FALSE, !.pending = FALSE]
<1>1. y \in File
  BY DEF File
<1>2. But(x, y, {"empty", "known", "pending"})
  BY DEF File, But, Fields
<1> QED
  BY <1>1, <1>2 DEF ClearFormat

LEMMA ClearSessionEffect ==
  ASSUME NEW x \in File, NEW s \in BOOLEAN, NEW c \in BOOLEAN
  PROVE  LET y == ClearSession(x, s, c)
         IN  /\ y \in File /\ But(x, y, {"seen", "session", "crossed"})
             /\ y.seen = FALSE /\ y.session = s
<1> DEFINE y == [x EXCEPT !.seen = FALSE, !.session = s, !.crossed = c]
<1>1. y \in File
  BY DEF File
<1>2. But(x, y, {"seen", "session", "crossed"})
  BY DEF File, But, Fields
<1>3. y.seen = FALSE /\ y.session = s
  BY DEF File
<1> QED
  BY <1>1, <1>2, <1>3 DEF ClearSession

LEMMA ClearEffect ==
  ASSUME NEW x \in File, NEW s \in BOOLEAN, NEW c \in BOOLEAN
  PROVE  LET y == ClearSession(ClearFormat(ClearInput(ClearCapture(x))), s, c)
         IN  /\ y \in File /\ But(x, y, Cleared)
             /\ y.disc = NONE /\ y.started = FALSE /\ y.drain = FALSE /\ y.left = 0
             /\ y.seen = FALSE /\ y.session = s
<1> DEFINE p == ClearCapture(x)
           q == ClearInput(p)
           r == ClearFormat(q)
           y == ClearSession(r, s, c)
<1>1. /\ p \in File /\ But(x, p, {"staged", "disc", "started"})
      /\ p.disc = NONE /\ p.started = FALSE
  BY ClearCaptureEffect
<1> HIDE DEF p
<1>2. /\ q \in File /\ But(p, q, {"drain", "eosDone", "left"})
      /\ q.drain = FALSE /\ q.left = 0
  BY <1>1, ClearInputEffect
<1> HIDE DEF q
<1>3. r \in File /\ But(q, r, {"empty", "known", "pending"})
  BY <1>2, ClearFormatEffect
<1> HIDE DEF r
<1>4. /\ y \in File /\ But(r, y, {"seen", "session", "crossed"})
      /\ y.seen = FALSE /\ y.session = s
  BY <1>3, ClearSessionEffect
<1> HIDE DEF y
<1>5. But(x, y, Cleared)
  BY <1>1, <1>2, <1>3, <1>4 DEF But, Cleared
<1>6. /\ y.disc = r.disc /\ r.disc = q.disc /\ q.disc = p.disc
      /\ y.started = r.started /\ r.started = q.started /\ q.started = p.started
  BY <1>2, <1>3, <1>4 DEF But, Fields
<1>7. y.drain = r.drain /\ r.drain = q.drain /\ y.left = r.left /\ r.left = q.left
  BY <1>3, <1>4 DEF But, Fields
<1>8. /\ y \in File /\ But(x, y, Cleared)
      /\ y.disc = NONE /\ y.started = FALSE /\ y.drain = FALSE /\ y.left = 0
      /\ y.seen = FALSE /\ y.session = s
  BY <1>1, <1>2, <1>4, <1>5, <1>6, <1>7
<1> QED
  BY <1>8 DEF y, r, q, p

\* Everything the channel held is given back or forgotten.
LEMMA ResetEffect ==
  ASSUME NEW x \in File, x.epoch < MaxEpoch, NEW release \in BOOLEAN
  PROVE  LET y == chd_reset_channel(x, release)
         IN  /\ y \in File
             /\ But(x, y, Cleared \cup {"tokens", "epoch", "phase", "held", "last", "active"})
             /\ y.held = x.held + KeptCount(x) + PostedCount(x)
             /\ y.active = NONE /\ y.last = NONE /\ y.phase = "OFF"
             /\ y.tokens \subseteq x.tokens
             /\ y.disc = NONE /\ y.started = FALSE /\ y.drain = FALSE /\ y.left = 0
             /\ y.seen = FALSE /\ y.session = (x.session /\ ~release)
<1>0. x.session \in BOOLEAN /\ x.crossed \in BOOLEAN /\ x.pending \in BOOLEAN
  BY FileTypes
<1> DEFINE r == crystalhd_v4l2_decoder_reset(x)
           w == IF release \/ x.phase # "OFF" THEN r ELSE x
           l == ReturnLast(w)
           a == chd_return_active(l)
<1>1. /\ w \in File /\ But(x, w, {"tokens", "epoch", "phase"}) /\ w.phase = "OFF"
      /\ w.tokens \subseteq x.tokens
  <2>1. /\ r \in File /\ But(x, r, {"tokens", "epoch", "phase"})
        /\ r.tokens = {} /\ r.phase = "OFF"
    BY DecoderResetEffect
  <2> HIDE DEF r
  <2>2. CASE release \/ x.phase # "OFF"
    BY <2>1, <2>2
  <2>3. CASE ~(release \/ x.phase # "OFF")
    BY <2>3 DEF But
  <2> QED
    BY <2>2, <2>3
<1> HIDE DEF w
<1>2. /\ l \in File /\ But(w, l, {"held", "last"}) /\ l.last = NONE
      /\ l.held = w.held + KeptCount(w)
  BY <1>1, ReturnLastEffect
<1> HIDE DEF l
<1>3. /\ a \in File /\ But(l, a, {"held", "active"}) /\ a.active = NONE
      /\ a.held = l.held + PostedCount(l)
  BY <1>2, ReturnActiveEffect DEF PostedCount
<1> HIDE DEF a
<1>4. PICK s \in BOOLEAN : s = (x.session /\ ~release)
  BY <1>0
<1>5. PICK c \in BOOLEAN : c = (x.crossed \/ Outdated(x))
  <2>1. (x.crossed \/ Outdated(x)) \in BOOLEAN
    OBVIOUS
  <2> QED
    BY <2>1
<1>6. a.session = x.session /\ a.crossed = x.crossed
  BY <1>1, <1>2, <1>3 DEF But, Fields
<1> DEFINE y == ClearSession(ClearFormat(ClearInput(ClearCapture(a))), s, c)
<1>7. chd_reset_channel(x, release) = y
  <2>1. y = [a EXCEPT
                !.staged = NONE, !.disc = NONE, !.started = FALSE, !.drain = FALSE,
                !.eosDone = FALSE, !.left = 0, !.seen = FALSE, !.empty = FALSE,
                !.known = FALSE, !.pending = FALSE, !.session = s, !.crossed = c]
    BY DEF ClearSession, ClearFormat, ClearInput, ClearCapture
  <2> QED
    BY <1>4, <1>5, <1>6, <2>1 DEF chd_reset_channel, a, l, w
<1>8. /\ y \in File /\ But(a, y, Cleared)
      /\ y.disc = NONE /\ y.started = FALSE /\ y.drain = FALSE /\ y.left = 0
      /\ y.seen = FALSE /\ y.session = s
  BY <1>3, ClearEffect
<1> HIDE DEF y
<1>9. But(x, y, Cleared \cup {"tokens", "epoch", "phase", "held", "last", "active"})
  BY <1>1, <1>2, <1>3, <1>8 DEF But
<1>10. y.held = a.held /\ y.last = a.last /\ y.active = a.active /\ y.phase = a.phase
       /\ y.tokens = a.tokens
  BY <1>8 DEF But, Fields, Cleared
<1>11. a.last = l.last /\ a.phase = l.phase /\ l.phase = w.phase /\ a.tokens = l.tokens
       /\ l.tokens = w.tokens
  BY <1>2, <1>3 DEF But, Fields
<1>12. w.held = x.held /\ w.last = x.last /\ w.active = x.active /\ l.active = w.active
  BY <1>1, <1>2 DEF But, Fields
<1>13. y.held = x.held + KeptCount(x) + PostedCount(x)
  BY <1>2, <1>3, <1>10, <1>12 DEF KeptCount, PostedCount
<1> QED
  BY <1>1, <1>2, <1>3, <1>4, <1>7, <1>8, <1>9, <1>10, <1>11, <1>13

\* The buffers of a reset channel are with the client, its ledger only shrinks.
LEMMA ResetCounts ==
  ASSUME clip \in Clips, NEW x, FileInv(x), x.epoch < MaxEpoch, ~x.txActive,
         NEW release \in BOOLEAN
  PROVE  LET y == chd_reset_channel(x, release)
         IN  /\ CountOK(y) /\ LedgerOK(y) /\ y.tx = "idle" /\ y.txau = EOS /\ ~y.txActive
             /\ y.out = x.out /\ y.src = x.src /\ y.cap = x.cap
             /\ y.admitted = x.admitted /\ y.run = x.run
<1> DEFINE y == chd_reset_channel(x, release)
<1>1. x \in File /\ CountOK(x) /\ LedgerOK(x) /\ InputOK(x)
  BY DEF FileInv
<1>2. /\ But(x, y, Cleared \cup {"tokens", "epoch", "phase", "held", "last", "active"})
      /\ y.held = x.held + KeptCount(x) + PostedCount(x)
      /\ y.active = NONE /\ y.last = NONE /\ y.tokens \subseteq x.tokens
  BY <1>1, ResetEffect
<1> HIDE DEF y
<1>3. /\ y.txActive = x.txActive /\ y.tx = x.tx /\ y.txau = x.txau /\ y.dst = x.dst
      /\ y.out = x.out /\ y.src = x.src /\ y.cap = x.cap /\ y.admitted = x.admitted
      /\ y.run = x.run
  BY <1>2 DEF But, Fields, Cleared
<1>4. CountOK(y)
  <2>1. PostedCount(y) = 0 /\ KeptCount(y) = 0
    BY <1>2 DEF PostedCount, KeptCount
  <2>2. /\ x.held \in Nat /\ Len(x.dst) \in Nat /\ NBufs \in Nat
        /\ PostedCount(x) \in {0, 1} /\ KeptCount(x) \in {0, 1}
    BY <1>1, CountTypes
  <2> QED
    BY <1>1, <1>2, <1>3, <2>1, <2>2 DEF CountOK
<1>5. LedgerOK(y)
  <2>1. x.tokens \in SUBSET AUs /\ IsFiniteSet(AUs) /\ clip.ledger \in Nat
    BY <1>1, FileTypes, ClipTypes DEF Ledgers
  <2>2. IsFiniteSet(x.tokens)
    BY <2>1, FS_Subset
  <2>3. /\ IsFiniteSet(y.tokens) /\ Cardinality(y.tokens) <= Cardinality(x.tokens)
    BY <1>2, <2>2, FS_Subset
  <2>4. Cardinality(y.tokens) \in Nat /\ Cardinality(x.tokens) \in Nat
    BY <2>2, <2>3, FS_CardinalityType
  <2> QED
    BY <1>1, <2>1, <2>3, <2>4 DEF LedgerOK
<1>6. y.tx = "idle" /\ y.txau = EOS /\ ~y.txActive
  BY <1>1, <1>3 DEF InputOK
<1> QED
  BY <1>3, <1>4, <1>5, <1>6 DEF y

\* The channel is reset; the session lives on.
LEMMA ResetKeeps ==
  ASSUME clip \in Clips, NEW x, FileInv(x), x.epoch < MaxEpoch, ~x.txActive
  PROVE  LET y == chd_reset_channel(x, FALSE) IN FileInv(y) /\ y.last = NONE
<1> DEFINE y == chd_reset_channel(x, FALSE)
<1>1. /\ x \in File /\ InputOK(x) /\ OffOK(x)
      /\ x.session \in BOOLEAN /\ x.src \in Seq(AUs)
  BY FileTypes DEF FileInv, Sources
<1>2. /\ CountOK(y) /\ LedgerOK(y) /\ y.tx = "idle" /\ y.txau = EOS /\ ~y.txActive
      /\ y.out = x.out /\ y.src = x.src /\ y.admitted = x.admitted /\ y.run = x.run
  BY ResetCounts
<1>3. /\ y \in File /\ y.active = NONE /\ y.last = NONE /\ y.phase = "OFF"
      /\ y.disc = NONE /\ y.started = FALSE /\ y.drain = FALSE /\ y.left = 0
      /\ y.seen = FALSE /\ y.session = (x.session /\ ~FALSE)
  BY <1>1, ResetEffect
<1> HIDE DEF y
<1>4. InputOK(y)
  <2>1. Len(y.src) \in Nat
    BY <1>1, <1>2
  <2> QED
    BY <1>2, <1>3, <2>1 DEF InputOK
<1>5. OffOK(y)
  <2>1. y.session = x.session
    BY <1>1, <1>3
  <2> QED
    BY <1>1, <1>2, <1>3, <2>1 DEF OffOK
<1>6. PhaseOK(y) /\ MarkerOK(y)
  BY <1>3 DEF PhaseOK, MarkerOK
<1> QED
  BY <1>2, <1>3, <1>4, <1>5, <1>6 DEF FileInv, y

LEMMA OutputOffEffect ==
  ASSUME NEW x \in File
  PROVE  LET y == [x EXCEPT !.out = FALSE, !.src = <<>>]
         IN  /\ y \in File /\ But(x, y, {"out", "src"}) /\ y.out = FALSE /\ y.src = <<>>
<1> DEFINE y == [x EXCEPT !.out = FALSE, !.src = <<>>]
<1>1. <<>> \in Sources
  BY DEF Sources
<1>2. y \in File
  BY <1>1 DEF File
<1>3. But(x, y, {"out", "src"})
  BY DEF File, But, Fields
<1>4. y.out = FALSE /\ y.src = <<>>
  BY DEF File
<1> QED
  BY <1>2, <1>3, <1>4

\* The OUTPUT queue stops: the session is released and the input forgotten.
LEMMA OutputOffKeeps ==
  ASSUME clip \in Clips, NEW x, FileInv(x), x.epoch < MaxEpoch,
         ~x.txActive, ~x.admitted, ~x.run
  PROVE  LET y == IF x.session THEN chd_reset_channel(x, TRUE) ELSE x
         IN  FileInv([y EXCEPT !.out = FALSE, !.src = <<>>])
<1> DEFINE r == chd_reset_channel(x, TRUE)
           y == IF x.session THEN r ELSE x
           z == [y EXCEPT !.out = FALSE, !.src = <<>>]
<1>1. /\ x \in File /\ CountOK(x) /\ LedgerOK(x) /\ InputOK(x) /\ OffOK(x)
      /\ x.session \in BOOLEAN
  BY FileTypes DEF FileInv
<1>2. /\ y \in File /\ CountOK(y) /\ LedgerOK(y)
      /\ ~y.admitted /\ ~y.run /\ ~y.txActive /\ y.tx = "idle" /\ y.txau = EOS
      /\ y.session = FALSE /\ y.phase = "OFF" /\ ~y.started /\ ~y.drain /\ y.left = 0
      /\ y.disc = NONE /\ y.active = NONE /\ y.last = NONE
  <2>1. CASE x.session
    <3>1. /\ CountOK(r) /\ LedgerOK(r) /\ r.tx = "idle" /\ r.txau = EOS /\ ~r.txActive
          /\ r.admitted = x.admitted /\ r.run = x.run
      BY ResetCounts
    <3>2. /\ r \in File /\ r.active = NONE /\ r.last = NONE /\ r.phase = "OFF"
          /\ r.disc = NONE /\ r.started = FALSE /\ r.drain = FALSE /\ r.left = 0
          /\ r.session = (x.session /\ ~TRUE)
      BY <1>1, ResetEffect
    <3> HIDE DEF r
    <3> QED
      BY <2>1, <3>1, <3>2
  <2>2. CASE ~x.session
    <3>1. y = x
      BY <2>2
    <3>2. /\ ~x.admitted /\ ~x.run /\ ~x.txActive /\ x.phase = "OFF" /\ ~x.started
          /\ ~x.drain /\ x.disc = NONE /\ x.active = NONE /\ x.last = NONE
      BY <1>1, <2>2 DEF OffOK
    <3>3. x.tx = "idle" /\ x.txau = EOS /\ x.left = 0 /\ x.session = FALSE
      BY <1>1, <2>2, <3>2 DEF InputOK
    <3> HIDE DEF y
    <3> QED
      BY <1>1, <3>1, <3>2, <3>3
  <2> QED
    BY <2>1, <2>2
<1> HIDE DEF y
<1>3. /\ z \in File /\ But(y, z, {"out", "src"}) /\ z.out = FALSE /\ z.src = <<>>
  BY <1>2, OutputOffEffect
<1> HIDE DEF z
<1>4. /\ z.held = y.held /\ z.dst = y.dst /\ z.active = y.active /\ z.last = y.last
      /\ z.tokens = y.tokens /\ z.phase = y.phase /\ z.started = y.started
      /\ z.disc = y.disc /\ z.session = y.session
  BY <1>3 DEF But, Fields
<1>5. /\ z.admitted = y.admitted /\ z.run = y.run /\ z.txActive = y.txActive
      /\ z.tx = y.tx /\ z.txau = y.txau /\ z.drain = y.drain /\ z.left = y.left
  BY <1>3 DEF But, Fields
<1>6. CountOK(z) /\ LedgerOK(z)
  BY <1>2, <1>4 DEF CountOK, PostedCount, KeptCount, LedgerOK
<1>7. InputOK(z)
  <2>1. Len(z.src) = 0
    BY <1>3
  <2> QED
    BY <1>2, <1>5, <2>1 DEF InputOK
<1>8. OffOK(z) /\ PhaseOK(z) /\ MarkerOK(z)
  BY <1>2, <1>3, <1>4, <1>5 DEF OffOK, PhaseOK, MarkerOK
<1>9. FileInv(z)
  BY <1>3, <1>6, <1>7, <1>8 DEF FileInv
<1> QED
  BY <1>9 DEF z, y, r

Resumed(x, p) == [x EXCEPT !.phase = p, !.seen = FALSE, !.empty = FALSE]

LEMMA ResumedEffect ==
  ASSUME NEW x \in File, NEW p \in Phases
  PROVE  LET y == Resumed(x, p)
         IN  /\ y \in File /\ But(x, y, {"phase", "seen", "empty"})
             /\ y.phase = p /\ y.seen = FALSE
<1> DEFINE y == [x EXCEPT !.phase = p, !.seen = FALSE, !.empty = FALSE]
<1>1. y \in File
  BY DEF File
<1>2. But(x, y, {"phase", "seen", "empty"})
  BY DEF File, But, Fields
<1>3. y.phase = p /\ y.seen = FALSE
  BY DEF File
<1> QED
  BY <1>1, <1>2, <1>3 DEF Resumed

\* A drain that needed no firmware is undone.
LEMMA ResumeKeeps ==
  ASSUME NEW x, FileInv(x), x.phase = "DRAINED"
  PROVE  FileInv(chd_resume(x)) /\ chd_resume(x).out = x.out
<1> DEFINE p == IF x.unopened THEN "OFF" ELSE "RUNNING"
           c == ClearInput(x)
           y == Resumed(c, p)
<1>1. /\ x \in File /\ CountOK(x) /\ LedgerOK(x) /\ InputOK(x) /\ OffOK(x)
      /\ PhaseOK(x) /\ MarkerOK(x) /\ x.src \in Seq(AUs)
  BY FileTypes DEF FileInv, Sources
<1>2. p \in Phases /\ p \in {"OFF", "RUNNING"}
  BY DEF Phases
<1>3. chd_resume(x) = y
  BY DEF chd_resume, ClearInput, Resumed
<1> HIDE DEF p
<1>4. c \in File /\ But(x, c, {"drain", "eosDone", "left"}) /\ c.drain = FALSE /\ c.left = 0
  BY <1>1, ClearInputEffect
<1> HIDE DEF c
<1>5. /\ y \in File /\ But(c, y, {"phase", "seen", "empty"})
      /\ y.phase = p /\ y.seen = FALSE
  BY <1>2, <1>4, ResumedEffect
<1> HIDE DEF y
<1>6. y.drain = c.drain /\ y.left = c.left
  BY <1>5 DEF But, Fields
<1>7. But(x, y, {"drain", "eosDone", "left", "phase", "seen", "empty"})
  BY <1>4, <1>5 DEF But
<1>8. /\ y.src = x.src /\ y.txActive = x.txActive /\ y.session = x.session
      /\ y.out = x.out /\ y.tokens = x.tokens /\ y.txau = x.txau /\ y.tx = x.tx
      /\ y.admitted = x.admitted /\ y.run = x.run
  BY <1>7 DEF But, Fields
<1>9. /\ y.held = x.held /\ y.dst = x.dst /\ y.last = x.last
      /\ y.active = x.active /\ y.known = x.known /\ y.started = x.started
      /\ y.disc = x.disc /\ y.cap = x.cap /\ y.pending = x.pending
  BY <1>7 DEF But, Fields
<1>10. x.out /\ x.last = NONE /\ ~x.txActive
  BY <1>1 DEF OffOK, PhaseOK
<1>11. CountOK(y) /\ LedgerOK(y)
  BY <1>1, <1>8, <1>9 DEF CountOK, PostedCount, KeptCount, LedgerOK
<1>12. InputOK(y)
  <2>1. Len(y.src) \in Nat
    BY <1>1, <1>8
  <2>2. y.tx = "idle" /\ ~y.txActive /\ y.txau = EOS
    BY <1>1, <1>8, <1>10 DEF InputOK
  <2> QED
    BY <1>4, <1>6, <2>1, <2>2 DEF InputOK
<1>13. OffOK(y)
  BY <1>1, <1>8, <1>10 DEF OffOK
<1>14. PhaseOK(y) /\ MarkerOK(y)
  BY <1>1, <1>2, <1>5, <1>9, <1>10 DEF PhaseOK, MarkerOK
<1> QED
  BY <1>3, <1>5, <1>8, <1>11, <1>12, <1>13, <1>14 DEF FileInv

LEMMA AfterJoinInv ==
  ASSUME IInv, AfterJoin
  PROVE  IInv'
<1> DEFINE x == chd_join_end(f)
           y == IF x.session THEN chd_reset_channel(x, io = "off_output") ELSE x
           z == chd_admit(chd_resume(x), x.out)
<1>1. clip \in Clips /\ shown \in SUBSET AUs /\ fw \in Channel /\ FileInv(f) /\ IoInv
  BY IInvFacts
<1>2. clip' = clip /\ shown' = shown
  BY DEF AfterJoin
<1>3. \/ /\ io \in {"off_output", "reqbufs", "off_capture"} /\ f' \in DeviceGone(x)
         /\ fw' = fw /\ io' = NONE
      \/ /\ io \in {"off_output", "reqbufs", "off_capture"} /\ FwReset /\ io' = NONE
         /\ f' = CASE io = "off_output" -> [y EXCEPT !.out = FALSE, !.src = <<>>]
                   [] io = "off_capture" -> CaptureOff(y)
                   [] io = "reqbufs" -> Reallocate(y)
      \/ /\ io = "off_capture" /\ (x.pending \/ x.phase = "DRAINED")
         /\ f' = CaptureOff(x) /\ fw' = fw /\ io' = NONE
      \/ /\ io \in {"resume_on", "resume_cmd"} /\ fw' = fw /\ io' = NONE
         /\ f' \in {CaptureOn(z), chd_kick(z), chd_return_dst(x), x}
      \/ io = "release" /\ f' = x /\ fw' = fw /\ io' = "closed"
  BY DEF AfterJoin
<1>4. /\ FileInv(x) /\ x.epoch = f.epoch
      /\ f.phase = "DRAINED" => x.phase = "DRAINED"
      /\ ~x.run /\ ~x.txActive /\ ~x.admitted
  BY <1>1, JoinEndKeeps DEF WorkStep
<1> HIDE DEF x
<1>5. x \in File /\ OffOK(x) /\ PhaseOK(x) /\ MarkerOK(x) /\ x.out \in BOOLEAN
  BY <1>4, FileTypes DEF FileInv
<1>6. CASE /\ io \in {"off_output", "reqbufs", "off_capture"} /\ f' \in DeviceGone(x)
           /\ fw' = fw /\ io' = NONE
  <2>1. FileInv(f')
    BY <1>4, <1>6, GoneKeeps DEF WorkStep
  <2> QED
    BY <1>1, <1>2, <1>6, <2>1, IdleSettles
<1>7. CASE /\ io \in {"off_output", "reqbufs", "off_capture"} /\ FwReset /\ io' = NONE
           /\ f' = CASE io = "off_output" -> [y EXCEPT !.out = FALSE, !.src = <<>>]
                     [] io = "off_capture" -> CaptureOff(y)
                     [] io = "reqbufs" -> Reallocate(y)
  <2>1. fw' \in Channel
    BY <1>1, <1>7, ChannelTypes DEF FwReset
  <2>2. x.epoch < MaxEpoch
    BY <1>1, <1>4, <1>7 DEF IoInv
  <2>3. CASE io = "off_output"
    <3> DEFINE w == IF x.session THEN chd_reset_channel(x, TRUE) ELSE x
    <3>1. f' = [w EXCEPT !.out = FALSE, !.src = <<>>]
      BY <1>7, <2>3
    <3>2. FileInv(f')
      BY <1>1, <1>4, <2>2, <3>1, OutputOffKeeps
    <3> QED
      BY <1>1, <1>2, <1>7, <2>1, <3>2, IdleSettles
  <2>4. CASE io # "off_output"
    <3> DEFINE w == IF x.session THEN chd_reset_channel(x, FALSE) ELSE x
    <3>1. y = w
      BY <2>4
    <3>2. FileInv(w) /\ w.last = NONE
      <4>1. CASE x.session
        <5>1. LET r == chd_reset_channel(x, FALSE) IN FileInv(r) /\ r.last = NONE
          BY <1>1, <1>4, <2>2, ResetKeeps
        <5> QED
          BY <4>1, <5>1
      <4>2. CASE ~x.session
        <5>1. x.last = NONE
          BY <1>5, <4>2 DEF OffOK
        <5> QED
          BY <1>4, <4>2, <5>1
      <4> QED
        BY <4>1, <4>2
    <3>3. f' = CaptureOff(w) \/ f' = Reallocate(w)
      BY <1>7, <2>4, <3>1
    <3> HIDE DEF w
    <3>4. FileInv(f')
      BY <3>2, <3>3, CaptureOffKeeps, ReallocateKeeps
    <3> QED
      BY <1>1, <1>2, <1>7, <2>1, <3>4, IdleSettles
  <2> QED
    BY <2>3, <2>4
<1>8. CASE /\ io = "off_capture" /\ (x.pending \/ x.phase = "DRAINED")
           /\ f' = CaptureOff(x) /\ fw' = fw /\ io' = NONE
  <2>1. x.last = NONE
    BY <1>5, <1>8 DEF PhaseOK, MarkerOK
  <2>2. FileInv(f')
    BY <1>4, <1>8, <2>1, CaptureOffKeeps
  <2> QED
    BY <1>1, <1>2, <1>8, <2>2, IdleSettles
<1>9. CASE /\ io \in {"resume_on", "resume_cmd"} /\ fw' = fw /\ io' = NONE
           /\ f' \in {CaptureOn(z), chd_kick(z), chd_return_dst(x), x}
  <2>1. x.phase = "DRAINED"
    BY <1>1, <1>4, <1>9 DEF IoInv
  <2>2. FileInv(z)
    <3>1. FileInv(chd_resume(x)) /\ chd_resume(x).out = x.out
      BY <1>4, <2>1, ResumeKeeps
    <3> QED
      BY <1>5, <3>1, AdmitKeeps DEF WorkStep
  <2> HIDE DEF z
  <2>3. FileInv(CaptureOn(z))
    BY <2>2, CaptureOnKeeps
  <2>4. FileInv(chd_kick(z))
    BY <2>2, KickKeeps DEF WorkStep
  <2>5. FileInv(chd_return_dst(x))
    BY <1>4, ReturnDstKeeps DEF WorkStep
  <2>6. FileInv(f')
    BY <1>4, <1>9, <2>3, <2>4, <2>5
  <2> QED
    BY <1>1, <1>2, <1>9, <2>6, IdleSettles
<1>10. CASE io = "release" /\ f' = x /\ fw' = fw /\ io' = "closed"
  <2>1. FileInv(f')
    BY <1>4, <1>10
  <2>2. IoInv'
    BY <1>4, <1>10 DEF IoInv
  <2> QED
    BY <1>1, <1>2, <1>10, <2>1, <2>2, Settle
<1> QED
  BY <1>3, <1>6, <1>7, <1>8, <1>9, <1>10

-----------------------------------------------------------------------------
(* The invariant, and what it is for.                                      *)

LEMMA InitInv == Init => IInv
<1> SUFFICES ASSUME Init PROVE IInv
  OBVIOUS
<1>1. PICK c \in Clips : clip = c /\ f.fmt = c.hint /\ f.alloc = c.hint
  BY DEF Init
<1>2. /\ clip \in Clips /\ clip.hint \in Nat /\ clip.ledger \in Nat
  BY <1>1, ClipTypes
<1>3. NBufs \in Nat /\ MaxEpoch \in Nat /\ MaxFault \in Nat
  BY NodeAssumption
<1>4. /\ "idle" \in TxStates /\ EOS \in Transfers /\ "OFF" \in Phases /\ 0 \in Epochs
      /\ {} \in Ledgers /\ "none" \in Quants /\ <<>> \in Sources /\ <<>> \in Buffers
      /\ 0 \in Budget
  BY <1>3 DEF TxStates, Transfers, Phases, Epochs, Ledgers, Quants, Sources, Buffers, Budget
<1>5. f \in File
  BY <1>1, <1>2, <1>3, <1>4, NoneTypes DEF Init, File
<1>6. /\ f.held = NBufs /\ f.dst = <<>> /\ f.active = NONE /\ f.last = NONE
      /\ f.tokens = {} /\ f.left = 0 /\ f.src = <<>> /\ f.drain = FALSE
      /\ f.txActive = FALSE /\ f.tx = "idle" /\ f.txau = EOS /\ f.seen = FALSE
      /\ f.session = FALSE /\ f.out = FALSE /\ f.admitted = FALSE /\ f.run = FALSE
      /\ f.phase = "OFF" /\ f.started = FALSE /\ f.disc = NONE /\ f.cap = FALSE
  BY DEF Init
<1>7. fw \in Channel /\ io = NONE /\ shown = {}
  BY <1>4 DEF Init, Channel
<1>8. CountOK(f)
  BY <1>3, <1>6 DEF CountOK, PostedCount, KeptCount
<1>9. LedgerOK(f)
  BY <1>2, <1>6, FS_EmptySet DEF LedgerOK
<1>10. InputOK(f) /\ OffOK(f)
  <2>1. Len(f.src) = 0
    BY <1>6
  <2>2. InputOK(f)
    BY <1>6, <2>1 DEF InputOK
  <2>3. OffOK(f)
    BY <1>6 DEF OffOK
  <2> QED
    BY <2>2, <2>3
<1>11. PhaseOK(f) /\ MarkerOK(f)
  BY <1>6 DEF PhaseOK, MarkerOK
<1>12. FileInv(f)
  BY <1>5, <1>8, <1>9, <1>10, <1>11 DEF FileInv
<1>13. IoInv
  <2>1. NONE \notin Joins \cup {"closed"}
    BY NoneIsFresh
  <2> QED
    BY <1>7, <2>1 DEF IoInv, Joins
<1>14. TypeOK
  BY <1>2, <1>3, <1>5, <1>6, <1>7, <1>9 DEF TypeOK, LedgerOK
<1> QED
  BY <1>12, <1>13, <1>14 DEF IInv

LEMMA NextInv ==
  ASSUME IInv, [Next]_vars
  PROVE  IInv'
<1>1. CASE Worker
  <2>1. ASSUME NEW e \in BOOLEAN, ChdRun(e)
        PROVE  IInv'
    BY <2>1, RunStepInv
  <2> QED
    BY <1>1, <2>1, TxStepInv DEF Worker, chd_run, chd_run_expired
<1>2. CASE Firmware
  BY <1>2, AcceptStepInv, OutputStepInv, FaultStepInv DEF Firmware
<1>3. CASE Ioctl
  <2>1. CASE chd_qbuf_output \/ chd_qbuf_capture
    BY <2>1, QbufOutputInv, QbufCaptureInv
  <2>2. CASE chd_streamon_output \/ chd_streamon_capture
    BY <2>2, StreamonOutputInv, StreamonCaptureInv
  <2>3. CASE chd_streamoff_output \/ chd_streamoff_capture
    BY <2>3, StreamoffInv
  <2>4. CASE chd_decoder_cmd_stop \/ chd_decoder_cmd_start
    BY <2>4, StopInv, StartCmdInv
  <2>5. CASE chd_reqbufs \/ chd_release \/ AfterJoin
    BY <2>5, ReqbufsInv, ReleaseInv, AfterJoinInv
  <2> QED
    BY <1>3, <2>1, <2>2, <2>3, <2>4, <2>5 DEF Ioctl
<1>4. CASE UNCHANGED vars
  <2>1. f' = f /\ fw' = fw /\ io' = io /\ clip' = clip /\ shown' = shown
    BY <1>4 DEF vars
  <2>2. IoInv' /\ io \in Joins \cup {NONE, "closed"}
    BY <2>1 DEF IInv, IoInv, TypeOK
  <2> QED
    BY <2>1, <2>2, IInvFacts, Settle
<1> QED
  BY <1>1, <1>2, <1>3, <1>4 DEF Next

\* Every step of the specification keeps the invariant.
LEMMA Invariance == Spec => []IInv
  BY InitInv, NextInv, PTL DEF Spec

(* Every field of struct crystalhd_v4l2_file keeps its type, the ledger of  *)
(* the controller is never overrun (reserve_input looks first) and STOP's  *)
(* snapshot never counts inputs that are no longer queued.                 *)
THEOREM TypeCorrect == Spec => []TypeOK
<1>1. IInv => TypeOK
  BY DEF IInv
<1> QED
  BY <1>1, Invariance, PTL

(* Every CAPTURE buffer is with the client, in the ready queue, posted to  *)
(* the core or kept back as pending_last, through every path of chd_run,   *)
(* the ioctls, the resets and the failures.                                *)
THEOREM Conservation == Spec => []BuffersConserved
<1>1. IInv => BuffersConserved
  BY IInvFacts DEF CountOK, PostedCount, KeptCount, BuffersConserved
<1> QED
  BY <1>1, Invariance, PTL

(* Once STREAMOFF or release has joined the workers nothing runs, is sent  *)
(* or is posted for that queue, whatever completes or kicks late; and the  *)
(* source buffer that a transfer uses stays the head of its queue.         *)
THEOREM StoppedStaysStopped == Spec => []NoWorkOnStoppedQueue
<1>1. ASSUME IInv PROVE NoWorkOnStoppedQueue
  <2>1. InputOK(f) /\ OffOK(f) /\ MarkerOK(f) /\ IoInv
    BY <1>1, IInvFacts
  <2>2. f.tx = "idle" <=> ~f.txActive
    BY <2>1 DEF InputOK
  <2>3. io = "closed" => ~f.run /\ f.tx = "idle" /\ ~f.txActive
    BY <2>1, <2>2 DEF IoInv
  <2>4. ~f.cap => f.active = NONE /\ f.last = NONE
    BY <2>1 DEF MarkerOK
  <2>5. ~f.out => ~f.run /\ f.tx = "idle" /\ f.disc = NONE /\ ~f.started /\ f.phase = "OFF"
    BY <2>1, <2>2 DEF OffOK
  <2>6. f.txau # EOS => f.src # <<>> /\ Head(f.src) = f.txau
    BY <2>1 DEF InputOK
  <2> QED
    BY <2>3, <2>4, <2>5, <2>6 DEF NoWorkOnStoppedQueue
<1> QED
  BY <1>1, Invariance, PTL
===========================================================================
