------------------------- MODULE V4l2StreamProofs -------------------------
(***************************************************************************)
(* V4l2Node implements DecoderStream, for any clips, any number of CAPTURE *)
(* buffers and any bounds on resets and failures.                          *)
(*                                                                         *)
(* Mapping and ModeMapping write the refinement mapping of V4l2Node as     *)
(* operators of a file and of the answers its client got (Owed, Mode,      *)
(* Due); Simulated is a step of DecoderStream between two such pairs.      *)
(* Each function of the source is then one of                              *)
(*   - Calm: it changes nothing that DecoderStream or the invariant sees;  *)
(*   - Step: it keeps StreamInv and is one step of DecoderStream.          *)
(* StreamInv adds to the invariant of V4l2NodeProofs, while the file lives,*)
(*   - that an access unit is queued once, and that the only one queued    *)
(*     and yet in the decoder or answered is the head that the TX worker   *)
(*     has on the wire, with run_lock dropped (QueueOK);                   *)
(*   - that a marker is asked for only behind the snapshot of STOP, and    *)
(*     nothing is in a decoder that is closed or drained (DrainOK).        *)
(* One turn of chd_run makes many calls: TurnOutcome says that whatever    *)
(* they did, at most one access unit was answered (Spent: the result in    *)
(* the driver's hands is used up), or the file failed and some were lost.  *)
(***************************************************************************)
EXTENDS V4l2NodeProofs

\* The access units in the decoder, and those still in the source queue.
Inside(x) == x.tokens \cup (IF x.staged = NONE THEN {} ELSE {x.staged.au})
Front(s, n) == {s[i] : i \in 1 .. n}
Waiting(x, sh, n) == Front(x.src, n) \ sh

\* What DecoderStream sees of a file whose client got the answers sh.
Owed(x, sh) == Waiting(x, sh, Len(x.src)) \cup Inside(x)
Mode(x) ==
    IF x.fatal THEN "dead" ELSE IF x.phase = "DRAINED" THEN "drained"
    ELSE IF x.drain THEN "drain" ELSE "decode"
Due(x, sh) ==
    IF x.drain /\ ~x.fatal THEN Waiting(x, sh, x.left) \cup Inside(x) ELSE {}

\* An access unit is queued once, and when it is in the decoder or answered
\* it is the one that the TX worker holds, or it has left the queue.
QueueOK(x, sh) ==
    /\ \A i \in 1 .. Len(x.src) : x.src[i] < x.next
    /\ \A i, j \in 1 .. Len(x.src) : x.src[i] = x.src[j] => i = j
    /\ \A a \in Inside(x) \cup sh : a < x.next
    /\ \A i \in 1 .. Len(x.src) :
          x.src[i] \in Inside(x) \cup sh => i = 1 /\ x.txau # EOS
    /\ x.txau # EOS => x.txau \in Inside(x) \cup sh

\* A marker is asked for behind the snapshot, and nothing is in a decoder
\* that is closed, drained or has seen no input.
DrainOK(x) ==
    /\ x.phase \in {"DRAINING", "DRAINED"} => x.left = 0 /\ x.drain
    /\ x.phase \in {"DRAINED", "OFF"} => Inside(x) = {}
    /\ Inside(x) # {} => x.seen
    /\ x.staged # NONE => x.staged.au \notin x.tokens /\ x.active = NONE

StreamInv(x, sh) == ~x.fatal => QueueOK(x, sh) /\ DrainOK(x)

StreamIInv == IInv /\ StreamInv(f, shown)

-----------------------------------------------------------------------------
(* The steps of DecoderStream, for two files and their answers.            *)

Unmoved(x, sh, y, s2) == s2 = sh /\ y.epoch = x.epoch /\ Owed(y, s2) = Owed(x, sh)

Stuttered(x, sh, y, s2) ==
    /\ Unmoved(x, sh, y, s2)
    /\ Mode(y) = Mode(x) /\ Due(y, s2) = Due(x, sh)

QueuedOne(x, sh, y, s2, a) ==
    /\ a \notin Owed(x, sh) \cup sh /\ Mode(x) # "dead"
    /\ Owed(y, s2) = Owed(x, sh) \cup {a}
    /\ s2 = sh /\ y.epoch = x.epoch /\ Mode(y) = Mode(x) /\ Due(y, s2) = Due(x, sh)

AnsweredOne(x, sh, y, s2, a) ==
    /\ a \in Owed(x, sh) /\ Mode(x) \in {"decode", "drain"}
    /\ Mode(x) = "drain" => a \in Due(x, sh)
    /\ Owed(y, s2) = Owed(x, sh) \ {a} /\ s2 = sh \cup {a}
    /\ Due(y, s2) = Due(x, sh) \ {a} /\ Mode(y) = Mode(x) /\ y.epoch = x.epoch

Stopped(x, sh, y, s2) ==
    /\ Unmoved(x, sh, y, s2)
    /\ Mode(x) = "decode" /\ Mode(y) = "drain" /\ Due(y, s2) = Owed(x, sh)

Ended(x, sh, y, s2) ==
    /\ Unmoved(x, sh, y, s2)
    /\ Mode(x) = "drain" /\ Due(x, sh) = {} /\ Mode(y) = "drained" /\ Due(y, s2) = {}

Restarted(x, sh, y, s2) ==
    /\ Unmoved(x, sh, y, s2)
    /\ Mode(x) = "drained" /\ Mode(y) = "decode" /\ Due(y, s2) = Due(x, sh)

Cancelled(x, sh, y, s2) ==
    /\ Unmoved(x, sh, y, s2)
    /\ Mode(x) = "drain" /\ Mode(y) = "decode" /\ Due(y, s2) = {}

Flushed(x, sh, y, s2) ==
    /\ s2 = sh /\ y.epoch = x.epoch + 1 /\ Owed(y, s2) \in SUBSET Owed(x, sh)
    /\ Mode(y) = (IF Mode(x) = "dead" THEN "dead" ELSE "decode") /\ Due(y, s2) = {}

Failed(x, sh, y, s2) ==
    /\ y.fatal /\ y.epoch = x.epoch /\ Owed(y, s2) \in SUBSET Owed(x, sh)
    /\ \E S \in SUBSET (Owed(x, sh) \ Owed(y, s2)) : s2 = sh \cup S

Simulated(x, sh, y, s2) ==
    \/ Stuttered(x, sh, y, s2) \/ Failed(x, sh, y, s2)
    \/ \E a \in AUs : QueuedOne(x, sh, y, s2, a) \/ AnsweredOne(x, sh, y, s2, a)
    \/ Stopped(x, sh, y, s2) \/ Ended(x, sh, y, s2) \/ Restarted(x, sh, y, s2)
    \/ Cancelled(x, sh, y, s2) \/ Flushed(x, sh, y, s2)

\* The variables of DecoderStream, before and after a step.
LEMMA Mapping ==
  /\ Inputs(Len(f.src)) \cup InDecoder = Owed(f, shown)
  /\ (Inputs(Len(f.src)) \cup InDecoder)' = Owed(f', shown')
  /\ (IF f.drain /\ ~f.fatal THEN Inputs(f.left) \cup InDecoder ELSE {}) = Due(f, shown)
  /\ (IF f.drain /\ ~f.fatal THEN Inputs(f.left) \cup InDecoder ELSE {})' = Due(f', shown')
  BY DEF Inputs, InDecoder, Owed, Waiting, Front, Inside, Due

LEMMA ModeMapping ==
  /\ (IF f.fatal THEN "dead" ELSE IF f.phase = "DRAINED" THEN "drained"
            ELSE IF f.drain THEN "drain" ELSE "decode") = Mode(f)
  /\ (IF f.fatal THEN "dead" ELSE IF f.phase = "DRAINED" THEN "drained"
            ELSE IF f.drain THEN "drain" ELSE "decode")' = Mode(f')
  BY DEF Mode

LEMMA StepMapping ==
  ASSUME clip \in Clips, Simulated(f, shown, f', shown')
  PROVE  [Stream!Next]_(Stream!stream)
<1>0. AUs \in SUBSET UNION {DOMAIN c.aus : c \in Clips}
  BY DEF AUs
<1>1. CASE Stuttered(f, shown, f', shown')
  BY <1>1, Mapping, ModeMapping DEF Stuttered, Unmoved, Stream!stream
<1>2. CASE Failed(f, shown, f', shown')
  <2>1. Mode(f') = "dead" /\ Due(f', shown') = {}
    BY <1>2 DEF Failed, Mode, Due
  <2>2. Stream!Fail
    BY <1>2, <2>1, Mapping, ModeMapping DEF Failed, Stream!Fail
  <2> QED
    BY <2>2 DEF Stream!Next
<1>3. ASSUME NEW a \in AUs, QueuedOne(f, shown, f', shown', a)
      PROVE  Stream!Next
  <2>1. Stream!Queue(a)
    BY <1>3, Mapping, ModeMapping DEF QueuedOne, Stream!Queue
  <2> QED
    BY <1>0, <2>1 DEF Stream!Next
<1>4. ASSUME NEW a \in AUs, AnsweredOne(f, shown, f', shown', a)
      PROVE  Stream!Next
  <2>1. Stream!Answer(a)
    BY <1>4, Mapping, ModeMapping DEF AnsweredOne, Stream!Answer
  <2> QED
    BY <1>0, <2>1 DEF Stream!Next
<1>5. CASE Stopped(f, shown, f', shown')
  <2>1. Stream!Stop
    BY <1>5, Mapping, ModeMapping DEF Stopped, Unmoved, Stream!Stop
  <2> QED
    BY <2>1 DEF Stream!Next
<1>6. CASE Ended(f, shown, f', shown')
  <2>1. Stream!Last
    BY <1>6, Mapping, ModeMapping DEF Ended, Unmoved, Stream!Last
  <2> QED
    BY <2>1 DEF Stream!Next
<1>7. CASE Restarted(f, shown, f', shown')
  <2>1. Stream!Restart
    BY <1>7, Mapping, ModeMapping DEF Restarted, Unmoved, Stream!Restart
  <2> QED
    BY <2>1 DEF Stream!Next
<1>8. CASE Cancelled(f, shown, f', shown')
  <2>1. Stream!Cancel
    BY <1>8, Mapping, ModeMapping DEF Cancelled, Unmoved, Stream!Cancel
  <2> QED
    BY <2>1 DEF Stream!Next
<1>9. CASE Flushed(f, shown, f', shown')
  <2>1. Stream!Flush
    BY <1>9, Mapping, ModeMapping DEF Flushed, Stream!Flush
  <2> QED
    BY <2>1 DEF Stream!Next
<1> QED
  BY <1>1, <1>2, <1>3, <1>4, <1>5, <1>6, <1>7, <1>8, <1>9 DEF Simulated

-----------------------------------------------------------------------------
(* Steps that DecoderStream does not see.                                  *)

Core ==
    {"src", "txau", "staged", "tokens", "phase", "left", "drain", "seen", "next",
     "epoch", "fatal"}

Calm(x, y) ==
    /\ \A g \in Core : y[g] = x[g]
    /\ y.active # NONE => x.active # NONE \/ x.staged = NONE

\* A step of the source: it keeps the invariant and is one of DecoderStream.
Step(x, sh, y, s2) == StreamInv(x, sh) => StreamInv(y, s2) /\ Simulated(x, sh, y, s2)

LEMMA CalmFields ==
  ASSUME NEW x, NEW y, Calm(x, y)
  PROVE  /\ y.src = x.src /\ y.txau = x.txau /\ y.staged = x.staged
         /\ y.tokens = x.tokens /\ y.phase = x.phase /\ y.left = x.left
         /\ y.drain = x.drain /\ y.seen = x.seen /\ y.next = x.next
         /\ y.epoch = x.epoch /\ y.fatal = x.fatal
         /\ y.active # NONE => x.active # NONE \/ x.staged = NONE
  BY DEF Calm, Core

LEMMA CalmTransitive ==
  ASSUME NEW x, NEW y, NEW z, Calm(x, y), Calm(y, z)
  PROVE  Calm(x, z)
  BY DEF Calm, Core

LEMMA CalmRefl == ASSUME NEW x PROVE Calm(x, x)
  BY DEF Calm

LEMMA ButCalm ==
  ASSUME NEW x, NEW y, NEW S, But(x, y, S), S \cap (Core \cup {"active"}) = {}
  PROVE  Calm(x, y)
<1>1. \A g \in Core \cup {"active"} : g \in Fields \ S
  BY DEF Core, Fields
<1>2. \A g \in Core \cup {"active"} : y[g] = x[g]
  BY <1>1 DEF But
<1> QED
  BY <1>2 DEF Calm

LEMMA CalmView ==
  ASSUME NEW x, NEW y, Calm(x, y)
  PROVE  /\ \A sh : Owed(y, sh) = Owed(x, sh) /\ Due(y, sh) = Due(x, sh)
         /\ Mode(y) = Mode(x) /\ Inside(y) = Inside(x)
<1>1. /\ y.src = x.src /\ y.staged = x.staged /\ y.tokens = x.tokens
      /\ y.phase = x.phase /\ y.left = x.left /\ y.drain = x.drain /\ y.fatal = x.fatal
  BY CalmFields
<1>2. Inside(y) = Inside(x) /\ Mode(y) = Mode(x)
  BY <1>1 DEF Inside, Mode
<1>3. ASSUME NEW sh, NEW n
      PROVE  Waiting(y, sh, n) = Waiting(x, sh, n)
  BY <1>1 DEF Waiting
<1>4. ASSUME NEW sh
      PROVE  Owed(y, sh) = Owed(x, sh) /\ Due(y, sh) = Due(x, sh)
  BY <1>1, <1>2, <1>3 DEF Owed, Due
<1> QED
  BY <1>2, <1>4

LEMMA CalmInv ==
  ASSUME NEW x, NEW y, NEW sh, Calm(x, y), StreamInv(x, sh)
  PROVE  StreamInv(y, sh)
<1>1. Inside(y) = Inside(x)
  BY CalmView
<1>2. QueueOK(x, sh) => QueueOK(y, sh)
  BY <1>1, CalmFields DEF QueueOK
<1>3. DrainOK(x) => DrainOK(y)
  BY <1>1, CalmFields DEF DrainOK
<1> QED
  BY <1>2, <1>3, CalmFields DEF StreamInv

LEMMA CalmStep ==
  ASSUME NEW x, NEW y, NEW sh, Calm(x, y)
  PROVE  Step(x, sh, y, sh)
<1>1. Stuttered(x, sh, y, sh)
  BY CalmView, CalmFields DEF Stuttered, Unmoved
<1> QED
  BY <1>1, CalmInv DEF Step, Simulated

\* What DecoderStream does not see may come before a step or after it.
LEMMA SameView ==
  ASSUME NEW x, NEW y, NEW v, NEW w, NEW sh, NEW s2, Simulated(x, sh, y, s2),
         Owed(v, sh) = Owed(x, sh), Due(v, sh) = Due(x, sh), Mode(v) = Mode(x),
         v.epoch = x.epoch, Owed(w, s2) = Owed(y, s2), Due(w, s2) = Due(y, s2),
         Mode(w) = Mode(y), w.epoch = y.epoch, w.fatal = y.fatal
  PROVE  Simulated(v, sh, w, s2)
<1>1. CASE Stuttered(x, sh, y, s2) \/ Failed(x, sh, y, s2)
  BY <1>1 DEF Simulated, Stuttered, Unmoved, Failed
<1>2. ASSUME NEW a \in AUs, QueuedOne(x, sh, y, s2, a) \/ AnsweredOne(x, sh, y, s2, a)
      PROVE  Simulated(v, sh, w, s2)
  BY <1>2 DEF Simulated, QueuedOne, AnsweredOne
<1>3. CASE \/ Stopped(x, sh, y, s2) \/ Ended(x, sh, y, s2) \/ Restarted(x, sh, y, s2)
           \/ Cancelled(x, sh, y, s2)
  BY <1>3 DEF Simulated, Stopped, Ended, Restarted, Cancelled, Unmoved
<1>4. CASE Flushed(x, sh, y, s2)
  BY <1>4 DEF Simulated, Flushed
<1> QED
  BY <1>1, <1>2, <1>3, <1>4 DEF Simulated

LEMMA CalmThen ==
  ASSUME NEW x, NEW y, NEW z, NEW sh, NEW s2, Calm(x, y), Step(y, sh, z, s2)
  PROVE  Step(x, sh, z, s2)
<1> SUFFICES ASSUME StreamInv(x, sh)
             PROVE  StreamInv(z, s2) /\ Simulated(x, sh, z, s2)
  BY DEF Step
<1>1. StreamInv(z, s2) /\ Simulated(y, sh, z, s2)
  BY CalmInv DEF Step
<1> QED
  BY <1>1, CalmView, CalmFields, SameView

LEMMA ThenCalm ==
  ASSUME NEW x, NEW y, NEW z, NEW sh, NEW s2, Step(x, sh, y, s2), Calm(y, z)
  PROVE  Step(x, sh, z, s2)
<1> SUFFICES ASSUME StreamInv(x, sh)
             PROVE  StreamInv(z, s2) /\ Simulated(x, sh, z, s2)
  BY DEF Step
<1>1. StreamInv(y, s2) /\ Simulated(x, sh, y, s2)
  BY DEF Step
<1>2. StreamInv(z, s2)
  BY <1>1, CalmInv
<1> QED
  BY <1>1, <1>2, CalmView, CalmFields, SameView

\* A file that has failed only loses what it owes.
LEMMA FailStep ==
  ASSUME NEW x, NEW y, NEW sh, NEW s2, y.fatal, y.epoch = x.epoch,
         Owed(y, s2) \subseteq Owed(x, sh), sh \subseteq s2,
         s2 \subseteq sh \cup (Owed(x, sh) \ Owed(y, s2))
  PROVE  Step(x, sh, y, s2)
<1> DEFINE S == s2 \ sh
<1>1. s2 = sh \cup S /\ S \in SUBSET (Owed(x, sh) \ Owed(y, s2))
  OBVIOUS
<1>2. Failed(x, sh, y, s2)
  BY <1>1 DEF Failed
<1> QED
  BY <1>2 DEF Step, Simulated, StreamInv

\* The functions that DecoderStream does not see.
LEMMA CalmFunctions ==
  ASSUME NEW x \in File
  PROVE  /\ Calm(x, chd_kick(x)) /\ chd_kick(x) \in File
         /\ \A b \in BOOLEAN : Calm(x, chd_admit(x, b)) /\ chd_admit(x, b) \in File
         /\ Calm(x, BufDone(x)) /\ BufDone(x) \in File
         /\ Calm(x, chd_return_active(x)) /\ chd_return_active(x) \in File
         /\ Calm(x, chd_return_dst(x)) /\ chd_return_dst(x) \in File
         /\ x.faults < MaxFault => Calm(x, Faulty(x)) /\ Faulty(x) \in File
<1>1. /\ {"run"} \cap (Core \cup {"active"}) = {}
      /\ {"admitted", "txStopping"} \cap (Core \cup {"active"}) = {}
      /\ {"held"} \cap (Core \cup {"active"}) = {}
      /\ {"held", "dst"} \cap (Core \cup {"active"}) = {}
      /\ {"faults"} \cap (Core \cup {"active"}) = {}
  BY DEF Core
<1>2. Calm(x, chd_kick(x)) /\ chd_kick(x) \in File
  BY <1>1, KickEffect, ButCalm
<1>3. ASSUME NEW b \in BOOLEAN
      PROVE  Calm(x, chd_admit(x, b)) /\ chd_admit(x, b) \in File
  BY <1>1, AdmitEffect, ButCalm
<1>4. Calm(x, BufDone(x)) /\ BufDone(x) \in File
  BY <1>1, BufDoneEffect, ButCalm
<1>5. Calm(x, chd_return_active(x)) /\ chd_return_active(x) \in File
  <2> DEFINE y == chd_return_active(x)
  <2>1. y \in File /\ But(x, y, {"held", "active"}) /\ y.active = NONE
    BY ReturnActiveEffect
  <2> HIDE DEF y
  <2>2. Calm(x, y)
    BY <2>1 DEF But, Fields, Calm, Core
  <2> QED
    BY <2>1, <2>2 DEF y
<1>6. Calm(x, chd_return_dst(x)) /\ chd_return_dst(x) \in File
  BY <1>1, ReturnDstEffect, ButCalm
<1>7. x.faults < MaxFault => Calm(x, Faulty(x)) /\ Faulty(x) \in File
  BY <1>1, FaultyEffect, ButCalm
<1> QED
  BY <1>2, <1>3, <1>4, <1>5, <1>6, <1>7

\* chd_error, and the loss of the device.
LEMMA ErrorStep ==
  ASSUME NEW x \in File, NEW sh
  PROVE  LET y == chd_error(x)
         IN  /\ Step(x, sh, y, sh) /\ y \in File /\ y.fatal /\ y.epoch = x.epoch
             /\ \A s : Owed(y, s) = Owed(x, s)
<1> DEFINE y == chd_error(x)
<1>1. y \in File /\ But(x, y, {"fatal", "admitted", "txStopping"}) /\ y.fatal = TRUE
  BY ErrorEffect
<1> HIDE DEF y
<1>2. /\ y.src = x.src /\ y.staged = x.staged /\ y.tokens = x.tokens /\ y.epoch = x.epoch
  BY <1>1 DEF But, Fields
<1>3. \A s : Owed(y, s) = Owed(x, s)
  BY <1>2 DEF Owed, Waiting, Inside
<1>4. Step(x, sh, y, sh)
  BY <1>1, <1>2, <1>3, FailStep
<1> QED
  BY <1>1, <1>2, <1>3, <1>4 DEF y

LEMMA GoneStep ==
  ASSUME NEW x \in File, NEW sh, NEW y \in DeviceGone(x)
  PROVE  Step(x, sh, y, sh) /\ y \in File
<1>1. x.faults < MaxFault /\ y = chd_error(Faulty(x))
  BY DEF DeviceGone
<1>2. Calm(x, Faulty(x)) /\ Faulty(x) \in File
  BY <1>1, CalmFunctions
<1>3. Step(Faulty(x), sh, y, sh) /\ y \in File
  BY <1>1, <1>2, ErrorStep
<1> QED
  BY <1>2, <1>3, CalmThen

LEMMA JoinCalm ==
  ASSUME NEW x \in File
  PROVE  Calm(x, chd_join_begin(x)) /\ chd_join_begin(x) \in File
<1> DEFINE y == [x EXCEPT !.txStopping = TRUE, !.admitted = TRUE, !.run = TRUE]
           z == [x EXCEPT !.txStopping = TRUE]
<1>1. /\ y \in File /\ But(x, y, {"txStopping", "admitted", "run"})
      /\ z \in File /\ But(x, z, {"txStopping"})
  BY JoinEffect
<1>2. chd_join_begin(x) = y \/ chd_join_begin(x) = z
  BY DEF chd_join_begin
<1> HIDE DEF y, z
<1>3. /\ {"txStopping", "admitted", "run"} \cap (Core \cup {"active"}) = {}
      /\ {"txStopping"} \cap (Core \cup {"active"}) = {}
  BY DEF Core
<1>4. Calm(x, y) /\ Calm(x, z)
  BY <1>1, <1>3, ButCalm
<1> QED
  BY <1>1, <1>2, <1>4

LEMMA CaptureOnCalm ==
  ASSUME NEW x \in File
  PROVE  Calm(x, CaptureOn(x)) /\ CaptureOn(x) \in File
<1>1. x.pending \in BOOLEAN /\ x.known \in BOOLEAN /\ x.out \in BOOLEAN
  BY FileTypes
<1>2. PICK b \in BOOLEAN, s \in BOOLEAN :
         b = (x.pending /\ ~x.known) /\ s = (x.stale \/ Outdated(x))
  BY FlagValues
<1> DEFINE y == [x EXCEPT !.cap = TRUE, !.pending = b, !.stale = s]
           z == chd_admit(y, x.out)
<1>3. CaptureOn(x) = chd_kick(z)
  BY <1>2 DEF CaptureOn
<1>4. y \in File /\ But(x, y, {"cap", "pending", "stale"})
  BY StreamEffect
<1> HIDE DEF y
<1>5. Calm(x, y)
  <2>1. {"cap", "pending", "stale"} \cap (Core \cup {"active"}) = {}
    BY DEF Core
  <2> QED
    BY <1>4, <2>1, ButCalm
<1>6. z \in File /\ Calm(y, z)
  BY <1>1, <1>4, CalmFunctions
<1> HIDE DEF z
<1>7. chd_kick(z) \in File /\ Calm(z, chd_kick(z))
  BY <1>6, CalmFunctions
<1>8. Calm(x, z)
  BY <1>5, <1>6, CalmTransitive
<1>9. Calm(x, chd_kick(z))
  BY <1>7, <1>8, CalmTransitive
<1> QED
  BY <1>3, <1>7, <1>9

LEMMA CaptureOffCalm ==
  ASSUME NEW x \in File
  PROVE  Calm(x, CaptureOff(x)) /\ CaptureOff(x) \in File
<1> DEFINE c == [x EXCEPT !.cap = FALSE]
           a == chd_return_active(c)
           y == chd_return_dst(a)
           z == chd_admit(y, TRUE)
<1>1. CaptureOff(x) = y \/ CaptureOff(x) = chd_kick(z)
  BY DEF CaptureOff, chd_stop_streaming
<1>2. c \in File /\ But(x, c, {"cap"})
  BY StreamEffect
<1> HIDE DEF c
<1>3. Calm(x, c)
  <2>1. {"cap"} \cap (Core \cup {"active"}) = {}
    BY DEF Core
  <2> QED
    BY <1>2, <2>1, ButCalm
<1>4. a \in File /\ Calm(c, a)
  BY <1>2, CalmFunctions
<1> HIDE DEF a
<1>5. y \in File /\ Calm(a, y)
  BY <1>4, CalmFunctions
<1> HIDE DEF y
<1>6. z \in File /\ Calm(y, z)
  BY <1>5, CalmFunctions
<1> HIDE DEF z
<1>7. chd_kick(z) \in File /\ Calm(z, chd_kick(z))
  BY <1>6, CalmFunctions
<1>8. Calm(x, y)
  BY <1>3, <1>4, <1>5, CalmTransitive
<1>9. Calm(x, chd_kick(z))
  BY <1>6, <1>7, <1>8, CalmTransitive
<1> QED
  BY <1>1, <1>5, <1>7, <1>8, <1>9

LEMMA ReallocateCalm ==
  ASSUME NEW x \in File
  PROVE  Calm(x, Reallocate(x)) /\ Reallocate(x) \in File
<1> DEFINE y == chd_return_dst(x)
           n == x.fmt
           z == [y EXCEPT !.alloc = n]
<1>1. y \in File /\ Calm(x, y)
  BY CalmFunctions
<1>2. Reallocate(x) = z
  BY DEF Reallocate
<1> HIDE DEF y
<1>3. n \in Nat
  BY FileTypes
<1> HIDE DEF n
<1>4. z \in File /\ But(y, z, {"alloc"})
  BY <1>1, <1>3, AllocEffect
<1> HIDE DEF z
<1>5. Calm(y, z)
  <2>1. {"alloc"} \cap (Core \cup {"active"}) = {}
    BY DEF Core
  <2> QED
    BY <1>4, <2>1, ButCalm
<1> QED
  BY <1>1, <1>2, <1>4, <1>5, CalmTransitive

LEMMA CompletedCalm ==
  ASSUME IInv, Posted, NEW r \in Answers(AUs)
  PROVE  Calm(f, Completed(r)) /\ Completed(r) \in File /\ Completed(r).faults = f.faults
<1> DEFINE y == IF f.known THEN [f EXCEPT !.active.res = r] ELSE [f EXCEPT !.disc.res = r]
<1>1. clip \in Clips /\ f \in File
  BY IInvFacts
<1>2. Completed(r) = chd_kick(y)
  BY DEF Completed
<1>3. y \in File /\ Calm(f, y)
  <2>1. CASE f.known
    <3>1. f.active # NONE
      BY <2>1 DEF Posted
    <3>2. y \in File /\ But(f, y, {"active"})
      BY <1>1, <2>1, <3>1, ActiveAnsweredEffect
    <3> HIDE DEF y
    <3> QED
      BY <3>1, <3>2 DEF But, Fields, Calm, Core
  <2>2. CASE ~f.known
    <3>1. f.disc # NONE
      BY <2>2 DEF Posted
    <3>2. y \in File /\ But(f, y, {"disc"})
      BY <1>1, <2>2, <3>1, DiscAnsweredEffect
    <3> HIDE DEF y
    <3>3. {"disc"} \cap (Core \cup {"active"}) = {}
      BY DEF Core
    <3> QED
      BY <3>2, <3>3, ButCalm
  <2> QED
    BY <2>1, <2>2
<1> HIDE DEF y
<1>4. chd_kick(y) \in File /\ Calm(y, chd_kick(y))
  BY <1>3, CalmFunctions
<1>5. Completed(r).faults = f.faults
  BY CompletedKeeps
<1> QED
  BY <1>2, <1>3, <1>4, <1>5, CalmTransitive

LEMMA FirmwareStep ==
  ASSUME IInv, Firmware
  PROVE  Step(f, shown, f', shown')
<1>1. clip \in Clips /\ fw \in Channel /\ f \in File
  BY IInvFacts
<1>2. shown' = shown
  BY DEF Firmware, fw_accept, fw_output, fw_fault
<1>3. CASE fw_accept
  <2> DEFINE y == [f EXCEPT !.tx = "sent"]
  <2>1. f' = y /\ y \in File /\ But(f, y, {"tx"})
    BY <1>1, <1>3, SentEffect DEF fw_accept
  <2> HIDE DEF y
  <2>2. {"tx"} \cap (Core \cup {"active"}) = {}
    BY DEF Core
  <2>3. Calm(f, f')
    BY <2>1, <2>2, ButCalm
  <2> QED
    BY <1>2, <2>3, CalmStep
<1>4. CASE fw_output
  <2>1. PICK r \in Answers(AUs) : f' = Completed(r)
    <3>1. CASE fw.held # <<>>
      <4> DEFINE a == Head(fw.held)
                 n == clip.aus[a].fmt
      <4>1. fw.held \in Seq(AUs)
        BY <1>1, ChannelTypes
      <4>2. a \in AUs
        BY <3>1, <4>1
      <4>3. n \in Nat
        BY <1>1, <4>2, ClipTypes
      <4>4. \/ f' = Completed([kind |-> "format", au |-> a, fmt |-> n])
            \/ \E k \in {"picture", "error"} : f' = Completed([kind |-> k, au |-> a])
        BY <1>4, <3>1 DEF fw_output
      <4> HIDE DEF a, n
      <4>5. [kind |-> "format", au |-> a, fmt |-> n] \in Answers(AUs)
        BY <4>2, <4>3 DEF Answers
      <4>6. \A k \in {"picture", "error"} : [kind |-> k, au |-> a] \in Answers(AUs)
        BY <4>2 DEF Answers
      <4> QED
        BY <4>4, <4>5, <4>6
    <3>2. CASE fw.held = <<>>
      <4>1. f' = Completed([kind |-> "eos"])
        BY <1>4, <3>2 DEF fw_output
      <4>2. [kind |-> "eos"] \in Answers(AUs)
        BY DEF Answers
      <4> QED
        BY <4>1, <4>2
    <3> QED
      BY <3>1, <3>2
  <2>2. Calm(f, f')
    BY <1>4, <2>1, CompletedCalm DEF fw_output
  <2> QED
    BY <1>2, <2>2, CalmStep
<1>5. CASE fw_fault
  <2> DEFINE e == [kind |-> "eos"]
             y == Completed(e)
  <2>1. /\ f.faults < MaxFault
        /\ \/ f' = Faulty(f)
           \/ Posted /\ f' = Faulty(y)
    <3>1. \/ fw.held # <<>> /\ fw' = [fw EXCEPT !.held = Tail(fw.held)] /\ f' = Faulty(f)
          \/ Posted /\ f' = Faulty(y) /\ fw' = fw
          \/ fw' = [fw EXCEPT !.hung = TRUE] /\ f' = Faulty(f)
      BY <1>5 DEF fw_fault
    <3>2. f.faults < MaxFault
      BY <1>5 DEF fw_fault
    <3> QED
      BY <3>1, <3>2
  <2>2. e \in Answers(AUs)
    BY DEF Answers
  <2> HIDE DEF e
  <2>3. CASE f' = Faulty(f)
    BY <1>1, <1>2, <2>1, <2>3, CalmFunctions, CalmStep
  <2>4. CASE Posted /\ f' = Faulty(y)
    <3>1. Calm(f, y) /\ y \in File /\ y.faults = f.faults
      BY <2>2, <2>4, CompletedCalm
    <3> HIDE DEF y
    <3>2. Calm(y, f')
      BY <2>1, <2>4, <3>1, CalmFunctions
    <3>3. Calm(f, f')
      BY <3>1, <3>2, CalmTransitive
    <3> QED
      BY <1>2, <3>3, CalmStep
  <2> QED
    BY <2>1, <2>3, <2>4
<1> QED
  BY <1>3, <1>4, <1>5 DEF Firmware

\* The ioctls that change neither the stream nor its drain.
LEMMA QuietIoctlStep ==
  ASSUME IInv,
         \/ chd_qbuf_capture \/ chd_streamon_output \/ chd_streamon_capture
         \/ chd_streamoff_output \/ chd_streamoff_capture \/ chd_decoder_cmd_start
         \/ chd_reqbufs \/ chd_release
  PROVE  Step(f, shown, f', shown')
<1>1. clip \in Clips /\ f \in File
  BY IInvFacts
<1>2. shown' = shown
  BY DEF chd_qbuf_capture, chd_streamon_output, chd_streamon_capture, Quiet, Join,
         chd_streamoff_output, chd_streamoff_capture, chd_decoder_cmd_start,
         chd_reqbufs, chd_release
<1>3. ASSUME NEW op, Join(op, f)
      PROVE  Calm(f, f')
  BY <1>1, <1>3, JoinCalm DEF Join
<1>4. CASE chd_qbuf_capture
  <2> DEFINE y == [f EXCEPT !.dst = Append(@, f.fmt), !.held = @ - 1]
  <2>1. f' = chd_kick(y) /\ f.held > 0
    BY <1>4 DEF chd_qbuf_capture
  <2>2. y \in File /\ But(f, y, {"dst", "held"})
    BY <1>1, <2>1, QueuedBufferEffect
  <2> HIDE DEF y
  <2>3. {"dst", "held"} \cap (Core \cup {"active"}) = {}
    BY DEF Core
  <2>4. Calm(f, y)
    BY <2>2, <2>3, ButCalm
  <2>5. Calm(y, f')
    BY <2>1, <2>2, CalmFunctions
  <2> QED
    BY <1>2, <2>4, <2>5, CalmTransitive, CalmStep
<1>5. CASE chd_streamon_output
  <2> DEFINE y == [f EXCEPT !.out = TRUE, !.session = TRUE]
             z == chd_admit(y, TRUE)
  <2>1. f' = chd_kick(z)
    BY <1>5 DEF chd_streamon_output
  <2>2. y \in File /\ But(f, y, {"out", "session"})
    BY <1>1, StreamEffect
  <2> HIDE DEF y
  <2>3. {"out", "session"} \cap (Core \cup {"active"}) = {}
    BY DEF Core
  <2>4. Calm(f, y)
    BY <2>2, <2>3, ButCalm
  <2>5. Calm(y, z) /\ z \in File
    BY <2>2, CalmFunctions
  <2> HIDE DEF z
  <2>6. Calm(z, f')
    BY <2>1, <2>5, CalmFunctions
  <2> QED
    BY <1>2, <2>4, <2>5, <2>6, CalmTransitive, CalmStep
<1>6. CASE chd_streamon_capture
  <2>1. Join("resume_on", f) \/ f' = CaptureOn(f)
    BY <1>6 DEF chd_streamon_capture
  <2> QED
    BY <1>1, <1>2, <1>3, <2>1, CaptureOnCalm, CalmStep
<1>7. CASE chd_streamoff_output
  BY <1>2, <1>3, <1>7, CalmStep DEF chd_streamoff_output
<1>8. CASE chd_streamoff_capture
  <2> DEFINE y == [f EXCEPT !.run = FALSE]
             z == chd_admit(y, FALSE)
  <2>1. Join("off_capture", f) \/ f' = CaptureOff(z)
    BY <1>8 DEF chd_streamoff_capture
  <2>2. y \in File /\ But(f, y, {"run"})
    BY <1>1, SetRunEffect
  <2> HIDE DEF y
  <2>3. {"run"} \cap (Core \cup {"active"}) = {}
    BY DEF Core
  <2>4. Calm(f, y)
    BY <2>2, <2>3, ButCalm
  <2>5. Calm(y, z) /\ z \in File
    BY <2>2, CalmFunctions
  <2> HIDE DEF z
  <2>6. Calm(z, CaptureOff(z))
    BY <2>5, CaptureOffCalm
  <2>7. Calm(f, CaptureOff(z))
    BY <2>4, <2>5, <2>6, CalmTransitive
  <2> QED
    BY <1>2, <1>3, <2>1, <2>7, CalmStep
<1>9. CASE chd_decoder_cmd_start
  <2> DEFINE y == chd_reuse_capture(f)
  <2>1. Join("resume_cmd", f) \/ f' = chd_kick(y)
    BY <1>9 DEF chd_decoder_cmd_start
  <2>2. y \in File /\ But(f, y, {"pending", "dst"})
    BY <1>1, ReuseEffect
  <2> HIDE DEF y
  <2>3. {"pending", "dst"} \cap (Core \cup {"active"}) = {}
    BY DEF Core
  <2>4. Calm(f, y)
    BY <2>2, <2>3, ButCalm
  <2>5. Calm(y, chd_kick(y))
    BY <2>2, CalmFunctions
  <2>6. Calm(f, chd_kick(y))
    BY <2>4, <2>5, CalmTransitive
  <2> QED
    BY <1>2, <1>3, <2>1, <2>6, CalmStep
<1>10. CASE chd_reqbufs
  <2>1. Join("reqbufs", f) \/ f' = Reallocate(f)
    BY <1>10 DEF chd_reqbufs
  <2> QED
    BY <1>1, <1>2, <1>3, <2>1, ReallocateCalm, CalmStep
<1>11. CASE chd_release
  <2> DEFINE y == [f EXCEPT !.closing = TRUE, !.admitted = FALSE]
  <2>1. f' = chd_join_begin(y)
    BY <1>11 DEF chd_release, Join
  <2>2. y \in File /\ But(f, y, {"closing", "admitted"})
    BY <1>1, JoinEffect
  <2> HIDE DEF y
  <2>3. {"closing", "admitted"} \cap (Core \cup {"active"}) = {}
    BY DEF Core
  <2>4. Calm(f, y)
    BY <2>2, <2>3, ButCalm
  <2>5. Calm(y, f')
    BY <2>1, <2>2, JoinCalm
  <2> QED
    BY <1>2, <2>4, <2>5, CalmTransitive, CalmStep
<1> QED
  BY <1>4, <1>5, <1>6, <1>7, <1>8, <1>9, <1>10, <1>11

-----------------------------------------------------------------------------
(* Input.                                                                  *)

LEMMA InsideTypes ==
  ASSUME NEW x \in File
  PROVE  Inside(x) \in SUBSET AUs /\ x.src \in Seq(AUs) /\ Len(x.src) \in Nat
<1>1. x.tokens \in SUBSET AUs /\ x.src \in Seq(AUs)
  BY FileTypes DEF Ledgers, Sources
<1>2. x.staged # NONE => x.staged.au \in AUs
  BY FileTypes DEF StagedPictures, Copies
<1> QED
  BY <1>1, <1>2 DEF Inside

\* What Append and Tail do to the access units of a queue.
LEMMA AppendRange ==
  ASSUME NEW S, NEW s \in Seq(S), NEW a \in S, NEW t, t = Append(s, a)
  PROVE  /\ Len(t) = Len(s) + 1 /\ t[Len(s) + 1] = a
         /\ \A i \in 1 .. Len(s) : t[i] = s[i]
  OBVIOUS

LEMMA FrontSame ==
  ASSUME NEW s, NEW t, NEW n \in Nat, \A i \in 1 .. n : t[i] = s[i]
  PROVE  Front(t, n) = Front(s, n)
  BY DEF Front

LEMMA FrontNext ==
  ASSUME NEW s, NEW n \in Nat, NEW m, m = n + 1
  PROVE  Front(s, m) = Front(s, n) \cup {s[m]}
  BY DEF Front

LEMMA ShiftRange ==
  ASSUME NEW s, NEW t, NEW n \in Nat, NEW m, m = n + 1,
         \A i \in 1 .. n : t[i] = s[i + 1]
  PROVE  Front(s, m) = {s[1]} \cup Front(t, n)
<1>1. ASSUME NEW i \in 1 .. (n + 1)
      PROVE  s[i] \in {s[1]} \cup Front(t, n)
  <2>1. i = 1 \/ ((i - 1) \in 1 .. n /\ (i - 1) + 1 = i)
    OBVIOUS
  <2>2. ASSUME (i - 1) \in 1 .. n, (i - 1) + 1 = i
        PROVE  t[i - 1] = s[i]
    BY <2>2
  <2> QED
    BY <2>1, <2>2 DEF Front
<1>2. ASSUME NEW i \in 1 .. n
      PROVE  t[i] \in Front(s, m)
  <2>1. i + 1 \in 1 .. (n + 1)
    OBVIOUS
  <2> QED
    BY <2>1 DEF Front
<1>3. s[1] \in Front(s, m)
  <2>1. 1 \in 1 .. (n + 1)
    OBVIOUS
  <2> QED
    BY <2>1 DEF Front
<1> QED
  BY <1>1, <1>2, <1>3 DEF Front

LEMMA TailRange ==
  ASSUME NEW S, NEW s \in Seq(S), s # <<>>, NEW t, t = Tail(s)
  PROVE  /\ Len(s) \in Nat \ {0} /\ Len(t) = Len(s) - 1 /\ t \in Seq(S)
         /\ Head(s) = s[1] /\ \A i \in 1 .. Len(t) : t[i] = s[i + 1]
  OBVIOUS

LEMMA NextEffect ==
  ASSUME NEW x \in File, NEW a
  PROVE  [x EXCEPT !.src = Append(@, a), !.next = @ + 1].next = x.next + 1
  BY DEF File

LEMMA QbufOutputStep ==
  ASSUME IInv, chd_qbuf_output
  PROVE  Step(f, shown, f', shown')
<1> DEFINE a == f.next
           y == [f EXCEPT !.src = Append(@, f.next), !.next = @ + 1]
<1>1. clip \in Clips /\ f \in File /\ shown \in SUBSET AUs /\ InputOK(f)
  BY IInvFacts
<1>2. a \in AUs /\ f' = chd_kick(y) /\ shown' = shown /\ ~f.fatal
  BY DEF chd_qbuf_output, Quiet
<1>3. y \in File /\ But(f, y, {"src", "next"}) /\ y.src = Append(f.src, a)
  BY <1>1, <1>2, QueuedInputEffect
<1>4. y.next = a + 1
  BY <1>1, NextEffect
<1> HIDE DEF y
<1>5. /\ y.txau = f.txau /\ y.staged = f.staged /\ y.tokens = f.tokens
      /\ y.phase = f.phase /\ y.left = f.left /\ y.drain = f.drain /\ y.seen = f.seen
      /\ y.epoch = f.epoch /\ y.fatal = f.fatal /\ y.active = f.active
  BY <1>3 DEF But, Fields
<1>6. /\ Inside(f) \in SUBSET AUs /\ f.src \in Seq(AUs) /\ Len(f.src) \in Nat
      /\ AUs \in SUBSET Nat /\ a \in Nat
  BY <1>1, <1>2, InsideTypes, ClipTypes
<1>7. Inside(y) = Inside(f) /\ Mode(y) = Mode(f)
  BY <1>5 DEF Inside, Mode
<1>8. /\ Len(y.src) = Len(f.src) + 1 /\ y.src[Len(f.src) + 1] = a
      /\ \A i \in 1 .. Len(f.src) : y.src[i] = f.src[i]
  BY <1>2, <1>3, <1>6, AppendRange
<1>12. Front(y.src, Len(y.src)) = Front(f.src, Len(f.src)) \cup {a}
  <2>0. Len(f.src) \in Nat /\ Len(y.src) = Len(f.src) + 1
    BY <1>6, <1>8
  <2>1. Front(y.src, Len(f.src)) = Front(f.src, Len(f.src))
    BY <1>6, <1>8, FrontSame
  <2>2. Front(y.src, Len(y.src)) = Front(y.src, Len(f.src)) \cup {y.src[Len(y.src)]}
    BY <2>0, FrontNext, Zenon
  <2> QED
    BY <1>8, <2>1, <2>2
<1>9. ASSUME StreamInv(f, shown)
      PROVE  StreamInv(y, shown) /\ Simulated(f, shown, y, shown)
  <2>1. QueueOK(f, shown) /\ DrainOK(f)
    BY <1>2, <1>9 DEF StreamInv
  <2> HIDE DEF a
  <2>2. a \notin Inside(f) \cup shown /\ \A i \in 1 .. Len(f.src) : f.src[i] # a
    BY <1>6, <2>1 DEF QueueOK, a
  <2>3. QueueOK(y, shown)
    <3>1. \A i \in 1 .. Len(y.src) : i \in 1 .. Len(f.src) \/ (i = Len(f.src) + 1 /\ y.src[i] = a)
      BY <1>6, <1>8
    <3>2. \A i \in 1 .. Len(f.src) : f.src[i] \in Nat
      BY <1>6, SeqElement
    <3>3. ASSUME NEW i \in 1 .. Len(y.src)
          PROVE  y.src[i] < y.next
      <4>1. CASE i \in 1 .. Len(f.src)
        <5>1. y.src[i] = f.src[i] /\ f.src[i] \in Nat /\ f.src[i] < a
          BY <1>8, <2>1, <3>2, <4>1 DEF QueueOK, a
        <5> QED
          BY <1>4, <1>6, <5>1
      <4>2. CASE y.src[i] = a
        BY <1>4, <1>6, <4>2
      <4> QED
        BY <3>1, <4>1, <4>2
    <3>4. \A i, j \in 1 .. Len(y.src) : y.src[i] = y.src[j] => i = j
      BY <1>8, <2>1, <2>2, <3>1 DEF QueueOK
    <3>5. ASSUME NEW b \in Inside(y) \cup shown
          PROVE  b < y.next
      <4>1. b \in Nat /\ b \in Inside(f) \cup shown
        BY <1>1, <1>6, <1>7
      <4>2. b < a
        BY <2>1, <4>1 DEF QueueOK, a
      <4> QED
        BY <1>4, <1>6, <4>1, <4>2
    <3>6. \A i \in 1 .. Len(y.src) : y.src[i] \in Inside(y) \cup shown => i = 1 /\ y.txau # EOS
      BY <1>5, <1>7, <1>8, <2>1, <2>2, <3>1 DEF QueueOK
    <3>7. y.txau # EOS => y.txau \in Inside(y) \cup shown
      BY <1>5, <1>7, <2>1 DEF QueueOK
    <3> QED
      BY <3>3, <3>4, <3>5, <3>6, <3>7 DEF QueueOK
  <2>4. DrainOK(y)
    BY <1>5, <1>7, <2>1 DEF DrainOK
  <2>5. Owed(y, shown) = Owed(f, shown) \cup {a} /\ a \notin Owed(f, shown)
    <3>1. a \notin Front(f.src, Len(f.src))
      BY <2>2 DEF Front
    <3> QED
      BY <1>7, <1>12, <2>2, <3>1 DEF Owed, Waiting
  <2>6. Due(y, shown) = Due(f, shown)
    <3>1. f.left \in Nat /\ f.left <= Len(f.src)
      BY <1>1, FileTypes DEF InputOK
    <3>2. Waiting(y, shown, f.left) = Waiting(f, shown, f.left)
      <4>1. \A i \in 1 .. f.left : y.src[i] = f.src[i]
        BY <1>6, <1>8, <3>1
      <4>2. Front(y.src, f.left) = Front(f.src, f.left)
        BY <3>1, <4>1, FrontSame
      <4> QED
        BY <4>2 DEF Waiting
    <3> QED
      BY <1>5, <1>7, <3>2 DEF Due
  <2>7. Mode(f) # "dead"
    BY <1>2 DEF Mode
  <2>8. QueuedOne(f, shown, y, shown, a)
    BY <1>5, <1>7, <2>2, <2>5, <2>6, <2>7 DEF QueuedOne
  <2> QED
    BY <1>2, <2>3, <2>4, <2>8 DEF StreamInv, Simulated, a
<1>10. Step(f, shown, y, shown)
  BY <1>9 DEF Step
<1>11. Calm(y, f')
  BY <1>2, <1>3, CalmFunctions
<1> QED
  BY <1>2, <1>10, <1>11, ThenCalm

LEMMA StopStep ==
  ASSUME IInv, chd_decoder_cmd_stop
  PROVE  Step(f, shown, f', shown')
<1> DEFINE n == Len(f.src)
           y == [f EXCEPT !.drain = TRUE, !.left = n]
<1>1. f \in File
  BY IInvFacts
<1>2. shown' = shown /\ ~f.fatal
  BY DEF chd_decoder_cmd_stop, Quiet
<1>3. \/ f' = chd_kick(f)
      \/ f.phase # "DRAINED" /\ ~f.drain /\ f' = chd_kick(y)
  BY DEF chd_decoder_cmd_stop
<1>4. n \in Nat
  BY <1>1, InsideTypes
<1>5. y \in File /\ But(f, y, {"drain", "left"}) /\ y.drain = TRUE /\ y.left = n
  BY <1>1, <1>4, StopEffect
<1> HIDE DEF y
<1>6. CASE f' = chd_kick(f)
  BY <1>1, <1>2, <1>6, CalmFunctions, CalmStep
<1>7. CASE f.phase # "DRAINED" /\ ~f.drain /\ f' = chd_kick(y)
  <2>1. /\ y.src = f.src /\ y.txau = f.txau /\ y.staged = f.staged /\ y.tokens = f.tokens
        /\ y.phase = f.phase /\ y.seen = f.seen /\ y.next = f.next
        /\ y.epoch = f.epoch /\ y.fatal = f.fatal /\ y.active = f.active
    BY <1>5 DEF But, Fields
  <2>2. Inside(y) = Inside(f) /\ Owed(y, shown) = Owed(f, shown)
    BY <2>1 DEF Inside, Owed, Waiting
  <2>3. Due(y, shown) = Owed(f, shown)
    BY <1>2, <1>5, <2>1, <2>2 DEF Due, Owed, Waiting
  <2>4. Mode(f) = "decode" /\ Mode(y) = "drain"
    BY <1>2, <1>5, <1>7, <2>1 DEF Mode
  <2>5. Stopped(f, shown, y, shown)
    BY <2>1, <2>2, <2>3, <2>4 DEF Stopped, Unmoved
  <2>6. QueueOK(f, shown) => QueueOK(y, shown)
    BY <2>1, <2>2 DEF QueueOK
  <2>7. DrainOK(f) => DrainOK(y)
    BY <1>5, <1>7, <2>1, <2>2 DEF DrainOK
  <2>8. Step(f, shown, y, shown)
    BY <2>1, <2>5, <2>6, <2>7 DEF Step, StreamInv, Simulated
  <2>9. Calm(y, f')
    BY <1>5, <1>7, CalmFunctions
  <2> QED
    BY <1>2, <2>8, <2>9, ThenCalm
<1> QED
  BY <1>3, <1>6, <1>7

-----------------------------------------------------------------------------
(* chd_tx_run.                                                             *)

LEMMA InactiveCalm ==
  ASSUME NEW x \in File, x.txau = EOS
  PROVE  Calm(x, TxInactive(x)) /\ TxInactive(x) \in File
<1> DEFINE y == [x EXCEPT !.tx = "idle", !.txau = EOS, !.txActive = FALSE]
<1>1. y \in File /\ But(x, y, {"tx", "txau", "txActive"}) /\ y.txau = EOS
  BY InactiveEffect
<1>2. TxInactive(x) = chd_kick(y)
  BY DEF TxInactive
<1> HIDE DEF y
<1>3. Calm(x, y)
  BY <1>1 DEF But, Fields, Calm, Core
<1>4. Calm(y, chd_kick(y)) /\ chd_kick(y) \in File
  BY <1>1, CalmFunctions
<1> QED
  BY <1>2, <1>3, <1>4, CalmTransitive

\* The queue and the file after TxInactive, whatever was on the wire.
LEMMA InactiveFields ==
  ASSUME NEW x \in File
  PROVE  LET y == TxInactive(x)
         IN  /\ y \in File /\ But(x, y, {"tx", "txau", "txActive", "run"})
             /\ y.txau = EOS /\ y.tx = "idle" /\ y.txActive = FALSE
<1> DEFINE y == [x EXCEPT !.tx = "idle", !.txau = EOS, !.txActive = FALSE]
           z == chd_kick(y)
<1>1. /\ y \in File /\ But(x, y, {"tx", "txau", "txActive"}) /\ y.txau = EOS
      /\ y.tx = "idle" /\ y.txActive = FALSE
  BY InactiveEffect
<1>2. TxInactive(x) = z
  BY DEF TxInactive
<1> HIDE DEF y
<1>3. z \in File /\ But(y, z, {"run"})
  BY <1>1, KickEffect
<1> HIDE DEF z
<1>4. But(x, z, {"tx", "txau", "txActive", "run"})
  BY <1>1, <1>3 DEF But
<1>5. z.txau = EOS /\ z.tx = "idle" /\ z.txActive = FALSE
  BY <1>1, <1>3 DEF But, Fields
<1> QED
  BY <1>2, <1>3, <1>4, <1>5

HeadLeft(x, y) ==
    /\ y.src = Tail(x.src)
    /\ y.left = (IF x.drain /\ x.left > 0 THEN x.left - 1 ELSE x.left)

LEMMA SrcDoneValues ==
  ASSUME NEW x \in File
  PROVE  HeadLeft(x, SrcDone(x))
  BY DEF File, SrcDone, HeadLeft

Shifted(x, y, n) == \A i \in 1 .. n : y.src[i] = x.src[i + 1]

LEMMA ShiftSources ==
  ASSUME NEW x, NEW y, NEW n, NEW m, n \in Nat, m = n + 1, Shifted(x, y, n)
  PROVE  Front(x.src, m) = {x.src[1]} \cup Front(y.src, n)
<1> DEFINE s == x.src
           t == y.src
<1>1. \A i \in 1 .. n : t[i] = s[i + 1]
  BY DEF Shifted
<1> HIDE DEF s, t
<1>2. Front(s, m) = {s[1]} \cup Front(t, n)
  BY <1>1, ShiftRange
<1> QED
  BY <1>2 DEF s, t

\* The head of the source queue leaves it: it is in the decoder or answered.
LEMMA SrcDoneStep ==
  ASSUME NEW x \in File, NEW sh, InputOK(x), x.txau # EOS, NEW y \in File,
         But(x, y, {"src", "left", "tx", "txau", "txActive", "run"}), y.txau = EOS,
         HeadLeft(x, y)
  PROVE  Step(x, sh, y, sh) /\ Owed(y, sh) \subseteq Owed(x, sh)
<1>1. /\ y.staged = x.staged /\ y.tokens = x.tokens /\ y.drain = x.drain
      /\ y.phase = x.phase /\ y.seen = x.seen /\ y.next = x.next
      /\ y.epoch = x.epoch /\ y.fatal = x.fatal /\ y.active = x.active
  BY DEF But, Fields
<1>2. x.src # <<>> /\ Head(x.src) = x.txau /\ x.left <= Len(x.src)
      /\ (~x.drain => x.left = 0) /\ x.left \in Nat /\ x.src \in Seq(AUs)
  BY FileTypes DEF InputOK, Sources
<1>3. /\ Len(x.src) \in Nat \ {0} /\ Len(y.src) = Len(x.src) - 1
      /\ Head(x.src) = x.src[1]
      /\ \A i \in 1 .. Len(y.src) : y.src[i] = x.src[i + 1]
  BY <1>2, TailRange DEF HeadLeft
<1>9. y.left = (IF x.drain /\ x.left > 0 THEN x.left - 1 ELSE x.left)
  BY DEF HeadLeft
<1>4. Inside(y) = Inside(x) /\ Mode(y) = Mode(x)
  BY <1>1 DEF Inside, Mode
<1>5. Front(x.src, Len(x.src)) = {x.txau} \cup Front(y.src, Len(y.src))
  <2>1. Len(y.src) \in Nat /\ Len(x.src) = Len(y.src) + 1
    BY <1>3
  <2>4. Shifted(x, y, Len(y.src))
    BY <1>3 DEF Shifted
  <2>2. Front(x.src, Len(x.src)) = {x.src[1]} \cup Front(y.src, Len(y.src))
    BY <2>1, <2>4, ShiftSources
  <2>3. x.src[1] = x.txau
    BY <1>2, <1>3
  <2> QED
    BY <2>1, <2>2, <2>3
<1>6. Owed(y, sh) \subseteq Owed(x, sh)
  BY <1>4, <1>5 DEF Owed, Waiting
<1>7. CASE x.fatal
  BY <1>1, <1>6, <1>7, FailStep
<1>8. CASE ~x.fatal
  <2>1. ASSUME QueueOK(x, sh), DrainOK(x)
        PROVE  QueueOK(y, sh) /\ DrainOK(y) /\ Stuttered(x, sh, y, sh)
    <3>1. x.txau \in Inside(x) \cup sh
      BY <2>1 DEF QueueOK
    <3>2. Owed(y, sh) = Owed(x, sh)
      BY <1>4, <1>5, <3>1 DEF Owed, Waiting
    <3>3. Due(y, sh) = Due(x, sh)
      <4>1. CASE x.left > 0
        <5>1. x.drain /\ y.left = x.left - 1
          BY <1>2, <1>9, <4>1
        <5>2. Front(x.src, x.left) = {x.txau} \cup Front(y.src, y.left)
          <6>1. y.left \in Nat /\ x.left = y.left + 1
            BY <1>2, <4>1, <5>1
          <6>2. Shifted(x, y, y.left)
            BY <1>2, <1>3, <6>1 DEF Shifted
          <6>3. Front(x.src, x.left) = {x.src[1]} \cup Front(y.src, y.left)
            BY <6>1, <6>2, ShiftSources
          <6>4. x.src[1] = x.txau
            BY <1>2, <1>3
          <6> QED
            BY <6>1, <6>3, <6>4
        <5> QED
          BY <1>1, <1>4, <3>1, <5>1, <5>2 DEF Due, Waiting
      <4>2. CASE x.left = 0
        <5>1. y.left = 0
          BY <1>9, <4>2
        <5>2. Front(x.src, 0) = {} /\ Front(y.src, 0) = {}
          BY DEF Front
        <5>3. Waiting(x, sh, x.left) = {} /\ Waiting(y, sh, y.left) = {}
          BY <4>2, <5>1, <5>2 DEF Waiting
        <5> QED
          BY <1>1, <1>4, <5>3 DEF Due
      <4> QED
        BY <1>2, <4>1, <4>2
    <3>4. \A i \in 1 .. Len(y.src) : i + 1 \in 1 .. Len(x.src) /\ i + 1 # 1
      BY <1>3
    <3>5. QueueOK(y, sh)
      <4>1. \A i \in 1 .. Len(y.src) : y.src[i] < y.next
        BY <1>1, <1>3, <2>1, <3>4 DEF QueueOK
      <4>2. \A i, j \in 1 .. Len(y.src) : y.src[i] = y.src[j] => i = j
        <5> SUFFICES ASSUME NEW i \in 1 .. Len(y.src), NEW j \in 1 .. Len(y.src),
                            y.src[i] = y.src[j]
                     PROVE  i = j
          OBVIOUS
        <5>1. i + 1 = j + 1
          BY <1>3, <2>1, <3>4 DEF QueueOK
        <5> QED
          BY <5>1
      <4>3. \A i \in 1 .. Len(y.src) : y.src[i] \notin Inside(y) \cup sh
        BY <1>3, <1>4, <2>1, <3>4 DEF QueueOK
      <4>4. \A b \in Inside(y) \cup sh : b < y.next
        BY <1>1, <1>4, <2>1 DEF QueueOK
      <4> QED
        BY <4>1, <4>2, <4>3, <4>4 DEF QueueOK
    <3>6. DrainOK(y)
      <4>1. x.left = 0 => y.left = 0
        BY <1>2, <1>9
      <4> QED
        BY <1>1, <1>4, <2>1, <4>1 DEF DrainOK
    <3> QED
      BY <1>1, <1>4, <3>2, <3>3, <3>5, <3>6 DEF Stuttered, Unmoved
  <2> QED
    BY <1>1, <1>6, <1>8, <2>1 DEF Step, StreamInv, Simulated
<1> QED
  BY <1>6, <1>7, <1>8

\* The second half of chd_tx_run after an error.
LEMMA TxErrorStep ==
  ASSUME NEW x, FileInv(x), NEW sh, NEW y \in TxError(x)
  PROVE  Step(x, sh, y, sh)
<1>1. x \in File /\ InputOK(x)
  BY DEF FileInv
<1>2. PICK z : /\ z = x \/ (x.txau # EOS /\ z = SrcDone(x))
               /\ y = TxInactive(chd_error(crystalhd_v4l2_decoder_submitted(z)))
  BY DEF TxError
<1>3. /\ z \in File /\ z.epoch = x.epoch /\ Owed(z, sh) \subseteq Owed(x, sh)
  <2>1. CASE z = x
    BY <1>1, <2>1
  <2>2. CASE x.txau # EOS /\ z = SrcDone(x)
    <3>1. x.src # <<>> /\ x.left <= Len(x.src) /\ (~x.drain => x.left = 0)
          /\ x.src \in Seq(AUs)
      BY <1>1, <2>2, FileTypes DEF InputOK, Sources
    <3>2. z \in File /\ But(x, z, {"src", "left"}) /\ z.src = Tail(x.src)
      BY <1>1, <2>2, <3>1, SrcDoneEffect, SrcDoneValues DEF HeadLeft
    <3>3. z.staged = x.staged /\ z.tokens = x.tokens /\ z.epoch = x.epoch
      BY <3>2 DEF But, Fields
    <3>4. Inside(z) = Inside(x)
      BY <3>3 DEF Inside
    <3>5. Front(z.src, Len(z.src)) \subseteq Front(x.src, Len(x.src))
      <4>1. /\ Len(x.src) \in Nat \ {0} /\ Len(z.src) = Len(x.src) - 1
            /\ \A i \in 1 .. Len(z.src) : z.src[i] = x.src[i + 1]
        BY <3>1, <3>2, TailRange
      <4>2. \A i \in 1 .. Len(z.src) : i + 1 \in 1 .. Len(x.src)
        BY <4>1
      <4> QED
        BY <4>1, <4>2 DEF Front
    <3> QED
      BY <3>2, <3>3, <3>4, <3>5 DEF Owed, Waiting
  <2> QED
    BY <1>2, <2>1, <2>2
<1> DEFINE s == crystalhd_v4l2_decoder_submitted(z)
           e == chd_error(s)
<1>4. s \in File /\ But(z, s, {"phase"})
  BY <1>3, SubmittedEffect
<1> HIDE DEF s
<1>5. e \in File /\ But(s, e, {"fatal", "admitted", "txStopping"}) /\ e.fatal = TRUE
  BY <1>4, ErrorEffect
<1> HIDE DEF e
<1>6. y \in File /\ But(e, y, {"tx", "txau", "txActive", "run"})
  BY <1>2, <1>5, InactiveFields DEF s, e
<1>7. /\ y.src = z.src /\ y.staged = z.staged /\ y.tokens = z.tokens
      /\ y.epoch = z.epoch /\ y.fatal = TRUE
  BY <1>4, <1>5, <1>6 DEF But, Fields
<1>8. Owed(y, sh) = Owed(z, sh)
  BY <1>7 DEF Owed, Waiting, Inside
<1> QED
  BY <1>3, <1>7, <1>8, FailStep

\* An access unit that the decoder takes was in the snapshot of a drain.
LEMMA ReserveStep ==
  ASSUME clip \in Clips, NEW x, FileInv(x), x.tx = "queued", NEW sh \in SUBSET AUs,
         chd_next_input(x) # NONE, ~TxRefused(x)
  PROVE  Step(x, sh, [crystalhd_v4l2_reserve_input(x) EXCEPT
                         !.seen = TRUE, !.tx = "wire", !.txau = Head(x.src)], sh)
<1> DEFINE a == Head(x.src)
           t == x.tokens \cup {a}
           y == OnWire(x, t, a)
<1>1. x \in File /\ InputOK(x)
  BY DEF FileInv
<1>2. x.src \in Seq(AUs) /\ x.tokens \in SUBSET AUs /\ x.left \in Nat
  BY <1>1, FileTypes DEF Sources, Ledgers
<1>3. x.src # <<>> /\ ~(x.drain /\ x.left = 0)
  BY DEF chd_next_input
<1>4. a \in AUs /\ t \in Ledgers
  BY <1>2, <1>3 DEF Ledgers
<1>5. [crystalhd_v4l2_reserve_input(x) EXCEPT
          !.seen = TRUE, !.tx = "wire", !.txau = Head(x.src)] = y
  BY DEF crystalhd_v4l2_reserve_input, OnWire
<1>6. a # EOS /\ a = x.src[1] /\ Len(x.src) \in Nat /\ 1 \in 1 .. Len(x.src)
  <2>1. a = x.src[1] /\ Len(x.src) \in Nat \ {0}
    BY <1>2, <1>3, TailRange
  <2> QED
    BY <1>4, <2>1, ClipTypes
<1>7. t = x.tokens \cup {a}
  OBVIOUS
<1> HIDE DEF t, a
<1>8. /\ y \in File /\ But(x, y, {"tokens", "seen", "tx", "txau"})
      /\ y.tokens = t /\ y.seen = TRUE /\ y.tx = "wire" /\ y.txau = a
  BY <1>1, <1>4, OnWireEffect
<1> HIDE DEF y
<1>9. /\ y.src = x.src /\ y.staged = x.staged /\ y.drain = x.drain /\ y.left = x.left
      /\ y.phase = x.phase /\ y.next = x.next
      /\ y.epoch = x.epoch /\ y.fatal = x.fatal /\ y.active = x.active
  BY <1>8 DEF But, Fields
<1>10. Inside(y) = Inside(x) \cup {a} /\ Mode(y) = Mode(x)
  BY <1>7, <1>8, <1>9 DEF Inside, Mode
<1>11. a \in Front(x.src, Len(x.src))
  BY <1>6 DEF Front
<1>12. x.drain => a \in Front(x.src, x.left)
  <2>1. x.drain => 1 \in 1 .. x.left
    BY <1>2, <1>3
  <2> QED
    BY <1>6, <2>1 DEF Front
<1>13. x.txau = EOS
  BY <1>1 DEF InputOK
<1>14. ASSUME QueueOK(x, sh), DrainOK(x)
       PROVE  QueueOK(y, sh) /\ DrainOK(y) /\ Stuttered(x, sh, y, sh)
  <2>1. a \notin Inside(x) \cup sh
    BY <1>6, <1>13, <1>14 DEF QueueOK
  <2>2. Owed(y, sh) = Owed(x, sh)
    BY <1>9, <1>10, <1>11, <2>1 DEF Owed, Waiting
  <2>3. Due(y, sh) = Due(x, sh)
    BY <1>9, <1>10, <1>12, <2>1 DEF Due, Waiting
  <2>4. QueueOK(y, sh)
    <3>1. a < x.next
      BY <1>6, <1>14 DEF QueueOK
    <3>2. \A b \in Inside(y) \cup sh : b < y.next
      BY <1>9, <1>10, <1>14, <3>1 DEF QueueOK
    <3>3. \A i \in 1 .. Len(x.src) : x.src[i] \in Inside(y) \cup sh => i = 1
      BY <1>6, <1>10, <1>13, <1>14 DEF QueueOK
    <3> QED
      BY <1>6, <1>8, <1>9, <1>10, <1>14, <3>2, <3>3 DEF QueueOK
  <2>5. DrainOK(y)
    <3>3. x.phase = "RUNNING"
      BY DEF TxRefused
    <3>1. x.staged # NONE => x.staged.au \in Inside(x)
      BY DEF Inside
    <3>2. x.staged # NONE => x.staged.au \notin y.tokens
      BY <1>7, <1>8, <1>14, <2>1, <3>1 DEF DrainOK
    <3> QED
      BY <1>8, <1>9, <1>14, <3>2, <3>3 DEF DrainOK
  <2> QED
    BY <1>9, <1>10, <2>2, <2>3, <2>4, <2>5 DEF Stuttered, Unmoved
<1>15. ~x.fatal
  BY DEF TxRefused
<1> QED
  BY <1>5, <1>9, <1>14, <1>15 DEF Step, StreamInv, Simulated

\* The marker is asked for when no access unit of the snapshot is left.
LEMMA BeginDrainStep ==
  ASSUME NEW x, FileInv(x), x.tx = "queued", x.drain, chd_next_input(x) = NONE,
         x.phase = "RUNNING", NEW sh
  PROVE  Step(x, sh, [crystalhd_v4l2_decoder_begin_drain(x) EXCEPT !.tx = "wire"], sh)
<1> DEFINE y == [[x EXCEPT !.phase = "DRAINING"] EXCEPT !.tx = "wire"]
<1>1. x \in File /\ InputOK(x)
  BY DEF FileInv
<1>2. [crystalhd_v4l2_decoder_begin_drain(x) EXCEPT !.tx = "wire"] = y
  BY DEF crystalhd_v4l2_decoder_begin_drain
<1>3. x.left = 0
  <2>1. "src" # NONE
    BY NoneIsFresh
  <2>2. x.left = 0 \/ x.src = <<>>
    BY <2>1 DEF chd_next_input
  <2>3. x.left \in Nat /\ x.left <= Len(x.src)
    BY <1>1, FileTypes DEF InputOK
  <2> QED
    BY <2>2, <2>3
<1>4. /\ y \in File /\ But(x, y, {"phase", "tx"}) /\ y.phase = "DRAINING"
  BY <1>1, WireEffect
<1> HIDE DEF y
<1>5. /\ y.src = x.src /\ y.staged = x.staged /\ y.drain = x.drain /\ y.left = x.left
      /\ y.tokens = x.tokens /\ y.next = x.next /\ y.txau = x.txau /\ y.seen = x.seen
      /\ y.epoch = x.epoch /\ y.fatal = x.fatal /\ y.active = x.active
  BY <1>4 DEF But, Fields
<1>6. Inside(y) = Inside(x) /\ Mode(y) = Mode(x)
  BY <1>4, <1>5 DEF Inside, Mode
<1>7. Owed(y, sh) = Owed(x, sh) /\ Due(y, sh) = Due(x, sh)
  BY <1>5, <1>6 DEF Owed, Due, Waiting
<1>8. QueueOK(x, sh) => QueueOK(y, sh)
  BY <1>5, <1>6 DEF QueueOK
<1>9. DrainOK(x) => DrainOK(y)
  BY <1>3, <1>4, <1>5, <1>6 DEF DrainOK
<1>10. Stuttered(x, sh, y, sh)
  BY <1>5, <1>6, <1>7 DEF Stuttered, Unmoved
<1> QED
  BY <1>2, <1>5, <1>8, <1>9, <1>10 DEF Step, StreamInv, Simulated

LEMMA TxStep ==
  ASSUME IInv,
         \/ chd_tx_run_begin \/ chd_tx_run_suspended \/ chd_tx_run_sent
         \/ chd_tx_run_failed \/ chd_tx_run_timeout
  PROVE  Step(f, shown, f', shown')
<1>1. /\ clip \in Clips /\ shown \in SUBSET AUs /\ f \in File
      /\ FileInv(f) /\ InputOK(f)
  BY IInvFacts
<1>2. shown' = shown
  BY DEF chd_tx_run_begin, chd_tx_run_suspended, chd_tx_run_sent, chd_tx_run_failed,
         chd_tx_run_timeout
<1>3. f.txau = EOS => Step(f, shown, TxInactive(f), shown)
  BY <1>1, InactiveCalm, CalmStep
<1>4. f.tx = "queued" => f.txau = EOS
  BY <1>1 DEF InputOK
<1>6. CASE chd_tx_run_begin
  <2>1. f.tx = "queued"
    BY <1>6 DEF chd_tx_run_begin
  <2>2. \/ f' = TxInactive(f)
        \/ \E x \in DeviceGone(f) : f' = TxInactive(x)
        \/ /\ chd_next_input(f) # NONE /\ ~TxRefused(f)
           /\ f' = [crystalhd_v4l2_reserve_input(f) EXCEPT
                       !.seen = TRUE, !.tx = "wire", !.txau = Head(f.src)]
        \/ /\ chd_next_input(f) = NONE /\ f.drain /\ ~TxRefused(f)
           /\ f' = [crystalhd_v4l2_decoder_begin_drain(f) EXCEPT !.tx = "wire"]
    BY <1>6, Zenon DEF chd_tx_run_begin
  <2>3. ASSUME NEW x \in DeviceGone(f), f' = TxInactive(x)
        PROVE  Step(f, shown, f', shown)
    <3>1. Step(f, shown, x, shown) /\ x \in File
      BY <1>1, GoneStep
    <3>2. x.txau = EOS
      <4> DEFINE g == Faulty(f)
      <4>1. g \in File /\ But(f, g, {"faults"}) /\ x = chd_error(g)
        BY <1>1, FaultyEffect DEF DeviceGone
      <4> HIDE DEF g
      <4>2. But(g, x, {"fatal", "admitted", "txStopping"})
        BY <4>1, ErrorEffect
      <4>3. x.txau = f.txau
        BY <4>1, <4>2 DEF But, Fields
      <4> QED
        BY <1>4, <2>1, <4>3
    <3>3. Calm(x, f')
      BY <2>3, <3>1, <3>2, InactiveCalm
    <3> QED
      BY <3>1, <3>3, ThenCalm
  <2>4. ~TxRefused(f) => f.phase = "RUNNING" /\ ~f.fatal
    BY DEF TxRefused
  <2>5. CASE /\ chd_next_input(f) # NONE /\ ~TxRefused(f)
             /\ f' = [crystalhd_v4l2_reserve_input(f) EXCEPT
                         !.seen = TRUE, !.tx = "wire", !.txau = Head(f.src)]
    BY <1>1, <1>2, <2>1, <2>4, <2>5, ReserveStep
  <2>6. CASE /\ chd_next_input(f) = NONE /\ f.drain /\ ~TxRefused(f)
             /\ f' = [crystalhd_v4l2_decoder_begin_drain(f) EXCEPT !.tx = "wire"]
    BY <1>1, <1>2, <2>1, <2>4, <2>6, BeginDrainStep
  <2> QED
    BY <1>2, <1>3, <1>4, <2>1, <2>2, <2>3, <2>5, <2>6
<1>7. CASE chd_tx_run_suspended
  <2>1. f.tx = "queued" /\ f' = TxInactive(f)
    BY <1>7 DEF chd_tx_run_suspended
  <2> QED
    BY <1>2, <1>3, <1>4, <2>1
<1>8. CASE chd_tx_run_sent
  <2> DEFINE y == [f EXCEPT !.eosDone = TRUE]
  <2>1. f' = TxInactive(IF f.txau = EOS THEN y ELSE SrcDone(f))
    BY <1>8 DEF chd_tx_run_sent
  <2>2. y \in File /\ But(f, y, {"eosDone"})
    BY <1>1, SentEffect
  <2> HIDE DEF y
  <2>3. CASE f.txau = EOS
    <3>1. y.txau = EOS
      BY <2>2, <2>3 DEF But, Fields
    <3>2. {"eosDone"} \cap (Core \cup {"active"}) = {}
      BY DEF Core
    <3>3. Calm(f, y)
      BY <2>2, <3>2, ButCalm
    <3>4. Calm(y, f')
      BY <2>1, <2>2, <2>3, <3>1, InactiveCalm
    <3> QED
      BY <1>2, <3>3, <3>4, CalmTransitive, CalmStep
  <2>4. CASE f.txau # EOS
    <3> DEFINE z == SrcDone(f)
    <3>1. f.src # <<>> /\ f.left <= Len(f.src) /\ (~f.drain => f.left = 0)
      BY <1>1, <2>4 DEF InputOK
    <3>2. z \in File /\ But(f, z, {"src", "left"})
      BY <1>1, <3>1, SrcDoneEffect
    <3>3. HeadLeft(f, z) /\ f' = TxInactive(z)
      BY <1>1, <2>1, <2>4, SrcDoneValues
    <3> HIDE DEF z
    <3>4. /\ f' \in File /\ But(z, f', {"tx", "txau", "txActive", "run"}) /\ f'.txau = EOS
      BY <3>2, <3>3, InactiveFields
    <3>5. But(f, f', {"src", "left", "tx", "txau", "txActive", "run"})
      BY <3>2, <3>4 DEF But
    <3>6. f'.src = z.src /\ f'.left = z.left
      BY <3>4 DEF But, Fields
    <3>7. HeadLeft(f, f')
      BY <3>3, <3>6 DEF HeadLeft
    <3> QED
      BY <1>1, <1>2, <2>4, <3>4, <3>5, <3>7, SrcDoneStep
  <2> QED
    BY <2>3, <2>4
<1>9. CASE chd_tx_run_failed
  <2>1. f.tx \in {"wire", "sent"} /\ f.faults < MaxFault /\ f' \in TxError(Faulty(f))
    BY <1>9 DEF chd_tx_run_failed
  <2>2. FileInv(Faulty(f)) /\ Calm(f, Faulty(f))
    BY <1>1, <2>1, FaultyKeeps, CalmFunctions DEF WorkStep
  <2>3. Step(Faulty(f), shown, f', shown)
    BY <2>1, <2>2, TxErrorStep
  <2> QED
    BY <1>2, <2>2, <2>3, CalmThen
<1>10. CASE chd_tx_run_timeout
  <2> DEFINE y == [f EXCEPT !.late = TRUE]
  <2>1. f.tx = "wire" /\ f' \in TxError(y)
    BY <1>10 DEF chd_tx_run_timeout
  <2>2. y \in File /\ But(f, y, {"late"})
    BY <1>1, SentEffect
  <2> HIDE DEF y
  <2>3. /\ But(f, y, Flags \ {"epoch"}) /\ y.admitted = f.admitted /\ y.run = f.run
    BY <2>2 DEF But, Fields, Flags
  <2>4. WorkStep(f, y)
    <3>1. f.admitted \/ f.run => f.out
      BY <1>1 DEF FileInv, OffOK
    <3> QED
      BY <1>1, <2>2, <2>3, <3>1, FlagsWork
  <2>5. FileInv(y)
    BY <2>4 DEF WorkStep
  <2>6. {"late"} \cap (Core \cup {"active"}) = {}
    BY DEF Core
  <2>7. Calm(f, y)
    BY <2>2, <2>6, ButCalm
  <2>8. Step(y, shown, f', shown)
    BY <2>1, <2>5, TxErrorStep
  <2> QED
    BY <1>2, <2>7, <2>8, CalmThen
<1> QED
  BY <1>6, <1>7, <1>8, <1>9, <1>10
-----------------------------------------------------------------------------
(* A turn of chd_run answers at most one access unit.                      *)

StageOK(x) == x.staged # NONE => x.staged.au \notin x.tokens /\ x.active = NONE

\* The answer of this turn was given: nothing else is in the driver's hands.
Spent(x) == x.staged = NONE /\ x.known /\ (x.active = NONE \/ x.active.res = NONE)

Silent(x, sh, y, s2) == s2 = sh /\ Inside(y) = Inside(x) /\ (Spent(x) => Spent(y))
Spoke(x, sh, y, s2) ==
    /\ ~Spent(x) /\ Spent(y)
    /\ \E a \in Inside(x) : s2 = sh \cup {a} /\ Inside(y) = Inside(x) \ {a}
Opens(x, y) == y.phase = x.phase \/ (x.phase = "OFF" /\ y.phase = "RUNNING")

Shrinks(x, sh, y, s2) ==
    /\ Inside(y) \subseteq Inside(x) /\ sh \subseteq s2
    /\ s2 \subseteq sh \cup (Inside(x) \ Inside(y))

Good(x, sh, y, s2) ==
    StageOK(y) /\ Opens(x, y) /\ (Silent(x, sh, y, s2) \/ Spoke(x, sh, y, s2))

TurnOutcome(x, sh, r) ==
    StageOK(x) => /\ Shrinks(x, sh, r.f, r.shown)
                  /\ r.ok => Good(x, sh, r.f, r.shown)

LEMMA GoodShrinks ==
  ASSUME NEW x, NEW y, NEW sh, NEW s2, Good(x, sh, y, s2)
  PROVE  Shrinks(x, sh, y, s2)
  BY DEF Good, Silent, Spoke, Shrinks

LEMMA GoodTurn ==
  ASSUME NEW x, NEW sh, NEW y, NEW s2, StageOK(x) => Good(x, sh, y, s2)
  PROVE  TurnOutcome(x, sh, Ok(y, s2))
<1> DEFINE r == Ok(y, s2)
<1>1. r.f = y /\ r.shown = s2
  BY DEF Ok
<1> HIDE DEF r
<1>2. StageOK(x) => Shrinks(x, sh, y, s2)
  BY GoodShrinks
<1>3. TurnOutcome(x, sh, r)
  BY <1>1, <1>2 DEF TurnOutcome
<1> QED
  BY <1>3 DEF r

LEMMA BadTurn ==
  ASSUME NEW x, NEW sh, NEW y, y.staged = x.staged, y.tokens \subseteq x.tokens
  PROVE  TurnOutcome(x, sh, Bad(y, sh))
<1>1. Inside(y) \subseteq Inside(x)
  BY DEF Inside
<1>2. Shrinks(x, sh, y, sh)
  BY <1>1 DEF Shrinks
<1> DEFINE r == Bad(y, sh)
<1>3. r.f = y /\ r.shown = sh /\ r.ok = FALSE
  BY DEF Bad
<1> HIDE DEF r
<1>4. TurnOutcome(x, sh, r)
  BY <1>2, <1>3 DEF TurnOutcome
<1> QED
  BY <1>4 DEF r

\* A step that neither answers nor takes an answer.
LEMMA SilentTurn ==
  ASSUME NEW x, NEW sh, NEW y, y.staged = x.staged, y.tokens = x.tokens, Opens(x, y),
         x.known => y.known,
         y.active = x.active \/ y.active = NONE \/ (x.staged = NONE /\ y.active.res = NONE)
  PROVE  TurnOutcome(x, sh, Ok(y, sh))
<1>1. Inside(y) = Inside(x)
  BY DEF Inside
<1>2. Spent(x) => Spent(y)
  BY DEF Spent
<1>3. StageOK(x) => StageOK(y)
  BY DEF StageOK
<1> QED
  BY <1>1, <1>2, <1>3, GoodTurn DEF Good, Silent

LEMMA SameTurn ==
  ASSUME NEW x, NEW sh
  PROVE  TurnOutcome(x, sh, Ok(x, sh)) /\ TurnOutcome(x, sh, Bad(x, sh))
  BY SilentTurn, BadTurn DEF Opens

LEMMA MayFailTurn ==
  ASSUME NEW x, NEW y, NEW bad \in File, NEW sh, TurnOutcome(x, sh, Ok(y, sh)),
         bad.staged = x.staged, bad.tokens \subseteq x.tokens, bad.faults = y.faults,
         NEW r \in MayFail(y, bad, sh)
  PROVE  TurnOutcome(x, sh, r)
<1>1. r = Ok(y, sh) \/ (bad.faults < MaxFault /\ r = Bad(Faulty(bad), sh))
  BY DEF MayFail
<1>2. CASE bad.faults < MaxFault /\ r = Bad(Faulty(bad), sh)
  <2> DEFINE z == Faulty(bad)
  <2>1. But(bad, z, {"faults"})
    BY <1>2, FaultyEffect
  <2> HIDE DEF z
  <2>2. z.staged = bad.staged /\ z.tokens = bad.tokens
    BY <2>1 DEF But, Fields
  <2>3. TurnOutcome(x, sh, Bad(z, sh))
    BY <2>2, BadTurn
  <2> QED
    BY <1>2, <2>3 DEF z
<1> QED
  BY <1>1, <1>2

LEMMA TurnAfter ==
  ASSUME NEW x, NEW sh, NEW q, q.ok, TurnOutcome(x, sh, q), NEW r,
         TurnOutcome(q.f, q.shown, r)
  PROVE  TurnOutcome(x, sh, r)
<1> DEFINE y == q.f
           s == q.shown
           z == r.f
           t == r.shown
<1> SUFFICES ASSUME StageOK(x)
             PROVE  Shrinks(x, sh, z, t) /\ (r.ok => Good(x, sh, z, t))
  BY DEF TurnOutcome
<1>1. Good(x, sh, y, s) /\ Shrinks(x, sh, y, s)
  BY DEF TurnOutcome
<1>2. Shrinks(y, s, z, t) /\ (r.ok => Good(y, s, z, t))
  BY <1>1 DEF TurnOutcome, Good
<1> HIDE DEF y, s, z, t
<1>3. Shrinks(x, sh, z, t)
  BY <1>1, <1>2 DEF Shrinks
<1>4. ASSUME Good(y, s, z, t)
      PROVE  Good(x, sh, z, t)
  <2>1. StageOK(z) /\ Opens(x, z)
    BY <1>1, <1>4 DEF Good, Opens
  <2>2. CASE Silent(x, sh, y, s)
    <3>1. CASE Silent(y, s, z, t)
      BY <2>1, <2>2, <3>1 DEF Good, Silent
    <3>2. CASE Spoke(y, s, z, t)
      BY <2>1, <2>2, <3>2 DEF Good, Silent, Spoke
    <3> QED
      BY <1>4, <3>1, <3>2 DEF Good
  <2>3. CASE Spoke(x, sh, y, s)
    <3>1. Silent(y, s, z, t)
      BY <1>4, <2>3 DEF Good, Spoke
    <3> QED
      BY <2>1, <2>3, <3>1 DEF Good, Silent, Spoke
  <2> QED
    BY <1>1, <2>2, <2>3 DEF Good
<1> QED
  BY <1>2, <1>3, <1>4

LEMMA OpenTurn ==
  ASSUME NEW x \in File, NEW sh, NEW r \in crystalhd_v4l2_decoder_open_locked(x, sh)
  PROVE  TurnOutcome(x, sh, r)
<1>1. CASE x.phase # "OFF"
  <2>1. r = Ok(x, sh)
    BY <1>1 DEF crystalhd_v4l2_decoder_open_locked
  <2> QED
    BY <2>1, SameTurn
<1>2. CASE x.phase = "OFF"
  <2>1. ASSUME NEW p \in {"RUNNING", "FAILED"}
        PROVE  LET y == [x EXCEPT !.phase = p]
               IN  /\ y \in File /\ y.phase = p /\ y.staged = x.staged /\ y.tokens = x.tokens
                   /\ y.known = x.known /\ y.active = x.active /\ y.faults = x.faults
    <3> DEFINE y == [x EXCEPT !.phase = p]
    <3>1. p \in Phases
      BY DEF Phases
    <3>2. y \in File /\ y.phase = p
      BY <3>1 DEF File
    <3>3. But(x, y, {"phase"})
      BY DEF File, But, Fields
    <3> HIDE DEF y
    <3>4. /\ y.staged = x.staged /\ y.tokens = x.tokens /\ y.known = x.known
          /\ y.active = x.active /\ y.faults = x.faults
      BY <3>3 DEF But, Fields
    <3> QED
      BY <3>2, <3>4 DEF y
  <2> DEFINE y == [x EXCEPT !.phase = "RUNNING"]
             z == [x EXCEPT !.phase = "FAILED"]
  <2>2. r \in MayFail(y, z, sh)
    BY <1>2 DEF crystalhd_v4l2_decoder_open_locked
  <2>3. /\ y.phase = "RUNNING" /\ y.staged = x.staged /\ y.tokens = x.tokens
        /\ y.known = x.known /\ y.active = x.active /\ y.faults = x.faults
    BY <2>1
  <2>4. z \in File /\ z.staged = x.staged /\ z.tokens = x.tokens /\ z.faults = x.faults
    BY <2>1
  <2> HIDE DEF y, z
  <2>5. TurnOutcome(x, sh, Ok(y, sh))
    BY <1>2, <2>3, SilentTurn DEF Opens
  <2> QED
    BY <2>2, <2>3, <2>4, <2>5, MayFailTurn
<1> QED
  BY <1>1, <1>2

LEMMA DeliverTurn ==
  ASSUME NEW x \in File, NEW sh, x.known, x.active = NONE,
         NEW r \in chd_deliver_staged(x, sh)
  PROVE  TurnOutcome(x, sh, r)
<1> DEFINE y == [x EXCEPT !.staged = NONE]
           b == BufDone(DstRemove(x))
           c == BufDone(DstRemove(y))
           a == x.staged.au
<1>1. \/ r = Ok(x, sh) \/ r = Bad(x, sh)
      \/ x.dst # <<>> /\ r = Bad(b, sh)
      \/ x.staged # NONE /\ x.dst # <<>> /\ r = Ok(c, sh \cup {a})
  BY DEF chd_deliver_staged
<1>2. CASE r = Ok(x, sh) \/ r = Bad(x, sh)
  BY <1>2, SameTurn
<1>3. CASE x.dst # <<>> /\ r = Bad(b, sh)
  <2>1. But(x, b, {"dst", "held"})
    BY <1>3, DstReturnedEffect
  <2> HIDE DEF b
  <2>2. b.staged = x.staged /\ b.tokens = x.tokens
    BY <2>1 DEF But, Fields
  <2> QED
    BY <1>3, <2>2, BadTurn
<1>4. CASE x.staged # NONE /\ x.dst # <<>> /\ r = Ok(c, sh \cup {a})
  <2>1. y \in File
    BY NoneTypes DEF File
  <2>2. But(x, y, {"staged"})
    BY DEF File, But, Fields
  <2>3. y.staged = NONE
    BY DEF File
  <2> HIDE DEF y
  <2>4. y.dst = x.dst
    BY <2>2 DEF But, Fields
  <2>5. But(y, c, {"dst", "held"})
    BY <1>4, <2>1, <2>4, DstReturnedEffect
  <2> HIDE DEF c
  <2>6. /\ c.staged = NONE /\ c.tokens = x.tokens /\ c.known = x.known
        /\ c.active = x.active /\ c.phase = x.phase
    BY <2>2, <2>3, <2>5 DEF But, Fields
  <2>7. Inside(x) = x.tokens \cup {a} /\ Inside(c) = x.tokens
    BY <1>4, <2>6 DEF Inside
  <2> HIDE DEF a
  <2>8. StageOK(c) /\ Opens(x, c) /\ ~Spent(x) /\ Spent(c)
    BY <1>4, <2>6 DEF StageOK, Opens, Spent
  <2>9. StageOK(x) => a \notin x.tokens
    BY <1>4 DEF StageOK, a
  <2>10. StageOK(x) => Inside(c) = Inside(x) \ {a} /\ a \in Inside(x)
    BY <2>7, <2>9
  <2>11. StageOK(x) => Good(x, sh, c, sh \cup {a})
    BY <2>8, <2>10 DEF Good, Spoke
  <2> QED
    BY <1>4, <2>11, GoodTurn
<1> QED
  BY <1>1, <1>2, <1>3, <1>4

LEMMA PostTurn ==
  ASSUME NEW x \in File, NEW sh, NEW r \in PostCapture(x, sh)
  PROVE  TurnOutcome(x, sh, r)
<1> DEFINE reg == [fmt |-> Head(x.dst), ep |-> x.epoch, res |-> NONE]
           y == [x EXCEPT !.active = reg]
           z == DstRemove(y)
           b == BufDone(DstRemove(x))
<1>1. \/ r = Ok(x, sh)
      \/ x.dst # <<>> /\ r = Bad(b, sh)
      \/ x.dst # <<>> /\ x.staged = NONE /\ r \in MayFail(z, b, sh)
  BY DEF PostCapture
<1>2. CASE r = Ok(x, sh)
  BY <1>2, SameTurn
<1>3. ASSUME x.dst # <<>>
      PROVE  b \in File /\ b.staged = x.staged /\ b.tokens = x.tokens /\ b.faults = x.faults
  <2>1. b \in File /\ But(x, b, {"dst", "held"})
    BY <1>3, DstReturnedEffect
  <2> HIDE DEF b
  <2> QED
    BY <2>1 DEF But, Fields
<1> HIDE DEF b
<1>4. CASE x.dst # <<>> /\ r = Bad(b, sh)
  BY <1>3, <1>4, BadTurn
<1>5. CASE x.dst # <<>> /\ x.staged = NONE /\ r \in MayFail(z, b, sh)
  <2>1. Head(x.dst) \in Nat /\ x.epoch \in Nat
    BY <1>5, FileTypes, NodeAssumption DEF Buffers, Epochs
  <2>2. reg \in Registrations /\ reg.res = NONE
    BY <2>1 DEF Posts, Registrations
  <2> HIDE DEF reg
  <2>3. y \in File /\ y.active = reg
    BY <2>2 DEF File
  <2>4. But(x, y, {"active"})
    BY DEF File, But, Fields
  <2> HIDE DEF y
  <2>5. y.dst = x.dst
    BY <2>4 DEF But, Fields
  <2>6. But(y, z, {"dst"})
    BY <1>5, <2>3, <2>5, DstRemoveEffect
  <2> HIDE DEF z
  <2>7. /\ z.active = reg /\ z.staged = x.staged /\ z.tokens = x.tokens
        /\ z.known = x.known /\ z.phase = x.phase /\ z.faults = x.faults
    BY <2>3, <2>4, <2>6 DEF But, Fields
  <2>8. TurnOutcome(x, sh, Ok(z, sh))
    BY <1>5, <2>2, <2>7, SilentTurn DEF Opens
  <2> QED
    BY <1>3, <1>5, <2>7, <2>8, MayFailTurn
<1> QED
  BY <1>1, <1>2, <1>4, <1>5

LEMMA SubmitTurn ==
  ASSUME clip \in Clips, NEW x, RunInv(x), NEW sh \in SUBSET AUs,
         NEW r \in chd_submit_capture(x, sh)
  PROVE  TurnOutcome(x, sh, r)
<1>1. CASE ~x.cap \/ ~x.known \/ x.pending \/ x.active # NONE
  <2>1. r = Ok(x, sh)
    BY <1>1 DEF chd_submit_capture
  <2> QED
    BY <2>1, SameTurn
<1>2. CASE ~(~x.cap \/ ~x.known \/ x.pending \/ x.active # NONE)
  <2>1. r \in Then(chd_deliver_staged(x, sh), PostCapture)
    BY <1>2 DEF chd_submit_capture
  <2>2. PICK q \in chd_deliver_staged(x, sh) :
           r \in IF q.ok THEN PostCapture(q.f, q.shown) ELSE {q}
    BY <2>1 DEF Then
  <2>3. x \in File /\ x.known /\ x.active = NONE
    BY <1>2 DEF RunInv, FileInv
  <2>4. TurnOutcome(x, sh, q)
    BY <2>3, DeliverTurn
  <2>5. q.f \in File
    BY DeliverKeeps DEF RunOutcome, RunStep, RunInv, FileInv
  <2>6. CASE q.ok
    <3>1. r \in PostCapture(q.f, q.shown)
      BY <2>2, <2>6
    <3>2. TurnOutcome(q.f, q.shown, r)
      BY <2>5, <3>1, PostTurn
    <3> QED
      BY <2>4, <2>6, <3>2, TurnAfter
  <2>7. CASE ~q.ok
    BY <2>2, <2>4, <2>7
  <2> QED
    BY <2>6, <2>7
<1> QED
  BY <1>1, <1>2

LEMMA StartTurn ==
  ASSUME clip \in Clips, NEW x, RunInv(x), NEW sh \in SUBSET AUs,
         NEW r \in chd_start_capture(x, sh)
  PROVE  TurnOutcome(x, sh, r)
<1> DEFINE S(y) == [y EXCEPT !.started = TRUE]
           D == [x EXCEPT !.disc = [res |-> NONE]]
           Start(y, s) == MayFail(S(y), y, s)
<1>1. ASSUME NEW y \in File, NEW s, NEW q \in Start(y, s)
      PROVE  TurnOutcome(y, s, q)
  <2> DEFINE z == S(y)
  <2>1. But(y, z, {"started"})
    BY DEF File, But, Fields
  <2>2. q \in MayFail(z, y, s)
    BY <1>1
  <2> HIDE DEF z
  <2>3. /\ z.staged = y.staged /\ z.tokens = y.tokens /\ z.active = y.active
        /\ z.known = y.known /\ z.phase = y.phase /\ z.faults = y.faults
    BY <2>1 DEF But, Fields
  <2>4. TurnOutcome(y, s, Ok(z, s))
    BY <2>3, SilentTurn DEF Opens
  <2> QED
    BY <2>2, <2>3, <2>4, MayFailTurn
<1>2. x \in File
  BY DEF RunInv, FileInv
<1>3. /\ D \in File /\ D.staged = x.staged /\ D.tokens = x.tokens /\ D.active = x.active
      /\ D.known = x.known /\ D.phase = x.phase /\ D.faults = x.faults
  <2> DEFINE v == [res |-> NONE]
             E == [x EXCEPT !.disc = v]
  <2>2. v \in Discoveries
    BY DEF Discoveries, Probes
  <2> HIDE DEF v
  <2>3. E \in File
    BY <1>2, <2>2 DEF File
  <2>4. But(x, E, {"disc"})
    BY <1>2 DEF File, But, Fields
  <2> HIDE DEF E
  <2>5. /\ E.staged = x.staged /\ E.tokens = x.tokens /\ E.active = x.active
        /\ E.known = x.known /\ E.phase = x.phase /\ E.faults = x.faults
    BY <2>4 DEF But, Fields
  <2> QED
    BY <2>3, <2>5 DEF E, v
<1> DEFINE First == IF x.disc # NONE THEN {Ok(x, sh)} ELSE MayFail(D, x, sh)
<1>4. \/ r = Ok(x, sh)
      \/ r \in Then(First, Start)
      \/ r \in Start(x, sh)
  BY DEF chd_start_capture
<1> HIDE DEF D
<1>5. CASE r \in Then(First, Start)
  <2>1. PICK q \in First : r \in IF q.ok THEN Start(q.f, q.shown) ELSE {q}
    BY <1>5 DEF Then
  <2> HIDE DEF Start
  <2>2. TurnOutcome(x, sh, Ok(D, sh))
    BY <1>3, SilentTurn DEF Opens
  <2>3. TurnOutcome(x, sh, q)
    <3>1. q = Ok(x, sh) \/ q \in MayFail(D, x, sh)
      BY <2>1
    <3> QED
      BY <1>2, <1>3, <2>2, <3>1, SameTurn, MayFailTurn
  <2>4. CASE q.ok
    <3>1. q = Ok(x, sh) \/ q = Ok(D, sh)
      BY <2>1, <2>4 DEF MayFail, Bad
    <3>2. q.f \in File
      BY <1>2, <1>3, <3>1 DEF Ok
    <3>3. TurnOutcome(q.f, q.shown, r)
      BY <1>1, <2>1, <2>4, <3>2
    <3> QED
      BY <2>3, <2>4, <3>3, TurnAfter
  <2> QED
    BY <2>1, <2>3, <2>4
<1> QED
  BY <1>1, <1>2, <1>4, <1>5, SameTurn

LEMMA FormatTurn ==
  ASSUME clip \in Clips, NEW x \in File, NEW sh, NEW a, a \in Answers(AUs),
         a.kind = "format", NEW r \in chd_format(x, a, sh)
  PROVE  TurnOutcome(x, sh, r)
<1> DEFINE w == [x EXCEPT !.started = FALSE, !.disc = NONE]
           y == chd_return_active(w)
           hinted == ~x.known /\ x.cap /\ x.dst # <<>> /\ Head(x.dst) = a.fmt
           g == crystalhd_v4l2_decoder_peek_range(x, a.au)
           q == IF g = "none" THEN y.quant ELSE g
           d == [x EXCEPT !.disc = NONE]
<1>2. w \in File /\ But(x, w, {"started", "disc"})
  BY PausedEffect
<1>3. PICK p \in BOOLEAN : p = ~hinted
  <2>1. (~hinted) \in BOOLEAN
    OBVIOUS
  <2> QED
    BY <2>1
<1>7. y \in File /\ But(w, y, {"held", "active"}) /\ y.active = NONE
  BY <1>2, ReturnActiveEffect
<1>4. q \in Quants /\ a.fmt \in Nat
  <2> HIDE DEF y
  <2>1. a.au \in AUs /\ a.fmt \in Nat
    BY AnswerTypes
  <2>2. g \in Quants
    BY <2>1, ClipTypes DEF crystalhd_v4l2_decoder_peek_range, Quants
  <2> QED
    BY <1>7, <2>1, <2>2, FileTypes
<1> DEFINE v == [y EXCEPT !.fmt = a.fmt, !.known = TRUE, !.pending = p, !.quant = q]
<1>5. r \in MayFail(v, d, sh)
  BY <1>3 DEF chd_format
<1>6. d \in File /\ But(x, d, {"disc"})
  BY NoneTypes DEF File, But, Fields
<1> HIDE DEF w, q, d, hinted, y
<1>8. But(y, v, {"fmt", "known", "pending", "quant"}) /\ v.known = TRUE
  BY <1>4, <1>7, NewFormatEffect
<1> HIDE DEF v
<1>9. But(x, v, {"fmt", "known", "pending", "quant", "held", "active", "started", "disc"})
  BY <1>2, <1>7, <1>8 DEF But
<1>10. /\ v.staged = x.staged /\ v.tokens = x.tokens /\ v.phase = x.phase
       /\ v.faults = x.faults
  BY <1>9 DEF But, Fields
<1>11. v.active = NONE
  BY <1>7, <1>8 DEF But, Fields
<1>12. d.staged = x.staged /\ d.tokens = x.tokens /\ d.faults = x.faults
  BY <1>6 DEF But, Fields
<1>13. TurnOutcome(x, sh, Ok(v, sh))
  BY <1>8, <1>10, <1>11, SilentTurn DEF Opens
<1> QED
  BY <1>5, <1>6, <1>10, <1>12, <1>13, MayFailTurn

LEMMA CompletedValue ==
  ASSUME NEW x \in File, NEW a
  PROVE  crystalhd_v4l2_decoder_complete_observed(x, a).tokens = x.tokens \ {a}
  BY DEF File, crystalhd_v4l2_decoder_complete_observed

LEMMA StagedValue ==
  ASSUME NEW x \in File, NEW c, NEW q
  PROVE  [x EXCEPT !.staged = c, !.started = FALSE, !.pending = TRUE, !.quant = q].staged = c
  BY DEF File

LEMMA PictureTurn ==
  ASSUME clip \in Clips, NEW x \in File, NEW sh, x.active # NONE, x.known,
         NEW a, a \in Answers(AUs), a.kind # "eos", x.active.res = a,
         NEW r \in chd_picture(x, a, sh)
  PROVE  TurnOutcome(x, sh, r)
<1> DEFINE y == [x EXCEPT !.active = NONE]
           z == crystalhd_v4l2_decoder_complete_observed(y, a.au)
           c == [au |-> a.au, fmt |-> z.fmt, ep |-> x.active.ep]
           s == [z EXCEPT !.staged = c, !.started = FALSE, !.pending = TRUE,
                          !.quant = clip.aus[a.au].range]
           Y == BufDone(y)
           Z == BufDone(z)
           S == BufDone(s)
<1>1. a.au \in AUs /\ clip.aus[a.au].range \in Quants /\ a # NONE
  <2>1. a.au \in AUs
    BY AnswerTypes
  <2> QED
    BY <2>1, ClipTypes, FreshTypes
<1>2. \/ r = Bad(Y, sh)
      \/ r = Bad(Z, sh)
      \/ a.au \in x.tokens /\ x.staged = NONE /\ r \in MayFail(S, Z, sh)
      \/ a.au \in x.tokens /\ r = Ok(Z, sh \cup {a.au})
  BY DEF chd_picture, chd_stage_range
<1>3. y \in File /\ But(x, y, {"active"}) /\ y.active = NONE
  BY UnregisteredEffect
<1> HIDE DEF y
<1>4. z \in File /\ But(y, z, {"tokens"}) /\ z.tokens = y.tokens \ {a.au}
  BY <1>3, CompletedEffect, CompletedValue
<1> HIDE DEF z
<1>5. c \in StagedPictures /\ c.au = a.au /\ c # NONE
  <2>1. z.fmt \in Nat /\ x.active.ep \in Nat
    BY <1>4, FileTypes, PostTypes
  <2>2. c \in Copies(AUs) /\ c.au = a.au
    BY <1>1, <2>1 DEF Copies
  <2> HIDE DEF c
  <2> QED
    BY <2>2, FreshTypes DEF StagedPictures
<1> HIDE DEF c
<1>6. s \in File /\ But(z, s, {"staged", "started", "pending", "quant"}) /\ s.staged = c
  <2>1. z \in File /\ c \in StagedPictures /\ clip.aus[a.au].range \in Quants
    BY <1>1, <1>4, <1>5
  <2>2. s \in File /\ But(z, s, {"staged", "started", "pending", "quant"})
    BY <2>1, StagedEffect
  <2>3. s.staged = c
    BY <2>1, StagedValue
  <2> QED
    BY <2>2, <2>3
<1> HIDE DEF s
<1>7. But(y, Y, {"held"})
  BY <1>3, BufDoneEffect
<1>8. Z \in File /\ But(z, Z, {"held"})
  BY <1>4, BufDoneEffect
<1>9. But(s, S, {"held"})
  BY <1>6, BufDoneEffect
<1> HIDE DEF Y, Z, S
<1>10. Y.staged = x.staged /\ Y.tokens = x.tokens
  BY <1>3, <1>7 DEF But, Fields
<1>11. /\ y.staged = x.staged /\ y.tokens = x.tokens /\ y.known = x.known
       /\ y.phase = x.phase /\ y.faults = x.faults
  BY <1>3 DEF But, Fields
<1>12. /\ Z.staged = y.staged /\ Z.tokens = z.tokens /\ Z.known = y.known
       /\ Z.phase = y.phase /\ Z.faults = y.faults /\ Z.active = y.active
  BY <1>4, <1>8 DEF But, Fields
<1>13. /\ S.staged = s.staged /\ S.tokens = z.tokens /\ S.known = z.known
       /\ S.phase = z.phase /\ S.faults = z.faults /\ S.active = z.active
  BY <1>6, <1>9 DEF But, Fields
<1>14. /\ z.known = y.known /\ z.phase = y.phase /\ z.faults = y.faults
       /\ z.active = y.active
  BY <1>4 DEF But, Fields
<1>15. ~Spent(x)
  BY <1>1 DEF Spent
<1>16. CASE r = Bad(Y, sh)
  BY <1>10, <1>16, BadTurn
<1>17. CASE r = Bad(Z, sh)
  BY <1>4, <1>11, <1>12, <1>17, BadTurn
<1>18. CASE a.au \in x.tokens /\ x.staged = NONE /\ r \in MayFail(S, Z, sh)
  <2>1. Inside(x) = x.tokens /\ Inside(S) = (x.tokens \ {a.au}) \cup {a.au}
    BY <1>4, <1>5, <1>6, <1>11, <1>13, <1>18 DEF Inside
  <2>2. Silent(x, sh, S, sh)
    BY <1>15, <1>18, <2>1 DEF Silent
  <2>3. StageOK(S) /\ Opens(x, S)
    BY <1>3, <1>4, <1>5, <1>6, <1>11, <1>13, <1>14 DEF StageOK, Opens
  <2>4. TurnOutcome(x, sh, Ok(S, sh))
    BY <2>2, <2>3, GoodTurn DEF Good
  <2>5. /\ Z.staged = x.staged /\ Z.tokens \subseteq x.tokens /\ Z.faults = S.faults
    BY <1>4, <1>11, <1>12, <1>13, <1>14
  <2> QED
    BY <1>8, <1>18, <2>4, <2>5, MayFailTurn
<1>19. CASE a.au \in x.tokens /\ r = Ok(Z, sh \cup {a.au})
  <2>1. StageOK(x) => x.staged = NONE
    BY DEF StageOK
  <2>2. StageOK(x) => Inside(x) = x.tokens /\ Inside(Z) = x.tokens \ {a.au}
    BY <1>4, <1>11, <1>12, <2>1 DEF Inside
  <2>3. StageOK(x) => Spent(Z) /\ StageOK(Z)
    BY <1>3, <1>11, <1>12, <2>1 DEF Spent, StageOK
  <2>4. Opens(x, Z)
    BY <1>11, <1>12 DEF Opens
  <2>5. StageOK(x) => Good(x, sh, Z, sh \cup {a.au})
    BY <1>15, <1>19, <2>2, <2>3, <2>4 DEF Good, Spoke
  <2> QED
    BY <1>19, <2>5, GoodTurn
<1> QED
  BY <1>2, <1>16, <1>17, <1>18, <1>19

LEMMA ReceiveTurn ==
  ASSUME clip \in Clips, NEW x, RunInv(x), NEW sh \in SUBSET AUs,
         NEW r \in chd_receive(x, sh)
  PROVE  TurnOutcome(x, sh, r)
<1> DEFINE reg == IF x.known THEN x.active ELSE x.disc
           a == IF reg = NONE THEN NONE ELSE reg.res
           d == [x EXCEPT !.disc = NONE]
           y == [x EXCEPT !.active = NONE]
           n == x.active.ep
           z == [y EXCEPT !.last = n]
           Y == BufDone(y)
<1>1. x \in File
  BY DEF RunInv, FileInv
<1>2. CASE ~x.started \/ a = NONE
  <2>1. r = Ok(x, sh)
    BY <1>2 DEF chd_receive
  <2> QED
    BY <2>1, SameTurn
<1>3. CASE x.started /\ a # NONE
  <2>1. a \in Answers(AUs) /\ (x.known => x.active # NONE /\ x.active.res = a)
    BY <1>1, <1>3, PostTypes
  <2>2. \/ a.kind = "format" /\ r \in chd_format(x, a, sh)
        \/ ~x.known /\ r = Bad(d, sh)
        \/ x.known /\ r = Bad(Y, sh)
        \/ x.known /\ r = Ok(z, sh)
        \/ x.known /\ a.kind # "eos" /\ r \in chd_picture(x, a, sh)
    <3> DEFINE m == [f |-> chd_marker(x).f, shown |-> sh, ok |-> chd_marker(x).ok]
    <3>1. \/ a.kind = "format" /\ r \in chd_format(x, a, sh)
          \/ ~x.known /\ r = Bad(d, sh)
          \/ x.known /\ r = m
          \/ x.known /\ a.kind # "eos" /\ r \in chd_picture(x, a, sh)
      BY <1>3 DEF chd_receive
    <3>2. m = Bad(Y, sh) \/ m = Ok(z, sh)
      BY DEF chd_marker, Ok, Bad
    <3> QED
      BY <3>1, <3>2
  <2> HIDE DEF a
  <2>3. CASE a.kind = "format" /\ r \in chd_format(x, a, sh)
    BY <1>1, <2>1, <2>3, FormatTurn
  <2>4. CASE ~x.known /\ r = Bad(d, sh)
    <3>1. But(x, d, {"disc"})
      BY <1>1 DEF File, But, Fields
    <3> HIDE DEF d
    <3>2. d.staged = x.staged /\ d.tokens = x.tokens
      BY <3>1 DEF But, Fields
    <3> QED
      BY <2>4, <3>2, BadTurn
  <2>5. y \in File /\ But(x, y, {"active"}) /\ y.active = NONE
    BY <1>1, UnregisteredEffect
  <2> HIDE DEF y
  <2>6. CASE x.known /\ r = Bad(Y, sh)
    <3>1. But(y, Y, {"held"})
      BY <2>5, BufDoneEffect
    <3> HIDE DEF Y
    <3>2. Y.staged = x.staged /\ Y.tokens = x.tokens
      BY <2>5, <3>1 DEF But, Fields
    <3> QED
      BY <2>6, <3>2, BadTurn
  <2>7. CASE x.known /\ r = Ok(z, sh)
    <3> HIDE DEF n
    <3>1. But(y, z, {"last"})
      BY <2>5 DEF File, But, Fields
    <3> HIDE DEF z
    <3>2. /\ z.staged = x.staged /\ z.tokens = x.tokens /\ z.known = x.known
          /\ z.phase = x.phase /\ z.active = NONE
      BY <2>5, <3>1 DEF But, Fields
    <3> QED
      BY <2>7, <3>2, SilentTurn DEF Opens
  <2>8. CASE x.known /\ a.kind # "eos" /\ r \in chd_picture(x, a, sh)
    BY <1>1, <2>1, <2>8, PictureTurn
  <2> QED
    BY <2>2, <2>3, <2>4, <2>6, <2>7, <2>8
<1> QED
  BY <1>2, <1>3

LEMMA GoodStep ==
  ASSUME NEW x \in File, NEW y, But(x, y, RunFields), Mode(x) \in {"decode", "drain"},
         NEW sh, NEW s2, StageOK(x) => Good(x, sh, y, s2)
  PROVE  Step(x, sh, y, s2)
<1> SUFFICES ASSUME StreamInv(x, sh)
             PROVE  StreamInv(y, s2) /\ Simulated(x, sh, y, s2)
  BY DEF Step
<1>1. /\ y.src = x.src /\ y.txau = x.txau /\ y.left = x.left /\ y.drain = x.drain
      /\ y.seen = x.seen /\ y.next = x.next /\ y.epoch = x.epoch /\ y.fatal = x.fatal
  BY DEF But, Fields, RunFields
<1>2. ~x.fatal /\ x.phase # "DRAINED"
  BY DEF Mode
<1>3. QueueOK(x, sh) /\ DrainOK(x)
  BY <1>2 DEF StreamInv
<1>4. StageOK(y) /\ Opens(x, y) /\ (Silent(x, sh, y, s2) \/ Spoke(x, sh, y, s2))
  <2>1. StageOK(x)
    BY <1>3 DEF DrainOK, StageOK
  <2> QED
    BY <2>1 DEF Good
<1>5. Mode(y) = Mode(x)
  BY <1>1, <1>2, <1>4 DEF Mode, Opens
<1>6. Inside(y) \cup s2 = Inside(x) \cup sh /\ Inside(y) \subseteq Inside(x)
  BY <1>4 DEF Silent, Spoke
<1>7. QueueOK(y, s2)
  BY <1>1, <1>3, <1>6 DEF QueueOK
<1>8. DrainOK(y)
  BY <1>1, <1>2, <1>3, <1>4, <1>6 DEF DrainOK, Opens, StageOK
<1>9. CASE Silent(x, sh, y, s2)
  <2>1. Owed(y, s2) = Owed(x, sh) /\ Due(y, s2) = Due(x, sh)
    BY <1>1, <1>9 DEF Owed, Due, Waiting, Silent
  <2>2. Stuttered(x, sh, y, s2)
    BY <1>1, <1>5, <1>9, <2>1 DEF Stuttered, Unmoved, Silent
  <2> QED
    BY <1>7, <1>8, <2>2 DEF StreamInv, Simulated
<1>10. CASE Spoke(x, sh, y, s2)
  <2>1. PICK a \in Inside(x) : s2 = sh \cup {a} /\ Inside(y) = Inside(x) \ {a}
    BY <1>10 DEF Spoke
  <2>2. Owed(y, s2) = Owed(x, sh) \ {a} /\ a \in Owed(x, sh)
    BY <1>1, <2>1 DEF Owed, Waiting
  <2>3. Due(y, s2) = Due(x, sh) \ {a} /\ (Mode(x) = "drain" => a \in Due(x, sh))
    <3>1. Mode(x) = "drain" => x.drain
      BY DEF Mode
    <3> QED
      BY <1>1, <1>2, <2>1, <3>1 DEF Due, Waiting
  <2>4. AnsweredOne(x, sh, y, s2, a)
    BY <1>1, <1>5, <2>1, <2>2, <2>3 DEF AnsweredOne
  <2>5. a \in AUs
    BY InsideTypes
  <2> QED
    BY <1>7, <1>8, <2>4, <2>5 DEF StreamInv, Simulated
<1> QED
  BY <1>4, <1>9, <1>10

\* The turn fails: the picture in hand may be lost.
Lost(x, sh, y, s2) == StageOK(x) => Shrinks(x, sh, y, s2)
Live(x) == Mode(x) \in {"decode", "drain"}
Died(x, y, z) == z.fatal /\ z.epoch = x.epoch /\ z.src = x.src /\ Inside(z) = Inside(y)

LEMMA ShrinkFail ==
  ASSUME NEW x, NEW y, NEW z, Live(x), NEW sh, NEW s2,
         Lost(x, sh, y, s2), Died(x, y, z)
  PROVE  Step(x, sh, z, s2)
<1>1. ASSUME StreamInv(x, sh)
      PROVE  StageOK(x)
  BY <1>1 DEF StreamInv, Live, Mode, DrainOK, StageOK
<1>2. ASSUME StageOK(x)
      PROVE  Step(x, sh, z, s2)
  <2>1. Owed(z, s2) \subseteq Owed(x, sh)
    BY <1>2 DEF Owed, Waiting, Shrinks, Lost, Died
  <2>2. s2 \subseteq sh \cup (Owed(x, sh) \ Owed(z, s2)) /\ sh \subseteq s2
    BY <1>2 DEF Owed, Waiting, Shrinks, Lost, Died
  <2> QED
    BY <2>1, <2>2, FailStep DEF Died
<1> QED
  BY <1>1, <1>2 DEF Step

LEMMA ScheduleCalm ==
  ASSUME NEW x \in File
  PROVE  Calm(x, chd_schedule_tx(x)) /\ chd_schedule_tx(x) \in File
<1> DEFINE y == [x EXCEPT !.txActive = TRUE, !.tx = "queued"]
<1>1. chd_schedule_tx(x) = x \/ chd_schedule_tx(x) = y
  BY DEF chd_schedule_tx
<1>2. y \in File /\ But(x, y, {"txActive", "tx"})
  BY ScheduledEffect
<1> HIDE DEF y
<1>3. {"txActive", "tx"} \cap (Core \cup {"active"}) = {}
  BY DEF Core
<1>4. Calm(x, y)
  BY <1>2, <1>3, ButCalm
<1> QED
  BY <1>1, <1>2, <1>4, CalmRefl

LEMMA SetRunCalm ==
  ASSUME NEW x \in File, NEW b \in BOOLEAN
  PROVE  Calm(x, [x EXCEPT !.run = b]) /\ [x EXCEPT !.run = b] \in File
<1>1. [x EXCEPT !.run = b] \in File /\ But(x, [x EXCEPT !.run = b], {"run"})
  BY SetRunEffect
<1>2. {"run"} \cap (Core \cup {"active"}) = {}
  BY DEF Core
<1> QED
  BY <1>1, <1>2, ButCalm

LEMMA RequeueCalm ==
  ASSUME NEW x \in File
  PROVE  Calm(x, Requeue(x)) /\ Requeue(x) \in File
<1>1. PICK b \in BOOLEAN : b = (x.admitted /\ (~x.closing \/ x.txActive) /\ x.phase # "DRAINED")
  <2>1. (x.admitted /\ (~x.closing \/ x.txActive) /\ x.phase # "DRAINED") \in BOOLEAN
    OBVIOUS
  <2> QED
    BY <2>1
<1>2. Requeue(x) = [x EXCEPT !.run = b]
  BY <1>1 DEF Requeue
<1> QED
  BY <1>2, SetRunCalm

\* What chd_error leaves alone.
LEMMA ErrorFields ==
  ASSUME NEW x \in File
  PROVE  LET y == chd_error(x)
         IN  /\ y \in File /\ y.fatal /\ y.epoch = x.epoch /\ y.src = x.src
             /\ Inside(y) = Inside(x)
<1> DEFINE y == chd_error(x)
<1>1. y \in File /\ But(x, y, {"fatal", "admitted", "txStopping"}) /\ y.fatal = TRUE
  BY ErrorEffect
<1> HIDE DEF y
<1>2. y.src = x.src /\ y.staged = x.staged /\ y.tokens = x.tokens /\ y.epoch = x.epoch
  BY <1>1 DEF But, Fields
<1> QED
  BY <1>1, <1>2 DEF y, Inside

LEMMA TurnStep ==
  ASSUME clip \in Clips, shown \in SUBSET AUs, NEW x, RunInv(x),
         Mode(x) \in {"decode", "drain"},
         NEW expired, NEW t \in ChannelTurn(x, expired)
  PROVE  Step(x, shown, t.f, t.shown)
<1> DEFINE Begin(y, s) == IF y.started THEN {Ok(y, s)}
                          ELSE Then(chd_submit_capture(y, s), chd_start_capture)
           Receive(y, s) == IF y.started THEN Then(chd_receive(y, s), chd_submit_capture)
                            ELSE {Ok(y, s)}
           Last(y) == chd_drain_watchdog(chd_schedule_tx(y), expired)
           Finish(y, s) == {Ok(Last(y), s)}
           Opened == crystalhd_v4l2_decoder_open_locked(x, shown)
           Both(y, s, r) == RunOutcome(y, r) /\ TurnOutcome(y, s, r)
<1>a. ASSUME NEW y, NEW s, NEW q, Both(y, s, q), q.ok, NEW r, Both(q.f, q.shown, r)
      PROVE  Both(y, s, r)
  <2>1. RunOutcome(y, r)
    BY <1>a, OutcomeAfter DEF RunOutcome
  <2>2. TurnOutcome(y, s, r)
    BY <1>a, TurnAfter
  <2> QED
    BY <2>1, <2>2
<1>b. ASSUME NEW y, NEW q, NEW s, Both(y, s, q)
      PROVE  RunInv(q.f) /\ q.shown \in SUBSET AUs /\ RunStep(y, q.f)
  BY <1>b DEF RunOutcome, RunStep
<1>c. ASSUME NEW y, RunInv(y), NEW s \in SUBSET AUs
      PROVE  Both(y, s, Ok(y, s))
  BY <1>c, RunRefl, OkOutcome, SameTurn
<1>d. ASSUME NEW y, RunInv(y), NEW s \in SUBSET AUs, NEW q \in chd_submit_capture(y, s)
      PROVE  Both(y, s, q)
  BY <1>d, SubmitKeeps, SubmitTurn
<1>e. ASSUME NEW y, RunInv(y), NEW s \in SUBSET AUs, NEW q \in chd_start_capture(y, s)
      PROVE  Both(y, s, q)
  BY <1>e, StartKeeps, StartTurn
<1>f. ASSUME NEW y, RunInv(y), NEW s \in SUBSET AUs, NEW q \in chd_receive(y, s)
      PROVE  Both(y, s, q)
  BY <1>f, ReceiveKeeps, ReceiveTurn
<1> HIDE DEF Both
<1>1. ASSUME NEW y, RunInv(y), NEW s \in SUBSET AUs, NEW r \in Begin(y, s)
      PROVE  Both(y, s, r)
  <2>1. CASE y.started
    BY <1>1, <1>c, <2>1
  <2>2. CASE ~y.started
    <3>1. r \in Then(chd_submit_capture(y, s), chd_start_capture)
      BY <1>1, <2>2
    <3>2. PICK q \in chd_submit_capture(y, s) :
             r \in IF q.ok THEN chd_start_capture(q.f, q.shown) ELSE {q}
      BY <3>1 DEF Then
    <3>3. Both(y, s, q)
      BY <1>1, <1>d
    <3>4. CASE q.ok
      <4>1. RunInv(q.f) /\ q.shown \in SUBSET AUs
        BY <1>b, <3>3
      <4>2. Both(q.f, q.shown, r)
        BY <1>e, <3>2, <3>4, <4>1
      <4> QED
        BY <1>a, <3>3, <3>4, <4>2
    <3> QED
      BY <3>2, <3>3, <3>4
  <2> QED
    BY <2>1, <2>2
<1>2. ASSUME NEW y, RunInv(y), NEW s \in SUBSET AUs, NEW r \in Receive(y, s)
      PROVE  Both(y, s, r)
  <2>1. CASE ~y.started
    BY <1>2, <1>c, <2>1
  <2>2. CASE y.started
    <3>1. r \in Then(chd_receive(y, s), chd_submit_capture)
      BY <1>2, <2>2
    <3>2. PICK q \in chd_receive(y, s) :
             r \in IF q.ok THEN chd_submit_capture(q.f, q.shown) ELSE {q}
      BY <3>1 DEF Then
    <3>3. Both(y, s, q)
      BY <1>2, <1>f
    <3>4. CASE q.ok
      <4>1. RunInv(q.f) /\ q.shown \in SUBSET AUs
        BY <1>b, <3>3
      <4>2. Both(q.f, q.shown, r)
        BY <1>d, <3>2, <3>4, <4>1
      <4> QED
        BY <1>a, <3>3, <3>4, <4>2
    <3> QED
      BY <3>2, <3>3, <3>4
  <2> QED
    BY <2>1, <2>2
<1>3. PICK r \in Then(Then(Then(Opened, Begin), Receive), Finish) :
         t = IF r.ok THEN Ok(Requeue(r.f), r.shown) ELSE Bad(chd_error(r.f), r.shown)
  BY DEF ChannelTurn
<1> HIDE DEF Begin, Receive, Opened, Last
<1>4. PICK r1 \in Then(Then(Opened, Begin), Receive) :
         r \in IF r1.ok THEN Finish(r1.f, r1.shown) ELSE {r1}
  BY <1>3 DEF Then
<1>5. PICK r2 \in Then(Opened, Begin) :
         r1 \in IF r2.ok THEN Receive(r2.f, r2.shown) ELSE {r2}
  BY <1>4 DEF Then
<1>6. PICK r3 \in Opened : r2 \in IF r3.ok THEN Begin(r3.f, r3.shown) ELSE {r3}
  BY <1>5 DEF Then
<1>7. x \in File
  BY DEF RunInv, FileInv
<1>8. Both(x, shown, r3)
  BY <1>7, OpenKeeps, OpenTurn DEF Opened, Both
<1>9. Both(x, shown, r2)
  <2>1. CASE r3.ok
    <3>1. Both(r3.f, r3.shown, r2)
      BY <1>1, <1>6, <1>8, <1>b, <2>1
    <3> QED
      BY <1>8, <1>a, <2>1, <3>1
  <2> QED
    BY <1>6, <1>8, <2>1
<1>10. Both(x, shown, r1)
  <2>1. CASE r2.ok
    <3>1. Both(r2.f, r2.shown, r1)
      BY <1>2, <1>5, <1>9, <1>b, <2>1
    <3> QED
      BY <1>9, <1>a, <2>1, <3>1
  <2> QED
    BY <1>5, <1>9, <2>1
<1> DEFINE y == r1.f
           s == r1.shown
<1>11. /\ y \in File /\ But(x, y, RunFields) /\ y.epoch = x.epoch /\ y.src = x.src
       /\ StageOK(x) => Shrinks(x, shown, y, s) /\ (r1.ok => Good(x, shown, y, s))
  <2>1. RunInv(y) /\ RunStep(x, y)
    BY <1>10, <1>b
  <2>2. y \in File /\ But(x, y, RunFields)
    BY <2>1 DEF RunInv, FileInv, RunStep
  <2>3. y.epoch = x.epoch /\ y.src = x.src
    BY <2>2 DEF But, Fields, RunFields
  <2> QED
    BY <1>10, <2>2, <2>3 DEF Both, TurnOutcome
<1>15. Lost(x, shown, y, s)
  BY <1>11 DEF Lost
<1>16. Live(x)
  BY DEF Live
<1>12. CASE ~r1.ok
  <2>1. t = Bad(chd_error(y), s)
    BY <1>3, <1>4, <1>12
  <2>2. t.f = chd_error(y) /\ t.shown = s
    BY <2>1 DEF Bad
  <2> HIDE DEF y, s
  <2>3. Died(x, y, chd_error(y))
    BY <1>11, ErrorFields DEF Died
  <2>4. Step(x, shown, chd_error(y), s)
    BY <1>15, <1>16, <2>3, ShrinkFail, Zenon
  <2> QED
    BY <2>2, <2>4
<1>13. CASE r1.ok
  <2>1. r = Ok(Last(y), s)
    BY <1>4, <1>13
  <2>2. r.f = Last(y) /\ r.shown = s /\ r.ok
    BY <2>1 DEF Ok
  <2>3. t = Ok(Requeue(Last(y)), s)
    BY <1>3, <2>2
  <2>4. t.f = Requeue(Last(y)) /\ t.shown = s
    BY <2>3 DEF Ok
  <2> DEFINE z == chd_schedule_tx(y)
  <2> HIDE DEF y, s
  <2>5. z \in File /\ Calm(y, z)
    BY <1>11, ScheduleCalm
  <2>6. Last(y) = z \/ Last(y) = chd_error(z)
    BY DEF Last, chd_drain_watchdog
  <2> HIDE DEF z
  <2>7. CASE Last(y) = z
    <3>1. Step(x, shown, y, s)
      BY <1>7, <1>11, <1>13, GoodStep
    <3>2. Calm(y, Requeue(z))
      BY <2>5, RequeueCalm, CalmTransitive
    <3>3. Step(x, shown, Requeue(z), s)
      BY <3>1, <3>2, ThenCalm
    <3> QED
      BY <2>4, <2>7, <3>3
  <2>8. CASE Last(y) = chd_error(z)
    <3> DEFINE e == chd_error(z)
    <3>1. /\ e \in File /\ e.fatal /\ e.epoch = z.epoch /\ e.src = z.src
          /\ Inside(e) = Inside(z)
      BY <2>5, ErrorFields
    <3> HIDE DEF e
    <3>2. z.epoch = y.epoch /\ z.src = y.src /\ Inside(z) = Inside(y)
      BY <2>5, CalmFields, CalmView
    <3>3. Died(x, y, e)
      BY <1>11, <3>1, <3>2 DEF Died
    <3>4. Step(x, shown, e, s)
      BY <1>15, <1>16, <3>3, ShrinkFail, Zenon
    <3>5. Step(x, shown, Requeue(e), s)
      BY <3>1, <3>4, RequeueCalm, ThenCalm
    <3> QED
      BY <2>4, <2>8, <3>5 DEF e
  <2> QED
    BY <2>6, <2>7, <2>8
<1>14. r1.ok \in BOOLEAN
  BY <1>10 DEF Both, RunOutcome
<1> QED
  BY <1>12, <1>13, <1>14

\* LAST: the marker is there, no picture is missing.
LEMMA EndedStep ==
  ASSUME NEW x, NEW y, NEW sh, Inside(x) = {}, x.drain, x.left = 0, ~x.fatal,
         x.phase # "DRAINED", y.phase = "DRAINED",
         y.src = x.src, y.txau = x.txau, y.staged = x.staged, y.tokens = x.tokens,
         y.left = x.left, y.drain = x.drain, y.seen = x.seen, y.next = x.next,
         y.epoch = x.epoch, y.fatal = x.fatal, y.active = x.active
  PROVE  Step(x, sh, y, sh)
<1>1. Inside(y) = {} /\ Mode(x) = "drain" /\ Mode(y) = "drained"
  BY DEF Inside, Mode
<1>2. Owed(y, sh) = Owed(x, sh)
  BY <1>1 DEF Owed, Waiting
<1>3. Due(x, sh) = {} /\ Due(y, sh) = {}
  BY <1>1 DEF Due, Waiting, Front
<1>4. Ended(x, sh, y, sh)
  BY <1>1, <1>2, <1>3 DEF Ended, Unmoved
<1>5. QueueOK(x, sh) => QueueOK(y, sh)
  BY <1>1 DEF QueueOK
<1>6. DrainOK(x) => DrainOK(y)
  BY <1>1 DEF DrainOK
<1> QED
  BY <1>4, <1>5, <1>6 DEF Step, StreamInv, Simulated

LEMMA FinishStep ==
  ASSUME NEW x \in File, NEW sh
  PROVE  LET y == chd_finish_last(x)
         IN  Step(x, sh, y, sh) /\ (y = x \/ y.fatal \/ y.phase = "DRAINED")
<1> DEFINE y == [x EXCEPT !.last = NONE, !.phase = "DRAINED"]
           z == BufDone(y)
<1>1. \/ chd_finish_last(x) = x
      \/ chd_finish_last(x) = chd_error(x)
      \/ /\ x.phase = "DRAINING" /\ x.tokens = {} /\ x.staged = NONE
         /\ chd_finish_last(x) = z
  BY DEF chd_finish_last, crystalhd_v4l2_decoder_complete_eos
<1>2. CASE chd_finish_last(x) = x
  BY <1>2, CalmRefl, CalmStep
<1>3. CASE chd_finish_last(x) = chd_error(x)
  BY <1>3, ErrorStep
<1>4. CASE /\ x.phase = "DRAINING" /\ x.tokens = {} /\ x.staged = NONE
           /\ chd_finish_last(x) = z
  <2>1. y \in File
    BY NoneTypes DEF File, Phases
  <2>2. But(x, y, {"last", "phase"})
    BY DEF File, But, Fields
  <2>3. y.phase = "DRAINED"
    BY DEF File
  <2> HIDE DEF y
  <2>4. But(y, z, {"held"})
    BY <2>1, BufDoneEffect
  <2> HIDE DEF z
  <2>5. /\ z.phase = "DRAINED"
        /\ z.src = x.src /\ z.txau = x.txau /\ z.staged = x.staged /\ z.tokens = x.tokens
        /\ z.left = x.left /\ z.drain = x.drain /\ z.seen = x.seen /\ z.next = x.next
        /\ z.epoch = x.epoch /\ z.fatal = x.fatal /\ z.active = x.active
    BY <2>2, <2>3, <2>4 DEF But, Fields
  <2>6. CASE x.fatal
    <3>1. Owed(z, sh) = Owed(x, sh)
      BY <2>5 DEF Owed, Waiting, Inside
    <3>2. Step(x, sh, z, sh)
      BY <2>5, <2>6, <3>1, FailStep
    <3> QED
      BY <1>4, <2>5, <3>2
  <2>7. CASE ~x.fatal
    <3>1. Inside(x) = {}
      BY <1>4 DEF Inside
    <3>2. StreamInv(x, sh) => x.drain /\ x.left = 0
      BY <1>4, <2>7 DEF StreamInv, DrainOK
    <3>3. x.drain /\ x.left = 0 => Step(x, sh, z, sh)
      BY <1>4, <2>5, <2>7, <3>1, EndedStep
    <3>4. Step(x, sh, z, sh)
      BY <3>2, <3>3 DEF Step
    <3> QED
      BY <1>4, <2>5, <3>4
  <2> QED
    BY <2>6, <2>7
<1> QED
  BY <1>1, <1>2, <1>3, <1>4

LEMMA EmptyDrainStep ==
  ASSUME NEW x \in File, EmptyDrain(x), Live(x), NEW sh
  PROVE  Step(x, sh, chd_empty_drain(x), sh)
<1> DEFINE y == [x EXCEPT !.empty = TRUE, !.unopened = (x.phase = "OFF"),
                         !.phase = "DRAINED", !.eosDone = TRUE]
           z == BufDone(DstRemove(y))
<1>1. CASE x.dst = <<>>
  BY <1>1, CalmRefl, CalmStep DEF chd_empty_drain
<1>2. CASE x.dst # <<>>
  <2>1. chd_empty_drain(x) = z
    BY <1>2 DEF chd_empty_drain
  <2>2. y \in File /\ y.phase = "DRAINED" /\ But(x, y, {"empty", "unopened", "phase", "eosDone"})
    <3>1. PICK u \in BOOLEAN : u = (x.phase = "OFF")
      OBVIOUS
    <3> QED
      BY <3>1, EmptiedEffect
  <2> HIDE DEF y
  <2>3. y.dst = x.dst
    BY <2>2 DEF But, Fields
  <2>4. But(y, z, {"dst", "held"})
    BY <1>2, <2>2, <2>3, DstReturnedEffect
  <2> HIDE DEF z
  <2>5. /\ z.phase = "DRAINED"
        /\ z.src = x.src /\ z.txau = x.txau /\ z.staged = x.staged /\ z.tokens = x.tokens
        /\ z.left = x.left /\ z.drain = x.drain /\ z.seen = x.seen /\ z.next = x.next
        /\ z.epoch = x.epoch /\ z.fatal = x.fatal /\ z.active = x.active
    BY <2>2, <2>4 DEF But, Fields
  <2>6. ~x.fatal /\ x.phase # "DRAINED" /\ x.drain /\ x.left = 0 /\ ~x.seen
    BY DEF Live, Mode, EmptyDrain
  <2>7. StreamInv(x, sh) => Inside(x) = {}
    BY <2>6 DEF StreamInv, DrainOK
  <2>8. Inside(x) = {} => Step(x, sh, z, sh)
    BY <2>5, <2>6, EndedStep
  <2>9. Step(x, sh, z, sh)
    BY <2>7, <2>8 DEF Step
  <2> QED
    BY <2>1, <2>9
<1> QED
  BY <1>1, <1>2

LEMMA ChdRunStep ==
  ASSUME IInv, NEW expired, ChdRun(expired)
  PROVE  Step(f, shown, f', shown')
<1> DEFINE y == [f EXCEPT !.run = FALSE]
           x == chd_finish_last(y)
<1>1. /\ clip \in Clips /\ shown \in SUBSET AUs /\ f \in File
      /\ FileInv(f) /\ OffOK(f)
  BY IInvFacts
<1>2. f.run
  BY DEF ChdRun
<1>3. f.out
  BY <1>1, <1>2 DEF OffOK
<1>4. y \in File /\ Calm(f, y)
  BY <1>1, SetRunCalm
<1>5. RunInv(y)
  <2>1. WorkStep(f, y)
    BY <1>1, <1>3, RunFlagKeeps
  <2> QED
    BY <1>3, <2>1 DEF RunInv, WorkStep
<1>6. \/ f' = x /\ shown' = shown
      \/ /\ ~x.fatal /\ x.phase # "DRAINED"
         /\ \/ EmptyDrain(x) /\ f' = chd_empty_drain(x) /\ shown' = shown
            \/ f' \in DeviceGone(x) /\ shown' = shown
            \/ \E r \in ChannelTurn(x, expired) : f' = r.f /\ shown' = r.shown
  BY DEF ChdRun
<1> HIDE DEF y
<1>7. Step(y, shown, x, shown) /\ (x = y \/ x.fatal \/ x.phase = "DRAINED")
  BY <1>4, FinishStep
<1> HIDE DEF x
<1>8. CASE f' = x /\ shown' = shown
  BY <1>4, <1>7, <1>8, CalmThen
<1>9. CASE /\ ~x.fatal /\ x.phase # "DRAINED"
           /\ \/ EmptyDrain(x) /\ f' = chd_empty_drain(x) /\ shown' = shown
              \/ f' \in DeviceGone(x) /\ shown' = shown
              \/ \E r \in ChannelTurn(x, expired) : f' = r.f /\ shown' = r.shown
  <2>1. x = y /\ Live(y)
    BY <1>7, <1>9 DEF Live, Mode
  <2>2. CASE EmptyDrain(x) /\ f' = chd_empty_drain(x) /\ shown' = shown
    <3>1. Step(y, shown, f', shown)
      BY <1>4, <2>1, <2>2, EmptyDrainStep
    <3> QED
      BY <1>4, <2>2, <3>1, CalmThen
  <2>3. CASE f' \in DeviceGone(x) /\ shown' = shown
    <3>1. Step(y, shown, f', shown)
      BY <1>4, <2>1, <2>3, GoneStep
    <3> QED
      BY <1>4, <2>3, <3>1, CalmThen
  <2>4. ASSUME NEW r \in ChannelTurn(x, expired), f' = r.f, shown' = r.shown
        PROVE  Step(f, shown, f', shown')
    <3>1. Mode(y) \in {"decode", "drain"} /\ r \in ChannelTurn(y, expired)
      BY <2>1, <2>4 DEF Live
    <3>2. Step(y, shown, r.f, r.shown)
      BY <1>1, <1>5, <3>1, TurnStep
    <3>3. Step(f, shown, r.f, r.shown)
      BY <1>4, <3>2, CalmThen
    <3> QED
      BY <2>4, <3>3
  <2> QED
    BY <1>9, <2>2, <2>3, <2>4
<1> QED
  BY <1>6, <1>8, <1>9

-----------------------------------------------------------------------------
(* What an ioctl does once both workers are joined.                        *)

\* A channel that is reset holds nothing, and a closed one stays in its epoch.
LEMMA ResetValues ==
  ASSUME NEW x \in File, x.epoch < MaxEpoch, NEW release \in BOOLEAN
  PROVE  LET y == chd_reset_channel(x, release)
         IN  /\ y.staged = NONE
             /\ release \/ x.phase # "OFF" => y.tokens = {} /\ y.epoch = x.epoch + 1
             /\ ~release /\ x.phase = "OFF" => y.tokens = x.tokens /\ y.epoch = x.epoch
<1>0. /\ x.session \in BOOLEAN /\ x.crossed \in BOOLEAN /\ x.pending \in BOOLEAN
      /\ x.epoch \in Nat
  BY FileTypes, NodeAssumption DEF Epochs
<1> DEFINE r == crystalhd_v4l2_decoder_reset(x)
           w == IF release \/ x.phase # "OFF" THEN r ELSE x
           l == ReturnLast(w)
           a == chd_return_active(l)
           s == x.session /\ ~release
           c == x.crossed \/ Outdated(x)
           p == ClearCapture(a)
           q == ClearInput(p)
           t == ClearFormat(q)
           y == ClearSession(t, s, c)
<1>1. /\ w \in File /\ But(x, w, {"tokens", "epoch", "phase"})
      /\ release \/ x.phase # "OFF" => w.tokens = {} /\ w.epoch = x.epoch + 1
      /\ ~release /\ x.phase = "OFF" => w.tokens = x.tokens /\ w.epoch = x.epoch
  <2>1. /\ r \in File /\ But(x, r, {"tokens", "epoch", "phase"}) /\ r.tokens = {}
    BY DecoderResetEffect
  <2>2. r.epoch = x.epoch + 1
    BY DEF crystalhd_v4l2_decoder_reset, File
  <2> HIDE DEF r
  <2>3. CASE release \/ x.phase # "OFF"
    BY <2>1, <2>2, <2>3
  <2>4. CASE ~(release \/ x.phase # "OFF")
    BY <2>4 DEF But
  <2> QED
    BY <2>3, <2>4
<1> HIDE DEF w
<1>2. l \in File /\ But(w, l, {"held", "last"})
  BY <1>1, ReturnLastEffect
<1> HIDE DEF l
<1>3. a \in File /\ But(l, a, {"held", "active"})
  BY <1>2, ReturnActiveEffect
<1>4. a.session = x.session /\ a.crossed = x.crossed
  BY <1>1, <1>2, <1>3 DEF But, Fields
<1>5. chd_reset_channel(x, release) = y
  <2>1. y = [a EXCEPT
                !.staged = NONE, !.disc = NONE, !.started = FALSE, !.drain = FALSE,
                !.eosDone = FALSE, !.left = 0, !.seen = FALSE, !.empty = FALSE,
                !.known = FALSE, !.pending = FALSE, !.session = s, !.crossed = c]
    BY DEF ClearSession, ClearFormat, ClearInput, ClearCapture
  <2> QED
    BY <1>4, <2>1 DEF chd_reset_channel, l, w
<1> HIDE DEF a
<1>6. p \in File /\ But(a, p, {"staged", "disc", "started"})
  BY <1>3, ClearCaptureEffect
<1>7. p.staged = NONE
  BY <1>3 DEF ClearCapture, File
<1> HIDE DEF p
<1>8. q \in File /\ But(p, q, {"drain", "eosDone", "left"})
  BY <1>6, ClearInputEffect
<1> HIDE DEF q
<1>9. t \in File /\ But(q, t, {"empty", "known", "pending"})
  BY <1>8, ClearFormatEffect
<1> HIDE DEF t
<1>10. s \in BOOLEAN /\ c \in BOOLEAN
  BY <1>0
<1> HIDE DEF s, c
<1>11. But(t, y, {"seen", "session", "crossed"})
  BY <1>9, <1>10, ClearSessionEffect
<1> HIDE DEF y
<1>12. y.staged = t.staged /\ t.staged = q.staged /\ q.staged = p.staged
  BY <1>8, <1>9, <1>11 DEF But, Fields
<1>13. /\ y.tokens = t.tokens /\ t.tokens = q.tokens /\ q.tokens = p.tokens
       /\ y.epoch = t.epoch /\ t.epoch = q.epoch /\ q.epoch = p.epoch
  BY <1>8, <1>9, <1>11 DEF But, Fields
<1>14. /\ p.tokens = a.tokens /\ a.tokens = l.tokens /\ l.tokens = w.tokens
       /\ p.epoch = a.epoch /\ a.epoch = l.epoch /\ l.epoch = w.epoch
  BY <1>2, <1>3, <1>6 DEF But, Fields
<1> QED
  BY <1>1, <1>5, <1>7, <1>12, <1>13, <1>14

\* A decoder that is emptied between two transfers keeps the invariant.
LEMMA EmptiedInv ==
  ASSUME NEW x, NEW y, NEW sh, StreamInv(x, sh), y.fatal = x.fatal, y.src = x.src,
         y.next = x.next, x.txau = EOS, y.txau = EOS, Inside(y) = {}, y.staged = NONE,
         y.phase \in {"OFF", "RUNNING"}
  PROVE  StreamInv(y, sh)
<1>1. QueueOK(x, sh) => QueueOK(y, sh)
  BY DEF QueueOK
<1>2. DrainOK(y)
  BY DEF DrainOK
<1> QED
  BY <1>1, <1>2 DEF StreamInv

LEMMA StoppedInv ==
  ASSUME NEW x, NEW y, NEW sh, StreamInv(x, sh), y.fatal = x.fatal, y.src = <<>>,
         y.next = x.next, y.txau = EOS, Inside(y) = {}, y.staged = NONE,
         y.phase = "OFF"
  PROVE  StreamInv(y, sh)
<1>0. Len(y.src) = 0
  OBVIOUS
<1>1. QueueOK(x, sh) => QueueOK(y, sh)
  <2>1. \A i : i \notin 1 .. Len(y.src)
    BY <1>0
  <2> QED
    BY <2>1 DEF QueueOK
<1>2. DrainOK(y)
  BY DEF DrainOK
<1> QED
  BY <1>1, <1>2 DEF StreamInv

LEMMA OwedLess ==
  ASSUME NEW x, NEW y, NEW sh, y.src = x.src \/ y.src = <<>>, Inside(y) \subseteq Inside(x)
  PROVE  Owed(y, sh) \subseteq Owed(x, sh)
<1>1. CASE y.src = x.src
  BY <1>1 DEF Owed, Waiting
<1>2. CASE y.src = <<>>
  <2>1. Len(y.src) = 0
    BY <1>2
  <2>2. Waiting(y, sh, Len(y.src)) = {}
    BY <2>1 DEF Waiting, Front
  <2> QED
    BY <2>2 DEF Owed
<1> QED
  BY <1>1, <1>2

\* What closing the channel does, whether or not it was open.
Closes(x, y) ==
    /\ y.fatal = x.fatal /\ y.next = x.next /\ x.txau = EOS /\ y.txau = EOS
    /\ y.src = x.src \/ y.src = <<>>
    /\ y.staged = NONE /\ y.phase = "OFF" /\ y.drain = FALSE

\* The channel of an open decoder is closed: a new epoch, with nothing in it.
LEMMA FlushStep ==
  ASSUME NEW x \in File, NEW y, NEW sh, Closes(x, y), y.tokens = {},
         y.epoch = x.epoch + 1
  PROVE  Step(x, sh, y, sh)
<1>0. x.fatal \in BOOLEAN
  BY FileTypes
<1>1. Inside(y) = {}
  BY DEF Inside, Closes
<1>2. Owed(y, sh) \subseteq Owed(x, sh)
  BY <1>1, OwedLess DEF Closes
<1>3. Mode(y) = (IF Mode(x) = "dead" THEN "dead" ELSE "decode")
  BY <1>0 DEF Mode, Closes
<1>4. Due(y, sh) = {}
  BY DEF Due, Closes
<1>5. Flushed(x, sh, y, sh)
  BY <1>2, <1>3, <1>4 DEF Flushed
<1>6. StreamInv(x, sh) => StreamInv(y, sh)
  BY <1>1, EmptiedInv, StoppedInv DEF Closes
<1> QED
  BY <1>5, <1>6 DEF Step, Simulated

\* A closed channel is cleared: a drain that was asked for is cancelled.
LEMMA ClearedStep ==
  ASSUME NEW x \in File, NEW y, NEW sh, Closes(x, y), y.src = x.src,
         y.tokens = x.tokens, x.phase = "OFF", y.epoch = x.epoch
  PROVE  Step(x, sh, y, sh)
<1>0. x.fatal \in BOOLEAN /\ x.drain \in BOOLEAN
  BY FileTypes
<1>1. Inside(y) \subseteq Inside(x)
  BY DEF Inside, Closes
<1>2. Owed(y, sh) \subseteq Owed(x, sh)
  BY <1>1, OwedLess
<1>3. CASE x.fatal
  <2>1. y.fatal
    BY <1>3 DEF Closes
  <2> QED
    BY <1>2, <2>1, FailStep
<1>4. CASE ~x.fatal
  <2> SUFFICES ASSUME StreamInv(x, sh)
               PROVE  StreamInv(y, sh) /\ Simulated(x, sh, y, sh)
    BY DEF Step
  <2>1. Inside(x) = {}
    BY <1>4 DEF StreamInv, DrainOK
  <2>2. Inside(y) = {}
    BY <1>1, <2>1
  <2>3. StreamInv(y, sh)
    BY <2>2, EmptiedInv DEF Closes
  <2>4. Owed(y, sh) = Owed(x, sh)
    BY <2>1, <2>2 DEF Owed, Waiting
  <2>5. Mode(y) = "decode" /\ Due(y, sh) = {}
    BY <1>4 DEF Mode, Due, Closes
  <2>6. CASE x.drain
    <3>1. Mode(x) = "drain"
      BY <1>4, <2>6 DEF Mode
    <3> QED
      BY <2>3, <2>4, <2>5, <3>1 DEF Simulated, Cancelled, Unmoved
  <2>7. CASE ~x.drain
    <3>1. Mode(x) = "decode" /\ Due(x, sh) = {}
      BY <1>4, <2>7 DEF Mode, Due
    <3> QED
      BY <2>3, <2>4, <2>5, <3>1 DEF Simulated, Stuttered, Unmoved
  <2> QED
    BY <2>6, <2>7
<1> QED
  BY <1>3, <1>4

LEMMA ResetStep ==
  ASSUME NEW x \in File, x.epoch < MaxEpoch, x.txau = EOS, NEW release \in BOOLEAN, NEW sh
  PROVE  Step(x, sh, chd_reset_channel(x, release), sh)
<1> DEFINE y == chd_reset_channel(x, release)
<1>1. /\ But(x, y, Cleared \cup {"tokens", "epoch", "phase", "held", "last", "active"})
      /\ y.phase = "OFF" /\ y.drain = FALSE
  BY ResetEffect
<1>2. /\ y.staged = NONE
      /\ release \/ x.phase # "OFF" => y.tokens = {} /\ y.epoch = x.epoch + 1
      /\ ~release /\ x.phase = "OFF" => y.tokens = x.tokens /\ y.epoch = x.epoch
  BY ResetValues
<1> HIDE DEF y
<1>4. y.fatal = x.fatal /\ y.src = x.src /\ y.next = x.next /\ y.txau = x.txau
  BY <1>1 DEF But, Fields, Cleared
<1>5. Closes(x, y)
  BY <1>1, <1>2, <1>4 DEF Closes
<1> SUFFICES Step(x, sh, y, sh)
  BY DEF y
<1>6. CASE release \/ x.phase # "OFF"
  <2>1. y.tokens = {} /\ y.epoch = x.epoch + 1
    BY <1>2, <1>6
  <2> QED
    BY <1>5, <2>1, FlushStep
<1>7. CASE ~release /\ x.phase = "OFF"
  <2>1. y.tokens = x.tokens /\ y.epoch = x.epoch
    BY <1>2, <1>7
  <2> QED
    BY <1>4, <1>5, <1>7, <2>1, ClearedStep
<1> QED
  BY <1>6, <1>7

LEMMA OutputOffStep ==
  ASSUME NEW x \in File, x.epoch < MaxEpoch, x.txau = EOS, NEW sh
  PROVE  LET y == chd_reset_channel(x, TRUE)
         IN  Step(x, sh, [y EXCEPT !.out = FALSE, !.src = <<>>], sh)
<1> DEFINE y == chd_reset_channel(x, TRUE)
           z == [y EXCEPT !.out = FALSE, !.src = <<>>]
<1>1. /\ y \in File
      /\ But(x, y, Cleared \cup {"tokens", "epoch", "phase", "held", "last", "active"})
      /\ y.phase = "OFF" /\ y.drain = FALSE
  BY ResetEffect
<1>2. y.staged = NONE /\ y.tokens = {} /\ y.epoch = x.epoch + 1
  BY ResetValues
<1> HIDE DEF y
<1>4. But(y, z, {"out", "src"}) /\ z.src = <<>>
  BY <1>1, OutputOffEffect
<1> HIDE DEF z
<1>5. y.fatal = x.fatal /\ y.next = x.next /\ y.txau = x.txau
  BY <1>1 DEF But, Fields, Cleared
<1>6. /\ z.fatal = y.fatal /\ z.next = y.next /\ z.txau = y.txau /\ z.staged = y.staged
      /\ z.tokens = y.tokens /\ z.epoch = y.epoch /\ z.phase = y.phase /\ z.drain = y.drain
  BY <1>4 DEF But, Fields
<1>7. /\ z.fatal = x.fatal /\ z.next = x.next /\ z.txau = EOS /\ z.staged = NONE
      /\ z.tokens = {} /\ z.epoch = x.epoch + 1 /\ z.phase = "OFF" /\ z.drain = FALSE
  BY <1>1, <1>2, <1>5, <1>6
<1>8. Closes(x, z)
  BY <1>4, <1>7 DEF Closes
<1>9. Step(x, sh, z, sh)
  BY <1>7, <1>8, FlushStep
<1> QED
  BY <1>9 DEF z, y

\* START after a drain that needed no firmware.
LEMMA ResumeStep ==
  ASSUME NEW x \in File, x.phase = "DRAINED", x.txau = EOS, NEW sh
  PROVE  Step(x, sh, chd_resume(x), sh) /\ chd_resume(x) \in File
<1> DEFINE p == IF x.unopened THEN "OFF" ELSE "RUNNING"
           c == ClearInput(x)
           y == Resumed(c, p)
<1>1. p \in Phases /\ p \in {"OFF", "RUNNING"}
  BY DEF Phases
<1>2. chd_resume(x) = y
  BY DEF chd_resume, ClearInput, Resumed
<1> HIDE DEF p
<1>3. c \in File /\ But(x, c, {"drain", "eosDone", "left"}) /\ c.drain = FALSE
  BY ClearInputEffect
<1> HIDE DEF c
<1>4. y \in File /\ But(c, y, {"phase", "seen", "empty"}) /\ y.phase = p
  BY <1>1, <1>3, ResumedEffect
<1> HIDE DEF y
<1>5. y.drain = FALSE
  BY <1>3, <1>4 DEF But, Fields
<1>6. /\ c.fatal = x.fatal /\ c.src = x.src /\ c.next = x.next /\ c.txau = x.txau
      /\ c.tokens = x.tokens /\ c.staged = x.staged /\ c.epoch = x.epoch
  BY <1>3 DEF But, Fields
<1>7. /\ y.fatal = x.fatal /\ y.src = x.src /\ y.next = x.next /\ y.txau = x.txau
      /\ y.tokens = x.tokens /\ y.staged = x.staged /\ y.epoch = x.epoch
  BY <1>4, <1>6 DEF But, Fields
<1>8. Inside(y) = Inside(x) /\ Owed(y, sh) = Owed(x, sh)
  BY <1>7 DEF Inside, Owed, Waiting
<1>9. Step(x, sh, y, sh)
  <2>1. CASE x.fatal
    BY <1>7, <1>8, <2>1, FailStep
  <2>2. CASE ~x.fatal
    <3> SUFFICES ASSUME StreamInv(x, sh)
                 PROVE  StreamInv(y, sh) /\ Simulated(x, sh, y, sh)
      BY DEF Step
    <3>1. Inside(x) = {} /\ x.left = 0
      BY <2>2 DEF StreamInv, DrainOK
    <3>2. Inside(y) = {}
      BY <1>8, <3>1
    <3>3. x.staged = NONE
      <4>1. x.staged # NONE => x.staged.au \in Inside(x)
        BY DEF Inside
      <4> QED
        BY <3>1, <4>1
    <3>4. StreamInv(y, sh)
      BY <1>1, <1>4, <1>7, <3>2, <3>3, EmptiedInv
    <3>5. Mode(x) = "drained" /\ Mode(y) = "decode"
      BY <1>1, <1>4, <1>5, <1>7, <2>2 DEF Mode
    <3>6. Due(y, sh) = {}
      BY <1>5 DEF Due
    <3>7. Due(x, sh) = {}
      BY <3>1 DEF Due, Waiting, Front
    <3> QED
      BY <1>7, <1>8, <3>4, <3>5, <3>6, <3>7 DEF Simulated, Restarted, Unmoved
  <2> QED
    BY <2>1, <2>2
<1> QED
  BY <1>2, <1>4, <1>9

\* The workers are joined between two transfers.
LEMMA JoinEndCalm ==
  ASSUME NEW x, FileInv(x), x.tx \in {"idle", "queued"}
  PROVE  LET y == chd_join_end(x)
         IN  /\ Calm(x, y) /\ FileInv(y) /\ y \in File /\ y.txau = EOS
             /\ y.epoch = x.epoch /\ y.out = x.out
             /\ x.phase = "DRAINED" => y.phase = "DRAINED"
<1> DEFINE y == chd_join_end(x)
<1>1. /\ WorkStep(x, y)
      /\ But(x, y, {"run", "tx", "txau", "txActive", "admitted", "txStopping"})
      /\ ~y.txActive
  BY JoinEndKeeps
<1> HIDE DEF y
<1>2. FileInv(y) /\ y.epoch = x.epoch /\ y.out = x.out
      /\ (x.phase = "DRAINED" => y.phase = "DRAINED")
  BY <1>1 DEF WorkStep
<1>3. y.txau = EOS /\ y \in File
  BY <1>1, <1>2 DEF FileInv, InputOK
<1>4. x.txau = EOS
  BY DEF FileInv, InputOK
<1>5. Calm(x, y)
  BY <1>1, <1>3, <1>4 DEF But, Fields, Calm, Core
<1> QED
  BY <1>2, <1>3, <1>5 DEF y

LEMMA AfterJoinStep ==
  ASSUME IInv, AfterJoin
  PROVE  Step(f, shown, f', shown')
<1> DEFINE x == chd_join_end(f)
           y == IF x.session THEN chd_reset_channel(x, io = "off_output") ELSE x
           z == chd_admit(chd_resume(x), x.out)
<1>1. FileInv(f) /\ IoInv
  BY IInvFacts
<1>2. shown' = shown /\ f.tx \in {"idle", "queued"}
  BY DEF AfterJoin
<1>3. \/ f' \in DeviceGone(x)
      \/ /\ io \in {"off_output", "reqbufs", "off_capture"}
         /\ f' = CASE io = "off_output" -> [y EXCEPT !.out = FALSE, !.src = <<>>]
                   [] io = "off_capture" -> CaptureOff(y)
                   [] io = "reqbufs" -> Reallocate(y)
      \/ f' \in {CaptureOff(x), chd_return_dst(x), x}
      \/ io \in {"resume_on", "resume_cmd"} /\ f' \in {CaptureOn(z), chd_kick(z)}
  BY DEF AfterJoin
<1>4. /\ Calm(f, x) /\ FileInv(x) /\ x \in File /\ x.txau = EOS
      /\ x.epoch = f.epoch /\ x.out = f.out
      /\ f.phase = "DRAINED" => x.phase = "DRAINED"
  BY <1>1, <1>2, JoinEndCalm
<1> HIDE DEF x
<1>5. x.session = x.out /\ x.out \in BOOLEAN
  BY <1>4, FileTypes DEF FileInv, OffOK
<1>6. SUFFICES Step(x, shown, f', shown)
  BY <1>2, <1>4, CalmThen
<1>7. CASE f' \in DeviceGone(x)
  BY <1>4, <1>7, GoneStep
<1>8. CASE /\ io \in {"off_output", "reqbufs", "off_capture"}
           /\ f' = CASE io = "off_output" -> [y EXCEPT !.out = FALSE, !.src = <<>>]
                     [] io = "off_capture" -> CaptureOff(y)
                     [] io = "reqbufs" -> Reallocate(y)
  <2>1. x.epoch < MaxEpoch
    BY <1>1, <1>4, <1>8 DEF IoInv
  <2>2. CASE io = "off_output"
    <3>1. x.session
      BY <1>1, <1>4, <1>5, <2>2 DEF IoInv
    <3> DEFINE w == chd_reset_channel(x, TRUE)
    <3>2. f' = [w EXCEPT !.out = FALSE, !.src = <<>>]
      BY <1>8, <2>2, <3>1
    <3> QED
      BY <1>4, <2>1, <3>2, OutputOffStep
  <2>3. CASE io # "off_output"
    <3> DEFINE w == IF x.session THEN chd_reset_channel(x, FALSE) ELSE x
    <3>1. y = w
      BY <2>3
    <3>2. Step(x, shown, w, shown) /\ w \in File
      <4>1. CASE x.session
        <5>1. /\ Step(x, shown, chd_reset_channel(x, FALSE), shown)
              /\ chd_reset_channel(x, FALSE) \in File
          BY <1>4, <2>1, ResetStep, ResetEffect
        <5> QED
          BY <4>1, <5>1
      <4>2. CASE ~x.session
        BY <1>4, <4>2, CalmRefl, CalmStep
      <4> QED
        BY <4>1, <4>2
    <3>3. f' = CaptureOff(w) \/ f' = Reallocate(w)
      BY <1>8, <2>3, <3>1
    <3> HIDE DEF w
    <3>4. Calm(w, f')
      BY <3>2, <3>3, CaptureOffCalm, ReallocateCalm
    <3> QED
      BY <3>2, <3>4, ThenCalm
  <2> QED
    BY <2>2, <2>3
<1>9. CASE f' \in {CaptureOff(x), chd_return_dst(x), x}
  <2>1. Calm(x, f')
    BY <1>4, <1>9, CaptureOffCalm, CalmFunctions, CalmRefl
  <2> QED
    BY <2>1, CalmStep
<1>10. CASE io \in {"resume_on", "resume_cmd"} /\ f' \in {CaptureOn(z), chd_kick(z)}
  <2> DEFINE r == chd_resume(x)
  <2>1. x.phase = "DRAINED"
    BY <1>1, <1>4, <1>10 DEF IoInv
  <2>2. Step(x, shown, r, shown) /\ r \in File
    BY <1>4, <2>1, ResumeStep
  <2> HIDE DEF r
  <2>3. z = chd_admit(r, x.out)
    BY DEF r
  <2>4. Calm(r, z) /\ z \in File
    BY <1>5, <2>2, <2>3, CalmFunctions
  <2> HIDE DEF z
  <2>5. Calm(z, f')
    BY <1>10, <2>4, CaptureOnCalm, CalmFunctions
  <2> QED
    BY <2>2, <2>4, <2>5, CalmTransitive, ThenCalm
<1> QED
  BY <1>3, <1>7, <1>8, <1>9, <1>10

-----------------------------------------------------------------------------
(* The refinement.                                                         *)

LEMMA StreamInit == Init => StreamIInv /\ Stream!Init
<1> SUFFICES ASSUME Init PROVE StreamIInv /\ Stream!Init
  OBVIOUS
<1>1. /\ f.fatal = FALSE /\ f.src = <<>> /\ f.tokens = {} /\ f.staged = NONE
      /\ f.txau = EOS /\ f.phase = "OFF" /\ f.drain = FALSE /\ f.epoch = 0
      /\ shown = {}
  BY DEF Init
<1>2. Len(f.src) = 0
  BY <1>1
<1>3. \A i : i \notin 1 .. Len(f.src)
  BY <1>2
<1>4. Inside(f) = {}
  BY <1>1 DEF Inside
<1>5. QueueOK(f, shown)
  BY <1>1, <1>3, <1>4 DEF QueueOK
<1>6. DrainOK(f)
  BY <1>1, <1>4 DEF DrainOK
<1>7. StreamIInv
  BY <1>5, <1>6, InitInv DEF StreamIInv, StreamInv
<1>8. Owed(f, shown) = {}
  BY <1>3, <1>4 DEF Owed, Waiting, Front
<1>9. Mode(f) = "decode" /\ Due(f, shown) = {}
  BY <1>1 DEF Mode, Due
<1>10. Stream!Init
  BY <1>1, <1>8, <1>9, Mapping, ModeMapping DEF Stream!Init
<1> QED
  BY <1>7, <1>10

\* A step of the node, one action at a time.
LEMMA NextStep ==
  ASSUME IInv, [Next]_vars
  PROVE  Step(f, shown, f', shown')
<1>1. CASE Worker
  <2>1. ASSUME NEW e \in BOOLEAN, ChdRun(e)
        PROVE  Step(f, shown, f', shown')
    BY <2>1, ChdRunStep
  <2> QED
    BY <1>1, <2>1, TxStep DEF Worker, chd_run, chd_run_expired
<1>2. CASE Firmware
  BY <1>2, FirmwareStep
<1>3. CASE Ioctl
  <2>1. CASE chd_qbuf_output
    BY <2>1, QbufOutputStep
  <2>2. CASE chd_decoder_cmd_stop
    BY <2>2, StopStep
  <2>3. CASE AfterJoin
    BY <2>3, AfterJoinStep
  <2>4. CASE \/ chd_qbuf_capture \/ chd_streamon_output \/ chd_streamon_capture
             \/ chd_streamoff_output \/ chd_streamoff_capture \/ chd_decoder_cmd_start
             \/ chd_reqbufs \/ chd_release
    BY <2>4, QuietIoctlStep
  <2> QED
    BY <1>3, <2>1, <2>2, <2>3, <2>4 DEF Ioctl
<1>4. CASE UNCHANGED vars
  <2>1. f' = f /\ shown' = shown
    BY <1>4 DEF vars
  <2> QED
    BY <2>1, CalmRefl, CalmStep
<1> QED
  BY <1>1, <1>2, <1>3, <1>4 DEF Next

LEMMA StreamStep ==
  ASSUME StreamIInv, [Next]_vars
  PROVE  StreamIInv' /\ [Stream!Next]_(Stream!stream)
<1>1. IInv /\ StreamInv(f, shown)
  BY DEF StreamIInv
<1>2. IInv'
  BY <1>1, NextInv
<1>3. StreamInv(f', shown') /\ Simulated(f, shown, f', shown')
  BY <1>1, NextStep DEF Step
<1>4. StreamInv(f, shown)'
  BY <1>3 DEF StreamInv, QueueOK, DrainOK, Inside
<1>5. StreamIInv'
  BY <1>2, <1>4 DEF StreamIInv
<1>6. clip \in Clips
  BY <1>1, IInvFacts
<1> QED
  BY <1>3, <1>5, <1>6, StepMapping

(***************************************************************************)
(* The node implements the decoder stream: every step of the two workers,  *)
(* of the firmware and of an ioctl is one of DecoderStream, or nothing     *)
(* that the client sees.  No access unit is answered twice, none is        *)
(* answered after LAST, and LAST follows the answers to everything that    *)
(* was queued before STOP, for every clip, number of buffers, number of    *)
(* epochs and number of faults.                                            *)
(***************************************************************************)
THEOREM NodeImplementsStream == Spec => ImplementsStream
<1>1. Init => StreamIInv /\ Stream!Init
  BY StreamInit
<1>2. StreamIInv /\ [Next]_vars => StreamIInv' /\ [Stream!Next]_(Stream!stream)
  BY StreamStep
<1> QED
  BY <1>1, <1>2, PTL DEF Spec, ImplementsStream, Stream!Spec

=============================================================================
