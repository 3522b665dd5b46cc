------------------------- MODULE V4l2HealthProofs -------------------------
(***************************************************************************)
(* What V4l2Node can declare a file dead of, for any clips, any number of  *)
(* CAPTURE buffers and any bounds on resets and failures.                  *)
(*                                                                         *)
(* HealthInv relates the file to the firmware's channel as long as nothing *)
(* has gone wrong outside the driver and no source change was cleared with *)
(* outdated buffers queued (Clean):                                        *)
(*   - Geometry: queued buffers, the registration and the picture kept     *)
(*     back are of the present geometry and epoch, or a change is pending; *)
(*   - Discovery: the private buffer only ever gets an announcement;       *)
(*   - Ledger: a token of the correlation ledger is in the transfer, in    *)
(*     the firmware, or in the registration, and in one of them only;      *)
(*   - Marked: a draining channel has one marker, in the transfer, in the  *)
(*     firmware, in the registration or with the driver, and it comes      *)
(*     behind every answer.                                                *)
(* Together they refute each protocol error of the source.                 *)
(*                                                                         *)
(* Kept(x, w, y, w2): a file x on a channel w that becomes y on w2 is      *)
(* still well, if nothing has gone wrong up to y.  There is one such lemma *)
(* for each function of the source, and they are chained by KeptAfter.     *)
(***************************************************************************)
EXTENDS V4l2StreamProofs

\* Nothing has gone wrong outside the driver, and no source change was cleared
\* with outdated buffers queued.
Clean(x) == x.faults = 0 /\ x.late = FALSE /\ x.crossed = FALSE /\ x.stale = FALSE

\* What the registration and the private discovery buffer came back with.
Registered(x) == IF x.active = NONE THEN NONE ELSE x.active.res
Probed(x) == IF x.disc = NONE THEN NONE ELSE x.disc.res

\* The access unit in a transfer, those the firmware holds, the one answered.
Wire(x) == IF x.tx = "wire" /\ x.txau # EOS THEN {x.txau} ELSE {}
Held(w) == {w.held[i] : i \in 1 .. Len(w.held)}
Answered(x) ==
    IF Registered(x) # NONE /\ Registered(x).kind \in {"picture", "error"}
    THEN {Registered(x).au} ELSE {}

\* Where the marker may be: in the transfer, in the firmware, in the
\* registration, or with the driver.
AtWire(x) == x.tx = "wire" /\ x.txau = EOS
AtFirmware(w) == w.eos = TRUE
AtResult(x) == Registered(x) # NONE /\ Registered(x).kind = "eos"
AtDriver(x) == x.last # NONE

Alive(x, w) == x.fatal = FALSE /\ x.phase # "FAILED" /\ w.hung = FALSE

\* Every buffer was prepared for the present geometry, or a change is pending.
Geometry(x) ==
    /\ ~x.pending => Uniform(x)
    /\ x.pending => x.known
    /\ x.active # NONE => x.known /\ ~x.pending /\ x.active.fmt = x.fmt /\ x.active.ep = x.epoch
    /\ x.staged # NONE => x.known /\ x.active = NONE
                          /\ x.staged.fmt = x.fmt /\ x.staged.ep = x.epoch

\* The discovery buffer gets the first announcement of the channel.
Discovery(x, w) ==
    /\ Probed(x) # NONE => Probed(x).kind = "format"
    /\ ~x.known /\ Probed(x) = NONE => w.fmt = NONE
    /\ ~x.known /\ x.seen => x.tokens # {}

\* A token is in a transfer, in the firmware, or answered, in one place only.
Ledger(x, w) ==
    /\ x.tokens = Wire(x) \cup Held(w) \cup Answered(x)
    /\ Wire(x) \cap Held(w) = {} /\ Answered(x) \cap (Held(w) \cup Wire(x)) = {}
    /\ \A i, j \in 1 .. Len(w.held) : w.held[i] = w.held[j] => i = j
    /\ x.tokens # {} => x.phase \in {"RUNNING", "DRAINING"} /\ x.seen

\* While the channel drains there is one marker, in one place, behind all answers.
Marked(x, w) ==
    /\ (AtWire(x) \/ AtFirmware(w) \/ AtResult(x) \/ AtDriver(x)) <=> x.phase = "DRAINING"
    /\ AtWire(x) => ~AtFirmware(w) /\ ~AtResult(x) /\ ~AtDriver(x)
    /\ AtFirmware(w) => ~AtResult(x) /\ ~AtDriver(x)
    /\ AtResult(x) => ~AtDriver(x)
    /\ AtResult(x) \/ AtDriver(x) => x.tokens = {}
    /\ AtDriver(x) => x.last = x.epoch
    /\ x.phase = "DRAINING" => x.drain /\ x.txau = EOS

Well(x, w) ==
    Alive(x, w) /\ Geometry(x) /\ Discovery(x, w) /\ Ledger(x, w) /\ Marked(x, w)

HealthInv == Clean(f) => Well(f, fw)

-----------------------------------------------------------------------------
(* What a function leaves alone it keeps.                                  *)

GeometryFields == {"pending", "dst", "fmt", "known", "active", "staged", "epoch"}
DiscoveryFields == {"disc", "known", "seen", "tokens"}
LedgerFields == {"tokens", "tx", "txau", "active", "phase", "seen"}
MarkerFields == {"tx", "txau", "active", "last", "phase", "tokens", "epoch", "drain"}
AliveFields == {"fatal", "phase"}
CleanFields == {"faults", "late", "crossed", "stale"}
HealthFields ==
    GeometryFields \cup DiscoveryFields \cup LedgerFields \cup MarkerFields
        \cup AliveFields \cup CleanFields

Kept(x, w, y, w2) == Clean(y) => Clean(x) /\ (Well(x, w) => Well(y, w2))

LEMMA KeptAfter ==
  ASSUME NEW x, NEW y, NEW z, NEW w, NEW w2, NEW w3, Kept(x, w, y, w2), Kept(y, w2, z, w3)
  PROVE  Kept(x, w, z, w3)
  BY DEF Kept

LEMMA KeptSame == ASSUME NEW x, NEW w PROVE Kept(x, w, x, w)
  BY DEF Kept

LEMMA DirtyKept == ASSUME NEW x, NEW y, NEW w, NEW w2, ~Clean(y) PROVE Kept(x, w, y, w2)
  BY DEF Kept

LEMMA CleanFrame ==
  ASSUME NEW x, NEW y, NEW T, But(x, y, T), T \cap CleanFields = {}
  PROVE  Clean(y) = Clean(x)
<1>1. CleanFields \subseteq Fields \ T
  BY DEF CleanFields, Fields
<1>2. /\ y.faults = x.faults /\ y.late = x.late /\ y.crossed = x.crossed
      /\ y.stale = x.stale
  BY <1>1 DEF But, CleanFields
<1> QED
  BY <1>2 DEF Clean

LEMMA AliveFrame ==
  ASSUME NEW x, NEW y, NEW w, NEW T, But(x, y, T), T \cap AliveFields = {}, Alive(x, w)
  PROVE  Alive(y, w)
<1>1. AliveFields \subseteq Fields \ T
  BY DEF AliveFields, Fields
<1>2. y.fatal = x.fatal /\ y.phase = x.phase
  BY <1>1 DEF But, AliveFields
<1> QED
  BY <1>2 DEF Alive

LEMMA GeometryFrame ==
  ASSUME NEW x, NEW y, NEW T, But(x, y, T), T \cap GeometryFields = {}, Geometry(x)
  PROVE  Geometry(y)
<1>1. GeometryFields \subseteq Fields \ T
  BY DEF GeometryFields, Fields
<1>2. /\ y.pending = x.pending /\ y.dst = x.dst /\ y.fmt = x.fmt /\ y.known = x.known
      /\ y.active = x.active /\ y.staged = x.staged /\ y.epoch = x.epoch
  BY <1>1 DEF But, GeometryFields
<1> QED
  BY <1>2 DEF Geometry, Uniform

LEMMA DiscoveryFrame ==
  ASSUME NEW x, NEW y, NEW w, NEW T, But(x, y, T), T \cap DiscoveryFields = {},
         Discovery(x, w)
  PROVE  Discovery(y, w)
<1>1. DiscoveryFields \subseteq Fields \ T
  BY DEF DiscoveryFields, Fields
<1>2. y.disc = x.disc /\ y.known = x.known /\ y.seen = x.seen /\ y.tokens = x.tokens
  BY <1>1 DEF But, DiscoveryFields
<1> QED
  BY <1>2 DEF Discovery, Probed

LEMMA LedgerFrame ==
  ASSUME NEW x, NEW y, NEW w, NEW T, But(x, y, T), T \cap LedgerFields = {}, Ledger(x, w)
  PROVE  Ledger(y, w)
<1>1. LedgerFields \subseteq Fields \ T
  BY DEF LedgerFields, Fields
<1>2. /\ y.tokens = x.tokens /\ y.tx = x.tx /\ y.txau = x.txau /\ y.active = x.active
      /\ y.phase = x.phase /\ y.seen = x.seen
  BY <1>1 DEF But, LedgerFields
<1>3. Wire(y) = Wire(x) /\ Answered(y) = Answered(x)
  BY <1>2 DEF Wire, Answered, Registered
<1> QED
  BY <1>2, <1>3 DEF Ledger

LEMMA MarkedFrame ==
  ASSUME NEW x, NEW y, NEW w, NEW T, But(x, y, T), T \cap MarkerFields = {}, Marked(x, w)
  PROVE  Marked(y, w)
<1>1. MarkerFields \subseteq Fields \ T
  BY DEF MarkerFields, Fields
<1>2. /\ y.tokens = x.tokens /\ y.tx = x.tx /\ y.txau = x.txau /\ y.active = x.active
      /\ y.phase = x.phase /\ y.last = x.last /\ y.epoch = x.epoch /\ y.drain = x.drain
  BY <1>1 DEF But, MarkerFields
<1>3. /\ AtWire(y) = AtWire(x) /\ AtResult(y) = AtResult(x) /\ AtDriver(y) = AtDriver(x)
  BY <1>2 DEF AtWire, AtResult, AtDriver, Registered
<1> QED
  BY <1>2, <1>3 DEF Marked

LEMMA PlainKept ==
  ASSUME NEW x, NEW y, NEW w, NEW T, But(x, y, T), T \cap HealthFields = {}
  PROVE  Kept(x, w, y, w)
<1>1. /\ T \cap GeometryFields = {} /\ T \cap DiscoveryFields = {} /\ T \cap LedgerFields = {}
      /\ T \cap MarkerFields = {} /\ T \cap AliveFields = {} /\ T \cap CleanFields = {}
  BY DEF HealthFields
<1> QED
  BY <1>1, CleanFrame, AliveFrame, GeometryFrame, DiscoveryFrame, LedgerFrame, MarkedFrame
  DEF Kept, Well

LEMMA PlainFunctions ==
  ASSUME NEW x \in File, NEW w
  PROVE  /\ Kept(x, w, chd_kick(x), w) /\ chd_kick(x) \in File
         /\ \A b \in BOOLEAN : Kept(x, w, chd_admit(x, b), w) /\ chd_admit(x, b) \in File
         /\ Kept(x, w, BufDone(x), w) /\ BufDone(x) \in File
         /\ \A b \in BOOLEAN : /\ Kept(x, w, [x EXCEPT !.run = b], w)
                               /\ [x EXCEPT !.run = b] \in File
<1>1. /\ {"run"} \cap HealthFields = {} /\ {"held"} \cap HealthFields = {}
      /\ {"admitted", "txStopping"} \cap HealthFields = {}
  BY DEF HealthFields, GeometryFields, DiscoveryFields, LedgerFields, MarkerFields,
         AliveFields, CleanFields
<1>2. Kept(x, w, chd_kick(x), w) /\ chd_kick(x) \in File
  BY <1>1, KickEffect, PlainKept
<1>3. ASSUME NEW b \in BOOLEAN
      PROVE  Kept(x, w, chd_admit(x, b), w) /\ chd_admit(x, b) \in File
  BY <1>1, AdmitEffect, PlainKept
<1>4. Kept(x, w, BufDone(x), w) /\ BufDone(x) \in File
  BY <1>1, BufDoneEffect, PlainKept
<1>5. ASSUME NEW b \in BOOLEAN
      PROVE  Kept(x, w, [x EXCEPT !.run = b], w) /\ [x EXCEPT !.run = b] \in File
  BY <1>1, SetRunEffect, PlainKept
<1> QED
  BY <1>2, <1>3, <1>4, <1>5

LEMMA FaultyDirty ==
  ASSUME NEW x \in File
  PROVE  ~Clean(Faulty(x))
<1>1. x.faults \in Nat
  BY FileTypes, NodeAssumption DEF Budget
<1>2. Faulty(x).faults = x.faults + 1
  BY DEF Faulty, File
<1> QED
  BY <1>1, <1>2 DEF Clean

LEMMA ErrorClean ==
  ASSUME NEW x \in File
  PROVE  Clean(chd_error(x)) = Clean(x) /\ chd_error(x) \in File
<1>1. {"fatal", "admitted", "txStopping"} \cap CleanFields = {}
  BY DEF CleanFields
<1> QED
  BY <1>1, ErrorEffect, CleanFrame

LEMMA GoneDirty ==
  ASSUME NEW x \in File, NEW y \in DeviceGone(x)
  PROVE  ~Clean(y) /\ y \in File
<1>1. x.faults < MaxFault /\ y = chd_error(Faulty(x))
  BY DEF DeviceGone
<1>2. Faulty(x) \in File
  BY <1>1, FaultyEffect
<1> QED
  BY <1>1, <1>2, FaultyDirty, ErrorClean

-----------------------------------------------------------------------------
(* The input side.                                                         *)

\* A transfer is queued, or is over.
OffWire(x, y) == x.tx # "wire" /\ y.tx # "wire" /\ y.txau \in {x.txau, EOS}

LEMMA TransferKept ==
  ASSUME NEW x, NEW y, NEW w, NEW T, But(x, y, T), T \cap HealthFields \subseteq {"tx", "txau"},
         OffWire(x, y)
  PROVE  Kept(x, w, y, w)
<1>1. /\ T \cap GeometryFields = {} /\ T \cap DiscoveryFields = {}
      /\ T \cap AliveFields = {} /\ T \cap CleanFields = {}
  BY DEF HealthFields, GeometryFields, DiscoveryFields, AliveFields, CleanFields
<1>2. {"tokens", "active", "phase", "seen", "last", "epoch", "drain"} \subseteq Fields \ T
  BY DEF HealthFields, LedgerFields, MarkerFields, Fields
<1>3. /\ y.tokens = x.tokens /\ y.active = x.active /\ y.phase = x.phase /\ y.seen = x.seen
      /\ y.last = x.last /\ y.epoch = x.epoch /\ y.drain = x.drain
  BY <1>2 DEF But
<1>4. /\ Wire(x) = {} /\ Wire(y) = {} /\ Answered(y) = Answered(x)
      /\ ~AtWire(x) /\ ~AtWire(y) /\ AtResult(y) = AtResult(x) /\ AtDriver(y) = AtDriver(x)
  BY <1>3 DEF OffWire, Wire, Answered, Registered, AtWire, AtResult, AtDriver
<1>5. Ledger(x, w) => Ledger(y, w)
  BY <1>3, <1>4 DEF Ledger
<1>6. Marked(x, w) => Marked(y, w)
  <2>1. x.txau = EOS => y.txau = EOS
    BY DEF OffWire
  <2> QED
    BY <1>3, <1>4, <2>1 DEF Marked
<1> QED
  BY <1>1, <1>5, <1>6, CleanFrame, AliveFrame, GeometryFrame, DiscoveryFrame DEF Kept, Well

LEMMA InactiveKept ==
  ASSUME NEW x \in File, NEW w, x.tx # "wire"
  PROVE  Kept(x, w, TxInactive(x), w)
<1> DEFINE y == TxInactive(x)
<1>1. But(x, y, {"tx", "txau", "txActive", "run"}) /\ y.txau = EOS /\ y.tx = "idle"
  BY InactiveFields
<1> HIDE DEF y
<1>2. {"tx", "txau", "txActive", "run"} \cap HealthFields \subseteq {"tx", "txau"}
  BY DEF HealthFields, GeometryFields, DiscoveryFields, LedgerFields, MarkerFields,
         AliveFields, CleanFields
<1>3. OffWire(x, y)
  BY <1>1 DEF OffWire
<1> QED
  BY <1>1, <1>2, <1>3, TransferKept DEF y

\* A token is reserved for an access unit that is in no other place.
LEMMA ReserveKept ==
  ASSUME NEW x \in File, NEW y, NEW w, NEW a \in AUs, clip \in Clips,
         But(x, y, {"tokens", "seen", "tx", "txau"}), y.tokens = x.tokens \cup {a},
         y.seen = TRUE, y.tx = "wire", y.txau = a, a \notin x.tokens, x.tx # "wire",
         x.phase = "RUNNING"
  PROVE  Kept(x, w, y, w)
<1>0. a # EOS
  BY ClipTypes
<1> DEFINE T == {"tokens", "seen", "tx", "txau"}
<1>1. T \cap GeometryFields = {} /\ T \cap AliveFields = {} /\ T \cap CleanFields = {}
  BY DEF GeometryFields, AliveFields, CleanFields
<1>2. /\ y.disc = x.disc /\ y.known = x.known /\ y.active = x.active /\ y.phase = x.phase
      /\ y.last = x.last /\ y.epoch = x.epoch /\ y.drain = x.drain
  BY DEF But, Fields
<1>3. /\ Wire(x) = {} /\ Wire(y) = {a} /\ Answered(y) = Answered(x) /\ Probed(y) = Probed(x)
  BY <1>0, <1>2 DEF Wire, Answered, Registered, Probed
<1>4. /\ ~AtWire(x) /\ ~AtWire(y) /\ AtResult(y) = AtResult(x) /\ AtDriver(y) = AtDriver(x)
  BY <1>0, <1>2 DEF Registered, AtWire, AtResult, AtDriver
<1>5. Discovery(x, w) => Discovery(y, w)
  BY <1>2, <1>3 DEF Discovery
<1>6. Ledger(x, w) => Ledger(y, w)
  <2> SUFFICES ASSUME Ledger(x, w) PROVE Ledger(y, w)
    OBVIOUS
  <2>1. a \notin Held(w) \cup Answered(x)
    BY DEF Ledger
  <2>2. y.tokens = Wire(y) \cup Held(w) \cup Answered(y)
    BY <1>3 DEF Ledger
  <2> QED
    BY <1>2, <1>3, <2>1, <2>2 DEF Ledger
<1>7. Marked(x, w) => Marked(y, w)
  BY <1>2, <1>4 DEF Marked
<1> QED
  BY <1>1, <1>5, <1>6, <1>7, CleanFrame, AliveFrame, GeometryFrame DEF Kept, Well

\* The marker is sent behind the last access unit.
LEMMA BeginKept ==
  ASSUME NEW x \in File, NEW y, NEW w, But(x, y, {"phase", "tx"}), y.phase = "DRAINING",
         y.tx = "wire", x.tx # "wire", x.txau = EOS, x.phase = "RUNNING", x.drain
  PROVE  Kept(x, w, y, w)
<1> DEFINE T == {"phase", "tx"}
<1>1. T \cap GeometryFields = {} /\ T \cap DiscoveryFields = {} /\ T \cap CleanFields = {}
  BY DEF GeometryFields, DiscoveryFields, CleanFields
<1>2. /\ y.tokens = x.tokens /\ y.seen = x.seen /\ y.active = x.active /\ y.fatal = x.fatal
      /\ y.last = x.last /\ y.epoch = x.epoch /\ y.drain = x.drain /\ y.txau = x.txau
  BY DEF But, Fields
<1>3. Wire(x) = {} /\ Wire(y) = {} /\ Answered(y) = Answered(x)
  BY <1>2 DEF Wire, Answered, Registered
<1>4. ~AtWire(x) /\ AtWire(y) /\ AtResult(y) = AtResult(x) /\ AtDriver(y) = AtDriver(x)
  BY <1>2 DEF Registered, AtWire, AtResult, AtDriver
<1>5. Alive(x, w) => Alive(y, w)
  BY <1>2 DEF Alive
<1>6. Ledger(x, w) => Ledger(y, w)
  BY <1>2, <1>3 DEF Ledger
<1>7. Marked(x, w) => Marked(y, w)
  BY <1>2, <1>4 DEF Marked
<1> QED
  BY <1>1, <1>5, <1>6, <1>7, CleanFrame, GeometryFrame, DiscoveryFrame DEF Kept, Well

LEMMA TxErrorDirty ==
  ASSUME NEW x, FileInv(x), ~Clean(x), NEW y \in TxError(x)
  PROVE  ~Clean(y)
<1>1. x \in File /\ InputOK(x)
  BY DEF FileInv
<1>2. PICK z \in {x} \cup (IF x.txau = EOS THEN {} ELSE {SrcDone(x)}) :
         y = TxInactive(chd_error(crystalhd_v4l2_decoder_submitted(z)))
  BY DEF TxError
<1>3. z \in File /\ Clean(z) = Clean(x)
  <2>1. CASE z = x
    BY <1>1, <2>1
  <2>2. CASE x.txau # EOS /\ z = SrcDone(x)
    <3>1. x.src # <<>> /\ x.left <= Len(x.src) /\ (~x.drain => x.left = 0)
      BY <1>1, <2>2 DEF InputOK
    <3>2. z \in File /\ But(x, z, {"src", "left"})
      BY <1>1, <2>2, <3>1, SrcDoneEffect
    <3>3. {"src", "left"} \cap CleanFields = {}
      BY DEF CleanFields
    <3> QED
      BY <3>2, <3>3, CleanFrame
  <2> QED
    BY <1>2, <2>1, <2>2
<1> DEFINE s == crystalhd_v4l2_decoder_submitted(z)
           e == chd_error(s)
<1>4. s \in File /\ But(z, s, {"phase"})
  BY <1>3, SubmittedEffect
<1> HIDE DEF s
<1>5. e \in File /\ Clean(e) = Clean(s)
  BY <1>4, ErrorClean
<1> HIDE DEF e
<1>6. But(e, TxInactive(e), {"tx", "txau", "txActive", "run"})
  BY <1>5, InactiveFields
<1>7. {"phase"} \cap CleanFields = {} /\ {"tx", "txau", "txActive", "run"} \cap CleanFields = {}
  BY DEF CleanFields
<1>8. Clean(s) = Clean(z) /\ Clean(TxInactive(e)) = Clean(e)
  BY <1>4, <1>6, <1>7, CleanFrame
<1>9. y = TxInactive(e)
  BY <1>2 DEF e, s
<1> QED
  BY <1>3, <1>5, <1>8, <1>9

LEMMA GoneInactiveDirty ==
  ASSUME NEW x \in File, NEW z \in DeviceGone(x)
  PROVE  ~Clean(TxInactive(z))
<1>1. z \in File /\ ~Clean(z)
  BY GoneDirty
<1>2. But(z, TxInactive(z), {"tx", "txau", "txActive", "run"})
  BY <1>1, InactiveFields
<1>3. {"tx", "txau", "txActive", "run"} \cap CleanFields = {}
  BY DEF CleanFields
<1> QED
  BY <1>1, <1>2, <1>3, CleanFrame

\* A step of the TX worker.
LEMMA TxHealth ==
  ASSUME StreamIInv,
         \/ chd_tx_run_begin \/ chd_tx_run_suspended \/ chd_tx_run_sent
         \/ chd_tx_run_failed \/ chd_tx_run_timeout
  PROVE  Kept(f, fw, f', fw')
<1>1. /\ clip \in Clips /\ f \in File /\ FileInv(f) /\ InputOK(f)
      /\ StreamInv(f, shown)
  BY IInvFacts DEF StreamIInv
<1>2. fw' = fw
  BY DEF chd_tx_run_begin, chd_tx_run_suspended, chd_tx_run_sent, chd_tx_run_failed,
         chd_tx_run_timeout
<1>3. f.tx # "wire" => Kept(f, fw, TxInactive(f), fw)
  BY <1>1, InactiveKept
<1>4. CASE chd_tx_run_begin
  <2>1. f.tx = "queued"
    BY <1>4 DEF chd_tx_run_begin
  <2>2. \/ f' = TxInactive(f)
        \/ \E x \in DeviceGone(f) : f' = TxInactive(x)
        \/ /\ chd_next_input(f) # NONE /\ ~TxRefused(f)
           /\ f' = [crystalhd_v4l2_reserve_input(f) EXCEPT
                       !.seen = TRUE, !.tx = "wire", !.txau = Head(f.src)]
        \/ /\ chd_next_input(f) = NONE /\ f.drain /\ ~TxRefused(f)
           /\ f' = [crystalhd_v4l2_decoder_begin_drain(f) EXCEPT !.tx = "wire"]
    BY <1>4, Zenon DEF chd_tx_run_begin
  <2>3. ASSUME NEW x \in DeviceGone(f), f' = TxInactive(x)
        PROVE  Kept(f, fw, f', fw)
    BY <1>1, <2>3, GoneInactiveDirty, DirtyKept
  <2>4. ~TxRefused(f) => f.phase = "RUNNING" /\ ~f.fatal
    BY DEF TxRefused
  <2>5. f.txau = EOS
    BY <1>1, <2>1 DEF InputOK
  <2>6. CASE /\ chd_next_input(f) # NONE /\ ~TxRefused(f)
             /\ f' = [crystalhd_v4l2_reserve_input(f) EXCEPT
                         !.seen = TRUE, !.tx = "wire", !.txau = Head(f.src)]
    <3> DEFINE a == Head(f.src)
               t == f.tokens \cup {a}
               y == OnWire(f, t, a)
    <3>1. f.src \in Seq(AUs) /\ f.tokens \in SUBSET AUs
      BY <1>1, FileTypes DEF Sources, Ledgers
    <3>2. f.src # <<>>
      BY <2>6 DEF chd_next_input
    <3>3. a \in AUs /\ t \in Ledgers
      BY <3>1, <3>2 DEF Ledgers
    <3>4. f' = y
      BY <2>6 DEF crystalhd_v4l2_reserve_input, OnWire
    <3>5. a = f.src[1] /\ 1 \in 1 .. Len(f.src)
      <4>1. a = f.src[1] /\ Len(f.src) \in Nat \ {0}
        BY <3>1, <3>2, TailRange
      <4> QED
        BY <4>1
    <3>6. a \notin f.tokens
      <4>1. QueueOK(f, shown)
        BY <1>1, <2>4, <2>6 DEF StreamInv
      <4>2. a \notin Inside(f)
        BY <2>5, <3>5, <4>1 DEF QueueOK
      <4> QED
        BY <4>2 DEF Inside
    <3>7. t = f.tokens \cup {a}
      OBVIOUS
    <3> HIDE DEF t, a
    <3>8. /\ But(f, y, {"tokens", "seen", "tx", "txau"})
          /\ y.tokens = t /\ y.seen = TRUE /\ y.tx = "wire" /\ y.txau = a
      BY <1>1, <3>3, OnWireEffect
    <3> HIDE DEF y
    <3>9. f.tx # "wire" /\ f.phase = "RUNNING"
      BY <2>1, <2>4, <2>6
    <3>10. y.tokens = f.tokens \cup {a}
      BY <3>7, <3>8
    <3> QED
      BY <1>1, <1>2, <3>3, <3>4, <3>6, <3>8, <3>9, <3>10, ReserveKept
  <2>7. CASE /\ chd_next_input(f) = NONE /\ f.drain /\ ~TxRefused(f)
             /\ f' = [crystalhd_v4l2_decoder_begin_drain(f) EXCEPT !.tx = "wire"]
    <3> DEFINE y == [[f EXCEPT !.phase = "DRAINING"] EXCEPT !.tx = "wire"]
    <3>1. f' = y
      BY <2>7 DEF crystalhd_v4l2_decoder_begin_drain
    <3>2. But(f, y, {"phase", "tx"}) /\ y.phase = "DRAINING" /\ y.tx = "wire"
      BY <1>1, WireEffect
    <3> HIDE DEF y
    <3>3. f.tx # "wire" /\ f.phase = "RUNNING" /\ f.drain
      BY <2>1, <2>4, <2>7
    <3> QED
      BY <1>1, <1>2, <2>5, <3>1, <3>2, <3>3, BeginKept
  <2> QED
    BY <1>2, <1>3, <2>1, <2>2, <2>3, <2>6, <2>7
<1>5. CASE chd_tx_run_suspended
  BY <1>2, <1>3, <1>5 DEF chd_tx_run_suspended
<1>6. CASE chd_tx_run_sent
  <2> DEFINE y == [f EXCEPT !.eosDone = TRUE]
             z == IF f.txau = EOS THEN y ELSE SrcDone(f)
  <2>1. f' = TxInactive(z) /\ f.tx = "sent"
    BY <1>6 DEF chd_tx_run_sent
  <2>2. y \in File /\ But(f, y, {"eosDone"})
    BY <1>1, SentEffect
  <2> HIDE DEF y
  <2>3. z \in File /\ z.tx = "sent" /\ Kept(f, fw, z, fw)
    <3>1. {"eosDone"} \cap HealthFields = {} /\ {"src", "left"} \cap HealthFields = {}
      BY DEF HealthFields, GeometryFields, DiscoveryFields, LedgerFields, MarkerFields,
             AliveFields, CleanFields
    <3>2. CASE f.txau = EOS
      <4>1. y.tx = f.tx
        BY <2>2 DEF But, Fields
      <4> QED
        BY <2>1, <2>2, <3>1, <3>2, <4>1, PlainKept
    <3>3. CASE f.txau # EOS
      <4> DEFINE s == SrcDone(f)
      <4>1. f.src # <<>> /\ f.left <= Len(f.src) /\ (~f.drain => f.left = 0)
        BY <1>1, <3>3 DEF InputOK
      <4>2. s \in File /\ But(f, s, {"src", "left"})
        BY <1>1, <4>1, SrcDoneEffect
      <4>3. z = s
        BY <3>3
      <4> HIDE DEF s
      <4>4. s.tx = f.tx
        BY <4>2 DEF But, Fields
      <4>5. Kept(f, fw, s, fw)
        BY <3>1, <4>2, PlainKept
      <4> QED
        BY <2>1, <4>2, <4>3, <4>4, <4>5
    <3> QED
      BY <3>2, <3>3
  <2> HIDE DEF z
  <2>4. Kept(z, fw, f', fw)
    BY <2>1, <2>3, InactiveKept
  <2> QED
    BY <1>2, <2>3, <2>4, KeptAfter
<1>7. CASE chd_tx_run_failed
  <2>1. f.tx \in {"wire", "sent"} /\ f.faults < MaxFault /\ f' \in TxError(Faulty(f))
    BY <1>7 DEF chd_tx_run_failed
  <2>2. FileInv(Faulty(f)) /\ ~Clean(Faulty(f))
    BY <1>1, <2>1, FaultyKeeps, FaultyDirty DEF WorkStep
  <2> QED
    BY <2>1, <2>2, TxErrorDirty, DirtyKept
<1>8. CASE chd_tx_run_timeout
  <2> DEFINE y == [f EXCEPT !.late = TRUE]
  <2>1. f.tx = "wire" /\ f' \in TxError(y)
    BY <1>8 DEF chd_tx_run_timeout
  <2>2. y \in File /\ But(f, y, {"late"})
    BY <1>1, SentEffect
  <2>3. ~Clean(y)
    <3>1. y.late = TRUE
      BY <1>1 DEF File
    <3> QED
      BY <3>1 DEF Clean
  <2> HIDE DEF y
  <2>4. /\ But(f, y, Flags \ {"epoch"}) /\ y.admitted = f.admitted /\ y.run = f.run
    BY <2>2 DEF But, Fields, Flags
  <2>5. FileInv(y)
    <3>1. f.admitted \/ f.run => f.out
      BY <1>1 DEF FileInv, OffOK
    <3>2. WorkStep(f, y)
      BY <1>1, <2>2, <2>4, <3>1, FlagsWork
    <3> QED
      BY <3>2 DEF WorkStep
  <2> QED
    BY <2>1, <2>3, <2>5, TxErrorDirty, DirtyKept
<1> QED
  BY <1>4, <1>5, <1>6, <1>7, <1>8

-----------------------------------------------------------------------------
(* The firmware.                                                           *)

\* The channel may hold other access units, or another marker.
LEMMA AcceptMarkerKept ==
  ASSUME NEW x \in File, NEW y, NEW w, NEW w2, But(x, y, {"tx"}), x.tx = "wire",
         y.tx = "sent", x.txau = EOS, w2.held = w.held, w2.fmt = w.fmt,
         w2.hung = w.hung, w2.eos = TRUE
  PROVE  Kept(x, w, y, w2)
<1>1. /\ {"tx"} \cap GeometryFields = {} /\ {"tx"} \cap CleanFields = {}
  BY DEF GeometryFields, CleanFields
<1>2. /\ y.tokens = x.tokens /\ y.seen = x.seen /\ y.active = x.active /\ y.fatal = x.fatal
      /\ y.last = x.last /\ y.epoch = x.epoch /\ y.drain = x.drain /\ y.txau = x.txau
      /\ y.phase = x.phase /\ y.disc = x.disc /\ y.known = x.known
  BY DEF But, Fields
<1>3. Wire(x) = {} /\ Wire(y) = {} /\ Answered(y) = Answered(x) /\ Held(w2) = Held(w)
      /\ Probed(y) = Probed(x)
  BY <1>2 DEF Wire, Answered, Registered, Held, Probed
<1>4. /\ AtWire(x) /\ ~AtWire(y) /\ AtResult(y) = AtResult(x) /\ AtDriver(y) = AtDriver(x)
      /\ AtFirmware(w2)
  BY <1>2 DEF Registered, AtWire, AtResult, AtDriver, AtFirmware
<1>5. Alive(x, w) => Alive(y, w2)
  BY <1>2 DEF Alive
<1>6. Ledger(x, w) => Ledger(y, w2)
  BY <1>2, <1>3 DEF Ledger
<1>7. Marked(x, w) => Marked(y, w2)
  BY <1>2, <1>4 DEF Marked
<1>8. Discovery(x, w) => Discovery(y, w2)
  BY <1>2, <1>3 DEF Discovery
<1> QED
  BY <1>1, <1>5, <1>6, <1>7, <1>8, CleanFrame, GeometryFrame DEF Kept, Well

LEMMA AcceptInputKept ==
  ASSUME NEW x \in File, NEW y, NEW w, NEW w2, But(x, y, {"tx"}), x.tx = "wire",
         y.tx = "sent", x.txau # EOS, x.txau \in AUs, w.held \in Seq(AUs),
         w2.held = Append(w.held, x.txau), w2.fmt = w.fmt, w2.hung = w.hung, w2.eos = w.eos
  PROVE  Kept(x, w, y, w2)
<1>1. /\ {"tx"} \cap GeometryFields = {} /\ {"tx"} \cap CleanFields = {}
  BY DEF GeometryFields, CleanFields
<1>2. /\ y.tokens = x.tokens /\ y.seen = x.seen /\ y.active = x.active /\ y.fatal = x.fatal
      /\ y.last = x.last /\ y.epoch = x.epoch /\ y.drain = x.drain /\ y.txau = x.txau
      /\ y.phase = x.phase /\ y.disc = x.disc /\ y.known = x.known
  BY DEF But, Fields
<1>3. Wire(x) = {x.txau} /\ Wire(y) = {} /\ Answered(y) = Answered(x) /\ Probed(y) = Probed(x)
  BY <1>2 DEF Wire, Answered, Registered, Probed
<1>4. /\ ~AtWire(x) /\ ~AtWire(y) /\ AtResult(y) = AtResult(x) /\ AtDriver(y) = AtDriver(x)
      /\ AtFirmware(w2) = AtFirmware(w)
  BY <1>2 DEF Registered, AtWire, AtResult, AtDriver, AtFirmware
<1>5. Alive(x, w) => Alive(y, w2)
  BY <1>2 DEF Alive
<1> DEFINE n == Len(w.held)
           m == n + 1
<1>6. /\ Len(w2.held) = m /\ w2.held[m] = x.txau /\ n \in Nat
      /\ \A i \in 1 .. n : w2.held[i] = w.held[i]
  BY AppendRange
<1> HIDE DEF n
<1>7. Held(w2) = Held(w) \cup {x.txau}
  <2>1. Front(w2.held, m) = Front(w2.held, n) \cup {w2.held[m]}
    BY <1>6, FrontNext
  <2>2. Front(w2.held, n) = Front(w.held, n)
    BY <1>6, FrontSame
  <2>3. Held(w2) = Front(w2.held, m) /\ Held(w) = Front(w.held, n)
    BY <1>6 DEF Held, Front, n
  <2> QED
    BY <1>6, <2>1, <2>2, <2>3
<1>8. Ledger(x, w) => Ledger(y, w2)
  <2> SUFFICES ASSUME Ledger(x, w) PROVE Ledger(y, w2)
    OBVIOUS
  <2>1. x.txau \notin Held(w) /\ x.txau \notin Answered(x)
    BY <1>3 DEF Ledger
  <2>2. \A i \in 1 .. n : w.held[i] # x.txau
    BY <2>1 DEF Held, n
  <2>3. \A i, j \in 1 .. n : w.held[i] = w.held[j] => i = j
    BY DEF Ledger, n
  <2>4. \A i, j \in 1 .. Len(w2.held) : w2.held[i] = w2.held[j] => i = j
    <3> SUFFICES ASSUME NEW i \in 1 .. m, NEW j \in 1 .. m, w2.held[i] = w2.held[j]
                 PROVE  i = j
      BY <1>6
    <3>1. i \in 1 .. n \/ i = m
      BY <1>6
    <3>2. j \in 1 .. n \/ j = m
      BY <1>6
    <3> HIDE DEF m
    <3> QED
      BY <1>6, <2>2, <2>3, <3>1, <3>2
  <2>5. y.tokens = Wire(y) \cup Held(w2) \cup Answered(y)
    BY <1>2, <1>3, <1>7 DEF Ledger
  <2>6. Wire(y) \cap Held(w2) = {} /\ Answered(y) \cap (Held(w2) \cup Wire(y)) = {}
    BY <1>3, <1>7, <2>1 DEF Ledger
  <2> QED
    BY <1>2, <2>4, <2>5, <2>6 DEF Ledger
<1>9. Marked(x, w) => Marked(y, w2)
  BY <1>2, <1>4 DEF Marked
<1>10. Discovery(x, w) => Discovery(y, w2)
  BY <1>2, <1>3 DEF Discovery
<1> QED
  BY <1>1, <1>5, <1>8, <1>9, <1>10, CleanFrame, GeometryFrame DEF Kept, Well

\* A result reaches the registration.
LEMMA ActiveAnswer ==
  ASSUME clip \in Clips, NEW x \in File, NEW r \in Answers(AUs), x.active # NONE
  PROVE  LET y == [x EXCEPT !.active.res = r]
         IN  /\ y \in File /\ But(x, y, {"active"}) /\ y.active # NONE
             /\ y.active.res = r /\ y.active.fmt = x.active.fmt /\ y.active.ep = x.active.ep
<1> DEFINE y == [x EXCEPT !.active.res = r]
<1>1. y \in File /\ But(x, y, {"active"}) /\ y.active # NONE
  BY ActiveAnsweredEffect
<1>2. x.active \in Posts(AUs)
  BY FileTypes DEF Registrations
<1>3. y.active = [x.active EXCEPT !.res = r]
  BY DEF File
<1>4. /\ [x.active EXCEPT !.res = r].res = r
      /\ [x.active EXCEPT !.res = r].fmt = x.active.fmt
      /\ [x.active EXCEPT !.res = r].ep = x.active.ep
  BY <1>2 DEF Posts
<1> QED
  BY <1>1, <1>3, <1>4

LEMMA DiscAnswer ==
  ASSUME clip \in Clips, NEW x \in File, NEW r \in Answers(AUs), x.disc # NONE
  PROVE  LET y == [x EXCEPT !.disc.res = r]
         IN  y \in File /\ But(x, y, {"disc"}) /\ y.disc # NONE /\ y.disc.res = r
<1> DEFINE y == [x EXCEPT !.disc.res = r]
<1>1. y \in File /\ But(x, y, {"disc"})
  BY DiscAnsweredEffect
<1>2. x.disc \in Probes(AUs)
  BY FileTypes DEF Discoveries
<1>3. y.disc = [x.disc EXCEPT !.res = r]
  BY DEF File
<1>4. [x.disc EXCEPT !.res = r].res = r /\ [x.disc EXCEPT !.res = r] \in Probes(AUs)
  BY <1>2 DEF Probes
<1>5. [x.disc EXCEPT !.res = r] # NONE
  BY <1>4, FreshTypes
<1> QED
  BY <1>1, <1>3, <1>4, <1>5

\* The registration, empty until now, carries the answer r.
Carries(x, y, r) ==
    /\ But(x, y, {"active"}) /\ x.known = TRUE /\ r # NONE
    /\ x.active # NONE /\ x.active.res = NONE /\ y.active # NONE
    /\ y.active.res = r /\ y.active.fmt = x.active.fmt /\ y.active.ep = x.active.ep

LEMMA CarriedFields ==
  ASSUME NEW x, NEW y, NEW r, Carries(x, y, r)
  PROVE  /\ Clean(y) = Clean(x) /\ (Geometry(x) => Geometry(y))
         /\ \A w, w2 : Discovery(x, w) => Discovery(y, w2)
         /\ y.tokens = x.tokens /\ y.seen = x.seen /\ y.tx = x.tx /\ y.fatal = x.fatal
         /\ y.last = x.last /\ y.epoch = x.epoch /\ y.drain = x.drain /\ y.txau = x.txau
         /\ y.phase = x.phase
         /\ Wire(y) = Wire(x) /\ Answered(x) = {} /\ AtWire(y) = AtWire(x)
         /\ AtDriver(y) = AtDriver(x) /\ ~AtResult(x)
         /\ Answered(y) = (IF r.kind \in {"picture", "error"} THEN {r.au} ELSE {})
         /\ AtResult(y) = (r.kind = "eos")
<1>1. But(x, y, {"active"}) /\ {"active"} \cap CleanFields = {}
  BY DEF Carries, CleanFields
<1>2. /\ y.tokens = x.tokens /\ y.seen = x.seen /\ y.tx = x.tx /\ y.fatal = x.fatal
      /\ y.last = x.last /\ y.epoch = x.epoch /\ y.drain = x.drain /\ y.txau = x.txau
      /\ y.phase = x.phase /\ y.disc = x.disc /\ y.known = x.known /\ y.dst = x.dst
      /\ y.fmt = x.fmt /\ y.staged = x.staged /\ y.pending = x.pending
  BY <1>1 DEF But, Fields
<1>3. Registered(x) = NONE /\ Registered(y) = r /\ Probed(y) = Probed(x)
  BY <1>2 DEF Carries, Registered, Probed
<1>4. Clean(y) = Clean(x)
  BY <1>1, CleanFrame
<1>5. Geometry(x) => Geometry(y)
  BY <1>2 DEF Carries, Geometry, Uniform
<1>6. ASSUME NEW w, NEW w2, Discovery(x, w) PROVE Discovery(y, w2)
  BY <1>2, <1>3, <1>6 DEF Carries, Discovery
<1>7. /\ Wire(y) = Wire(x) /\ Answered(x) = {} /\ AtWire(y) = AtWire(x)
      /\ AtDriver(y) = AtDriver(x) /\ ~AtResult(x)
  BY <1>2, <1>3 DEF Wire, Answered, AtWire, AtDriver, AtResult
<1>8. /\ Answered(y) = (IF r.kind \in {"picture", "error"} THEN {r.au} ELSE {})
      /\ AtResult(y) = (r.kind = "eos")
  BY <1>3 DEF Answered, AtResult, Carries
<1> QED
  BY <1>2, <1>4, <1>5, <1>6, <1>7, <1>8

LEMMA AnnounceKept ==
  ASSUME NEW x, NEW y, NEW r, NEW w, NEW w2, Carries(x, y, r), r.kind = "format",
         w2.held = w.held, w2.eos = w.eos, w2.hung = w.hung
  PROVE  Kept(x, w, y, w2)
<1>1. Held(w2) = Held(w) /\ AtFirmware(w2) = AtFirmware(w)
  BY DEF Held, AtFirmware
<1>2. Answered(y) = {} /\ ~AtResult(y)
  BY CarriedFields
<1>3. Alive(x, w) => Alive(y, w2)
  BY CarriedFields DEF Alive
<1>4. Ledger(x, w) => Ledger(y, w2)
  BY <1>1, <1>2, CarriedFields DEF Ledger
<1>5. Marked(x, w) => Marked(y, w2)
  BY <1>1, <1>2, CarriedFields DEF Marked
<1> QED
  BY <1>3, <1>4, <1>5, CarriedFields DEF Kept, Well

LEMMA PictureKept ==
  ASSUME NEW x, NEW y, NEW r, NEW w, NEW w2, Carries(x, y, r),
         r.kind \in {"picture", "error"}, w.held \in Seq(AUs), w.held # <<>>,
         r.au = Head(w.held), w2.held = Tail(w.held), w2.eos = w.eos, w2.hung = w.hung
  PROVE  Kept(x, w, y, w2)
<1> DEFINE m == Len(w.held)
           n == Len(w2.held)
<1>1. /\ m \in Nat \ {0} /\ n = m - 1 /\ Head(w.held) = w.held[1]
      /\ \A i \in 1 .. n : w2.held[i] = w.held[i + 1]
  BY TailRange
<1>2. n \in Nat /\ m = n + 1
  BY <1>1
<1> HIDE DEF n, m
<1>3. Held(w) = {r.au} \cup Held(w2)
  <2>1. 1 .. m = {1} \cup {i + 1 : i \in 1 .. n}
    BY <1>2
  <2> QED
    BY <1>1, <2>1 DEF Held, n, m
<1>4. AtFirmware(w2) = AtFirmware(w) /\ Answered(y) = {r.au} /\ ~AtResult(y)
  BY CarriedFields DEF AtFirmware
<1>5. Alive(x, w) => Alive(y, w2)
  BY CarriedFields DEF Alive
<1>6. Ledger(x, w) => Ledger(y, w2)
  <2> SUFFICES ASSUME Ledger(x, w) PROVE Ledger(y, w2)
    OBVIOUS
  <2>0. \A i, j \in 1 .. m : w.held[i] = w.held[j] => i = j
    BY DEF Ledger, m
  <2>1. \A i, j \in 1 .. n : w2.held[i] = w2.held[j] => i = j
    <3> SUFFICES ASSUME NEW i \in 1 .. n, NEW j \in 1 .. n, w2.held[i] = w2.held[j]
                 PROVE  i = j
      OBVIOUS
    <3>1. i + 1 \in 1 .. m /\ j + 1 \in 1 .. m /\ i \in Int /\ j \in Int
      BY <1>2
    <3>2. w.held[i + 1] = w.held[j + 1]
      BY <1>1
    <3>3. i + 1 = j + 1
      BY <2>0, <3>1, <3>2
    <3> QED
      BY <3>1, <3>3
  <2>2. r.au \notin Held(w2)
    <3> SUFFICES ASSUME NEW i \in 1 .. n, w2.held[i] = r.au PROVE FALSE
      BY DEF Held, n
    <3>1. i + 1 \in 1 .. m /\ 1 \in 1 .. m /\ i \in Int /\ i >= 1
      BY <1>2
    <3>2. w.held[i + 1] = w.held[1]
      BY <1>1
    <3>3. i + 1 = 1
      BY <2>0, <3>1, <3>2
    <3> QED
      BY <3>1, <3>3
  <2>3. r.au \notin Wire(x)
    BY <1>3 DEF Ledger
  <2>4. y.tokens = Wire(y) \cup Held(w2) \cup Answered(y)
    BY <1>3, <1>4, CarriedFields DEF Ledger
  <2>5. Wire(y) \cap Held(w2) = {} /\ Answered(y) \cap (Held(w2) \cup Wire(y)) = {}
    BY <1>3, <1>4, <2>2, <2>3, CarriedFields DEF Ledger
  <2>6. y.tokens # {} => y.phase \in {"RUNNING", "DRAINING"} /\ y.seen
    BY CarriedFields DEF Ledger
  <2> QED
    BY <2>1, <2>4, <2>5, <2>6 DEF Ledger, n
<1>7. Marked(x, w) => Marked(y, w2)
  BY <1>4, CarriedFields DEF Marked
<1> QED
  BY <1>5, <1>6, <1>7, CarriedFields DEF Kept, Well

LEMMA EmptyHeld ==
  ASSUME NEW w, w.held = <<>>
  PROVE  Held(w) = {} /\ \A i, j \in 1 .. Len(w.held) : w.held[i] = w.held[j] => i = j
<1>1. 1 .. Len(w.held) = {}
  OBVIOUS
<1> QED
  BY <1>1 DEF Held

LEMMA MarkerKept ==
  ASSUME NEW x, NEW y, NEW r, NEW w, NEW w2, Carries(x, y, r), r.kind = "eos",
         w.held = <<>>, w.eos = TRUE, w2.held = <<>>, w2.eos = FALSE, w2.hung = w.hung
  PROVE  Kept(x, w, y, w2)
<1>1. Held(w) = {} /\ Held(w2) = {} /\ AtFirmware(w) /\ ~AtFirmware(w2)
  BY EmptyHeld DEF AtFirmware
<1>2. Answered(y) = {} /\ AtResult(y)
  BY CarriedFields
<1>3. Alive(x, w) => Alive(y, w2)
  BY CarriedFields DEF Alive
<1>4. Ledger(x, w) => Ledger(y, w2)
  BY <1>1, <1>2, CarriedFields, EmptyHeld DEF Ledger
<1>5. Ledger(x, w) /\ Marked(x, w) => Marked(y, w2)
  <2> SUFFICES ASSUME Ledger(x, w), Marked(x, w) PROVE Marked(y, w2)
    OBVIOUS
  <2>1. x.phase = "DRAINING" /\ ~AtWire(x) /\ ~AtDriver(x)
    BY <1>1 DEF Marked
  <2>2. x.txau = EOS /\ x.drain
    BY <2>1 DEF Marked
  <2>3. Wire(x) = {}
    BY <2>2 DEF Wire
  <2>4. x.tokens = {}
    BY <1>1, <2>3, CarriedFields DEF Ledger
  <2> QED
    BY <1>1, <1>2, <2>1, <2>2, <2>4, CarriedFields DEF Marked
<1> QED
  BY <1>3, <1>4, <1>5, CarriedFields DEF Kept, Well

\* The first announcement reaches the private discovery buffer.
LEMMA ProbeKept ==
  ASSUME NEW x, NEW y, NEW r, NEW w, NEW w2, But(x, y, {"disc"}), r.kind = "format",
         r # NONE, y.disc # NONE, y.disc.res = r, w2.held = w.held, w2.eos = w.eos,
         w2.hung = w.hung
  PROVE  Kept(x, w, y, w2)
<1>1. Held(w2) = Held(w) /\ AtFirmware(w2) = AtFirmware(w)
  BY DEF Held, AtFirmware
<1>2. {"disc"} \cap GeometryFields = {} /\ {"disc"} \cap CleanFields = {}
  BY DEF GeometryFields, CleanFields
<1>3. /\ y.tokens = x.tokens /\ y.seen = x.seen /\ y.tx = x.tx /\ y.fatal = x.fatal
      /\ y.last = x.last /\ y.epoch = x.epoch /\ y.drain = x.drain /\ y.txau = x.txau
      /\ y.phase = x.phase /\ y.known = x.known /\ y.active = x.active
  BY DEF But, Fields
<1>4. Wire(y) = Wire(x) /\ Answered(y) = Answered(x) /\ Probed(y) = r
  BY <1>3 DEF Wire, Answered, Registered, Probed
<1>5. AtWire(y) = AtWire(x) /\ AtResult(y) = AtResult(x) /\ AtDriver(y) = AtDriver(x)
  BY <1>3 DEF Registered, AtWire, AtResult, AtDriver
<1>6. Alive(x, w) => Alive(y, w2)
  BY <1>3 DEF Alive
<1>7. Discovery(x, w) => Discovery(y, w2)
  BY <1>3, <1>4 DEF Discovery
<1>8. Ledger(x, w) => Ledger(y, w2)
  BY <1>1, <1>3, <1>4 DEF Ledger
<1>9. Marked(x, w) => Marked(y, w2)
  BY <1>1, <1>3, <1>5 DEF Marked
<1> QED
  BY <1>2, <1>6, <1>7, <1>8, <1>9, CleanFrame, GeometryFrame DEF Kept, Well

LEMMA ChannelValues ==
  ASSUME NEW w \in Channel, NEW h, NEW n, NEW b
  PROVE  /\ LET v == [w EXCEPT !.held = h]
            IN  v.held = h /\ v.fmt = w.fmt /\ v.eos = w.eos /\ v.hung = w.hung
         /\ LET v == [w EXCEPT !.fmt = n]
            IN  v.held = w.held /\ v.fmt = n /\ v.eos = w.eos /\ v.hung = w.hung
         /\ LET v == [w EXCEPT !.eos = b]
            IN  v.held = w.held /\ v.fmt = w.fmt /\ v.eos = b /\ v.hung = w.hung
  BY DEF Channel

LEMMA AcceptHealth ==
  ASSUME StreamIInv, fw_accept
  PROVE  Kept(f, fw, f', fw')
<1>1. clip \in Clips /\ f \in File /\ fw \in Channel
  BY IInvFacts DEF StreamIInv
<1> DEFINE y == [f EXCEPT !.tx = "sent"]
<1>2. f' = y /\ f.tx = "wire"
  BY DEF fw_accept
<1>3. But(f, y, {"tx"}) /\ y.tx = "sent"
  BY <1>1, SentEffect
<1> HIDE DEF y
<1>4. CASE f.txau = EOS
  <2>1. fw' = [fw EXCEPT !.eos = TRUE]
    BY <1>4 DEF fw_accept
  <2>2. fw'.held = fw.held /\ fw'.fmt = fw.fmt /\ fw'.eos = TRUE /\ fw'.hung = fw.hung
    BY <1>1, <2>1, ChannelValues
  <2> QED
    BY <1>1, <1>2, <1>3, <1>4, <2>2, AcceptMarkerKept
<1>5. CASE f.txau # EOS
  <2>1. fw' = [fw EXCEPT !.held = Append(fw.held, f.txau)]
    BY <1>5 DEF fw_accept
  <2>2. /\ fw'.held = Append(fw.held, f.txau) /\ fw'.fmt = fw.fmt /\ fw'.eos = fw.eos
        /\ fw'.hung = fw.hung
    BY <1>1, <2>1, ChannelValues
  <2>3. f.txau \in AUs /\ fw.held \in Seq(AUs)
    BY <1>1, <1>5, FileTypes, ChannelTypes DEF Transfers
  <2> QED
    BY <1>1, <1>2, <1>3, <1>5, <2>2, <2>3, AcceptInputKept
<1> QED
  BY <1>4, <1>5

\* What the firmware answers, in the buffer that is posted.
LEMMA KnownHealth ==
  ASSUME StreamIInv, Posted, f.known, NEW r \in Answers(AUs), NEW w2,
         \/ r.kind = "format" /\ w2.held = fw.held /\ w2.eos = fw.eos /\ w2.hung = fw.hung
         \/ /\ r.kind \in {"picture", "error"} /\ fw.held # <<>> /\ r.au = Head(fw.held)
            /\ w2.held = Tail(fw.held) /\ w2.eos = fw.eos /\ w2.hung = fw.hung
         \/ /\ r.kind = "eos" /\ fw.held = <<>> /\ fw.eos = TRUE /\ w2.held = <<>>
            /\ w2.eos = FALSE /\ w2.hung = fw.hung
  PROVE  Kept(f, fw, Completed(r), w2)
<1>1. clip \in Clips /\ f \in File /\ fw \in Channel /\ fw.held \in Seq(AUs)
  BY IInvFacts, ChannelTypes DEF StreamIInv
<1>2. f.active # NONE /\ f.active.res = NONE /\ r # NONE /\ f.known = TRUE
  BY <1>1, FreshTypes, FileTypes DEF Posted
<1> DEFINE y == [f EXCEPT !.active.res = r]
<1>3. Completed(r) = chd_kick(y)
  BY DEF Completed
<1>4. /\ y \in File /\ But(f, y, {"active"}) /\ y.active # NONE
      /\ y.active.res = r /\ y.active.fmt = f.active.fmt /\ y.active.ep = f.active.ep
  BY <1>1, <1>2, ActiveAnswer
<1> HIDE DEF y
<1>5. Carries(f, y, r)
  BY <1>2, <1>4 DEF Carries
<1>6. Kept(f, fw, y, w2)
  BY <1>1, <1>5, AnnounceKept, PictureKept, MarkerKept
<1>7. Kept(y, w2, chd_kick(y), w2)
  BY <1>4, PlainFunctions
<1> QED
  BY <1>3, <1>6, <1>7, KeptAfter

LEMMA UnknownHealth ==
  ASSUME StreamIInv, Posted, ~f.known, NEW r \in Answers(AUs), NEW w2,
         r.kind = "format", w2.held = fw.held, w2.eos = fw.eos, w2.hung = fw.hung
  PROVE  Kept(f, fw, Completed(r), w2)
<1>1. clip \in Clips /\ f \in File
  BY IInvFacts DEF StreamIInv
<1>2. f.disc # NONE /\ r # NONE
  BY <1>1, FreshTypes DEF Posted
<1> DEFINE y == [f EXCEPT !.disc.res = r]
<1>3. Completed(r) = chd_kick(y)
  BY DEF Completed
<1>4. y \in File /\ But(f, y, {"disc"}) /\ y.disc # NONE /\ y.disc.res = r
  BY <1>1, <1>2, DiscAnswer
<1> HIDE DEF y
<1>5. Kept(f, fw, y, w2)
  BY <1>2, <1>4, ProbeKept
<1>6. Kept(y, w2, chd_kick(y), w2)
  BY <1>4, PlainFunctions
<1> QED
  BY <1>3, <1>5, <1>6, KeptAfter

\* Nothing but an announcement comes before the first announcement.
LEMMA FirstIsFormat ==
  ASSUME StreamIInv, Posted, ~f.known, Well(f, fw)
  PROVE  fw.fmt = NONE /\ ~(fw.held = <<>> /\ fw.eos)
<1>1. clip \in Clips /\ f \in File /\ MarkerOK(f) /\ PhaseOK(f)
  BY IInvFacts DEF StreamIInv
<1>2. Probed(f) = NONE
  BY DEF Posted, Probed
<1>3. fw.fmt = NONE
  BY <1>2 DEF Well, Discovery
<1>4. ASSUME fw.held = <<>>, fw.eos PROVE FALSE
  <2>1. Held(fw) = {} /\ f.active = NONE
    BY <1>1, <1>4, EmptyHeld DEF MarkerOK
  <2>2. Answered(f) = {}
    BY <2>1 DEF Answered, Registered
  <2>3. AtFirmware(fw)
    <3>1. fw.eos \in BOOLEAN
      BY IInvFacts DEF StreamIInv, Channel
    <3> QED
      BY <1>4, <3>1 DEF AtFirmware
  <2>4. f.phase = "DRAINING" /\ f.txau = EOS
    BY <2>3 DEF Well, Marked
  <2>5. f.seen /\ Wire(f) = {}
    BY <1>1, <2>4 DEF PhaseOK, Wire
  <2>6. f.tokens = {}
    BY <2>1, <2>2, <2>5 DEF Well, Ledger
  <2> QED
    BY <2>5, <2>6 DEF Well, Discovery
<1> QED
  BY <1>3, <1>4

LEMMA StrayHealth ==
  ASSUME StreamIInv, Posted, ~f.known, ~Well(f, fw), NEW r \in Answers(AUs), NEW w2
  PROVE  Kept(f, fw, Completed(r), w2)
<1>1. clip \in Clips /\ f \in File
  BY IInvFacts DEF StreamIInv
<1> DEFINE y == [f EXCEPT !.disc.res = r]
<1>2. Completed(r) = chd_kick(y) /\ f.disc # NONE
  BY DEF Completed, Posted
<1>3. y \in File /\ But(f, y, {"disc"})
  BY <1>1, <1>2, DiscAnsweredEffect
<1> HIDE DEF y
<1>4. {"disc"} \cap CleanFields = {}
  BY DEF CleanFields
<1>5. Clean(y) = Clean(f)
  BY <1>3, <1>4, CleanFrame
<1>6. Kept(y, fw, chd_kick(y), fw)
  BY <1>3, PlainFunctions
<1> QED
  BY <1>2, <1>5, <1>6 DEF Kept

LEMMA OutputHealth ==
  ASSUME StreamIInv, fw_output
  PROVE  Kept(f, fw, f', fw')
<1>1. clip \in Clips /\ f \in File /\ fw \in Channel /\ fw.held \in Seq(AUs)
  BY IInvFacts, ChannelTypes DEF StreamIInv
<1>2. Posted
  BY DEF fw_output
<1> DEFINE a == Head(fw.held)
           n == clip.aus[a].fmt
<1>3. CASE /\ fw.held # <<>> /\ n # fw.fmt
           /\ f' = Completed([kind |-> "format", au |-> a, fmt |-> n])
           /\ fw' = [fw EXCEPT !.fmt = n]
  <2> DEFINE r == [kind |-> "format", au |-> a, fmt |-> n]
  <2>1. a \in AUs
    BY <1>1, <1>3, TailRange
  <2>2. n \in Nat
    BY <1>1, <2>1, ClipTypes
  <2> HIDE DEF n, a
  <2>3. r \in Answers(AUs) /\ r.kind = "format"
    BY <2>1, <2>2 DEF Answers
  <2> HIDE DEF r
  <2>4. fw'.held = fw.held /\ fw'.eos = fw.eos /\ fw'.hung = fw.hung
    BY <1>1, <1>3, ChannelValues
  <2>5. f' = Completed(r)
    BY <1>3 DEF r
  <2> QED
    BY <1>2, <2>3, <2>4, <2>5, KnownHealth, UnknownHealth
<1>4. CASE /\ fw.held # <<>> /\ n = fw.fmt
           /\ \E k \in {"picture", "error"} : f' = Completed([kind |-> k, au |-> a])
           /\ fw' = [fw EXCEPT !.held = Tail(fw.held)]
  <2>1. PICK k \in {"picture", "error"} : f' = Completed([kind |-> k, au |-> a])
    BY <1>4
  <2> DEFINE r == [kind |-> k, au |-> a]
  <2>2. a \in AUs
    BY <1>1, <1>4, TailRange
  <2>3. n \in Nat /\ NONE \notin Nat
    BY <1>1, <2>2, ClipTypes, FreshTypes
  <2>4. r \in Answers(AUs) /\ r.kind \in {"picture", "error"} /\ r.au = a
    BY <2>2 DEF Answers
  <2>5. f' = Completed(r)
    BY <2>1
  <2> HIDE DEF r
  <2>6. fw'.held = Tail(fw.held) /\ fw'.eos = fw.eos /\ fw'.hung = fw.hung
    BY <1>1, <1>4, ChannelValues
  <2>7. CASE f.known
    BY <1>2, <1>4, <2>4, <2>5, <2>6, <2>7, KnownHealth
  <2>8. CASE ~f.known
    <3>1. ~Well(f, fw)
      BY <1>2, <1>4, <2>3, <2>8, FirstIsFormat
    <3> QED
      BY <1>2, <2>4, <2>5, <2>8, <3>1, StrayHealth
  <2> QED
    BY <2>7, <2>8
<1>5. CASE /\ fw.held = <<>> /\ fw.eos
           /\ f' = Completed([kind |-> "eos"])
           /\ fw' = [fw EXCEPT !.eos = FALSE]
  <2> DEFINE r == [kind |-> "eos"]
  <2>1. r \in Answers(AUs) /\ r.kind = "eos"
    BY DEF Answers
  <2>2. f' = Completed(r)
    BY <1>5
  <2> HIDE DEF r
  <2>3. fw'.held = fw.held /\ fw'.eos = FALSE /\ fw'.hung = fw.hung
    BY <1>1, <1>5, ChannelValues
  <2>4. fw.eos = TRUE
    BY <1>1, <1>5 DEF Channel
  <2>5. CASE f.known
    <3>1. fw'.held = <<>> /\ fw.held = <<>>
      BY <1>5, <2>3
    <3> QED
      BY <1>2, <2>1, <2>2, <2>3, <2>4, <2>5, <3>1, KnownHealth
  <2>6. CASE ~f.known
    <3>1. ~Well(f, fw)
      BY <1>2, <1>5, <2>6, FirstIsFormat
    <3> QED
      BY <1>2, <2>1, <2>2, <2>6, <3>1, StrayHealth
  <2> QED
    BY <2>5, <2>6
<1>6. \/ /\ fw.held # <<>> /\ n # fw.fmt
         /\ f' = Completed([kind |-> "format", au |-> a, fmt |-> n])
         /\ fw' = [fw EXCEPT !.fmt = n]
      \/ /\ fw.held # <<>> /\ n = fw.fmt
         /\ \E k \in {"picture", "error"} : f' = Completed([kind |-> k, au |-> a])
         /\ fw' = [fw EXCEPT !.held = Tail(fw.held)]
      \/ /\ fw.held = <<>> /\ fw.eos
         /\ f' = Completed([kind |-> "eos"])
         /\ fw' = [fw EXCEPT !.eos = FALSE]
  BY Zenon DEF fw_output
<1> QED
  BY <1>3, <1>4, <1>5, <1>6

LEMMA FaultDirty ==
  ASSUME StreamIInv, fw_fault
  PROVE  ~Clean(f')
<1>1. f \in File
  BY IInvFacts DEF StreamIInv
<1>2. \E x \in File : f' = Faulty(x)
  <2>1. [kind |-> "eos"] \in Answers(AUs)
    BY DEF Answers
  <2>2. Posted => Completed([kind |-> "eos"]) \in File
    BY <2>1, CompletedCalm DEF StreamIInv
  <2> QED
    BY <1>1, <2>2 DEF fw_fault
<1> QED
  BY <1>2, FaultyDirty

\* A step of the firmware.
LEMMA FirmwareHealth ==
  ASSUME StreamIInv, Firmware
  PROVE  Kept(f, fw, f', fw')
  BY AcceptHealth, OutputHealth, FaultDirty, DirtyKept DEF Firmware

-----------------------------------------------------------------------------
(* The steps of chd_run.                                                   *)

\* The outcome r of a step of chd_run: of a healthy file, a healthy file.
HealthOutcome(x, w, r) == Clean(r.f) => Clean(x) /\ (Well(x, w) => r.ok /\ Well(r.f, w))

LEMMA OkHealth ==
  ASSUME NEW x, NEW y, NEW w, NEW sh, Kept(x, w, y, w)
  PROVE  HealthOutcome(x, w, Ok(y, sh))
  BY DEF HealthOutcome, Ok, Kept

LEMMA SickHealth ==
  ASSUME NEW x, NEW y, NEW w, NEW sh, ~Well(x, w), Clean(y) => Clean(x), NEW r,
         r = Ok(y, sh) \/ r = Bad(y, sh)
  PROVE  HealthOutcome(x, w, r)
  BY DEF HealthOutcome, Ok, Bad

LEMMA HealthAfter ==
  ASSUME NEW x, NEW w, NEW q, NEW r, q.ok, HealthOutcome(x, w, q), HealthOutcome(q.f, w, r)
  PROVE  HealthOutcome(x, w, r)
  BY DEF HealthOutcome

LEMMA MayFailHealth ==
  ASSUME NEW x, NEW y, NEW bad \in File, NEW w, NEW sh, Kept(x, w, y, w),
         NEW r \in MayFail(y, bad, sh)
  PROVE  HealthOutcome(x, w, r)
<1>1. r = Ok(y, sh) \/ r = Bad(Faulty(bad), sh)
  BY DEF MayFail
<1>2. CASE r = Ok(y, sh)
  BY <1>2, OkHealth
<1>3. CASE r = Bad(Faulty(bad), sh)
  <2>1. ~Clean(r.f)
    BY <1>3, FaultyDirty DEF Bad
  <2> QED
    BY <2>1 DEF HealthOutcome
<1> QED
  BY <1>1, <1>2, <1>3

LEMMA PhaseOpenEffect ==
  ASSUME NEW x \in File, NEW p \in Phases
  PROVE  LET y == [x EXCEPT !.phase = p]
         IN  y \in File /\ But(x, y, {"phase"}) /\ y.phase = p
  BY DEF File, But, Fields

LEMMA OpenHealth ==
  ASSUME NEW x \in File, NEW w, NEW sh, NEW r \in crystalhd_v4l2_decoder_open_locked(x, sh)
  PROVE  HealthOutcome(x, w, r)
<1>1. CASE x.phase # "OFF"
  <2>1. r = Ok(x, sh)
    BY <1>1 DEF crystalhd_v4l2_decoder_open_locked
  <2> QED
    BY <2>1, KeptSame, OkHealth
<1>2. CASE x.phase = "OFF"
  <2> DEFINE y == [x EXCEPT !.phase = "RUNNING"]
             z == [x EXCEPT !.phase = "FAILED"]
  <2>1. r \in MayFail(y, z, sh)
    BY <1>2 DEF crystalhd_v4l2_decoder_open_locked
  <2>2. But(x, y, {"phase"}) /\ y.phase = "RUNNING" /\ z \in File
    BY PhaseOpenEffect DEF Phases
  <2> HIDE DEF y, z
  <2>3. /\ {"phase"} \cap GeometryFields = {} /\ {"phase"} \cap DiscoveryFields = {}
        /\ {"phase"} \cap CleanFields = {}
    BY DEF GeometryFields, DiscoveryFields, CleanFields
  <2>4. /\ y.tokens = x.tokens /\ y.seen = x.seen /\ y.active = x.active /\ y.fatal = x.fatal
        /\ y.last = x.last /\ y.epoch = x.epoch /\ y.drain = x.drain /\ y.txau = x.txau
        /\ y.tx = x.tx
    BY <2>2 DEF But, Fields
  <2>5. Wire(y) = Wire(x) /\ Answered(y) = Answered(x)
    BY <2>4 DEF Wire, Answered, Registered
  <2>6. AtWire(y) = AtWire(x) /\ AtResult(y) = AtResult(x) /\ AtDriver(y) = AtDriver(x)
    BY <2>4 DEF Registered, AtWire, AtResult, AtDriver
  <2>7. Alive(x, w) => Alive(y, w)
    BY <2>2, <2>4 DEF Alive
  <2>8. Ledger(x, w) => Ledger(y, w)
    BY <2>2, <2>4, <2>5 DEF Ledger
  <2>9. Marked(x, w) => Marked(y, w)
    BY <1>2, <2>2, <2>4, <2>6 DEF Marked
  <2>10. Kept(x, w, y, w)
    BY <2>2, <2>3, <2>7, <2>8, <2>9, CleanFrame, GeometryFrame, DiscoveryFrame DEF Kept, Well
  <2> QED
    BY <2>1, <2>2, <2>10, MayFailHealth
<1> QED
  BY <1>1, <1>2

\* A buffer of the present geometry is taken from the ready queue.
LEMMA UniformHead ==
  ASSUME NEW x \in File, Uniform(x), x.dst # <<>>, NEW y, y.dst = Tail(x.dst), y.fmt = x.fmt
  PROVE  Head(x.dst) = x.fmt /\ Uniform(y)
<1> DEFINE m == Len(x.dst)
           n == Len(y.dst)
<1>1. x.dst \in Seq(Nat)
  BY FileTypes DEF Buffers
<1>2. /\ m \in Nat \ {0} /\ n = m - 1 /\ Head(x.dst) = x.dst[1]
      /\ \A i \in 1 .. n : y.dst[i] = x.dst[i + 1]
  BY <1>1, TailRange
<1>3. \A i \in 1 .. m : x.dst[i] = x.fmt
  BY DEF Uniform
<1> HIDE DEF m
<1>4. Head(x.dst) = x.fmt
  BY <1>2, <1>3
<1>5. ASSUME NEW i \in 1 .. n PROVE y.dst[i] = y.fmt
  <2>1. i + 1 \in 1 .. m
    BY <1>2
  <2> QED
    BY <1>2, <1>3, <2>1
<1> QED
  BY <1>4, <1>5 DEF Uniform

LEMMA UnstagedEffect ==
  ASSUME NEW x \in File
  PROVE  LET y == [x EXCEPT !.staged = NONE]
         IN  y \in File /\ But(x, y, {"staged"}) /\ y.staged = NONE
  BY NoneTypes DEF File, But, Fields

\* The queues of the client may move, the rest stays.
LEMMA QueueFrame ==
  ASSUME NEW x, NEW y, NEW w, But(x, y, {"dst", "held", "staged"}),
         Geometry(x) => Geometry(y)
  PROVE  Kept(x, w, y, w)
<1> DEFINE T == {"dst", "held", "staged"}
<1>1. /\ T \cap DiscoveryFields = {} /\ T \cap LedgerFields = {} /\ T \cap MarkerFields = {}
      /\ T \cap AliveFields = {} /\ T \cap CleanFields = {}
  BY DEF DiscoveryFields, LedgerFields, MarkerFields, AliveFields, CleanFields
<1> HIDE DEF T
<1>2. But(x, y, T)
  BY DEF T
<1> QED
  BY <1>1, <1>2, CleanFrame, AliveFrame, DiscoveryFrame, LedgerFrame, MarkedFrame
  DEF Kept, Well

LEMMA DeliverHealth ==
  ASSUME NEW x \in File, NEW w, NEW sh, ~x.pending, x.active = NONE,
         NEW r \in chd_deliver_staged(x, sh)
  PROVE  HealthOutcome(x, w, r)
<1>1. CASE r = Ok(x, sh)
  BY <1>1, KeptSame, OkHealth
<1>2. CASE x.staged # NONE /\ x.staged.ep # x.epoch /\ r = Bad(x, sh)
  <2>1. ~Well(x, w)
    BY <1>2 DEF Well, Geometry
  <2> QED
    BY <1>2, <2>1, SickHealth
<1> DEFINE d == DstRemove(x)
           b == BufDone(d)
           s == [x EXCEPT !.staged = NONE]
           e == DstRemove(s)
           z == BufDone(e)
<1>3. CASE x.staged # NONE /\ x.dst # <<>> /\ Head(x.dst) # x.staged.fmt /\ r = Bad(b, sh)
  <2>1. d \in File /\ But(x, d, {"dst"}) /\ d.dst = Tail(x.dst)
    BY <1>3, DstRemoveEffect
  <2> HIDE DEF d
  <2>2. d.fmt = x.fmt
    BY <2>1 DEF But, Fields
  <2>3. ~Well(x, w)
    <3> SUFFICES ASSUME Well(x, w) PROVE FALSE
      OBVIOUS
    <3>1. Uniform(x) /\ x.staged.fmt = x.fmt
      BY <1>3 DEF Well, Geometry
    <3> QED
      BY <1>3, <2>1, <2>2, <3>1, UniformHead
  <2>4. {"dst"} \cap CleanFields = {}
    BY DEF CleanFields
  <2>5. Clean(d) = Clean(x) /\ (Clean(b) => Clean(d))
    BY <2>1, <2>4, CleanFrame, PlainFunctions DEF Kept
  <2> HIDE DEF b
  <2> QED
    BY <1>3, <2>3, <2>5, SickHealth
<1>4. CASE x.staged # NONE /\ x.dst # <<>> /\ r = Ok(z, sh \cup {x.staged.au})
  <2>1. s \in File /\ But(x, s, {"staged"}) /\ s.staged = NONE
    BY UnstagedEffect
  <2> HIDE DEF s
  <2>2. s.dst = x.dst
    BY <2>1 DEF But, Fields
  <2>3. e \in File /\ But(s, e, {"dst"}) /\ e.dst = Tail(x.dst)
    BY <1>4, <2>1, <2>2, DstRemoveEffect
  <2> HIDE DEF e
  <2>4. But(x, e, {"dst", "held", "staged"}) /\ e.staged = NONE
    BY <2>1, <2>3 DEF But, Fields
  <2>5. /\ e.fmt = x.fmt /\ e.pending = x.pending /\ e.known = x.known /\ e.active = NONE
    BY <2>4 DEF But, Fields
  <2>6. Geometry(x) => Geometry(e)
    <3> SUFFICES ASSUME Geometry(x) PROVE Geometry(e)
      OBVIOUS
    <3>1. Uniform(x)
      BY DEF Geometry
    <3>2. Uniform(e)
      BY <1>4, <2>3, <2>5, <3>1, UniformHead
    <3> QED
      BY <2>4, <2>5, <3>2 DEF Geometry
  <2>7. Kept(x, w, e, w)
    BY <2>4, <2>6, QueueFrame
  <2>8. Kept(e, w, z, w)
    BY <2>3, PlainFunctions
  <2> QED
    BY <1>4, <2>7, <2>8, KeptAfter, OkHealth
<1> QED
  BY <1>1, <1>2, <1>3, <1>4 DEF chd_deliver_staged

LEMMA PostedEffect ==
  ASSUME clip \in Clips, NEW x \in File, x.dst # <<>>
  PROVE  LET reg == [fmt |-> Head(x.dst), ep |-> x.epoch, res |-> NONE]
             y == [x EXCEPT !.active = reg]
             z == DstRemove(y)
         IN  /\ But(x, z, {"active", "dst"}) /\ z.active = reg /\ z.dst = Tail(x.dst)
             /\ reg # NONE /\ reg.fmt = Head(x.dst) /\ reg.ep = x.epoch /\ reg.res = NONE
<1> DEFINE reg == [fmt |-> Head(x.dst), ep |-> x.epoch, res |-> NONE]
           y == [x EXCEPT !.active = reg]
           z == DstRemove(y)
<1>1. Head(x.dst) \in Nat /\ x.epoch \in Nat
  BY FileTypes, NodeAssumption DEF Buffers, Epochs
<1>2. reg \in Posts(AUs) /\ reg.fmt = Head(x.dst) /\ reg.ep = x.epoch /\ reg.res = NONE
  BY <1>1 DEF Posts
<1> HIDE DEF reg
<1>3. reg \in Registrations /\ reg # NONE
  BY <1>2, FreshTypes DEF Registrations
<1>4. y \in File /\ y.active = reg /\ But(x, y, {"active"})
  BY <1>3 DEF File, But, Fields
<1> HIDE DEF y
<1>5. y.dst = x.dst
  BY <1>4 DEF But, Fields
<1>6. But(y, z, {"dst"}) /\ z.dst = Tail(x.dst)
  BY <1>4, <1>5, DstRemoveEffect
<1> HIDE DEF z
<1>7. But(x, z, {"active", "dst"}) /\ z.active = reg
  BY <1>4, <1>6 DEF But, Fields
<1> QED
  BY <1>2, <1>3, <1>6, <1>7 DEF z, y, reg

LEMMA PostHealth ==
  ASSUME clip \in Clips, NEW x \in File, NEW w, NEW sh, x.known, ~x.pending,
         x.active = NONE, NEW r \in PostCapture(x, sh)
  PROVE  HealthOutcome(x, w, r)
<1> DEFINE reg == [fmt |-> Head(x.dst), ep |-> x.epoch, res |-> NONE]
           z == DstRemove([x EXCEPT !.active = reg])
           d == DstRemove(x)
           b == BufDone(d)
<1>1. \/ r = Ok(x, sh)
      \/ x.dst # <<>> /\ Head(x.dst) # x.fmt /\ r = Bad(b, sh)
      \/ x.dst # <<>> /\ Head(x.dst) = x.fmt /\ x.staged = NONE /\ r \in MayFail(z, b, sh)
  BY DEF PostCapture
<1>2. x.dst # <<>> => d \in File /\ But(x, d, {"dst"}) /\ d.dst = Tail(x.dst)
  BY DstRemoveEffect
<1> HIDE DEF d
<1>3. x.dst # <<>> => d.fmt = x.fmt
  BY <1>2 DEF But, Fields
<1>4. x.dst # <<>> => b \in File /\ Clean(d) = Clean(x) /\ (Clean(b) => Clean(d))
  <2>1. {"dst"} \cap CleanFields = {}
    BY DEF CleanFields
  <2> QED
    BY <1>2, <2>1, CleanFrame, PlainFunctions DEF Kept
<1> HIDE DEF b
<1>5. CASE r = Ok(x, sh)
  BY <1>5, KeptSame, OkHealth
<1>6. CASE x.dst # <<>> /\ Head(x.dst) # x.fmt /\ r = Bad(b, sh)
  <2>1. ~Well(x, w)
    <3> SUFFICES ASSUME Well(x, w) PROVE FALSE
      OBVIOUS
    <3>1. Uniform(x)
      BY DEF Well, Geometry
    <3> QED
      BY <1>2, <1>3, <1>6, <3>1, UniformHead
  <2> QED
    BY <1>4, <1>6, <2>1, SickHealth
<1>7. CASE /\ x.dst # <<>> /\ Head(x.dst) = x.fmt /\ x.staged = NONE
           /\ r \in MayFail(z, b, sh)
  <2>1. /\ But(x, z, {"active", "dst"}) /\ z.active = reg /\ z.dst = Tail(x.dst)
        /\ reg # NONE /\ reg.fmt = Head(x.dst) /\ reg.ep = x.epoch /\ reg.res = NONE
    BY <1>7, PostedEffect
  <2> HIDE DEF z, reg
  <2>2. /\ z.tokens = x.tokens /\ z.seen = x.seen /\ z.tx = x.tx /\ z.fatal = x.fatal
        /\ z.last = x.last /\ z.epoch = x.epoch /\ z.drain = x.drain /\ z.txau = x.txau
        /\ z.phase = x.phase /\ z.known = x.known /\ z.pending = x.pending
        /\ z.fmt = x.fmt /\ z.staged = x.staged
    BY <2>1 DEF But, Fields
  <2>3. Registered(x) = NONE /\ Registered(z) = NONE
    BY <2>1 DEF Registered
  <2>4. /\ Wire(z) = Wire(x) /\ Answered(z) = {} /\ Answered(x) = {} /\ AtWire(z) = AtWire(x)
        /\ ~AtResult(z) /\ ~AtResult(x) /\ AtDriver(z) = AtDriver(x)
    BY <2>2, <2>3 DEF Wire, Answered, AtWire, AtResult, AtDriver
  <2>5. Geometry(x) => Geometry(z)
    <3> SUFFICES ASSUME Geometry(x) PROVE Geometry(z)
      OBVIOUS
    <3>1. Uniform(x)
      BY DEF Geometry
    <3>2. Uniform(z)
      BY <1>7, <2>1, <2>2, <3>1, UniformHead
    <3> QED
      BY <1>7, <2>1, <2>2, <3>2 DEF Geometry
  <2>6. Ledger(x, w) => Ledger(z, w)
    BY <2>2, <2>4 DEF Ledger
  <2>7. Marked(x, w) => Marked(z, w)
    BY <2>2, <2>4 DEF Marked
  <2>8. /\ {"active", "dst"} \cap AliveFields = {} /\ {"active", "dst"} \cap CleanFields = {}
        /\ {"active", "dst"} \cap DiscoveryFields = {}
    BY DEF AliveFields, CleanFields, DiscoveryFields
  <2>9. Kept(x, w, z, w)
    BY <2>1, <2>5, <2>6, <2>7, <2>8, CleanFrame, AliveFrame, DiscoveryFrame DEF Kept, Well
  <2> QED
    BY <1>4, <1>7, <2>9, MayFailHealth
<1> QED
  BY <1>1, <1>5, <1>6, <1>7

LEMMA SubmitHealth ==
  ASSUME clip \in Clips, NEW x, RunInv(x), NEW w, NEW sh \in SUBSET AUs,
         NEW r \in chd_submit_capture(x, sh)
  PROVE  HealthOutcome(x, w, r)
<1>1. CASE ~x.cap \/ ~x.known \/ x.pending \/ x.active # NONE
  <2>1. r = Ok(x, sh)
    BY <1>1 DEF chd_submit_capture
  <2> QED
    BY <2>1, KeptSame, OkHealth
<1>2. CASE ~(~x.cap \/ ~x.known \/ x.pending \/ x.active # NONE)
  <2>1. r \in Then(chd_deliver_staged(x, sh), PostCapture)
    BY <1>2 DEF chd_submit_capture
  <2>2. PICK q \in chd_deliver_staged(x, sh) :
           r \in IF q.ok THEN PostCapture(q.f, q.shown) ELSE {q}
    BY <2>1 DEF Then
  <2>3. x \in File /\ x.known /\ ~x.pending /\ x.active = NONE
    BY <1>2 DEF RunInv, FileInv
  <2>4. HealthOutcome(x, w, q)
    BY <2>3, DeliverHealth
  <2>5. RunOutcome(x, q) /\ But(x, q.f, {"dst", "held", "staged"})
    BY DeliverKeeps
  <2>6. q.f \in File
    BY <2>5 DEF RunOutcome, RunStep, RunInv, FileInv
  <2>7. q.f.known /\ ~q.f.pending /\ q.f.active = NONE
    BY <2>3, <2>5 DEF But, Fields
  <2>8. CASE q.ok
    <3>1. r \in PostCapture(q.f, q.shown)
      BY <2>2, <2>8
    <3>2. HealthOutcome(q.f, w, r)
      BY <2>6, <2>7, <3>1, PostHealth
    <3> QED
      BY <2>4, <2>8, <3>2, HealthAfter
  <2>9. CASE ~q.ok
    BY <2>2, <2>4, <2>9
  <2> QED
    BY <2>8, <2>9
<1> QED
  BY <1>1, <1>2

LEMMA StartedEffect ==
  ASSUME NEW x \in File, NEW b \in BOOLEAN
  PROVE  LET y == [x EXCEPT !.started = b] IN y \in File /\ But(x, y, {"started"})
  BY DEF File, But, Fields

LEMMA DiscEffect ==
  ASSUME NEW x \in File, NEW v \in Discoveries
  PROVE  LET y == [x EXCEPT !.disc = v]
         IN  y \in File /\ But(x, y, {"disc"}) /\ y.disc = v
  BY DEF File, But, Fields

LEMMA StartHealth ==
  ASSUME clip \in Clips, NEW x \in File, NEW w, NEW sh, NEW r \in chd_start_capture(x, sh)
  PROVE  HealthOutcome(x, w, r)
<1> DEFINE S(y) == [y EXCEPT !.started = TRUE]
           v == [res |-> NONE]
           D == [x EXCEPT !.disc = v]
           Start(y, s) == MayFail(S(y), y, s)
           First == IF x.disc # NONE THEN {Ok(x, sh)} ELSE MayFail(D, x, sh)
<1>1. ASSUME NEW y \in File, NEW s, NEW q \in Start(y, s)
      PROVE  HealthOutcome(y, w, q)
  <2> DEFINE z == S(y)
  <2>1. But(y, z, {"started"})
    BY StartedEffect
  <2>2. q \in MayFail(z, y, s)
    BY <1>1
  <2> HIDE DEF z
  <2>3. {"started"} \cap HealthFields = {}
    BY DEF HealthFields, GeometryFields, DiscoveryFields, LedgerFields, MarkerFields,
           AliveFields, CleanFields
  <2>4. Kept(y, w, z, w)
    BY <2>1, <2>3, PlainKept
  <2> QED
    BY <2>2, <2>4, MayFailHealth
<1>2. \/ r = Ok(x, sh)
      \/ r \in Then(First, Start)
      \/ r \in Start(x, sh)
  BY DEF chd_start_capture
<1>3. v \in Discoveries /\ v # NONE /\ v.res = NONE
  <2>1. v \in Probes(AUs) /\ v.res = NONE
    BY DEF Probes
  <2> QED
    BY <2>1, FreshTypes DEF Discoveries
<1> HIDE DEF v
<1>4. D \in File /\ But(x, D, {"disc"}) /\ D.disc = v
  BY <1>3, DiscEffect
<1> HIDE DEF D
<1>5. x.disc = NONE => Kept(x, w, D, w)
  <2> SUFFICES ASSUME x.disc = NONE PROVE Kept(x, w, D, w)
    OBVIOUS
  <2>1. D.known = x.known /\ D.seen = x.seen /\ D.tokens = x.tokens
    BY <1>4 DEF But, Fields
  <2>2. Probed(x) = NONE /\ Probed(D) = NONE
    BY <1>3, <1>4 DEF Probed
  <2>3. Discovery(x, w) => Discovery(D, w)
    BY <2>1, <2>2 DEF Discovery
  <2>4. /\ {"disc"} \cap GeometryFields = {} /\ {"disc"} \cap LedgerFields = {}
        /\ {"disc"} \cap MarkerFields = {} /\ {"disc"} \cap AliveFields = {}
        /\ {"disc"} \cap CleanFields = {}
    BY DEF GeometryFields, LedgerFields, MarkerFields, AliveFields, CleanFields
  <2> QED
    BY <1>4, <2>3, <2>4, CleanFrame, AliveFrame, GeometryFrame, LedgerFrame, MarkedFrame
    DEF Kept, Well
<1>6. CASE r \in Then(First, Start)
  <2>1. PICK q \in First : r \in IF q.ok THEN Start(q.f, q.shown) ELSE {q}
    BY <1>6 DEF Then
  <2> HIDE DEF Start
  <2>2. HealthOutcome(x, w, q)
    <3>1. q = Ok(x, sh) \/ (x.disc = NONE /\ q \in MayFail(D, x, sh))
      BY <2>1
    <3> QED
      BY <1>5, <3>1, KeptSame, OkHealth, MayFailHealth
  <2>3. CASE q.ok
    <3>1. q = Ok(x, sh) \/ q = Ok(D, sh)
      BY <2>1, <2>3 DEF MayFail, Bad
    <3>2. q.f \in File
      BY <1>4, <3>1 DEF Ok
    <3>3. HealthOutcome(q.f, w, r)
      BY <1>1, <2>1, <2>3, <3>2
    <3> QED
      BY <2>2, <2>3, <3>3, HealthAfter
  <2> QED
    BY <2>1, <2>2, <2>3
<1> QED
  BY <1>1, <1>2, <1>6, KeptSame, OkHealth

LEMMA NewFormatValues ==
  ASSUME NEW x \in File, NEW n, NEW p, NEW q
  PROVE  LET y == [x EXCEPT !.fmt = n, !.known = TRUE, !.pending = p, !.quant = q]
         IN  y.fmt = n /\ y.pending = p
  BY DEF File

\* The new geometry is the one the client has prepared, or it is pending.
Announced(x, v, n) ==
    /\ v.fmt = n /\ v.known = TRUE /\ v.active = NONE /\ v.disc = NONE
    /\ ~v.pending => ~x.known /\ x.dst # <<>> /\ Head(x.dst) = n

LEMMA AnnouncedKept ==
  ASSUME NEW x \in File, NEW v, NEW w, NEW n, Announced(x, v, n),
         But(x, v, {"fmt", "known", "pending", "quant", "held", "active", "started", "disc"}),
         x.known => x.active # NONE /\ x.active.res # NONE /\ x.active.res.kind = "format"
  PROVE  Kept(x, w, v, w)
<1>1. /\ v.tokens = x.tokens /\ v.seen = x.seen /\ v.tx = x.tx /\ v.fatal = x.fatal
      /\ v.last = x.last /\ v.epoch = x.epoch /\ v.drain = x.drain /\ v.txau = x.txau
      /\ v.phase = x.phase /\ v.staged = x.staged /\ v.dst = x.dst
  BY DEF But, Fields
<1> DEFINE T == {"fmt", "known", "pending", "quant", "held", "active", "started", "disc"}
<1>2. T \cap CleanFields = {} /\ T \cap AliveFields = {}
  BY DEF CleanFields, AliveFields
<1>3. Clean(v) = Clean(x) /\ (Alive(x, w) => Alive(v, w))
  BY <1>2, CleanFrame, AliveFrame
<1> SUFFICES ASSUME Well(x, w)
             PROVE  Geometry(v) /\ Discovery(v, w) /\ Ledger(v, w) /\ Marked(v, w)
  BY <1>3 DEF Kept, Well
<1>4. Geometry(x) /\ Ledger(x, w) /\ Marked(x, w)
  BY DEF Well
<1>5. x.staged = NONE /\ (~x.known => x.active = NONE /\ ~x.pending)
  BY <1>4 DEF Geometry
<1>6. Answered(x) = {} /\ ~AtResult(x)
  BY <1>5 DEF Answered, AtResult, Registered
<1>7. Registered(v) = NONE /\ Probed(v) = NONE
  BY DEF Announced, Registered, Probed
<1>8. /\ Wire(v) = Wire(x) /\ Answered(v) = {} /\ AtWire(v) = AtWire(x)
      /\ ~AtResult(v) /\ AtDriver(v) = AtDriver(x)
  BY <1>1, <1>7 DEF Wire, Answered, AtWire, AtResult, AtDriver
<1>9. ~v.pending => Uniform(v)
  <2> SUFFICES ASSUME ~v.pending PROVE Uniform(v)
    OBVIOUS
  <2>1. ~x.known /\ x.dst # <<>> /\ Head(x.dst) = n /\ v.fmt = n
    BY DEF Announced
  <2>2. Uniform(x)
    BY <1>4, <1>5, <2>1 DEF Geometry
  <2> DEFINE d == DstRemove(x)
  <2>3. But(x, d, {"dst"}) /\ d.dst = Tail(x.dst)
    BY <2>1, DstRemoveEffect
  <2> HIDE DEF d
  <2>4. d.fmt = x.fmt
    BY <2>3 DEF But, Fields
  <2>5. Head(x.dst) = x.fmt
    BY <2>1, <2>2, <2>3, <2>4, UniformHead
  <2> QED
    BY <1>1, <2>1, <2>2, <2>5 DEF Uniform
<1>10. Geometry(v)
  BY <1>1, <1>5, <1>9 DEF Geometry, Announced
<1>11. Discovery(v, w)
  BY <1>7 DEF Discovery, Announced
<1>12. Ledger(v, w)
  BY <1>1, <1>4, <1>6, <1>8 DEF Ledger
<1>13. Marked(v, w)
  BY <1>1, <1>4, <1>6, <1>8 DEF Marked
<1> QED
  BY <1>10, <1>11, <1>12, <1>13

LEMMA FormatHealth ==
  ASSUME clip \in Clips, NEW x \in File, NEW w, NEW sh, NEW a, a \in Answers(AUs),
         a.kind = "format", x.known => x.active # NONE /\ x.active.res = a,
         NEW r \in chd_format(x, a, sh)
  PROVE  HealthOutcome(x, w, r)
<1> DEFINE u == [x EXCEPT !.started = FALSE, !.disc = NONE]
           y == chd_return_active(u)
           hinted == ~x.known /\ x.cap /\ x.dst # <<>> /\ Head(x.dst) = a.fmt
           g == crystalhd_v4l2_decoder_peek_range(x, a.au)
           q == IF g = "none" THEN y.quant ELSE g
           d == [x EXCEPT !.disc = NONE]
<1>1. u \in File /\ But(x, u, {"started", "disc"}) /\ u.disc = NONE
  BY PausedEffect DEF File
<1>2. PICK p \in BOOLEAN : p = ~hinted
  <2>1. (~hinted) \in BOOLEAN
    OBVIOUS
  <2> QED
    BY <2>1
<1>7. y \in File /\ But(u, y, {"held", "active"}) /\ y.active = NONE
  BY <1>1, ReturnActiveEffect
<1>3. q \in Quants /\ a.fmt \in Nat /\ a # NONE
  <2> HIDE DEF y
  <2>1. a.au \in AUs /\ a.fmt \in Nat
    BY AnswerTypes
  <2>2. g \in Quants
    BY <2>1, ClipTypes DEF crystalhd_v4l2_decoder_peek_range, Quants
  <2> QED
    BY <1>7, <2>1, <2>2, FileTypes, FreshTypes
<1> DEFINE v == [y EXCEPT !.fmt = a.fmt, !.known = TRUE, !.pending = p, !.quant = q]
<1>4. r \in MayFail(v, d, sh)
  BY <1>2 DEF chd_format
<1>5. d \in File
  BY NoneTypes, DiscEffect
<1>6. ~p => ~x.known /\ x.dst # <<>> /\ Head(x.dst) = a.fmt
  BY <1>2
<1> HIDE DEF u, q, d, hinted, y
<1>8. /\ But(y, v, {"fmt", "known", "pending", "quant"}) /\ v.known = TRUE
      /\ v.fmt = a.fmt /\ v.pending = p
  <2>1. But(y, v, {"fmt", "known", "pending", "quant"}) /\ v.known = TRUE
    BY <1>3, <1>7, NewFormatEffect
  <2>2. v.fmt = a.fmt /\ v.pending = p
    BY <1>7, NewFormatValues
  <2> QED
    BY <2>1, <2>2
<1> HIDE DEF v
<1>9. But(x, v, {"fmt", "known", "pending", "quant", "held", "active", "started", "disc"})
  BY <1>1, <1>7, <1>8 DEF But
<1>10. v.active = NONE /\ v.disc = NONE
  BY <1>1, <1>7, <1>8 DEF But, Fields
<1>11. Announced(x, v, a.fmt)
  BY <1>6, <1>8, <1>10 DEF Announced
<1>12. x.known => x.active # NONE /\ x.active.res # NONE /\ x.active.res.kind = "format"
  BY <1>3
<1>13. Kept(x, w, v, w)
  BY <1>9, <1>11, <1>12, AnnouncedKept
<1> QED
  BY <1>4, <1>5, <1>13, MayFailHealth

\* The registration leaves, its access unit is answered.
LEMMA AnsweredKept ==
  ASSUME NEW x, NEW y, NEW w, NEW a, NEW T, But(x, y, T),
         T \subseteq {"active", "tokens", "held", "staged", "started", "pending", "quant"},
         x.known, x.active # NONE, x.active.res = a, a # NONE, a.kind \in {"picture", "error"},
         y.active = NONE, y.tokens = x.tokens \ {a.au}, Geometry(x) => Geometry(y)
  PROVE  Kept(x, w, y, w)
<1>1. {"seen", "tx", "fatal", "last", "epoch", "drain", "txau", "phase", "known", "disc"}
         \subseteq Fields \ T
  BY DEF Fields
<1>2. /\ y.seen = x.seen /\ y.tx = x.tx /\ y.fatal = x.fatal
      /\ y.last = x.last /\ y.epoch = x.epoch /\ y.drain = x.drain /\ y.txau = x.txau
      /\ y.phase = x.phase /\ y.known = x.known /\ y.disc = x.disc
  BY <1>1 DEF But
<1>3. T \cap CleanFields = {} /\ T \cap AliveFields = {}
  BY DEF CleanFields, AliveFields
<1>4. Clean(y) = Clean(x) /\ (Alive(x, w) => Alive(y, w))
  BY <1>3, CleanFrame, AliveFrame
<1>5. Registered(x) = a /\ Registered(y) = NONE /\ Probed(y) = Probed(x)
  BY <1>2 DEF Registered, Probed
<1>6. /\ Wire(y) = Wire(x) /\ Answered(y) = {} /\ Answered(x) = {a.au}
      /\ AtWire(y) = AtWire(x) /\ ~AtResult(x) /\ ~AtResult(y) /\ AtDriver(y) = AtDriver(x)
  BY <1>2, <1>5 DEF Wire, Answered, AtWire, AtResult, AtDriver
<1>7. Discovery(x, w) => Discovery(y, w)
  BY <1>2, <1>5 DEF Discovery
<1>8. Ledger(x, w) => Ledger(y, w)
  <2> SUFFICES ASSUME Ledger(x, w) PROVE Ledger(y, w)
    OBVIOUS
  <2>1. a.au \notin Held(w) /\ a.au \notin Wire(x)
    BY <1>6 DEF Ledger
  <2>2. y.tokens = Wire(y) \cup Held(w) \cup Answered(y)
    BY <1>6, <2>1 DEF Ledger
  <2>3. y.tokens # {} => x.tokens # {}
    OBVIOUS
  <2> QED
    BY <1>2, <1>6, <2>2, <2>3 DEF Ledger
<1>9. Marked(x, w) => Marked(y, w)
  BY <1>2, <1>6 DEF Marked
<1> QED
  BY <1>4, <1>7, <1>8, <1>9 DEF Kept, Well

LEMMA PictureHealth ==
  ASSUME clip \in Clips, NEW x \in File, NEW w, NEW sh, x.active # NONE, x.known,
         NEW a, a \in Answers(AUs), a.kind \in {"picture", "error"}, x.active.res = a,
         NEW r \in chd_picture(x, a, sh)
  PROVE  HealthOutcome(x, w, r)
<1> DEFINE y == [x EXCEPT !.active = NONE]
           z == crystalhd_v4l2_decoder_complete_observed(y, a.au)
           c == [au |-> a.au, fmt |-> z.fmt, ep |-> x.active.ep]
           s == [z EXCEPT !.staged = c, !.started = FALSE, !.pending = TRUE,
                          !.quant = clip.aus[a.au].range]
           Y == BufDone(y)
           Z == BufDone(z)
           S == BufDone(s)
<1>1. a.au \in AUs /\ clip.aus[a.au].range \in Quants /\ a # NONE
  <2>1. a.au \in AUs
    BY AnswerTypes
  <2> QED
    BY <2>1, ClipTypes, FreshTypes
<1>2. \/ (~Current(x, x.active.ep) \/ a.au \notin x.tokens) /\ r = Bad(Y, sh)
      \/ (x.staged # NONE \/ x.active.fmt # x.fmt) /\ r = Bad(Z, sh)
      \/ r \in MayFail(S, Z, sh)
      \/ r = Ok(Z, sh \cup {a.au})
  BY DEF chd_picture, chd_stage_range
<1>3. y \in File /\ But(x, y, {"active"}) /\ y.active = NONE
  BY UnregisteredEffect
<1> HIDE DEF y
<1>4. z \in File /\ But(y, z, {"tokens"}) /\ z.tokens = y.tokens \ {a.au}
  BY <1>3, CompletedEffect, CompletedValue
<1> HIDE DEF z
<1>5. c \in StagedPictures /\ c.fmt = z.fmt /\ c.ep = x.active.ep
  <2>1. z.fmt \in Nat /\ x.active.ep \in Nat
    BY <1>4, FileTypes, PostTypes
  <2> QED
    BY <1>1, <2>1 DEF Copies, StagedPictures
<1> HIDE DEF c
<1>6. /\ s \in File /\ But(z, s, {"staged", "started", "pending", "quant"}) /\ s.staged = c
      /\ s.pending = TRUE
  <2>1. z \in File /\ c \in StagedPictures /\ clip.aus[a.au].range \in Quants
    BY <1>1, <1>4, <1>5
  <2>2. s \in File /\ But(z, s, {"staged", "started", "pending", "quant"})
    BY <2>1, StagedEffect
  <2>3. s.staged = c /\ s.pending = TRUE
    BY <2>1 DEF File
  <2> QED
    BY <2>2, <2>3
<1> HIDE DEF s
<1>7. /\ y.fmt = x.fmt /\ y.tokens = x.tokens /\ y.pending = x.pending /\ y.dst = x.dst
      /\ y.known = x.known /\ y.staged = x.staged /\ y.epoch = x.epoch
  BY <1>3 DEF But, Fields
<1>8. /\ z.fmt = x.fmt /\ z.tokens = x.tokens \ {a.au} /\ z.pending = x.pending
      /\ z.dst = x.dst /\ z.known = x.known /\ z.staged = x.staged /\ z.epoch = x.epoch
      /\ z.active = NONE
  BY <1>3, <1>4, <1>7 DEF But, Fields
<1>9. /\ s.fmt = x.fmt /\ s.tokens = x.tokens \ {a.au} /\ s.known = x.known
      /\ s.epoch = x.epoch /\ s.active = NONE
  BY <1>6, <1>8 DEF But, Fields
<1>10. Geometry(x) => Geometry(z) /\ Geometry(s)
  <2> SUFFICES ASSUME Geometry(x) PROVE Geometry(z) /\ Geometry(s)
    OBVIOUS
  <2>1. x.active.fmt = x.fmt /\ x.active.ep = x.epoch /\ x.staged = NONE
    BY DEF Geometry
  <2>2. Geometry(z)
    BY <1>8, <2>1 DEF Geometry, Uniform
  <2>3. Geometry(s)
    BY <1>5, <1>6, <1>8, <1>9, <2>1 DEF Geometry
  <2> QED
    BY <2>2, <2>3
<1>11. But(x, z, {"active", "tokens"})
  BY <1>3, <1>4 DEF But
<1>12. But(x, s, {"active", "tokens", "staged", "started", "pending", "quant"})
  BY <1>6, <1>11 DEF But
<1>13. Kept(x, w, z, w)
  BY <1>1, <1>8, <1>10, <1>11, AnsweredKept
<1>14. Kept(x, w, s, w)
  BY <1>1, <1>9, <1>10, <1>12, AnsweredKept
<1>15. Kept(z, w, Z, w) /\ Z \in File /\ Kept(s, w, S, w) /\ Kept(y, w, Y, w)
  BY <1>3, <1>4, <1>6, PlainFunctions
<1> HIDE DEF Y, Z, S
<1>16. Kept(x, w, Z, w) /\ Kept(x, w, S, w)
  BY <1>13, <1>14, <1>15, KeptAfter
<1>17. Clean(Y) => Clean(x)
  <2>1. {"active"} \cap CleanFields = {}
    BY DEF CleanFields
  <2>2. Clean(y) = Clean(x)
    BY <1>3, <2>1, CleanFrame
  <2> QED
    BY <1>15, <2>2 DEF Kept
<1>18. Well(x, w) => /\ Current(x, x.active.ep) /\ a.au \in x.tokens
                     /\ x.staged = NONE /\ x.active.fmt = x.fmt
  <2> SUFFICES ASSUME Well(x, w)
               PROVE  /\ Current(x, x.active.ep) /\ a.au \in x.tokens
                      /\ x.staged = NONE /\ x.active.fmt = x.fmt
    OBVIOUS
  <2>1. x.active.fmt = x.fmt /\ x.active.ep = x.epoch /\ x.staged = NONE
    BY DEF Well, Geometry
  <2>2. a.au \in Answered(x)
    BY <1>1 DEF Answered, Registered
  <2>3. a.au \in x.tokens /\ x.phase \in {"RUNNING", "DRAINING"}
    BY <2>2 DEF Well, Ledger
  <2> QED
    BY <2>1, <2>3 DEF Current
<1>19. CASE (~Current(x, x.active.ep) \/ a.au \notin x.tokens) /\ r = Bad(Y, sh)
  BY <1>17, <1>18, <1>19, SickHealth
<1>20. CASE (x.staged # NONE \/ x.active.fmt # x.fmt) /\ r = Bad(Z, sh)
  <2>1. Clean(Z) => Clean(x)
    BY <1>16 DEF Kept
  <2> QED
    BY <1>18, <1>20, <2>1, SickHealth
<1>21. CASE r \in MayFail(S, Z, sh)
  BY <1>15, <1>16, <1>21, MayFailHealth
<1>22. CASE r = Ok(Z, sh \cup {a.au})
  BY <1>16, <1>22, OkHealth
<1> QED
  BY <1>2, <1>19, <1>20, <1>21, <1>22

\* The marker is kept back in its buffer.
LEMMA MarkerTaken ==
  ASSUME NEW x, NEW y, NEW w, But(x, y, {"active", "last"}), x.known,
         x.active # NONE, x.active.res # NONE, x.active.res.kind = "eos",
         y.active = NONE, y.last = x.active.ep, y.last # NONE
  PROVE  Kept(x, w, y, w)
<1>1. /\ y.seen = x.seen /\ y.tx = x.tx /\ y.fatal = x.fatal /\ y.tokens = x.tokens
      /\ y.epoch = x.epoch /\ y.drain = x.drain /\ y.txau = x.txau /\ y.dst = x.dst
      /\ y.phase = x.phase /\ y.known = x.known /\ y.fmt = x.fmt /\ y.staged = x.staged
      /\ y.pending = x.pending
  BY DEF But, Fields
<1> DEFINE T == {"active", "last"}
<1>2. T \cap CleanFields = {} /\ T \cap AliveFields = {} /\ T \cap DiscoveryFields = {}
  BY DEF CleanFields, AliveFields, DiscoveryFields
<1>3. /\ Clean(y) = Clean(x) /\ (Alive(x, w) => Alive(y, w))
      /\ (Discovery(x, w) => Discovery(y, w))
  BY <1>2, CleanFrame, AliveFrame, DiscoveryFrame
<1>4. Registered(x) = x.active.res /\ Registered(y) = NONE
  BY DEF Registered
<1>5. /\ Wire(y) = Wire(x) /\ Answered(y) = {} /\ Answered(x) = {}
      /\ AtWire(y) = AtWire(x) /\ AtResult(x) /\ ~AtResult(y) /\ AtDriver(y)
  BY <1>1, <1>4 DEF Wire, Answered, AtWire, AtResult, AtDriver
<1>6. Geometry(x) => Geometry(y) /\ y.last = y.epoch
  BY <1>1 DEF Geometry, Uniform
<1>7. Ledger(x, w) => Ledger(y, w)
  BY <1>1, <1>5 DEF Ledger
<1>8. Geometry(x) /\ Marked(x, w) => Marked(y, w)
  BY <1>1, <1>5, <1>6 DEF Marked
<1> QED
  BY <1>3, <1>6, <1>7, <1>8 DEF Kept, Well

LEMMA KeptBackEffect ==
  ASSUME NEW x \in File, NEW n \in Nat
  PROVE  LET y == [x EXCEPT !.last = n]
         IN  But(x, y, {"last"}) /\ y.last = n
  BY DEF File, But, Fields

LEMMA ReceiveHealth ==
  ASSUME clip \in Clips, NEW x, RunInv(x), NEW w, NEW sh \in SUBSET AUs,
         NEW r \in chd_receive(x, sh)
  PROVE  HealthOutcome(x, w, r)
<1> DEFINE reg == IF x.known THEN x.active ELSE x.disc
           a == IF reg = NONE THEN NONE ELSE reg.res
           d == [x EXCEPT !.disc = NONE]
           y == [x EXCEPT !.active = NONE]
           n == x.active.ep
           z == [y EXCEPT !.last = n]
           Y == BufDone(y)
<1>1. x \in File
  BY DEF RunInv, FileInv
<1>2. CASE ~x.started \/ a = NONE
  <2>1. r = Ok(x, sh)
    BY <1>2 DEF chd_receive
  <2> QED
    BY <2>1, KeptSame, OkHealth
<1>3. CASE x.started /\ a # NONE
  <2>1. /\ a \in Answers(AUs) /\ (x.known => x.active # NONE /\ x.active.res = a)
        /\ a.kind \in {"eos", "picture", "error", "format"}
        /\ ~x.known => Probed(x) = a
    <3>1. a \in Answers(AUs) /\ (x.known => x.active # NONE /\ x.active.res = a)
          /\ (~x.known => Probed(x) = a)
      BY <1>1, <1>3, PostTypes DEF Probed
    <3> QED
      BY <3>1, AnswerTypes
  <2>2. \/ a.kind = "format" /\ r \in chd_format(x, a, sh)
        \/ ~x.known /\ a.kind # "format" /\ r = Bad(d, sh)
        \/ /\ x.known /\ a.kind = "eos" /\ (~x.drain \/ x.phase # "DRAINING")
           /\ r = Bad(Y, sh)
        \/ x.known /\ a.kind = "eos" /\ r = Ok(z, sh)
        \/ x.known /\ a.kind \in {"picture", "error"} /\ r \in chd_picture(x, a, sh)
    <3> DEFINE m == [f |-> chd_marker(x).f, shown |-> sh, ok |-> chd_marker(x).ok]
    <3>1. \/ a.kind = "format" /\ r \in chd_format(x, a, sh)
          \/ ~x.known /\ a.kind # "format" /\ r = Bad(d, sh)
          \/ x.known /\ a.kind = "eos" /\ r = m
          \/ /\ x.known /\ a.kind # "eos" /\ a.kind # "format"
             /\ r \in chd_picture(x, a, sh)
      BY <1>3 DEF chd_receive
    <3>2. \/ (~x.drain \/ x.phase # "DRAINING") /\ m = Bad(Y, sh)
          \/ m = Ok(z, sh)
      BY DEF chd_marker, Ok, Bad
    <3> HIDE DEF m, a, Y, z, d
    <3> QED
      BY <2>1, <3>1, <3>2
  <2> HIDE DEF a
  <2>3. CASE a.kind = "format" /\ r \in chd_format(x, a, sh)
    BY <1>1, <2>1, <2>3, FormatHealth
  <2>4. CASE ~x.known /\ a.kind # "format" /\ r = Bad(d, sh)
    <3>1. But(x, d, {"disc"})
      BY <1>1, NoneTypes, DiscEffect
    <3> HIDE DEF d
    <3>2. {"disc"} \cap CleanFields = {}
      BY DEF CleanFields
    <3>3. Clean(d) = Clean(x)
      BY <3>1, <3>2, CleanFrame
    <3>4. ~Well(x, w)
      BY <1>3, <2>1, <2>4 DEF Well, Discovery
    <3> QED
      BY <2>4, <3>3, <3>4, SickHealth
  <2>5. y \in File /\ But(x, y, {"active"}) /\ y.active = NONE
    BY <1>1, UnregisteredEffect
  <2> HIDE DEF y
  <2>6. CASE /\ x.known /\ a.kind = "eos" /\ (~x.drain \/ x.phase # "DRAINING")
             /\ r = Bad(Y, sh)
    <3>1. {"active"} \cap CleanFields = {}
      BY DEF CleanFields
    <3>2. Clean(y) = Clean(x)
      BY <2>5, <3>1, CleanFrame
    <3>3. Clean(Y) => Clean(y)
      BY <2>5, PlainFunctions DEF Kept
    <3> HIDE DEF Y
    <3>4. AtResult(x)
      BY <1>3, <2>1, <2>6 DEF AtResult, Registered
    <3>5. ~Well(x, w)
      BY <2>6, <3>4 DEF Well, Marked
    <3> QED
      BY <2>6, <3>2, <3>3, <3>5, SickHealth
  <2>7. CASE x.known /\ a.kind = "eos" /\ r = Ok(z, sh)
    <3>1. n \in Nat /\ n # NONE /\ x.active # NONE /\ x.active.res = a /\ a # NONE
      BY <1>1, <1>3, <2>1, <2>7, PostTypes, FreshTypes
    <3>2. But(y, z, {"last"}) /\ z.last = n
      BY <2>5, <3>1, KeptBackEffect
    <3> HIDE DEF z
    <3>3. But(x, z, {"active", "last"}) /\ z.active = NONE
      BY <2>5, <3>2 DEF But, Fields
    <3>4. Kept(x, w, z, w)
      BY <2>7, <3>1, <3>2, <3>3, MarkerTaken
    <3> QED
      BY <2>7, <3>4, OkHealth
  <2>8. CASE x.known /\ a.kind \in {"picture", "error"} /\ r \in chd_picture(x, a, sh)
    BY <1>1, <2>1, <2>8, PictureHealth
  <2> QED
    BY <2>2, <2>3, <2>4, <2>6, <2>7, <2>8
<1> QED
  BY <1>2, <1>3

\* A transfer is queued only when none is under way.
LEMMA ScheduleHealth ==
  ASSUME NEW x \in File, InputOK(x), NEW w
  PROVE  Kept(x, w, chd_schedule_tx(x), w) /\ chd_schedule_tx(x) \in File
<1> DEFINE y == [x EXCEPT !.txActive = TRUE, !.tx = "queued"]
<1>1. chd_schedule_tx(x) = x \/ (~x.txActive /\ chd_schedule_tx(x) = y)
  BY DEF chd_schedule_tx
<1>2. y \in File /\ But(x, y, {"txActive", "tx"}) /\ y.tx = "queued"
  BY ScheduledEffect
<1> HIDE DEF y
<1>3. ~x.txActive => Kept(x, w, y, w)
  <2> SUFFICES ASSUME ~x.txActive PROVE Kept(x, w, y, w)
    OBVIOUS
  <2>1. x.tx = "idle"
    BY DEF InputOK
  <2>2. y.txau = x.txau
    BY <1>2 DEF But, Fields
  <2>3. OffWire(x, y)
    BY <1>2, <2>1, <2>2 DEF OffWire
  <2>4. {"txActive", "tx"} \cap HealthFields \subseteq {"tx", "txau"}
    BY DEF HealthFields, GeometryFields, DiscoveryFields, LedgerFields, MarkerFields,
           AliveFields, CleanFields
  <2> QED
    BY <1>2, <2>3, <2>4, TransferKept
<1> QED
  BY <1>1, <1>2, <1>3, KeptSame

LEMMA RequeueHealth ==
  ASSUME NEW x \in File, NEW w
  PROVE  Kept(x, w, Requeue(x), w)
<1>1. PICK b \in BOOLEAN : b = (x.admitted /\ (~x.closing \/ x.txActive) /\ x.phase # "DRAINED")
  <2>1. (x.admitted /\ (~x.closing \/ x.txActive) /\ x.phase # "DRAINED") \in BOOLEAN
    OBVIOUS
  <2> QED
    BY <2>1
<1>2. Requeue(x) = [x EXCEPT !.run = b]
  BY <1>1 DEF Requeue
<1> QED
  BY <1>2, PlainFunctions

\* A turn whose deadline has not passed keeps a healthy file healthy.
Turned(x, w, y, expired) == Clean(y) => Clean(x) /\ (Well(x, w) /\ ~expired => Well(y, w))

LEMMA TurnHealth ==
  ASSUME clip \in Clips, shown \in SUBSET AUs, NEW x, RunInv(x), NEW w,
         NEW expired, NEW t \in ChannelTurn(x, expired)
  PROVE  Turned(x, w, t.f, expired)
<1> DEFINE Begin(y, s) == IF y.started THEN {Ok(y, s)}
                          ELSE Then(chd_submit_capture(y, s), chd_start_capture)
           Receive(y, s) == IF y.started THEN Then(chd_receive(y, s), chd_submit_capture)
                            ELSE {Ok(y, s)}
           Last(y) == chd_drain_watchdog(chd_schedule_tx(y), expired)
           Finish(y, s) == {Ok(Last(y), s)}
           Opened == crystalhd_v4l2_decoder_open_locked(x, shown)
           Both(y, r) == RunOutcome(y, r) /\ HealthOutcome(y, w, r)
<1>a. ASSUME NEW y, NEW q, Both(y, q), q.ok, NEW r, Both(q.f, r)
      PROVE  Both(y, r)
  <2>1. RunOutcome(y, r)
    BY <1>a, OutcomeAfter DEF RunOutcome
  <2>2. HealthOutcome(y, w, r)
    BY <1>a, HealthAfter
  <2> QED
    BY <2>1, <2>2
<1>b. ASSUME NEW y, NEW q, Both(y, q)
      PROVE  RunInv(q.f) /\ q.shown \in SUBSET AUs
  BY <1>b DEF RunOutcome, RunStep
<1>c. ASSUME NEW y, RunInv(y), NEW s \in SUBSET AUs
      PROVE  Both(y, Ok(y, s))
  BY <1>c, RunRefl, OkOutcome, KeptSame, OkHealth
<1>d. ASSUME NEW y, RunInv(y), NEW s \in SUBSET AUs, NEW q \in chd_submit_capture(y, s)
      PROVE  Both(y, q)
  BY <1>d, SubmitKeeps, SubmitHealth
<1>e. ASSUME NEW y, RunInv(y), NEW s \in SUBSET AUs, NEW q \in chd_start_capture(y, s)
      PROVE  Both(y, q)
  <2>1. y \in File
    BY <1>e DEF RunInv, FileInv
  <2> QED
    BY <1>e, <2>1, StartKeeps, StartHealth
<1>f. ASSUME NEW y, RunInv(y), NEW s \in SUBSET AUs, NEW q \in chd_receive(y, s)
      PROVE  Both(y, q)
  BY <1>f, ReceiveKeeps, ReceiveHealth
<1> HIDE DEF Both
<1>1. ASSUME NEW y, RunInv(y), NEW s \in SUBSET AUs, NEW r \in Begin(y, s)
      PROVE  Both(y, r)
  <2>1. CASE y.started
    BY <1>1, <1>c, <2>1
  <2>2. CASE ~y.started
    <3>1. r \in Then(chd_submit_capture(y, s), chd_start_capture)
      BY <1>1, <2>2
    <3>2. PICK q \in chd_submit_capture(y, s) :
             r \in IF q.ok THEN chd_start_capture(q.f, q.shown) ELSE {q}
      BY <3>1 DEF Then
    <3>3. Both(y, q)
      BY <1>1, <1>d
    <3>4. CASE q.ok
      <4>1. RunInv(q.f) /\ q.shown \in SUBSET AUs
        BY <1>b, <3>3
      <4>2. Both(q.f, r)
        BY <1>e, <3>2, <3>4, <4>1
      <4> QED
        BY <1>a, <3>3, <3>4, <4>2
    <3> QED
      BY <3>2, <3>3, <3>4
  <2> QED
    BY <2>1, <2>2
<1>2. ASSUME NEW y, RunInv(y), NEW s \in SUBSET AUs, NEW r \in Receive(y, s)
      PROVE  Both(y, r)
  <2>1. CASE ~y.started
    BY <1>2, <1>c, <2>1
  <2>2. CASE y.started
    <3>1. r \in Then(chd_receive(y, s), chd_submit_capture)
      BY <1>2, <2>2
    <3>2. PICK q \in chd_receive(y, s) :
             r \in IF q.ok THEN chd_submit_capture(q.f, q.shown) ELSE {q}
      BY <3>1 DEF Then
    <3>3. Both(y, q)
      BY <1>2, <1>f
    <3>4. CASE q.ok
      <4>1. RunInv(q.f) /\ q.shown \in SUBSET AUs
        BY <1>b, <3>3
      <4>2. Both(q.f, r)
        BY <1>d, <3>2, <3>4, <4>1
      <4> QED
        BY <1>a, <3>3, <3>4, <4>2
    <3> QED
      BY <3>2, <3>3, <3>4
  <2> QED
    BY <2>1, <2>2
<1>3. PICK r \in Then(Then(Then(Opened, Begin), Receive), Finish) :
         t = IF r.ok THEN Ok(Requeue(r.f), r.shown) ELSE Bad(chd_error(r.f), r.shown)
  BY DEF ChannelTurn
<1> HIDE DEF Begin, Receive, Opened, Last
<1>4. PICK r1 \in Then(Then(Opened, Begin), Receive) :
         r \in IF r1.ok THEN Finish(r1.f, r1.shown) ELSE {r1}
  BY <1>3 DEF Then
<1>5. PICK r2 \in Then(Opened, Begin) :
         r1 \in IF r2.ok THEN Receive(r2.f, r2.shown) ELSE {r2}
  BY <1>4 DEF Then
<1>6. PICK r3 \in Opened : r2 \in IF r3.ok THEN Begin(r3.f, r3.shown) ELSE {r3}
  BY <1>5 DEF Then
<1>7. x \in File
  BY DEF RunInv, FileInv
<1>8. Both(x, r3)
  BY <1>7, OpenKeeps, OpenHealth DEF Opened, Both
<1>9. Both(x, r2)
  <2>1. CASE r3.ok
    <3>1. Both(r3.f, r2)
      BY <1>1, <1>6, <1>8, <1>b, <2>1
    <3> QED
      BY <1>8, <1>a, <2>1, <3>1
  <2> QED
    BY <1>6, <1>8, <2>1
<1>10. Both(x, r1)
  <2>1. CASE r2.ok
    <3>1. Both(r2.f, r1)
      BY <1>2, <1>5, <1>9, <1>b, <2>1
    <3> QED
      BY <1>9, <1>a, <2>1, <3>1
  <2> QED
    BY <1>5, <1>9, <2>1
<1> DEFINE y == r1.f
           z == chd_schedule_tx(y)
<1>11. y \in File /\ InputOK(y) /\ HealthOutcome(x, w, r1)
  <2>1. RunInv(y)
    BY <1>10, <1>b
  <2> QED
    BY <1>10, <2>1 DEF RunInv, FileInv, Both
<1>12. CASE ~r1.ok
  <2>1. t = Bad(chd_error(y), r1.shown)
    BY <1>3, <1>4, <1>12
  <2>2. t.f = chd_error(y)
    BY <2>1 DEF Bad
  <2>3. Clean(t.f) = Clean(y)
    BY <1>11, <2>2, ErrorClean
  <2> QED
    BY <1>11, <1>12, <2>3 DEF Turned, HealthOutcome
<1>13. CASE r1.ok
  <2>1. r = Ok(Last(y), r1.shown)
    BY <1>4, <1>13
  <2>2. r.f = Last(y) /\ r.ok
    BY <2>1 DEF Ok
  <2>3. t = Ok(Requeue(Last(y)), r.shown)
    BY <1>3, <2>2
  <2>4. t.f = Requeue(Last(y))
    BY <2>3 DEF Ok
  <2>5. Kept(y, w, z, w) /\ z \in File
    BY <1>11, ScheduleHealth
  <2>6. Last(y) = z \/ (expired /\ Last(y) = chd_error(z))
    BY DEF Last, chd_drain_watchdog
  <2>7. Last(y) \in File /\ (Clean(Last(y)) => Clean(z))
    BY <2>5, <2>6, ErrorClean
  <2>8. Kept(Last(y), w, t.f, w)
    BY <2>4, <2>7, RequeueHealth
  <2>9. Clean(t.f) => Clean(z) /\ Clean(y) /\ Clean(x)
    BY <1>11, <2>5, <2>7, <2>8 DEF Kept, HealthOutcome
  <2>10. ASSUME Clean(t.f), Well(x, w), ~expired PROVE Well(t.f, w)
    <3>1. Well(y, w)
      BY <1>11, <2>9, <2>10 DEF HealthOutcome
    <3>2. Well(z, w)
      BY <2>5, <2>9, <2>10, <3>1 DEF Kept
    <3>3. Last(y) = z
      BY <2>6, <2>10
    <3> QED
      BY <2>8, <2>10, <3>2, <3>3 DEF Kept
  <2> QED
    BY <2>9, <2>10 DEF Turned
<1> QED
  BY <1>12, <1>13

\* While the clock of the drain runs a healthy firmware is not silent.
LEMMA NeverSilent ==
  ASSUME StreamIInv, DrainClockRuns(f), FwSilent
  PROVE  ~Well(f, fw)
<1> SUFFICES ASSUME Well(f, fw) PROVE FALSE
  OBVIOUS
<1>1. clip \in Clips /\ f \in File /\ InputOK(f) /\ MarkerOK(f) /\ fw \in Channel
  BY IInvFacts DEF StreamIInv
<1>2. f.tx = "idle" /\ f.txau = EOS /\ f.last = NONE
  BY <1>1 DEF DrainClockRuns, InputOK
<1>3. fw.held = <<>> /\ fw.eos = FALSE
  BY <1>1 DEF FwSilent, Well, Alive, Channel
<1>4. Registered(f) = NONE
  <2>1. CASE f.known
    BY <2>1 DEF Registered, FwSilent
  <2>2. CASE ~f.known
    BY <1>1, <2>2 DEF Registered, MarkerOK
  <2> QED
    BY <2>1, <2>2
<1>5. ~AtWire(f) /\ ~AtFirmware(fw) /\ ~AtResult(f) /\ ~AtDriver(f)
  BY <1>2, <1>3, <1>4 DEF AtWire, AtFirmware, AtResult, AtDriver
<1>6. f.phase # "DRAINING"
  BY <1>5 DEF Well, Marked
<1>7. Cardinality(f.tokens) = clip.ledger
  BY <1>6 DEF DrainClockRuns
<1>8. Wire(f) = {} /\ Held(fw) = {} /\ Answered(f) = {}
  BY <1>2, <1>3, <1>4, EmptyHeld DEF Wire, Answered
<1>9. f.tokens = {}
  BY <1>8 DEF Well, Ledger
<1>10. clip.ledger # 0
  BY <1>1, NodeAssumption
<1> QED
  BY <1>7, <1>9, <1>10, FS_EmptySet

\* The marker proves the drain.
LEMMA FinishHealth ==
  ASSUME NEW x \in File, NEW w
  PROVE  Kept(x, w, chd_finish_last(x), w)
<1> DEFINE y == [x EXCEPT !.last = NONE, !.phase = "DRAINED"]
           z == BufDone(y)
<1>1. \/ chd_finish_last(x) = x
      \/ /\ x.last # NONE /\ ~crystalhd_v4l2_decoder_complete_eos(x, x.last)
         /\ chd_finish_last(x) = chd_error(x)
      \/ x.last # NONE /\ chd_finish_last(x) = z
  BY DEF chd_finish_last
<1>2. CASE chd_finish_last(x) = x
  BY <1>2, KeptSame
<1>3. CASE /\ x.last # NONE /\ ~crystalhd_v4l2_decoder_complete_eos(x, x.last)
           /\ chd_finish_last(x) = chd_error(x)
  <2>1. ~Well(x, w)
    <3> SUFFICES ASSUME Well(x, w) PROVE FALSE
      OBVIOUS
    <3>1. AtDriver(x)
      BY <1>3 DEF AtDriver
    <3>2. x.phase = "DRAINING" /\ x.tokens = {} /\ x.last = x.epoch
      BY <3>1 DEF Well, Marked
    <3> QED
      BY <1>3, <3>2 DEF crystalhd_v4l2_decoder_complete_eos, Current
  <2> QED
    BY <1>3, <2>1, ErrorClean DEF Kept
<1>4. CASE x.last # NONE /\ chd_finish_last(x) = z
  <2>1. y \in File
    BY NoneTypes DEF File, Phases
  <2>2. But(x, y, {"last", "phase"})
    BY DEF File, But, Fields
  <2>3. y.phase = "DRAINED" /\ y.last = NONE
    BY DEF File
  <2> HIDE DEF y
  <2>4. /\ y.tokens = x.tokens /\ y.seen = x.seen /\ y.tx = x.tx /\ y.fatal = x.fatal
        /\ y.txau = x.txau /\ y.active = x.active
    BY <2>2 DEF But, Fields
  <2>5. /\ {"last", "phase"} \cap CleanFields = {} /\ {"last", "phase"} \cap GeometryFields = {}
        /\ {"last", "phase"} \cap DiscoveryFields = {}
    BY DEF CleanFields, GeometryFields, DiscoveryFields
  <2>6. Wire(y) = Wire(x) /\ Answered(y) = Answered(x)
    BY <2>4 DEF Wire, Answered, Registered
  <2>7. /\ AtWire(y) = AtWire(x) /\ AtResult(y) = AtResult(x) /\ AtDriver(x) /\ ~AtDriver(y)
    BY <1>4, <2>3, <2>4 DEF Registered, AtWire, AtResult, AtDriver
  <2>8. Alive(x, w) => Alive(y, w)
    BY <2>3, <2>4 DEF Alive
  <2>9. Ledger(x, w) /\ Marked(x, w) => Ledger(y, w)
    <3> SUFFICES ASSUME Ledger(x, w), Marked(x, w) PROVE Ledger(y, w)
      OBVIOUS
    <3>1. x.tokens = {}
      BY <2>7 DEF Marked
    <3> QED
      BY <2>4, <2>6, <3>1 DEF Ledger
  <2>10. Marked(x, w) => Marked(y, w)
    BY <2>3, <2>7 DEF Marked
  <2>11. Kept(x, w, y, w)
    BY <2>2, <2>5, <2>8, <2>9, <2>10, CleanFrame, GeometryFrame, DiscoveryFrame
    DEF Kept, Well
  <2>12. Kept(y, w, z, w)
    BY <2>1, PlainFunctions
  <2> QED
    BY <1>4, <2>11, <2>12, KeptAfter
<1> QED
  BY <1>1, <1>2, <1>3, <1>4

\* LAST without input: the channel holds nothing.
LEMMA EmptyDrainHealth ==
  ASSUME NEW x \in File, EmptyDrain(x), PhaseOK(x), NEW w
  PROVE  Kept(x, w, chd_empty_drain(x), w)
<1> DEFINE y == [x EXCEPT !.empty = TRUE, !.unopened = (x.phase = "OFF"),
                         !.phase = "DRAINED", !.eosDone = TRUE]
           d == DstRemove(y)
           z == BufDone(d)
<1>1. CASE x.dst = <<>>
  BY <1>1, KeptSame DEF chd_empty_drain
<1>2. CASE x.dst # <<>>
  <2>1. chd_empty_drain(x) = z
    BY <1>2 DEF chd_empty_drain
  <2>2. y \in File /\ y.phase = "DRAINED" /\ But(x, y, {"empty", "unopened", "phase", "eosDone"})
    <3>1. PICK u \in BOOLEAN : u = (x.phase = "OFF")
      OBVIOUS
    <3> QED
      BY <3>1, EmptiedEffect
  <2> HIDE DEF y
  <2>3. y.dst = x.dst
    BY <2>2 DEF But, Fields
  <2>4. d \in File /\ But(y, d, {"dst"}) /\ d.dst = Tail(x.dst)
    BY <1>2, <2>2, <2>3, DstRemoveEffect
  <2> HIDE DEF d
  <2>5. But(x, d, {"empty", "unopened", "phase", "eosDone", "dst"}) /\ d.phase = "DRAINED"
    BY <2>2, <2>4 DEF But, Fields
  <2> DEFINE T == {"empty", "unopened", "phase", "eosDone", "dst"}
  <2>6. /\ d.tokens = x.tokens /\ d.seen = x.seen /\ d.tx = x.tx /\ d.fatal = x.fatal
        /\ d.txau = x.txau /\ d.active = x.active /\ d.last = x.last /\ d.fmt = x.fmt
        /\ d.pending = x.pending /\ d.known = x.known /\ d.staged = x.staged
        /\ d.epoch = x.epoch
    BY <2>5 DEF But, Fields
  <2>7. T \cap CleanFields = {} /\ T \cap DiscoveryFields = {}
    BY DEF CleanFields, DiscoveryFields
  <2>8. Wire(d) = Wire(x) /\ Answered(d) = Answered(x)
    BY <2>6 DEF Wire, Answered, Registered
  <2>9. /\ AtWire(d) = AtWire(x) /\ AtResult(d) = AtResult(x) /\ AtDriver(d) = AtDriver(x)
    BY <2>6 DEF Registered, AtWire, AtResult, AtDriver
  <2>10. ~x.seen /\ x.phase # "DRAINING"
    BY DEF EmptyDrain, PhaseOK
  <2>11. Alive(x, w) => Alive(d, w)
    BY <2>5, <2>6 DEF Alive
  <2>12. Ledger(x, w) => Ledger(d, w)
    BY <2>6, <2>8, <2>10 DEF Ledger
  <2>13. Marked(x, w) => Marked(d, w)
    BY <2>5, <2>9, <2>10 DEF Marked
  <2>14. Geometry(x) => Geometry(d)
    <3> SUFFICES ASSUME Geometry(x) PROVE Geometry(d)
      OBVIOUS
    <3>1. ~d.pending => Uniform(d)
      BY <1>2, <2>4, <2>6, UniformHead DEF Geometry
    <3> QED
      BY <2>6, <3>1 DEF Geometry
  <2>15. Kept(x, w, d, w)
    BY <2>5, <2>7, <2>11, <2>12, <2>13, <2>14, CleanFrame, DiscoveryFrame DEF Kept, Well
  <2>16. Kept(d, w, z, w)
    BY <2>4, PlainFunctions
  <2> QED
    BY <2>1, <2>15, <2>16, KeptAfter
<1> QED
  BY <1>1, <1>2

\* A turn of chd_run.
LEMMA RunHealth ==
  ASSUME StreamIInv, NEW expired \in BOOLEAN, ChdRun(expired)
  PROVE  Kept(f, fw, f', fw')
<1> DEFINE y == [f EXCEPT !.run = FALSE]
           x == chd_finish_last(y)
<1>1. /\ clip \in Clips /\ shown \in SUBSET AUs /\ f \in File
      /\ FileInv(f) /\ OffOK(f)
  BY IInvFacts DEF StreamIInv
<1>2. f.run /\ fw' = fw /\ (expired => ~Well(f, fw))
  BY NeverSilent DEF ChdRun
<1>3. f.out
  BY <1>1, <1>2 DEF OffOK
<1>4. y \in File /\ Kept(f, fw, y, fw)
  BY <1>1, PlainFunctions
<1>5. RunInv(y)
  <2>1. WorkStep(f, y)
    BY <1>1, <1>3, RunFlagKeeps
  <2> QED
    BY <1>3, <2>1 DEF RunInv, WorkStep
<1>6. \/ f' = x
      \/ EmptyDrain(x) /\ f' = chd_empty_drain(x)
      \/ f' \in DeviceGone(x)
      \/ \E r \in ChannelTurn(x, expired) : f' = r.f
  BY DEF ChdRun
<1>7. y.out
  BY <1>5 DEF RunInv
<1> HIDE DEF y
<1>8. Kept(y, fw, x, fw) /\ FileInv(x) /\ x.out
  BY <1>1, <1>4, <1>5, <1>7, FinishKeeps, FinishHealth DEF WorkStep
<1>9. x \in File /\ PhaseOK(x) /\ RunInv(x)
  BY <1>8 DEF FileInv, RunInv
<1> HIDE DEF x
<1>10. Kept(f, fw, x, fw)
  BY <1>4, <1>8, KeptAfter
<1>11. CASE EmptyDrain(x) /\ f' = chd_empty_drain(x)
  <2>1. Kept(x, fw, f', fw)
    BY <1>9, <1>11, EmptyDrainHealth
  <2> QED
    BY <1>2, <1>10, <2>1, KeptAfter
<1>12. CASE f' \in DeviceGone(x)
  BY <1>9, <1>12, GoneDirty, DirtyKept
<1>13. ASSUME NEW r \in ChannelTurn(x, expired), f' = r.f
       PROVE  Kept(f, fw, f', fw')
  <2>1. Turned(x, fw, r.f, expired)
    BY <1>1, <1>9, TurnHealth
  <2> QED
    BY <1>2, <1>10, <1>13, <2>1 DEF Turned, Kept
<1> QED
  BY <1>2, <1>6, <1>10, <1>11, <1>12, <1>13

-----------------------------------------------------------------------------
(* The ioctls.                                                             *)

LEMMA GeometryKept ==
  ASSUME NEW x, NEW y, NEW w, NEW T, But(x, y, T),
         T \cap HealthFields \subseteq {"pending", "dst"},
         Clean(x) /\ Geometry(x) => Geometry(y)
  PROVE  Kept(x, w, y, w)
<1>1. /\ T \cap DiscoveryFields = {} /\ T \cap LedgerFields = {} /\ T \cap MarkerFields = {}
      /\ T \cap AliveFields = {} /\ T \cap CleanFields = {}
  BY DEF HealthFields, DiscoveryFields, LedgerFields, MarkerFields, AliveFields, CleanFields
<1> QED
  BY <1>1, CleanFrame, AliveFrame, DiscoveryFrame, LedgerFrame, MarkedFrame DEF Kept, Well

LEMMA EmptyUniform ==
  ASSUME NEW x, x.dst = <<>>
  PROVE  Uniform(x)
<1>1. 1 .. Len(x.dst) = {}
  OBVIOUS
<1> QED
  BY <1>1 DEF Uniform

\* Every queued buffer is returned to the client.
LEMMA ReturnDstHealth ==
  ASSUME NEW x \in File, NEW w
  PROVE  Kept(x, w, chd_return_dst(x), w) /\ chd_return_dst(x) \in File
<1> DEFINE y == chd_return_dst(x)
<1>1. y \in File /\ But(x, y, {"held", "dst"}) /\ y.dst = <<>>
  BY ReturnDstEffect
<1> HIDE DEF y
<1>2. /\ y.pending = x.pending /\ y.known = x.known /\ y.active = x.active
      /\ y.fmt = x.fmt /\ y.epoch = x.epoch /\ y.staged = x.staged
  BY <1>1 DEF But, Fields
<1>3. Geometry(x) => Geometry(y)
  BY <1>1, <1>2, EmptyUniform DEF Geometry
<1>4. {"held", "dst"} \cap HealthFields \subseteq {"pending", "dst"}
  BY DEF HealthFields, GeometryFields, DiscoveryFields, LedgerFields, MarkerFields,
         AliveFields, CleanFields
<1> QED
  BY <1>1, <1>3, <1>4, GeometryKept DEF y

LEMMA ReallocateHealth ==
  ASSUME NEW x \in File, NEW w
  PROVE  Kept(x, w, Reallocate(x), w)
<1> DEFINE y == chd_return_dst(x)
           n == x.fmt
           z == [y EXCEPT !.alloc = n]
<1>1. y \in File /\ Kept(x, w, y, w)
  BY ReturnDstHealth
<1>2. Reallocate(x) = z
  BY DEF Reallocate
<1> HIDE DEF y
<1>3. n \in Nat
  BY FileTypes
<1> HIDE DEF n
<1>4. But(y, z, {"alloc"})
  BY <1>1, <1>3, AllocEffect
<1> HIDE DEF z
<1>5. {"alloc"} \cap HealthFields = {}
  BY DEF HealthFields, GeometryFields, DiscoveryFields, LedgerFields, MarkerFields,
         AliveFields, CleanFields
<1>6. Kept(y, w, z, w)
  BY <1>4, <1>5, PlainKept
<1> QED
  BY <1>1, <1>2, <1>6, KeptAfter

LEMMA JoinBeginHealth ==
  ASSUME NEW x \in File, NEW w
  PROVE  Kept(x, w, chd_join_begin(x), w)
<1> DEFINE y == [x EXCEPT !.txStopping = TRUE, !.admitted = TRUE, !.run = TRUE]
           z == [x EXCEPT !.txStopping = TRUE]
<1>1. chd_join_begin(x) = y \/ chd_join_begin(x) = z
  BY DEF chd_join_begin
<1>2. But(x, y, {"txStopping", "admitted", "run"}) /\ But(x, z, {"txStopping"})
  BY JoinEffect
<1> HIDE DEF y, z
<1>3. /\ {"txStopping", "admitted", "run"} \cap HealthFields = {}
      /\ {"txStopping"} \cap HealthFields = {}
  BY DEF HealthFields, GeometryFields, DiscoveryFields, LedgerFields, MarkerFields,
         AliveFields, CleanFields
<1> QED
  BY <1>1, <1>2, <1>3, PlainKept

\* STREAMON clears a source change: unless outdated buffers are queued, every
\* one is of the present geometry then.
LEMMA CaptureOnHealth ==
  ASSUME NEW x \in File, NEW w
  PROVE  Kept(x, w, CaptureOn(x), w)
<1>1. x.pending \in BOOLEAN /\ x.stale \in BOOLEAN /\ x.out \in BOOLEAN
  BY FileTypes
<1>2. PICK b \in BOOLEAN, s \in BOOLEAN :
         b = (x.pending /\ ~x.known) /\ s = (x.stale \/ Outdated(x))
  BY FlagValues
<1> DEFINE y == [x EXCEPT !.cap = TRUE, !.pending = b, !.stale = s]
           z == chd_admit(y, x.out)
           T == {"cap", "pending", "stale"}
<1>3. CaptureOn(x) = chd_kick(z)
  BY <1>2 DEF CaptureOn
<1>4. y \in File /\ But(x, y, T) /\ y.pending = b /\ y.stale = s
  BY StreamEffect
<1> HIDE DEF y
<1>5. /\ y.dst = x.dst /\ y.known = x.known /\ y.active = x.active
      /\ y.fmt = x.fmt /\ y.epoch = x.epoch /\ y.staged = x.staged
      /\ y.faults = x.faults /\ y.late = x.late /\ y.crossed = x.crossed
  BY <1>4 DEF But, Fields
<1>6. Clean(y) => Clean(x) /\ ~Outdated(x)
  <2>1. SUFFICES ASSUME Clean(y) PROVE Clean(x) /\ ~Outdated(x)
    OBVIOUS
  <2>2. s = FALSE
    BY <1>4, <2>1 DEF Clean
  <2>3. x.stale = FALSE /\ ~Outdated(x)
    BY <1>1, <1>2, <2>2
  <2> QED
    BY <1>5, <2>1, <2>3 DEF Clean
<1>7. ~Outdated(x) /\ Geometry(x) => Geometry(y)
  <2> SUFFICES ASSUME ~Outdated(x), Geometry(x) PROVE Geometry(y)
    OBVIOUS
  <2>1. ~y.pending
    BY <1>2, <1>4 DEF Geometry
  <2>2. Uniform(x)
    BY DEF Geometry, Outdated
  <2>3. Uniform(y)
    BY <1>5, <2>2 DEF Uniform
  <2> QED
    BY <1>5, <2>1, <2>3 DEF Geometry
<1>8. Kept(x, w, y, w)
  <2>1. /\ T \cap DiscoveryFields = {} /\ T \cap LedgerFields = {}
        /\ T \cap MarkerFields = {} /\ T \cap AliveFields = {}
    BY DEF DiscoveryFields, LedgerFields, MarkerFields, AliveFields
  <2> HIDE DEF T
  <2> QED
    BY <1>4, <1>6, <1>7, <2>1, AliveFrame, DiscoveryFrame, LedgerFrame, MarkedFrame
    DEF Kept, Well
<1>9. z \in File /\ Kept(y, w, z, w)
  BY <1>1, <1>4, PlainFunctions
<1> HIDE DEF z
<1>10. Kept(z, w, chd_kick(z), w)
  BY <1>9, PlainFunctions
<1>11. Kept(x, w, z, w)
  BY <1>8, <1>9, KeptAfter
<1> QED
  BY <1>3, <1>10, <1>11, KeptAfter

\* STREAMOFF takes a registration back only when it carries no answer.
LEMMA CaptureOffHealth ==
  ASSUME NEW x \in File, NEW w, Well(x, w) => Answered(x) = {} /\ ~AtResult(x)
  PROVE  Kept(x, w, CaptureOff(x), w)
<1> DEFINE c == [x EXCEPT !.cap = FALSE]
           a == chd_return_active(c)
           y == chd_return_dst(a)
           z == chd_admit(y, TRUE)
<1>1. CaptureOff(x) = y \/ CaptureOff(x) = chd_kick(z)
  BY DEF CaptureOff, chd_stop_streaming
<1>2. c \in File /\ But(x, c, {"cap"})
  BY StreamEffect
<1> HIDE DEF c
<1>3. a \in File /\ But(c, a, {"held", "active"}) /\ a.active = NONE
  BY <1>2, ReturnActiveEffect
<1> HIDE DEF a
<1>4. But(x, a, {"cap", "held", "active"})
  BY <1>2, <1>3 DEF But
<1>5. Kept(x, w, a, w)
  <2> DEFINE T == {"cap", "held", "active"}
  <2>1. T \cap DiscoveryFields = {} /\ T \cap AliveFields = {} /\ T \cap CleanFields = {}
    BY DEF DiscoveryFields, AliveFields, CleanFields
  <2>2. /\ a.tokens = x.tokens /\ a.seen = x.seen /\ a.tx = x.tx /\ a.dst = x.dst
        /\ a.txau = x.txau /\ a.phase = x.phase /\ a.last = x.last /\ a.fmt = x.fmt
        /\ a.pending = x.pending /\ a.known = x.known /\ a.staged = x.staged
        /\ a.epoch = x.epoch /\ a.drain = x.drain
    BY <1>4 DEF But, Fields
  <2>3. /\ Wire(a) = Wire(x) /\ Answered(a) = {} /\ AtWire(a) = AtWire(x)
        /\ ~AtResult(a) /\ AtDriver(a) = AtDriver(x)
    BY <1>3, <2>2 DEF Wire, Answered, Registered, AtWire, AtResult, AtDriver
  <2>4. Well(x, w) => Geometry(a) /\ Ledger(a, w) /\ Marked(a, w)
    <3> SUFFICES ASSUME Well(x, w) PROVE Geometry(a) /\ Ledger(a, w) /\ Marked(a, w)
      OBVIOUS
    <3>1. Geometry(x) /\ Ledger(x, w) /\ Marked(x, w) /\ Answered(x) = {} /\ ~AtResult(x)
      BY DEF Well
    <3>2. Geometry(a)
      BY <1>3, <2>2, <3>1 DEF Geometry, Uniform
    <3>3. Ledger(a, w)
      BY <2>2, <2>3, <3>1 DEF Ledger
    <3>4. Marked(a, w)
      BY <2>2, <2>3, <3>1 DEF Marked
    <3> QED
      BY <3>2, <3>3, <3>4
  <2> QED
    BY <1>4, <2>1, <2>4, CleanFrame, AliveFrame, DiscoveryFrame DEF Kept, Well
<1>6. y \in File /\ Kept(a, w, y, w)
  BY <1>3, ReturnDstHealth
<1> HIDE DEF y
<1>7. z \in File /\ Kept(y, w, z, w)
  BY <1>6, PlainFunctions
<1> HIDE DEF z
<1>8. Kept(z, w, chd_kick(z), w)
  BY <1>7, PlainFunctions
<1>9. Kept(x, w, y, w)
  BY <1>5, <1>6, KeptAfter
<1>10. Kept(x, w, z, w)
  BY <1>7, <1>9, KeptAfter
<1>11. Kept(x, w, chd_kick(z), w)
  BY <1>8, <1>10, KeptAfter
<1> QED
  BY <1>1, <1>9, <1>11

LEMMA ReuseHealth ==
  ASSUME NEW x \in File, NEW w
  PROVE  Kept(x, w, chd_reuse_capture(x), w) /\ chd_reuse_capture(x) \in File
<1> DEFINE y == chd_reuse_capture(x)
<1>1. y \in File /\ But(x, y, {"pending", "dst"}) /\ y.pending = FALSE
  BY ReuseEffect
<1>2. Uniform(y)
  <2>1. x.dst \in Seq(Nat)
    BY FileTypes DEF Buffers
  <2> DEFINE d == [i \in DOMAIN x.dst |-> x.fmt]
  <2>2. Len(d) = Len(x.dst) /\ \A i \in 1 .. Len(x.dst) : d[i] = x.fmt
    BY <2>1
  <2>3. y = [x EXCEPT !.pending = FALSE, !.dst = d]
    BY DEF chd_reuse_capture
  <2> HIDE DEF d
  <2>4. y.dst = d /\ y.fmt = x.fmt
    BY <2>3 DEF File
  <2> QED
    BY <2>2, <2>4 DEF Uniform
<1> HIDE DEF y
<1>3. /\ y.known = x.known /\ y.active = x.active
      /\ y.fmt = x.fmt /\ y.epoch = x.epoch /\ y.staged = x.staged
  BY <1>1 DEF But, Fields
<1>4. Geometry(x) => Geometry(y)
  BY <1>1, <1>2, <1>3 DEF Geometry
<1>5. {"pending", "dst"} \cap HealthFields \subseteq {"pending", "dst"}
  OBVIOUS
<1>6. Kept(x, w, y, w)
  BY <1>1, <1>4, <1>5, GeometryKept
<1> QED
  BY <1>1, <1>6 DEF y

\* A buffer is queued, prepared for the present geometry.
LEMMA QueuedHealth ==
  ASSUME NEW x \in File, x.held > 0, NEW w
  PROVE  LET y == [x EXCEPT !.dst = Append(@, x.fmt), !.held = @ - 1]
         IN  Kept(x, w, y, w) /\ y \in File
<1> DEFINE y == [x EXCEPT !.dst = Append(@, x.fmt), !.held = @ - 1]
<1>1. y \in File /\ But(x, y, {"dst", "held"})
  BY QueuedBufferEffect
<1>2. y.dst = Append(x.dst, x.fmt)
  BY DEF File
<1> HIDE DEF y
<1>3. x.dst \in Seq(Nat) /\ x.fmt \in Nat
  BY FileTypes DEF Buffers
<1>4. /\ y.known = x.known /\ y.active = x.active /\ y.pending = x.pending
      /\ y.fmt = x.fmt /\ y.epoch = x.epoch /\ y.staged = x.staged
  BY <1>1 DEF But, Fields
<1>5. Uniform(x) => Uniform(y)
  <2> SUFFICES ASSUME Uniform(x), NEW i \in 1 .. Len(y.dst) PROVE y.dst[i] = y.fmt
    BY DEF Uniform
  <2>1. /\ Len(y.dst) = Len(x.dst) + 1 /\ y.dst[Len(x.dst) + 1] = x.fmt
        /\ \A j \in 1 .. Len(x.dst) : y.dst[j] = x.dst[j]
    BY <1>2, <1>3, AppendRange
  <2>2. Len(x.dst) \in Nat
    BY <1>3
  <2>3. i \in 1 .. Len(x.dst) \/ i = Len(x.dst) + 1
    BY <2>1, <2>2
  <2> QED
    BY <1>4, <2>1, <2>3 DEF Uniform
<1>6. Geometry(x) => Geometry(y)
  BY <1>4, <1>5 DEF Geometry
<1>7. {"dst", "held"} \cap HealthFields \subseteq {"pending", "dst"}
  BY DEF HealthFields, GeometryFields, DiscoveryFields, LedgerFields, MarkerFields,
         AliveFields, CleanFields
<1>8. Kept(x, w, y, w)
  BY <1>1, <1>6, <1>7, GeometryKept
<1> QED
  BY <1>1, <1>8 DEF y

\* STOP snapshots the queue; a drain that has begun is one already.
LEMMA StopHealth ==
  ASSUME NEW x \in File, NEW w, NEW n \in Nat
  PROVE  LET y == [x EXCEPT !.drain = TRUE, !.left = n]
         IN  Kept(x, w, y, w) /\ y \in File
<1> DEFINE y == [x EXCEPT !.drain = TRUE, !.left = n]
<1>1. y \in File /\ But(x, y, {"drain", "left"}) /\ y.drain = TRUE
  BY StopEffect
<1> HIDE DEF y
<1> DEFINE T == {"drain", "left"}
<1>2. /\ T \cap GeometryFields = {} /\ T \cap DiscoveryFields = {} /\ T \cap LedgerFields = {}
      /\ T \cap AliveFields = {} /\ T \cap CleanFields = {}
  BY DEF GeometryFields, DiscoveryFields, LedgerFields, AliveFields, CleanFields
<1>3. /\ y.tokens = x.tokens /\ y.tx = x.tx /\ y.txau = x.txau /\ y.active = x.active
      /\ y.phase = x.phase /\ y.last = x.last /\ y.epoch = x.epoch
  BY <1>1 DEF But, Fields
<1>4. AtWire(y) = AtWire(x) /\ AtResult(y) = AtResult(x) /\ AtDriver(y) = AtDriver(x)
  BY <1>3 DEF AtWire, AtResult, AtDriver, Registered
<1>5. Marked(x, w) => Marked(y, w)
  BY <1>1, <1>3, <1>4 DEF Marked
<1>6. Kept(x, w, y, w)
  BY <1>1, <1>2, <1>5, CleanFrame, AliveFrame, GeometryFrame, DiscoveryFrame, LedgerFrame
  DEF Kept, Well
<1> QED
  BY <1>1, <1>6 DEF y

LEMMA NoRegistration ==
  ASSUME NEW x, x.active = NONE
  PROVE  Answered(x) = {} /\ ~AtResult(x)
  BY DEF Answered, AtResult, Registered

\* The ioctls up to the point where they join the workers.
LEMMA QuietIoctlHealth ==
  ASSUME StreamIInv,
         \/ chd_qbuf_output \/ chd_qbuf_capture \/ chd_streamon_output
         \/ chd_streamon_capture \/ chd_streamoff_output \/ chd_streamoff_capture
         \/ chd_decoder_cmd_stop \/ chd_decoder_cmd_start \/ chd_reqbufs \/ chd_release
  PROVE  Kept(f, fw, f', fw')
<1>1. clip \in Clips /\ f \in File /\ MarkerOK(f)
  BY IInvFacts DEF StreamIInv
<1>2. fw' = fw
  BY DEF chd_qbuf_output, chd_qbuf_capture, chd_streamon_output, chd_streamon_capture, Quiet,
         Join, chd_streamoff_output, chd_streamoff_capture, chd_decoder_cmd_stop,
         chd_decoder_cmd_start, chd_reqbufs, chd_release
<1>3. SUFFICES Kept(f, fw, f', fw)
  BY <1>2
<1>4. ASSUME NEW op, Join(op, f)
      PROVE  Kept(f, fw, f', fw)
  BY <1>1, <1>4, JoinBeginHealth DEF Join
<1>5. /\ {"src", "next"} \cap HealthFields = {} /\ {"out", "session"} \cap HealthFields = {}
      /\ {"closing", "admitted"} \cap HealthFields = {}
  BY DEF HealthFields, GeometryFields, DiscoveryFields, LedgerFields, MarkerFields,
         AliveFields, CleanFields
<1>6. CASE chd_qbuf_output
  <2> DEFINE a == f.next
             y == [f EXCEPT !.src = Append(@, a), !.next = @ + 1]
  <2>1. f' = chd_kick(y) /\ a \in AUs
    BY <1>6 DEF chd_qbuf_output
  <2>2. y \in File /\ But(f, y, {"src", "next"})
    <3> HIDE DEF a
    <3> QED
      BY <1>1, <2>1, QueuedInputEffect
  <2> HIDE DEF y
  <2>3. Kept(f, fw, y, fw)
    BY <1>5, <2>2, PlainKept
  <2>4. Kept(y, fw, f', fw)
    BY <2>1, <2>2, PlainFunctions
  <2> QED
    BY <2>3, <2>4, KeptAfter
<1>7. CASE chd_qbuf_capture
  <2> DEFINE y == [f EXCEPT !.dst = Append(@, f.fmt), !.held = @ - 1]
  <2>1. f' = chd_kick(y) /\ f.held > 0
    BY <1>7 DEF chd_qbuf_capture
  <2>2. y \in File /\ Kept(f, fw, y, fw)
    BY <1>1, <2>1, QueuedHealth
  <2> HIDE DEF y
  <2>3. Kept(y, fw, f', fw)
    BY <2>1, <2>2, PlainFunctions
  <2> QED
    BY <2>2, <2>3, KeptAfter
<1>8. CASE chd_streamon_output
  <2> DEFINE y == [f EXCEPT !.out = TRUE, !.session = TRUE]
             z == chd_admit(y, TRUE)
  <2>1. f' = chd_kick(z)
    BY <1>8 DEF chd_streamon_output
  <2>2. y \in File /\ But(f, y, {"out", "session"})
    BY <1>1, StreamEffect
  <2> HIDE DEF y
  <2>3. Kept(f, fw, y, fw)
    BY <1>5, <2>2, PlainKept
  <2>4. z \in File /\ Kept(y, fw, z, fw)
    BY <2>2, PlainFunctions
  <2> HIDE DEF z
  <2>5. Kept(z, fw, f', fw)
    BY <2>1, <2>4, PlainFunctions
  <2>6. Kept(f, fw, z, fw)
    BY <2>3, <2>4, KeptAfter
  <2> QED
    BY <2>5, <2>6, KeptAfter
<1>9. CASE chd_streamon_capture
  <2>1. Join("resume_on", f) \/ f' = CaptureOn(f)
    BY <1>9 DEF chd_streamon_capture
  <2>2. CASE f' = CaptureOn(f)
    BY <1>1, <2>2, CaptureOnHealth
  <2> QED
    BY <1>4, <2>1, <2>2
<1>10. CASE chd_streamoff_output
  BY <1>4, <1>10 DEF chd_streamoff_output
<1>11. CASE chd_streamoff_capture
  <2> DEFINE y == [f EXCEPT !.run = FALSE]
             z == chd_admit(y, FALSE)
  <2>1. Join("off_capture", f) \/ (f.pending /\ f' = CaptureOff(z))
    BY <1>11 DEF chd_streamoff_capture
  <2>2. CASE f.pending /\ f' = CaptureOff(z)
    <3>1. f.active = NONE
      BY <1>1, <2>2 DEF MarkerOK
    <3>2. y \in File /\ But(f, y, {"run"}) /\ Kept(f, fw, y, fw)
      BY <1>1, SetRunEffect, PlainFunctions
    <3> HIDE DEF y
    <3>3. z \in File /\ But(y, z, {"admitted", "txStopping"}) /\ Kept(y, fw, z, fw)
      BY <3>2, AdmitEffect, PlainFunctions
    <3> HIDE DEF z
    <3>4. z.active = NONE
      BY <3>1, <3>2, <3>3 DEF But, Fields
    <3>5. Kept(z, fw, f', fw)
      BY <2>2, <3>3, <3>4, NoRegistration, CaptureOffHealth
    <3>6. Kept(f, fw, z, fw)
      BY <3>2, <3>3, KeptAfter
    <3> QED
      BY <3>5, <3>6, KeptAfter
  <2> QED
    BY <1>4, <2>1, <2>2
<1>12. CASE chd_decoder_cmd_stop
  <2> DEFINE n == Len(f.src)
             y == [f EXCEPT !.drain = TRUE, !.left = n]
  <2>1. f' = chd_kick(f) \/ f' = chd_kick(y)
    BY <1>12 DEF chd_decoder_cmd_stop
  <2>2. n \in Nat
    BY <1>1, FileTypes DEF Sources
  <2> HIDE DEF n
  <2>3. y \in File /\ Kept(f, fw, y, fw)
    BY <1>1, <2>2, StopHealth
  <2> HIDE DEF y
  <2>4. Kept(y, fw, chd_kick(y), fw) /\ Kept(f, fw, chd_kick(f), fw)
    BY <1>1, <2>3, PlainFunctions
  <2>5. Kept(f, fw, chd_kick(y), fw)
    BY <2>3, <2>4, KeptAfter
  <2> QED
    BY <2>1, <2>4, <2>5
<1>13. CASE chd_decoder_cmd_start
  <2> DEFINE y == chd_reuse_capture(f)
  <2>1. Join("resume_cmd", f) \/ f' = chd_kick(y)
    BY <1>13 DEF chd_decoder_cmd_start
  <2>2. y \in File /\ Kept(f, fw, y, fw)
    BY <1>1, ReuseHealth
  <2> HIDE DEF y
  <2>3. Kept(y, fw, chd_kick(y), fw)
    BY <2>2, PlainFunctions
  <2>4. Kept(f, fw, chd_kick(y), fw)
    BY <2>2, <2>3, KeptAfter
  <2> QED
    BY <1>4, <2>1, <2>4
<1>14. CASE chd_reqbufs
  <2>1. Join("reqbufs", f) \/ f' = Reallocate(f)
    BY <1>14 DEF chd_reqbufs
  <2> QED
    BY <1>1, <1>4, <2>1, ReallocateHealth
<1>15. CASE chd_release
  <2> DEFINE y == [f EXCEPT !.closing = TRUE, !.admitted = FALSE]
  <2>1. f' = chd_join_begin(y)
    BY <1>15 DEF chd_release, Join
  <2>2. y \in File /\ But(f, y, {"closing", "admitted"})
    BY <1>1, JoinEffect
  <2> HIDE DEF y
  <2>3. Kept(f, fw, y, fw)
    BY <1>5, <2>2, PlainKept
  <2>4. Kept(y, fw, f', fw)
    BY <2>1, <2>2, JoinBeginHealth
  <2> QED
    BY <2>3, <2>4, KeptAfter
<1> QED
  BY <1>6, <1>7, <1>8, <1>9, <1>10, <1>11, <1>12, <1>13, <1>14, <1>15

-----------------------------------------------------------------------------
(* What an ioctl does once both workers are joined.                        *)

\* A source change with outdated buffers queued is crossed by the reset.
LEMMA ResetFlags ==
  ASSUME NEW x \in File, x.epoch < MaxEpoch, NEW release \in BOOLEAN
  PROVE  LET y == chd_reset_channel(x, release)
         IN  /\ y.known = FALSE /\ y.pending = FALSE
             /\ y.crossed = (x.crossed \/ Outdated(x))
<1>0. x.session \in BOOLEAN /\ x.crossed \in BOOLEAN /\ x.pending \in BOOLEAN
  BY FileTypes
<1> DEFINE r == crystalhd_v4l2_decoder_reset(x)
           w == IF release \/ x.phase # "OFF" THEN r ELSE x
           l == ReturnLast(w)
           a == chd_return_active(l)
           s == x.session /\ ~release
           c == x.crossed \/ Outdated(x)
           p == ClearCapture(a)
           q == ClearInput(p)
           t == ClearFormat(q)
           y == ClearSession(t, s, c)
<1>1. w \in File /\ But(x, w, {"tokens", "epoch", "phase"})
  <2>1. r \in File /\ But(x, r, {"tokens", "epoch", "phase"})
    BY DecoderResetEffect
  <2> HIDE DEF r
  <2> QED
    BY <2>1 DEF But
<1> HIDE DEF w
<1>2. l \in File /\ But(w, l, {"held", "last"})
  BY <1>1, ReturnLastEffect
<1> HIDE DEF l
<1>3. a \in File /\ But(l, a, {"held", "active"})
  BY <1>2, ReturnActiveEffect
<1>4. a.session = x.session /\ a.crossed = x.crossed
  BY <1>1, <1>2, <1>3 DEF But, Fields
<1>5. chd_reset_channel(x, release) = y
  <2>1. y = [a EXCEPT
                !.staged = NONE, !.disc = NONE, !.started = FALSE, !.drain = FALSE,
                !.eosDone = FALSE, !.left = 0, !.seen = FALSE, !.empty = FALSE,
                !.known = FALSE, !.pending = FALSE, !.session = s, !.crossed = c]
    BY DEF ClearSession, ClearFormat, ClearInput, ClearCapture
  <2> QED
    BY <1>4, <2>1 DEF chd_reset_channel, l, w
<1> HIDE DEF a
<1>6. p \in File
  BY <1>3, ClearCaptureEffect
<1> HIDE DEF p
<1>7. q \in File
  BY <1>6, ClearInputEffect
<1> HIDE DEF q
<1>8. t \in File
  BY <1>7, ClearFormatEffect
<1>9. t.known = FALSE /\ t.pending = FALSE
  BY <1>7 DEF ClearFormat, File
<1> HIDE DEF t
<1>10. s \in BOOLEAN /\ c \in BOOLEAN
  BY <1>0
<1> HIDE DEF s
<1>11. But(t, y, {"seen", "session", "crossed"})
  BY <1>8, <1>10, ClearSessionEffect
<1>12. y.crossed = c
  <2> HIDE DEF c
  <2> QED
    BY <1>8 DEF ClearSession, File
<1> HIDE DEF y
<1>13. y.known = FALSE /\ y.pending = FALSE
  BY <1>9, <1>11 DEF But, Fields
<1> QED
  BY <1>5, <1>12, <1>13

\* The channel of the firmware is closed and opened again.
Reopened(w, w2) == w2.held = <<>> /\ w2.fmt = NONE /\ w2.eos = FALSE /\ w2.hung = w.hung

\* Nothing is under way: no token, no transfer, no marker.
LEMMA NothingUnderWay ==
  ASSUME NEW y, NEW w2, y.tokens = {}, y.tx = "idle", y.active = NONE, y.last = NONE,
         w2.held = <<>>, w2.eos = FALSE, y.phase # "DRAINING"
  PROVE  Ledger(y, w2) /\ Marked(y, w2)
<1>1. Wire(y) = {} /\ Answered(y) = {} /\ ~AtWire(y) /\ ~AtResult(y)
      /\ ~AtDriver(y) /\ ~AtFirmware(w2)
  BY DEF Wire, Answered, Registered, AtWire, AtResult, AtDriver, AtFirmware
<1>2. 1 .. Len(w2.held) = {}
  OBVIOUS
<1>3. Held(w2) = {}
  BY <1>2 DEF Held
<1>4. Ledger(y, w2)
  BY <1>1, <1>2, <1>3 DEF Ledger
<1>5. Marked(y, w2)
  BY <1>1 DEF Marked
<1> QED
  BY <1>4, <1>5

LEMMA ResetHealth ==
  ASSUME clip \in Clips, NEW x, FileInv(x), x.epoch < MaxEpoch, ~x.txActive,
         NEW release \in BOOLEAN, NEW w, NEW w2, Reopened(w, w2)
  PROVE  LET y == chd_reset_channel(x, release)
         IN  Kept(x, w, y, w2) /\ y \in File /\ y.active = NONE
<1> DEFINE y == chd_reset_channel(x, release)
<1>1. x \in File /\ x.crossed \in BOOLEAN /\ x.pending \in BOOLEAN
  BY FileTypes DEF FileInv
<1>2. /\ y \in File
      /\ But(x, y, Cleared \cup {"tokens", "epoch", "phase", "held", "last", "active"})
      /\ y.active = NONE /\ y.last = NONE /\ y.phase = "OFF" /\ y.disc = NONE
      /\ y.drain = FALSE /\ y.seen = FALSE
  BY <1>1, ResetEffect
<1>3. /\ y.staged = NONE
      /\ release \/ x.phase # "OFF" => y.tokens = {}
      /\ ~release /\ x.phase = "OFF" => y.tokens = x.tokens
  BY <1>1, ResetValues
<1>4. y.known = FALSE /\ y.pending = FALSE /\ y.crossed = (x.crossed \/ Outdated(x))
  BY <1>1, ResetFlags
<1>5. y.tx = "idle"
  BY ResetCounts
<1> HIDE DEF y
<1>6. /\ y.faults = x.faults /\ y.late = x.late /\ y.fatal = x.fatal /\ y.dst = x.dst
      /\ y.fmt = x.fmt /\ y.stale = x.stale
  BY <1>2 DEF But, Fields, Cleared
<1>7. Kept(x, w, y, w2)
  <2> SUFFICES ASSUME Clean(y) PROVE Clean(x) /\ (Well(x, w) => Well(y, w2))
    BY DEF Kept
  <2>0. x.crossed = FALSE /\ ~Outdated(x)
    BY <1>1, <1>4 DEF Clean
  <2>1. Clean(x) /\ ~Outdated(x)
    BY <1>6, <2>0 DEF Clean
  <2> SUFFICES ASSUME Well(x, w) PROVE Well(y, w2)
    BY <2>1
  <2>2. Alive(x, w) /\ Geometry(x) /\ Ledger(x, w)
    BY DEF Well
  <2>3. Alive(y, w2)
    BY <1>2, <1>6, <2>2 DEF Alive, Reopened
  <2>4. Geometry(y)
    <3>1. Uniform(x)
      BY <2>1, <2>2 DEF Geometry, Outdated
    <3>2. Uniform(y)
      BY <1>6, <3>1 DEF Uniform
    <3> QED
      BY <1>2, <1>3, <1>4, <3>2 DEF Geometry
  <2>5. y.tokens = {}
    <3>1. x.phase = "OFF" => x.tokens = {}
      BY <2>2 DEF Ledger
    <3> QED
      BY <1>3, <3>1
  <2>6. Discovery(y, w2)
    BY <1>2 DEF Discovery, Probed, Reopened
  <2>7. Ledger(y, w2) /\ Marked(y, w2)
    BY <1>2, <1>5, <2>5, NothingUnderWay DEF Reopened
  <2> QED
    BY <2>3, <2>4, <2>6, <2>7 DEF Well
<1> QED
  BY <1>2, <1>7 DEF y

\* Without a session there was no channel.
LEMMA NoSessionHealth ==
  ASSUME NEW x, FileInv(x), ~x.txActive, ~x.session, NEW w, NEW w2, Reopened(w, w2)
  PROVE  Kept(x, w, x, w2) /\ x.active = NONE
<1>1. x \in File /\ OffOK(x) /\ InputOK(x)
  BY DEF FileInv
<1>2. /\ x.phase = "OFF" /\ x.active = NONE /\ x.last = NONE /\ x.disc = NONE
      /\ x.tx = "idle"
  BY <1>1 DEF OffOK, InputOK
<1>3. ASSUME Well(x, w) PROVE Well(x, w2)
  <2>1. Alive(x, w) /\ Geometry(x) /\ Ledger(x, w) /\ Discovery(x, w)
    BY <1>3 DEF Well
  <2>2. x.tokens = {}
    BY <1>2, <2>1 DEF Ledger
  <2>3. Ledger(x, w2) /\ Marked(x, w2)
    BY <1>2, <2>2, NothingUnderWay DEF Reopened
  <2>4. Alive(x, w2) /\ Discovery(x, w2)
    BY <1>2, <2>1 DEF Alive, Discovery, Probed, Reopened
  <2> QED
    BY <2>1, <2>3, <2>4 DEF Well
<1> QED
  BY <1>2, <1>3 DEF Kept

\* START and STREAMON after a drain that needed no firmware.
LEMMA ResumeHealth ==
  ASSUME NEW x, FileInv(x), x.phase = "DRAINED", ~x.txActive, NEW w
  PROVE  LET y == chd_resume(x)
         IN  Kept(x, w, y, w) /\ y \in File
<1> DEFINE p == IF x.unopened THEN "OFF" ELSE "RUNNING"
           c == ClearInput(x)
           y == Resumed(c, p)
<1>0. x \in File /\ InputOK(x)
  BY DEF FileInv
<1>1. p \in Phases /\ p \in {"OFF", "RUNNING"}
  BY DEF Phases
<1>2. chd_resume(x) = y
  BY DEF chd_resume, ClearInput, Resumed
<1> HIDE DEF p
<1>3. c \in File /\ But(x, c, {"drain", "eosDone", "left"})
  BY <1>0, ClearInputEffect
<1> HIDE DEF c
<1>4. y \in File /\ But(c, y, {"phase", "seen", "empty"}) /\ y.phase = p /\ y.seen = FALSE
  BY <1>1, <1>3, ResumedEffect
<1> HIDE DEF y
<1> DEFINE T == {"drain", "eosDone", "left", "phase", "seen", "empty"}
<1>5. But(x, y, T)
  BY <1>3, <1>4 DEF But
<1>6. T \cap GeometryFields = {} /\ T \cap CleanFields = {}
  BY DEF GeometryFields, CleanFields
<1>7. /\ y.tokens = x.tokens /\ y.active = x.active /\ y.last = x.last /\ y.tx = x.tx
      /\ y.disc = x.disc /\ y.known = x.known /\ y.fatal = x.fatal
      /\ y.txau = x.txau /\ y.epoch = x.epoch
  BY <1>5 DEF But, Fields
<1>8. Wire(y) = Wire(x) /\ Answered(y) = Answered(x) /\ AtWire(y) = AtWire(x)
      /\ AtResult(y) = AtResult(x) /\ AtDriver(y) = AtDriver(x) /\ Probed(y) = Probed(x)
  BY <1>7 DEF Wire, Answered, Registered, AtWire, AtResult, AtDriver, Probed
<1>9. ASSUME Well(x, w) PROVE Well(y, w)
  <2>1. Alive(x, w) /\ Geometry(x) /\ Ledger(x, w) /\ Discovery(x, w) /\ Marked(x, w)
    BY <1>9 DEF Well
  <2>2. x.tokens = {}
    BY <2>1 DEF Ledger
  <2>3. ~(AtWire(x) \/ AtFirmware(w) \/ AtResult(x) \/ AtDriver(x))
    BY <2>1 DEF Marked
  <2>4. y.phase # "FAILED" /\ y.phase # "DRAINING"
    BY <1>1, <1>4
  <2>5. Alive(y, w)
    BY <1>7, <2>1, <2>4 DEF Alive
  <2>6. Geometry(y)
    BY <1>5, <1>6, <2>1, GeometryFrame
  <2>7. Discovery(y, w)
    BY <1>4, <1>7, <1>8, <2>1 DEF Discovery
  <2>8. Ledger(y, w)
    BY <1>7, <1>8, <2>1, <2>2 DEF Ledger
  <2>9. Marked(y, w)
    BY <1>8, <2>3, <2>4 DEF Marked
  <2> QED
    BY <2>5, <2>6, <2>7, <2>8, <2>9 DEF Well
<1>10. Kept(x, w, y, w)
  BY <1>5, <1>6, <1>9, CleanFrame DEF Kept
<1> QED
  BY <1>2, <1>4, <1>10

\* The workers are joined between two transfers.
LEMMA JoinEndHealth ==
  ASSUME NEW x, FileInv(x), x.tx \in {"idle", "queued"}, NEW w
  PROVE  LET y == chd_join_end(x)
         IN  /\ Kept(x, w, y, w) /\ FileInv(y) /\ y \in File /\ ~y.txActive
             /\ y.epoch = x.epoch /\ y.out = x.out /\ y.phase = x.phase
<1> DEFINE y == chd_join_end(x)
<1>1. /\ WorkStep(x, y)
      /\ But(x, y, {"run", "tx", "txau", "txActive", "admitted", "txStopping"})
      /\ ~y.txActive
  BY JoinEndKeeps
<1> HIDE DEF y
<1>2. FileInv(y)
  BY <1>1 DEF WorkStep
<1>3. y.txau = EOS /\ y \in File /\ y.tx = "idle"
  BY <1>1, <1>2 DEF FileInv, InputOK
<1>4. OffWire(x, y)
  BY <1>3 DEF OffWire
<1>5. {"run", "tx", "txau", "txActive", "admitted", "txStopping"} \cap HealthFields
        \subseteq {"tx", "txau"}
  BY DEF HealthFields, GeometryFields, DiscoveryFields, LedgerFields, MarkerFields,
         AliveFields, CleanFields
<1>6. Kept(x, w, y, w)
  BY <1>1, <1>4, <1>5, TransferKept
<1>7. y.epoch = x.epoch /\ y.out = x.out /\ y.phase = x.phase
  BY <1>1 DEF But, Fields
<1> QED
  BY <1>1, <1>2, <1>3, <1>6, <1>7 DEF y

LEMMA AfterJoinHealth ==
  ASSUME StreamIInv, AfterJoin
  PROVE  Kept(f, fw, f', fw')
<1> DEFINE x == chd_join_end(f)
           y == IF x.session THEN chd_reset_channel(x, io = "off_output") ELSE x
           z == chd_admit(chd_resume(x), x.out)
<1>1. /\ clip \in Clips /\ f \in File /\ fw \in Channel /\ FileInv(f) /\ IoInv
  BY IInvFacts DEF StreamIInv
<1>2. f.tx \in {"idle", "queued"}
  BY DEF AfterJoin
<1>3. \/ f' \in DeviceGone(x)
      \/ /\ io \in {"off_output", "reqbufs", "off_capture"} /\ FwReset
         /\ f' = CASE io = "off_output" -> [y EXCEPT !.out = FALSE, !.src = <<>>]
                   [] io = "off_capture" -> CaptureOff(y)
                   [] io = "reqbufs" -> Reallocate(y)
      \/ (x.pending \/ x.phase = "DRAINED") /\ f' = CaptureOff(x) /\ fw' = fw
      \/ f' \in {chd_return_dst(x), x} /\ fw' = fw
      \/ /\ io \in {"resume_on", "resume_cmd"} /\ fw' = fw
         /\ (io = "resume_on" /\ f' = CaptureOn(z)) \/ f' = chd_kick(z)
  BY DEF AfterJoin
<1>4. /\ Kept(f, fw, x, fw) /\ FileInv(x) /\ x \in File /\ ~x.txActive
      /\ x.epoch = f.epoch /\ x.out = f.out /\ x.phase = f.phase
  BY <1>1, <1>2, JoinEndHealth
<1> HIDE DEF x
<1>5. /\ x.session = x.out /\ x.out \in BOOLEAN /\ x.session \in BOOLEAN /\ MarkerOK(x)
  BY <1>4, FileTypes DEF FileInv, OffOK
<1>6. SUFFICES Kept(x, fw, f', fw')
  BY <1>4, KeptAfter
<1>7. CASE f' \in DeviceGone(x)
  BY <1>4, <1>7, GoneDirty, DirtyKept
<1>8. CASE /\ io \in {"off_output", "reqbufs", "off_capture"} /\ FwReset
           /\ f' = CASE io = "off_output" -> [y EXCEPT !.out = FALSE, !.src = <<>>]
                     [] io = "off_capture" -> CaptureOff(y)
                     [] io = "reqbufs" -> Reallocate(y)
  <2>1. x.epoch < MaxEpoch
    BY <1>1, <1>4, <1>8 DEF IoInv
  <2>2. Reopened(fw, fw')
    BY <1>1, <1>8 DEF FwReset, Reopened, Channel
  <2>3. PICK b \in BOOLEAN : b = (io = "off_output")
    OBVIOUS
  <2>4. Kept(x, fw, y, fw') /\ y \in File /\ y.active = NONE
    <3> DEFINE v == chd_reset_channel(x, b)
    <3>1. Kept(x, fw, v, fw') /\ v \in File /\ v.active = NONE
      BY <1>1, <1>4, <2>1, <2>2, ResetHealth
    <3>2. y = IF x.session THEN v ELSE x
      BY <2>3
    <3> HIDE DEF v, y
    <3>3. CASE x.session
      BY <3>1, <3>2, <3>3
    <3>4. CASE ~x.session
      BY <1>4, <2>2, <3>2, <3>4, NoSessionHealth
    <3> QED
      BY <3>3, <3>4
  <2>5. \/ f' = [y EXCEPT !.out = FALSE, !.src = <<>>]
        \/ f' = CaptureOff(y) \/ f' = Reallocate(y)
    BY <1>8
  <2> HIDE DEF y
  <2>6. CASE f' = [y EXCEPT !.out = FALSE, !.src = <<>>]
    <3>1. But(y, f', {"out", "src"})
      BY <2>4, <2>6, OutputOffEffect
    <3>2. {"out", "src"} \cap HealthFields = {}
      BY DEF HealthFields, GeometryFields, DiscoveryFields, LedgerFields, MarkerFields,
             AliveFields, CleanFields
    <3>3. Kept(y, fw', f', fw')
      BY <3>1, <3>2, PlainKept
    <3> QED
      BY <2>4, <3>3, KeptAfter
  <2>7. CASE f' = CaptureOff(y)
    <3>1. Kept(y, fw', f', fw')
      BY <2>4, <2>7, NoRegistration, CaptureOffHealth
    <3> QED
      BY <2>4, <3>1, KeptAfter
  <2>8. CASE f' = Reallocate(y)
    <3>1. Kept(y, fw', f', fw')
      BY <2>4, <2>8, ReallocateHealth
    <3> QED
      BY <2>4, <3>1, KeptAfter
  <2> QED
    BY <2>5, <2>6, <2>7, <2>8
<1>9. CASE (x.pending \/ x.phase = "DRAINED") /\ f' = CaptureOff(x) /\ fw' = fw
  <2>1. CASE x.pending
    <3>1. x.active = NONE
      BY <1>5, <2>1 DEF MarkerOK
    <3> QED
      BY <1>4, <1>9, <3>1, NoRegistration, CaptureOffHealth
  <2>2. CASE x.phase = "DRAINED"
    <3>1. Well(x, fw) => Answered(x) = {} /\ ~AtResult(x)
      BY <2>2 DEF Well, Ledger, Marked
    <3> QED
      BY <1>4, <1>9, <3>1, CaptureOffHealth
  <2> QED
    BY <1>9, <2>1, <2>2
<1>10. CASE f' \in {chd_return_dst(x), x} /\ fw' = fw
  BY <1>4, <1>10, ReturnDstHealth, KeptSame
<1>11. CASE /\ io \in {"resume_on", "resume_cmd"} /\ fw' = fw
            /\ (io = "resume_on" /\ f' = CaptureOn(z)) \/ f' = chd_kick(z)
  <2> DEFINE r == chd_resume(x)
  <2>1. x.phase = "DRAINED"
    BY <1>1, <1>4, <1>11 DEF IoInv
  <2>2. Kept(x, fw, r, fw) /\ r \in File
    BY <1>4, <2>1, ResumeHealth
  <2>3. z = chd_admit(r, x.out)
    OBVIOUS
  <2> HIDE DEF r, z
  <2>4. Kept(r, fw, z, fw) /\ z \in File
    BY <1>5, <2>2, <2>3, PlainFunctions
  <2>6. Kept(x, fw, z, fw)
    BY <2>2, <2>4, KeptAfter
  <2>8. CASE io = "resume_on" /\ f' = CaptureOn(z)
    <3>1. Kept(z, fw, f', fw)
      BY <2>4, <2>8, CaptureOnHealth
    <3> QED
      BY <1>11, <2>6, <3>1, KeptAfter
  <2>9. CASE f' = chd_kick(z)
    <3>1. Kept(z, fw, f', fw)
      BY <2>4, <2>9, PlainFunctions
    <3> QED
      BY <1>11, <2>6, <3>1, KeptAfter
  <2> QED
    BY <1>11, <2>8, <2>9
<1> QED
  BY <1>3, <1>7, <1>8, <1>9, <1>10, <1>11

-----------------------------------------------------------------------------
(* The theorem.                                                            *)

LEMMA HealthInit == Init => HealthInv
<1> SUFFICES ASSUME Init PROVE HealthInv
  OBVIOUS
<1>1. /\ f.fatal = FALSE /\ f.phase = "OFF" /\ f.pending = FALSE /\ f.known = FALSE
      /\ f.dst = <<>> /\ f.active = NONE /\ f.staged = NONE /\ f.disc = NONE
      /\ f.seen = FALSE /\ f.tokens = {} /\ f.tx = "idle" /\ f.last = NONE
      /\ fw.hung = FALSE /\ fw.fmt = NONE /\ fw.held = <<>> /\ fw.eos = FALSE
      /\ io = NONE
  BY DEF Init
<1>2. Alive(f, fw) /\ Discovery(f, fw)
  BY <1>1 DEF Alive, Discovery, Probed
<1>3. Uniform(f)
  BY <1>1, EmptyUniform
<1>4. Geometry(f)
  BY <1>1, <1>3 DEF Geometry
<1>5. Ledger(f, fw) /\ Marked(f, fw)
  BY <1>1, NothingUnderWay
<1> QED
  BY <1>2, <1>4, <1>5 DEF HealthInv, Well

LEMMA NextHealth ==
  ASSUME StreamIInv, [Next]_vars
  PROVE  Kept(f, fw, f', fw')
<1>1. CASE Worker
  <2>1. ASSUME NEW e \in BOOLEAN, ChdRun(e)
        PROVE  Kept(f, fw, f', fw')
    BY <2>1, RunHealth
  <2> QED
    BY <1>1, <2>1, TxHealth DEF Worker, chd_run, chd_run_expired
<1>2. CASE Firmware
  BY <1>2, FirmwareHealth
<1>3. CASE Ioctl
  BY <1>3, QuietIoctlHealth, AfterJoinHealth DEF Ioctl
<1>4. CASE UNCHANGED vars
  BY <1>4, KeptSame DEF vars
<1> QED
  BY <1>1, <1>2, <1>3, <1>4 DEF Next

LEMMA HealthStep ==
  ASSUME StreamIInv, HealthInv, [Next]_vars
  PROVE  HealthInv'
<1>1. Kept(f, fw, f', fw')
  BY NextHealth
<1> SUFFICES ASSUME Clean(f') PROVE Well(f', fw')
  BY DEF HealthInv, Clean, Well, Alive, Geometry, Uniform, Discovery, Ledger, Marked, Probed,
         Wire, Held, Answered, Registered, AtWire, AtFirmware, AtResult, AtDriver
<1>2. Clean(f) /\ (Well(f, fw) => Well(f', fw'))
  BY <1>1 DEF Kept
<1>3. Well(f, fw)
  BY <1>2 DEF HealthInv
<1> QED
  BY <1>2, <1>3

LEMMA HealthSuffices == StreamIInv /\ HealthInv => HealthyStreamSurvives
<1> SUFFICES ASSUME StreamIInv, HealthInv, f.fatal
             PROVE  f.faults > 0 \/ f.late \/ f.crossed \/ f.stale
  BY DEF HealthyStreamSurvives
<1>1. f \in File
  BY IInvFacts DEF StreamIInv
<1>2. /\ f.late \in BOOLEAN /\ f.crossed \in BOOLEAN /\ f.stale \in BOOLEAN
      /\ f.faults \in Nat
  BY <1>1, FileTypes, NodeAssumption DEF Budget
<1>3. ~Clean(f)
  BY DEF HealthInv, Well, Alive
<1> QED
  BY <1>2, <1>3 DEF Clean

(***************************************************************************)
(* What a healthy stream can die of.  The errors of chd_receive, of        *)
(* chd_submit_capture, chd_deliver_staged, chd_finish_last and of the      *)
(* drain watchdog are reached by no race of the two workers, the ioctls    *)
(* and a firmware that keeps its side, but two.  A file fails only after a *)
(* failure of the firmware, the core or the device, an input that found no *)
(* room in time, or one of the two: STREAMON of CAPTURE, or a channel      *)
(* reset, cleared a source change while buffers of another geometry were   *)
(* queued.                                                                 *)
(***************************************************************************)
THEOREM HealthyStream == Spec => []HealthyStreamSurvives
<1>1. Init => StreamIInv /\ HealthInv
  BY StreamInit, HealthInit
<1>2. StreamIInv /\ HealthInv /\ [Next]_vars => StreamIInv' /\ HealthInv'
  BY StreamStep, HealthStep
<1> QED
  BY <1>1, <1>2, HealthSuffices, PTL DEF Spec

=============================================================================
