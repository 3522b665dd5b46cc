------------------------------ MODULE V4l2Node ------------------------------
(***************************************************************************)
(* One open file of the V4L2 memory-to-memory node, crystalhd_v4l2_node.c, *)
(* with its decoder controller, crystalhd_v4l2_decoder.c:                  *)
(*                                                                         *)
(*   chd_run       delayed work: opens the channel, posts CAPTURE buffers, *)
(*                 receives pictures, polls again after 2 ms               *)
(*   chd_tx_run    work: sends one access unit or the EOS sequence, with   *)
(*                 run_lock dropped during the bounded transfer            *)
(*   ioctls        serialized by ioctl_lock; they join the workers first   *)
(*   firmware      external: accepts access units, announces formats,      *)
(*                 returns pictures and the EOS marker                     *)
(*                                                                         *)
(* run_lock is held by a whole chd_run, by the two locked halves of        *)
(* chd_tx_run and by the locked section of an ioctl: each is one action.   *)
(* A picture is its access unit.  A CAPTURE buffer is the geometry it was  *)
(* prepared for; geometries are ordered by the allocation they need.       *)
(***************************************************************************)
EXTENDS Integers, Sequences, FiniteSets

CONSTANTS
    NONE,        \* no registration, no result, no ioctl
    Clips,       \* [aus, hint, ledger]: the access units [fmt, range] to
                 \* decode, the geometry the client sets before it allocates,
                 \* and CRYSTALHD_V4L2_TIMESTAMPS, the correlation ledger
    NBufs,       \* CAPTURE buffers
    FwCap,       \* access units the firmware can hold
    MaxEpoch,    \* bound on channel resets
    MaxFault     \* bound on failures of firmware, core calls and device

Quants == {"none", "lim", "full"}       \* quantization of the samples

ASSUME NodeAssumption ==
    /\ NBufs \in Nat \ {0, 1}               \* chd_queue_setup: at least two
    /\ FwCap \in Nat \ {0}
    /\ MaxEpoch \in Nat /\ MaxFault \in Nat
    /\ \A c \in Clips :
          c \in [aus : Seq([fmt : Nat, range : Quants]), hint : Nat, ledger : Nat \ {0}]

VARIABLES
    f,       \* struct crystalhd_v4l2_file with its queues and workers
    fw,      \* the firmware's channel
    io,      \* the ioctl that joins the workers, NONE, or "closed"
    clip,    \* the clip of this behaviour
    shown    \* access units whose answer the client got (history)

vars == <<f, fw, io, clip, shown>>

AUs == DOMAIN clip.aus
EOS == 0            \* what chd_tx_run sends after the last access unit

\* What the firmware answers about the access units A, and the registrations
\* that carry the answers.
Answers(A) ==
    [kind : {"eos"}] \cup [kind : {"picture", "error"}, au : A]
        \cup [kind : {"format"}, au : A, fmt : Nat]
Posts(A) == [fmt : Nat, ep : Nat, res : {NONE} \cup Answers(A)]
Probes(A) == [res : {NONE} \cup Answers(A)]
Copies(A) == [au : A, fmt : Nat, ep : Nat]

\* The ioctls that join the workers.
Joins == {"off_output", "off_capture", "reqbufs", "resume_on", "resume_cmd", "release"}

ASSUME NoneIsFresh ==
    NONE \notin Nat \cup {"src", "closed"} \cup Joins
               \cup Answers(Nat) \cup Posts(Nat) \cup Probes(Nat) \cup Copies(Nat)

Init ==
    /\ \E c \in Clips :
      /\ clip = c
      /\ f = [closing |-> FALSE, admitted |-> FALSE, fatal |-> FALSE,
            out |-> FALSE, cap |-> FALSE, session |-> FALSE,
            known |-> FALSE, pending |-> FALSE, started |-> FALSE,
            drain |-> FALSE, left |-> 0, seen |-> FALSE, empty |-> FALSE,
            unopened |-> FALSE, eosDone |-> FALSE,
            txActive |-> FALSE, txStopping |-> FALSE,
            run |-> FALSE, tx |-> "idle", txau |-> EOS,
            phase |-> "OFF", epoch |-> 0, tokens |-> {},
            fmt |-> c.hint, quant |-> "none", alloc |-> c.hint,
            src |-> <<>>, next |-> 1, dst |-> <<>>, held |-> NBufs,
            active |-> NONE, disc |-> NONE, last |-> NONE, staged |-> NONE,
            faults |-> 0, late |-> FALSE, crossed |-> FALSE, stale |-> FALSE]
    /\ fw = [held |-> <<>>, fmt |-> NONE, eos |-> FALSE, hung |-> FALSE]
    /\ io = NONE
    /\ shown = {}

-----------------------------------------------------------------------------
(* Outcomes [f, shown, ok] of a step of chd_run, and their composition.    *)

Ok(x, sh) == [f |-> x, shown |-> sh, ok |-> TRUE]
Bad(x, sh) == [f |-> x, shown |-> sh, ok |-> FALSE]
Then(S, G(_, _)) == UNION {IF r.ok THEN G(r.f, r.shown) ELSE {r} : r \in S}

Faulty(x) == [x EXCEPT !.faults = @ + 1]

\* A core call that succeeds with x, or fails and leaves bad.
MayFail(x, bad, sh) ==
    {Ok(x, sh)} \cup (IF x.faults < MaxFault THEN {Bad(Faulty(bad), sh)} ELSE {})

-----------------------------------------------------------------------------
\* Variant of chd_kick: queues the work whether or not it is admitted.
chd_kick_always(x) == [x EXCEPT !.run = TRUE]

\* mod_delayed_work(run_work, 0).
chd_kick(x) ==
    IF x.admitted /\ (~x.closing \/ x.txActive) THEN [x EXCEPT !.run = TRUE] ELSE x

chd_admit(x, admit) ==
    LET a == admit /\ ~x.closing
    IN  [x EXCEPT !.admitted = a, !.txStopping = @ /\ ~a]

chd_error(x) == chd_admit([x EXCEPT !.fatal = TRUE], FALSE)

\* A CAPTURE buffer goes back to the client.
BufDone(x) == [x EXCEPT !.held = @ + 1]

\* The head of the client's ready queue is taken.
DstRemove(x) == [x EXCEPT !.dst = Tail(@)]

chd_return_active(x) ==
    IF x.active = NONE THEN x ELSE BufDone([x EXCEPT !.active = NONE])

chd_return_dst(x) == [x EXCEPT !.held = @ + Len(x.dst), !.dst = <<>>]

\* AUs are taken in order; after STOP only those of the snapshot.
chd_next_input(x) == IF (x.drain /\ x.left = 0) \/ x.src = <<>> THEN NONE ELSE "src"

chd_input_ready(x) ==
    IF ~x.known THEN x.disc # NONE
    ELSE x.cap /\ ~x.pending /\ x.last = NONE /\ x.active # NONE

-----------------------------------------------------------------------------
(* The decoder controller: crystalhd_v4l2_decoder.c.                       *)

crystalhd_v4l2_decoder_reset(x) ==
    [x EXCEPT !.tokens = {}, !.epoch = @ + 1, !.phase = "OFF"]

crystalhd_v4l2_decoder_open_locked(x, sh) ==
    IF x.phase # "OFF" THEN {Ok(x, sh)}
    ELSE MayFail([x EXCEPT !.phase = "RUNNING"], [x EXCEPT !.phase = "FAILED"], sh)

\* A token of the ledger for the head of the source queue.
crystalhd_v4l2_reserve_input(x) == [x EXCEPT !.tokens = @ \cup {Head(x.src)}]

crystalhd_v4l2_decoder_begin_drain(x) == [x EXCEPT !.phase = "DRAINING"]

\* After an error no further input is admitted; the token stays.
crystalhd_v4l2_decoder_submitted(x) == [x EXCEPT !.phase = "FAILED"]

\* The range of the very access unit, never the newest one.
crystalhd_v4l2_decoder_peek_range(x, a) ==
    IF a \in x.tokens THEN clip.aus[a].range ELSE "none"

\* A picture or an explicit error retires exactly its own token.
crystalhd_v4l2_decoder_complete_observed(x, a) == [x EXCEPT !.tokens = @ \ {a}]

\* Only an answer of this epoch, on an open channel, is accepted.
Current(x, ep) == ep = x.epoch /\ x.phase \in {"RUNNING", "DRAINING"}

\* Variant of crystalhd_v4l2_decoder_complete_eos: the marker alone is proof.
crystalhd_v4l2_decoder_complete_eos_alone(x, ep) ==
    Current(x, ep) /\ x.phase = "DRAINING"

\* The marker proves the drain only when no picture is missing.
crystalhd_v4l2_decoder_complete_eos(x, ep) ==
    Current(x, ep) /\ x.phase = "DRAINING" /\ x.tokens = {}

-----------------------------------------------------------------------------
(* The steps of chd_run.                                                   *)

chd_finish_last(x) ==
    IF x.last = NONE \/ x.staged # NONE \/ x.txActive \/ ~x.eosDone THEN x
    ELSE IF crystalhd_v4l2_decoder_complete_eos(x, x.last)
    THEN BufDone([x EXCEPT !.last = NONE, !.phase = "DRAINED"])
    ELSE chd_error(x)

EmptyDrain(x) == x.drain /\ x.left = 0 /\ ~x.seen /\ ~x.txActive

\* No input since the channel exists: LAST needs no firmware.
chd_empty_drain(x) ==
    IF x.dst = <<>> THEN x
    ELSE BufDone(DstRemove([x EXCEPT
            !.empty = TRUE, !.unopened = (x.phase = "OFF"),
            !.phase = "DRAINED", !.eosDone = TRUE]))

chd_deliver_staged(x, sh) ==
    IF x.staged = NONE THEN {Ok(x, sh)}
    ELSE IF x.staged.ep # x.epoch THEN {Bad(x, sh)}
    ELSE IF x.dst = <<>> THEN {Ok(x, sh)}
    ELSE IF Head(x.dst) # x.staged.fmt THEN {Bad(BufDone(DstRemove(x)), sh)}
    ELSE {Ok(BufDone(DstRemove([x EXCEPT !.staged = NONE])), sh \cup {x.staged.au})}

\* While answers are outstanding a drain keeps the client's last buffer.
Reserved(x) == x.drain /\ (x.tokens # {} \/ x.left > 0) /\ Len(x.dst) <= 1

\* A buffer goes to the core, if it was prepared for the present format.
PostCapture(x, sh) ==
    IF x.staged # NONE \/ x.last # NONE \/ Reserved(x) \/ x.dst = <<>>
    THEN {Ok(x, sh)}
    ELSE IF Head(x.dst) # x.fmt THEN {Bad(BufDone(DstRemove(x)), sh)}
    ELSE MayFail(DstRemove([x EXCEPT !.active =
                    [fmt |-> Head(x.dst), ep |-> x.epoch, res |-> NONE]]),
                 BufDone(DstRemove(x)), sh)

\* Variant of chd_submit_capture: posts before the client has answered.
chd_submit_capture_pending(x, sh) ==
    IF ~x.cap \/ ~x.known \/ x.active # NONE
    THEN {Ok(x, sh)} ELSE Then(chd_deliver_staged(x, sh), PostCapture)

\* One registration at a time; the staged picture goes first.
chd_submit_capture(x, sh) ==
    IF ~x.cap \/ ~x.known \/ x.pending \/ x.active # NONE
    THEN {Ok(x, sh)} ELSE Then(chd_deliver_staged(x, sh), PostCapture)

\* Before the format is known the private discovery buffer is posted.
chd_start_capture(x, sh) ==
    LET Start(y, s) == MayFail([y EXCEPT !.started = TRUE], y, s)
    IN  IF x.staged # NONE \/ x.last # NONE THEN {Ok(x, sh)}
        ELSE IF ~x.known
        THEN Then(IF x.disc # NONE THEN {Ok(x, sh)}
                  ELSE MayFail([x EXCEPT !.disc = [res |-> NONE]], x, sh), Start)
        ELSE IF ~x.cap \/ x.pending THEN {Ok(x, sh)} ELSE Start(x, sh)

\* The core pauses; the registration that carried the announcement becomes
\* the empty LAST of the old format.
chd_format(x, r, sh) ==
    LET y == chd_return_active([x EXCEPT !.started = FALSE, !.disc = NONE])
        hinted == ~x.known /\ x.cap /\ x.dst # <<>> /\ Head(x.dst) = r.fmt
        range == crystalhd_v4l2_decoder_peek_range(x, r.au)
    IN  MayFail([y EXCEPT !.fmt = r.fmt, !.known = TRUE, !.pending = ~hinted,
                    !.quant = IF range = "none" THEN @ ELSE range],
                [x EXCEPT !.disc = NONE], sh)

\* A picture of another range is copied aside, its buffer ends the old format.
chd_stage_range(x, a, ep, sh) ==
    MayFail(BufDone([x EXCEPT !.staged = [au |-> a, fmt |-> x.fmt, ep |-> ep],
                        !.started = FALSE, !.pending = TRUE,
                        !.quant = clip.aus[a].range]),
            BufDone(x), sh)

\* A picture of another range goes aside, any other answer to the client.
chd_picture(x, r, sh) ==
    LET ep == x.active.ep
        y == [x EXCEPT !.active = NONE]
        z == crystalhd_v4l2_decoder_complete_observed(y, r.au)
        range == clip.aus[r.au].range
    IN  IF ~Current(x, ep) \/ r.au \notin x.tokens THEN {Bad(BufDone(y), sh)}
        ELSE IF r.kind = "picture" /\ range \notin {"none", x.quant}
        THEN IF x.staged # NONE \/ x.active.fmt # x.fmt THEN {Bad(BufDone(z), sh)}
             ELSE chd_stage_range(z, r.au, ep, sh)
        ELSE {Ok(BufDone(z), sh \cup {r.au})}

\* The marker waits in pending_last for the EOS transfer to return.
chd_marker(x) ==
    LET y == [x EXCEPT !.active = NONE]
    IN  IF ~x.drain \/ x.phase # "DRAINING" THEN [ok |-> FALSE, f |-> BufDone(y)]
        ELSE [ok |-> TRUE, f |-> [y EXCEPT !.last = x.active.ep]]

chd_receive(x, sh) ==
    LET reg == IF x.known THEN x.active ELSE x.disc
        r == IF reg = NONE THEN NONE ELSE reg.res
    IN  IF ~x.started \/ r = NONE THEN {Ok(x, sh)}
        ELSE IF r.kind = "format" THEN chd_format(x, r, sh)
        ELSE IF ~x.known THEN {Bad([x EXCEPT !.disc = NONE], sh)}
        ELSE IF r.kind = "eos"
        THEN {[f |-> chd_marker(x).f, shown |-> sh, ok |-> chd_marker(x).ok]}
        ELSE chd_picture(x, r, sh)

chd_schedule_tx(x) ==
    IF \/ x.txActive \/ x.phase # "RUNNING" \/ ~chd_input_ready(x)
       \/ chd_next_input(x) # NONE /\ Cardinality(x.tokens) = clip.ledger
       \/ chd_next_input(x) = NONE /\ ~x.drain
       \/ ~x.admitted \/ x.closing \/ x.txStopping
    THEN x ELSE [x EXCEPT !.txActive = TRUE, !.tx = "queued"]

\* The clock of the drain runs: firmware owes an answer and has a buffer.
DrainClockRuns(x) ==
    /\ x.drain /\ ~x.txActive
    /\ \/ x.phase = "DRAINING" /\ x.eosDone
       \/ /\ x.phase = "RUNNING" /\ x.left > 0 /\ chd_next_input(x) # NONE
          /\ Cardinality(x.tokens) = clip.ledger
    /\ x.admitted /\ ~x.fatal /\ x.out /\ x.started /\ ~x.pending /\ x.last = NONE
    /\ IF x.known THEN x.cap /\ x.active # NONE ELSE x.disc # NONE

\* Firmware has nothing to say, now and after any time.
FwSilent ==
    /\ fw.hung \/ (fw.held = <<>> /\ ~fw.eos)
    /\ IF f.known THEN f.active.res = NONE ELSE f.disc.res = NONE

\* Variant of chd_drain_watchdog: no deadline.
chd_drain_watchdog_none(x, expired) == x

chd_drain_watchdog(x, expired) ==
    IF expired /\ DrainClockRuns(x) THEN chd_error(x) ELSE x

\* The work polls again unless the file leaves or the drain is over.
Requeue(x) ==
    [x EXCEPT !.run = x.admitted /\ (~x.closing \/ x.txActive)
                        /\ x.phase # "DRAINED"]

\* chd_run between device_enter and device_exit.
ChannelTurn(x, expired) ==
    LET Begin(y, s) == IF y.started THEN {Ok(y, s)}
                       ELSE Then(chd_submit_capture(y, s), chd_start_capture)
        Receive(y, s) == IF y.started THEN Then(chd_receive(y, s), chd_submit_capture)
                         ELSE {Ok(y, s)}
        Finish(y, s) == {Ok(chd_drain_watchdog(chd_schedule_tx(y), expired), s)}
    IN  {IF r.ok THEN Ok(Requeue(r.f), r.shown) ELSE Bad(chd_error(r.f), r.shown) :
            r \in Then(Then(Then(crystalhd_v4l2_decoder_open_locked(x, shown),
                                 Begin), Receive), Finish)}

\* device_enter() with an error: the device is gone.
DeviceGone(x) == IF x.faults < MaxFault THEN {chd_error(Faulty(x))} ELSE {}

ChdRun(expired) ==
    LET x == chd_finish_last([f EXCEPT !.run = FALSE]) IN
    /\ f.run
    /\ expired => DrainClockRuns(f) /\ FwSilent
    /\ \/ /\ ~x.admitted \/ x.fatal \/ ~x.out \/ x.phase = "DRAINED"
          /\ f' = x /\ UNCHANGED shown
       \/ /\ x.admitted /\ ~x.fatal /\ x.out /\ x.phase # "DRAINED"
          /\ \/ EmptyDrain(x) /\ f' = chd_empty_drain(x) /\ UNCHANGED shown
             \/ /\ ~EmptyDrain(x) /\ ~x.seen /\ chd_next_input(x) = NONE
                /\ f' = x /\ UNCHANGED shown
             \/ /\ ~EmptyDrain(x) /\ (x.seen \/ chd_next_input(x) # NONE)
                /\ \/ f' \in DeviceGone(x) /\ UNCHANGED shown
                   \/ \E r \in ChannelTurn(x, expired) :
                         f' = r.f /\ shown' = r.shown
    /\ UNCHANGED <<fw, io, clip>>

chd_run == ChdRun(FALSE)
chd_run_expired == ChdRun(TRUE)

-----------------------------------------------------------------------------
(* chd_tx_run.                                                             *)

TxInactive(x) == chd_kick([x EXCEPT !.tx = "idle", !.txau = EOS, !.txActive = FALSE])

TxRefused(x) ==
    \/ ~x.admitted \/ x.txStopping \/ x.fatal \/ ~x.out
    \/ x.phase # "RUNNING" \/ ~chd_input_ready(x)

\* The first half, under run_lock: reserve a token, or begin the drain.
chd_tx_run_begin ==
    LET input == chd_next_input(f) # NONE IN
    /\ f.tx = "queued"
    /\ \/ TxRefused(f) /\ f' = TxInactive(f)
       \/ /\ ~TxRefused(f)
          /\ \/ f' \in {TxInactive(x) : x \in DeviceGone(f)}
             \/ /\ input /\ Cardinality(f.tokens) = clip.ledger
                /\ f' = TxInactive(f)
             \/ /\ input /\ Cardinality(f.tokens) < clip.ledger
                /\ f' = [crystalhd_v4l2_reserve_input(f) EXCEPT
                            !.seen = TRUE, !.tx = "wire", !.txau = Head(f.src)]
             \/ /\ ~input /\ f.drain
                /\ f' = [crystalhd_v4l2_decoder_begin_drain(f) EXCEPT !.tx = "wire"]
             \/ /\ ~input /\ ~f.drain
                /\ f' = TxInactive(f)
    /\ UNCHANGED <<fw, io, clip, shown>>

\* device_enter() = -EAGAIN: the device sleeps.
chd_tx_run_suspended ==
    /\ f.tx = "queued" /\ ~TxRefused(f)
    /\ f' = TxInactive(f)
    /\ UNCHANGED <<fw, io, clip, shown>>

\* The source buffer leaves the queue, unless the core still owns it.
SrcDone(x) ==
    [x EXCEPT !.src = Tail(@), !.left = IF x.drain /\ @ > 0 THEN @ - 1 ELSE @]

\* Variant of chd_tx_run_sent: the snapshot does not include the head.
chd_tx_run_sent_uncounted ==
    /\ f.tx = "sent"
    /\ f' = TxInactive(IF f.txau = EOS THEN [f EXCEPT !.eosDone = TRUE]
                       ELSE [f EXCEPT !.src = Tail(@)])
    /\ UNCHANGED <<fw, io, clip, shown>>

\* The second half: the transfer succeeded.
chd_tx_run_sent ==
    /\ f.tx = "sent"
    /\ f' = TxInactive(IF f.txau = EOS THEN [f EXCEPT !.eosDone = TRUE]
                       ELSE SrcDone(f))
    /\ UNCHANGED <<fw, io, clip, shown>>

FwRoom == ~fw.hung /\ (f.txau = EOS \/ Len(fw.held) < FwCap)

\* The second half after an error.  The source buffer stays queued when the
\* core still owns it.
TxError(x) ==
    {TxInactive(chd_error(crystalhd_v4l2_decoder_submitted(y))) :
        y \in {x} \cup IF x.txau = EOS THEN {} ELSE {SrcDone(x)}}

chd_tx_run_failed ==
    /\ f.tx \in {"wire", "sent"} /\ f.faults < MaxFault
    /\ f' \in TxError(Faulty(f))
    /\ UNCHANGED <<fw, io, clip, shown>>

\* CHD_TX_TIMEOUT_MS passed and the firmware had no room.
chd_tx_run_timeout ==
    /\ f.tx = "wire" /\ ~FwRoom
    /\ f' \in TxError([f EXCEPT !.late = TRUE])
    /\ UNCHANGED <<fw, io, clip, shown>>

-----------------------------------------------------------------------------
(* The firmware and the capture core, as the node sees them.  Pictures are *)
(* returned in the order of the input, each in one posted buffer; a new    *)
(* geometry is announced, in a buffer of its own, before its first picture.*)

fw_accept ==
    /\ f.tx = "wire" /\ FwRoom
    /\ fw' = IF f.txau = EOS THEN [fw EXCEPT !.eos = TRUE]
             ELSE [fw EXCEPT !.held = Append(@, f.txau)]
    /\ f' = [f EXCEPT !.tx = "sent"]
    /\ UNCHANGED <<io, clip, shown>>

\* A posted buffer without a result, while capture runs.
Posted ==
    /\ f.started /\ ~fw.hung
    /\ IF f.known THEN f.active # NONE /\ f.active.res = NONE
       ELSE f.disc # NONE /\ f.disc.res = NONE

Completed(r) ==
    chd_kick(IF f.known THEN [f EXCEPT !.active.res = r]
             ELSE [f EXCEPT !.disc.res = r])

fw_output ==
    /\ Posted
    /\ \/ /\ fw.held # <<>>
          /\ LET a == Head(fw.held) IN
             IF clip.aus[a].fmt # fw.fmt
             THEN /\ f' = Completed([kind |-> "format", au |-> a, fmt |-> clip.aus[a].fmt])
                  /\ fw' = [fw EXCEPT !.fmt = clip.aus[a].fmt]
             ELSE /\ \E k \in {"picture", "error"} : f' = Completed([kind |-> k, au |-> a])
                  /\ fw' = [fw EXCEPT !.held = Tail(@)]
       \/ /\ fw.held = <<>> /\ fw.eos
          /\ f' = Completed([kind |-> "eos"])
          /\ fw' = [fw EXCEPT !.eos = FALSE]
    /\ UNCHANGED <<io, clip, shown>>

\* Faults: an access unit that is never answered, a marker nobody asked for,
\* and silence.
fw_fault ==
    /\ f.faults < MaxFault /\ ~fw.hung
    /\ \/ /\ fw.held # <<>>
          /\ fw' = [fw EXCEPT !.held = Tail(@)] /\ f' = Faulty(f)
       \/ /\ Posted /\ fw.held # <<>>
          /\ f' = Faulty(Completed([kind |-> "eos"]))
          /\ UNCHANGED fw
       \/ fw' = [fw EXCEPT !.hung = TRUE] /\ f' = Faulty(f)
    /\ UNCHANGED <<io, clip, shown>>

-----------------------------------------------------------------------------
(* ioctls.                                                                 *)

Idle == io = NONE
Quiet == UNCHANGED <<fw, clip, shown>>

\* chd_qbuf refuses a failed file; vb2 prepares the buffer and queues it.
chd_qbuf_output ==
    /\ Idle /\ ~f.fatal /\ f.next \in AUs
    /\ f' = chd_kick([f EXCEPT !.src = Append(@, f.next), !.next = @ + 1])
    /\ UNCHANGED io /\ Quiet

\* The allocation must be large enough for the format.
crystalhd_v4l2_capture_prepare(x) == x.alloc >= x.fmt

chd_qbuf_capture ==
    /\ Idle /\ ~f.fatal /\ f.held > 0 /\ crystalhd_v4l2_capture_prepare(f)
    /\ f' = chd_kick([f EXCEPT !.dst = Append(@, f.fmt), !.held = @ - 1])
    /\ UNCHANGED io /\ Quiet

chd_streamon_output ==
    /\ Idle /\ ~f.fatal /\ ~f.out
    /\ f' = chd_kick(chd_admit([f EXCEPT !.out = TRUE, !.session = TRUE], TRUE))
    /\ UNCHANGED io /\ Quiet

chd_join_begin(x) ==
    IF x.txActive /\ ~x.fatal /\ x.out
    THEN [x EXCEPT !.txStopping = TRUE, !.admitted = TRUE, !.run = TRUE]
    ELSE [x EXCEPT !.txStopping = TRUE]

\* cancel_work_sync waits for a running transfer and drops a queued one.
chd_join_end(x) ==
    chd_admit([x EXCEPT !.run = FALSE, !.tx = "idle", !.txau = EOS,
                        !.txActive = FALSE], FALSE)

\* An ioctl that starts by joining the workers.
Join(op, x) == io' = op /\ f' = chd_join_begin(x) /\ Quiet

\* Every queued buffer was prepared for the present geometry.
Uniform(x) == \A i \in 1 .. Len(x.dst) : x.dst[i] = x.fmt

\* A source change is pending and buffers of another geometry are queued.
Outdated(x) == x.pending /\ ~Uniform(x)

\* STREAMON of CAPTURE takes a pending source change for answered, whatever
\* is queued (stale: a history flag of outdated buffers kept on).
CaptureOn(x) ==
    chd_kick(chd_admit([x EXCEPT !.cap = TRUE, !.pending = @ /\ ~x.known,
                                 !.stale = @ \/ Outdated(x)], x.out))

chd_streamon_capture ==
    /\ Idle /\ ~f.fatal /\ ~f.cap
    /\ IF f.phase = "DRAINED" THEN Join("resume_on", f)
       ELSE f' = CaptureOn(f) /\ UNCHANGED io /\ Quiet

chd_stop_streaming(x) == chd_return_dst(chd_return_active(x))

\* The CAPTURE queue is stopped; a channel that was reset discovers again.
CaptureOff(x) ==
    LET y == chd_stop_streaming([x EXCEPT !.cap = FALSE])
    IN  IF y.out /\ ~y.pending /\ y.phase # "DRAINED"
        THEN chd_kick(chd_admit(y, TRUE)) ELSE y

\* RX is retired already: a transfer in flight may need the new buffers.
chd_streamoff_capture ==
    /\ Idle /\ f.cap
    /\ IF f.pending
       THEN /\ f' = CaptureOff(chd_admit([f EXCEPT !.run = FALSE], FALSE))
            /\ UNCHANGED io /\ Quiet
       ELSE f.epoch < MaxEpoch /\ Join("off_capture", f)

chd_streamoff_output ==
    /\ Idle /\ f.out /\ f.epoch < MaxEpoch
    /\ Join("off_output", f)

chd_decoder_cmd_stop ==
    /\ Idle /\ ~f.fatal /\ f.out /\ f.cap
    /\ f.phase # "DRAINED" => ~f.drain
    /\ f' = chd_kick(IF f.phase = "DRAINED" THEN f
                     ELSE [f EXCEPT !.drain = TRUE, !.left = Len(f.src)])
    /\ UNCHANGED io /\ Quiet

\* The queued buffers are prepared again for the new format.
chd_reuse_capture(x) ==
    [x EXCEPT !.pending = FALSE, !.dst = [i \in DOMAIN @ |-> x.fmt]]

\* With the format pending START keeps the allocation.
chd_decoder_cmd_start ==
    /\ Idle /\ ~f.fatal /\ f.out /\ f.cap
    /\ \/ /\ f.pending /\ f.active = NONE /\ crystalhd_v4l2_capture_prepare(f)
          /\ f' = chd_kick(chd_reuse_capture(f))
          /\ UNCHANGED io /\ Quiet
       \/ ~f.pending /\ f.phase = "DRAINED" /\ Join("resume_cmd", f)

\* REQBUFS frees every CAPTURE buffer and allocates for the present format.
Reallocate(x) == [chd_return_dst(x) EXCEPT !.alloc = x.fmt]

chd_reqbufs ==
    /\ Idle /\ ~f.fatal /\ ~f.cap
    /\ IF /\ f.started \/ f.phase # "OFF"
          /\ ~f.pending /\ f.phase # "DRAINED"
       THEN f.epoch < MaxEpoch /\ Join("reqbufs", f)
       ELSE f' = Reallocate(f) /\ UNCHANGED io /\ Quiet

chd_release ==
    /\ Idle
    /\ Join("release", [f EXCEPT !.closing = TRUE, !.admitted = FALSE])

\* Variant of ReturnLast: the marker's buffer is forgotten.
ReturnLast_forgotten(x) == [x EXCEPT !.last = NONE]

\* A marker that was not published yet is returned with an error.
ReturnLast(x) == IF x.last = NONE THEN x ELSE BufDone([x EXCEPT !.last = NONE])

\* chd_reset_channel after its join; the channel, or the session, is closed
\* (crossed: a history flag of outdated buffers left queued).
chd_reset_channel(x, release) ==
    LET y == IF release \/ x.phase # "OFF"
             THEN crystalhd_v4l2_decoder_reset(x) ELSE x
    IN  [chd_return_active(ReturnLast(y)) EXCEPT
            !.staged = NONE, !.disc = NONE, !.started = FALSE, !.drain = FALSE,
            !.eosDone = FALSE, !.left = 0, !.seen = FALSE, !.empty = FALSE,
            !.known = FALSE, !.pending = FALSE, !.session = @ /\ ~release,
            !.crossed = @ \/ Outdated(x)]

FwReset == fw' = [fw EXCEPT !.held = <<>>, !.fmt = NONE, !.eos = FALSE]

\* chd_resume: only a drain that never reached the firmware is undone.
chd_resume(x) ==
    [x EXCEPT !.phase = IF x.unopened THEN "OFF" ELSE "RUNNING", !.drain = FALSE,
              !.eosDone = FALSE, !.left = 0, !.seen = FALSE, !.empty = FALSE]

\* What the ioctl does once both workers are joined.
AfterJoin ==
    LET x == chd_join_end(f)
        reset == \/ io \in {"off_output", "reqbufs"}
                 \/ io = "off_capture" /\ ~x.pending /\ x.phase # "DRAINED"
    IN
    /\ io \notin {NONE, "closed"} /\ f.tx \in {"idle", "queued"}
    /\ UNCHANGED <<clip, shown>>
    /\ \/ /\ reset                       \* the reset fails
          /\ f' \in DeviceGone(x)
          /\ UNCHANGED fw /\ io' = NONE
       \/ /\ reset /\ FwReset /\ io' = NONE
          /\ LET y == IF x.session THEN chd_reset_channel(x, io = "off_output") ELSE x
             IN  f' = CASE io = "off_output" -> [y EXCEPT !.out = FALSE, !.src = <<>>]
                        [] io = "off_capture" -> CaptureOff(y)
                        [] io = "reqbufs" -> Reallocate(y)
       \/ /\ io = "off_capture" /\ ~reset
          /\ f' = CaptureOff(x)
          /\ UNCHANGED fw /\ io' = NONE
       \/ /\ io \in {"resume_on", "resume_cmd"} /\ x.empty
          /\ LET y == chd_admit(chd_resume(x), x.out)
             IN  f' = IF io = "resume_on" THEN CaptureOn(y) ELSE chd_kick(y)
          /\ UNCHANGED fw /\ io' = NONE
       \/ /\ io \in {"resume_on", "resume_cmd"} /\ ~x.empty    \* -EOPNOTSUPP
          /\ f' = IF io = "resume_on" THEN chd_return_dst(x) ELSE x
          /\ UNCHANGED fw /\ io' = NONE
       \/ /\ io = "release"
          /\ f' = x /\ UNCHANGED fw /\ io' = "closed"

-----------------------------------------------------------------------------
Worker == chd_run \/ chd_run_expired
            \/ chd_tx_run_begin \/ chd_tx_run_suspended \/ chd_tx_run_sent
            \/ chd_tx_run_failed \/ chd_tx_run_timeout
Firmware == fw_accept \/ fw_output \/ fw_fault
Ioctl ==
    \/ chd_qbuf_output \/ chd_qbuf_capture
    \/ chd_streamon_output \/ chd_streamon_capture
    \/ chd_streamoff_output \/ chd_streamoff_capture
    \/ chd_decoder_cmd_stop \/ chd_decoder_cmd_start
    \/ chd_reqbufs \/ chd_release \/ AfterJoin

Next == Worker \/ Firmware \/ Ioctl

\* The answer of a client to a source change: START when the allocation is
\* large enough, otherwise STREAMOFF, REQBUFS and STREAMON.
Renegotiate ==
    \/ f.pending /\ f.alloc >= f.fmt /\ chd_decoder_cmd_start
    \/ f.pending /\ f.alloc < f.fmt /\ (chd_streamoff_capture \/ chd_reqbufs)
    \/ f.known /\ chd_streamon_capture

\* Queued work runs, a transfer ends because the firmware accepts it or its
\* time is over, a live firmware answers, and time passes.  Of the client
\* only: it gives CAPTURE buffers back and answers a source change.
Fairness ==
    /\ WF_vars(chd_run) /\ WF_vars(chd_run_expired)
    /\ SF_vars(chd_tx_run_begin) /\ WF_vars(chd_tx_run_sent)
    /\ WF_vars(fw_accept) /\ WF_vars(fw_output) /\ WF_vars(chd_tx_run_timeout)
    /\ WF_vars(AfterJoin) /\ WF_vars(chd_qbuf_capture) /\ WF_vars(Renegotiate)

Spec == Init /\ [][Next]_vars /\ Fairness

-----------------------------------------------------------------------------
TxStates == {"idle", "queued", "wire", "sent"}
Phases == {"OFF", "RUNNING", "DRAINING", "DRAINED", "FAILED"}
Transfers == AUs \cup {EOS}
Epochs == 0 .. MaxEpoch
Budget == 0 .. MaxFault
Ledgers == SUBSET AUs
Sources == Seq(AUs)
Buffers == Seq(Nat)
Registrations == {NONE} \cup Posts(AUs)
Discoveries == {NONE} \cup Probes(AUs)
Markers == {NONE} \cup Nat
StagedPictures == {NONE} \cup Copies(AUs)

\* struct crystalhd_v4l2_file, and the firmware's channel.
File ==
    [closing : BOOLEAN, admitted : BOOLEAN, fatal : BOOLEAN, out : BOOLEAN,
     cap : BOOLEAN, session : BOOLEAN, known : BOOLEAN, pending : BOOLEAN,
     started : BOOLEAN, drain : BOOLEAN, left : Nat, seen : BOOLEAN,
     empty : BOOLEAN, unopened : BOOLEAN, eosDone : BOOLEAN,
     txActive : BOOLEAN, txStopping : BOOLEAN, run : BOOLEAN,
     tx : TxStates, txau : Transfers, phase : Phases, epoch : Epochs,
     tokens : Ledgers, fmt : Nat, quant : Quants, alloc : Nat,
     src : Sources, next : Nat, dst : Buffers, held : Nat,
     active : Registrations, disc : Discoveries, last : Markers,
     staged : StagedPictures, faults : Budget, late : BOOLEAN, crossed : BOOLEAN,
     stale : BOOLEAN]
Channel == [held : Sources, fmt : {NONE} \cup Nat, eos : BOOLEAN, hung : BOOLEAN]

(* Every variable has the type of the C object it models; the correlation  *)
(* ledger never holds more than CRYSTALHD_V4L2_TIMESTAMPS tokens, and the  *)
(* drain snapshot never counts more inputs than are queued.                *)
TypeOK ==
    /\ f \in File /\ fw \in Channel /\ clip \in Clips
    /\ io \in Joins \cup {NONE, "closed"} /\ shown \subseteq AUs
    /\ Cardinality(f.tokens) <= clip.ledger
    /\ f.left <= Len(f.src)
    /\ f.held <= NBufs

(* No CAPTURE buffer is lost or handed out twice, through format and range *)
(* boundaries, failed posts, a marker kept back, resets and STREAMOFF:     *)
(* each one is with the client, ready, posted, or kept as pending_last.    *)
BuffersConserved ==
    f.held + Len(f.dst) + (IF f.active = NONE THEN 0 ELSE 1)
           + (IF f.last = NONE THEN 0 ELSE 1) = NBufs

(* What a file may die of.  A failure of the firmware, the core or the     *)
(* device; an input that found no room within its deadline; and two races  *)
(* of client and worker that the code does lose: STREAMON of CAPTURE       *)
(* (stale) or a channel reset (crossed) cleared a source change while      *)
(* buffers of another geometry were queued, and chd_submit_capture or      *)
(* chd_deliver_staged meets one of them.  No other interleaving of         *)
(* workers, client and firmware reaches a protocol error of chd_receive,   *)
(* chd_submit_capture, chd_deliver_staged or chd_finish_last (stale epoch  *)
(* or token, wrong geometry, unexpected marker, missing picture).          *)
HealthyStreamSurvives ==
    f.fatal => f.faults > 0 \/ f.late \/ f.crossed \/ f.stale

(* A joined worker stays joined: once a queue is stopped or the file is    *)
(* released nothing runs on it or is posted from it, so its buffers and    *)
(* the file itself can be freed, whatever completes or kicks late.         *)
NoWorkOnStoppedQueue ==
    /\ io = "closed" => ~f.run /\ f.tx = "idle" /\ ~f.txActive
    /\ io = NONE /\ ~f.cap => f.active = NONE /\ f.last = NONE
    /\ io = NONE /\ ~f.out => /\ ~f.run /\ f.tx = "idle" /\ f.disc = NONE
                              /\ ~f.started /\ f.phase = "OFF"
    /\ f.tx \in {"wire", "sent"} /\ f.txau # EOS =>
          f.src # <<>> /\ Head(f.src) = f.txau

(* The abstract decoder: what is queued and not answered, what a drain      *)
(* still waits for.  A picture may be answered while chd_tx_run has not yet *)
(* removed its access unit from the source queue.                           *)
Inputs(n) == {f.src[i] : i \in 1 .. n} \ shown
InDecoder == f.tokens \cup (IF f.staged = NONE THEN {} ELSE {f.staged.au})

Stream == INSTANCE DecoderStream WITH
    AccessUnits <- UNION {DOMAIN c.aus : c \in Clips},
    owed <- Inputs(Len(f.src)) \cup InDecoder,
    mode <- IF f.fatal THEN "dead" ELSE IF f.phase = "DRAINED" THEN "drained"
            ELSE IF f.drain THEN "drain" ELSE "decode",
    flushes <- f.epoch,
    due <- IF f.drain /\ ~f.fatal THEN Inputs(f.left) \cup InDecoder ELSE {}

(* The node implements DecoderStream: no access unit is answered twice, or *)
(* answered after LAST, and LAST follows the answers to everything queued  *)
(* before STOP, although input is sent by one worker and answers, format   *)
(* and range boundaries and the EOS marker are handled by another.         *)
ImplementsStream == Stream!Spec

(* A drain ends: LAST is published, or the file fails, is flushed or       *)
(* closed.  Neither a silent firmware nor a lost answer nor a full         *)
(* correlation ledger leaves the client waiting for ever.                  *)
DrainEnds ==
    f.drain ~> \/ ~f.drain \/ f.phase = "DRAINED" \/ f.fatal \/ io = "closed"
               \/ f.alloc < f.fmt /\ ~f.pending
=============================================================================
