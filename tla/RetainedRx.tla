------------------------------ MODULE RetainedRx ------------------------------
(***************************************************************************)
(* The two ways a playback file hands capture buffers to the driver:       *)
(*                                                                         *)
(*   legacy    ADD_RXBUFFS gives a mapping to the capture core and FETCH   *)
(*             destroys it again;                                          *)
(*   retained  REGISTER keeps the mapping in a registry of the command     *)
(*             context, FETCH lends the buffer to the client, REPOST gives *)
(*             it back to the core, RETIRE unmaps it.                      *)
(*                                                                         *)
(* A session uses one of the two.  The registry is guarded by the mutex    *)
(* retained_rx_lock, which a retained fetch keeps while it waits; legacy   *)
(* callers take no mutex and are only counted (legacy_rx_active).  The     *)
(* capture core itself is RxCapture's subject: here it is the set of       *)
(* buffers it holds, each still queued or with a completed picture or      *)
(* format boundary.  The threads belong to the file that owns the session. *)
(***************************************************************************)
EXTENDS Integers, FiniteSets

CONSTANTS
    Bufs,       \* address ranges of the client; registered ranges may not overlap
    Threads,    \* threads of the owning file inside an ioctl
    Slots,      \* registry entries, BC_RX_LIST_CNT
    MaxSerial,  \* last value of retained_rx_serial, U64_MAX in the code
    MaxSeq,     \* last value of borrow_sequence, U64_MAX in the code
    MaxEpoch,   \* bound on destructive capture stops of one session
    NONE

ASSUME RetainedConstants ==
    /\ {Slots, MaxSerial, MaxSeq, MaxEpoch} \subseteq Nat \ {0}
    /\ NONE \notin Bufs \cup Threads
    /\ IsFiniteSet(Threads)

VARIABLES
    state,      \* link state of the context without its capture bits
    cap_en,     \* BC_LINK_CAP_EN
    fault,      \* hw->dma_fault
    epoch,      \* hw->rx_cancel_epoch
    core,       \* per buffer: the packet of the capture core that carries it
    reg,        \* ctx->retained_rx: generation and stale flag, NONE without one
    entry,      \* the registry's entry for a buffer
    serial,     \* ctx->retained_rx_serial
    legacy,     \* ctx->legacy_rx_active
    lock,       \* holder of retained_rx_lock between two steps
    th,         \* what each thread is doing
    acked       \* history: full retirement acknowledged, nothing begun since

hwvars == <<state, cap_en, fault, epoch>>
regvars == <<reg, entry, serial>>
vars == <<hwvars, core, regvars, legacy, lock, th, acked>>

Keys == [rid : 1..MaxSerial, gen : 1..MaxSerial, seq : 0..MaxSeq]
Packets == [mode : {"legacy", "retained"}, ep : 0..MaxEpoch,
            at : {"queued", "picture", "boundary"}]
Entries == [key : Keys, st : {"QUEUED", "BORROWED", "DETACHED"}, ep : 0..MaxEpoch]
Registries == [gen : 1..MaxSerial, stale : BOOLEAN]
Idle == [pc |-> "idle", mode |-> "legacy", buf |-> NONE, pkt |-> NONE]
Inside == [pc : {"idle", "add", "register", "repost", "wait", "hold", "done"},
           mode : {"legacy", "retained"}, buf : Bufs \cup {NONE}, pkt : Packets \cup {NONE}]

ASSUME NoneIsFresh == NONE \notin Packets \cup Entries \cup Registries

\* Every variable has its type; serial numbers and borrow sequences stop at
\* their last value instead of wrapping (crystalhd_cmds.c 141, 2325, 2436).
TypeOK ==
    /\ state \in {"INVALID", "INIT", "SUSPEND", "RESUME", "GONE"}
    /\ cap_en \in BOOLEAN /\ fault \in BOOLEAN /\ acked \in BOOLEAN
    /\ epoch \in 0..MaxEpoch
    /\ core \in [Bufs -> Packets \cup {NONE}]
    /\ reg \in Registries \cup {NONE}
    /\ entry \in [Bufs -> Entries \cup {NONE}]
    /\ serial \in 0..MaxSerial
    /\ legacy \in 0..Cardinality(Threads)
    /\ lock \in Threads \cup {NONE}
    /\ th \in [Threads -> Inside]

Init ==
    /\ state = "INVALID" /\ cap_en = FALSE /\ fault = FALSE /\ epoch = 0
    /\ core = [b \in Bufs |-> NONE]
    /\ reg = NONE /\ entry = [b \in Bufs |-> NONE] /\ serial = 0
    /\ legacy = 0 /\ lock = NONE
    /\ th = [t \in Threads |-> Idle]
    /\ acked = FALSE

-----------------------------------------------------------------------------
(* Helpers *)

\* crystalhd_get_cmd_proc admits no command of a suspended context.
Admitted(t) == th[t].pc = "idle" /\ state \in {"INIT", "RESUME"}

\* Suspend, release and removal hold user_lock exclusively.
Exclusive == \A t \in Threads : th[t].pc = "idle"

Go(t, pc, mode, buf, pkt) ==
    th' = [th EXCEPT ![t] = [pc |-> pc, mode |-> mode, buf |-> buf, pkt |-> pkt]]

\* The ioctl returns: crystalhd_legacy_rx_leave, or mutex_unlock.
Return(t) ==
    /\ th' = [th EXCEPT ![t] = Idle]
    /\ IF th[t].mode = "legacy"
       THEN legacy' = legacy - 1 /\ UNCHANGED lock
       ELSE lock' = NONE /\ UNCHANGED legacy

\* The core holds no buffer, and every packet is back in the pool: one that a
\* fetcher has detached and not yet freed is missing there.
rx_idle ==
    /\ ~fault
    /\ \A b \in Bufs : core[b] = NONE
    /\ \A t \in Threads : th[t].pc # "hold"

\* The release callback of the buffers in B: a legacy mapping is destroyed, a
\* retained one is only detached from the core.
retained_detach(B) ==
    [b \in Bufs |-> IF b \in B /\ entry[b] # NONE
                    THEN [entry[b] EXCEPT !.st = "DETACHED"] ELSE entry[b]]

InCore == {b \in Bufs : core[b] # NONE}

\* crystalhd_retained_cleanup on the entries e: refused while one is QUEUED,
\* otherwise every mapping goes, and the registry goes or starts a generation.
cleanup_allowed(e) == \A b \in Bufs : e[b] # NONE => e[b].st # "QUEUED"

mark_stale == reg' = IF reg = NONE THEN NONE ELSE [reg EXCEPT !.stale = TRUE]

\* Variant: the serial number is taken without looking for its last value.
next_generation_wraps ==
    reg' = [gen |-> serial + 1, stale |-> FALSE] /\ serial' = serial + 1

next_generation ==
    IF serial = MaxSerial
    THEN mark_stale /\ UNCHANGED serial
    ELSE reg' = [gen |-> serial + 1, stale |-> FALSE] /\ serial' = serial + 1

retained_cleanup(e) ==
    IF reg # NONE /\ cleanup_allowed(e)
    THEN entry' = [b \in Bufs |-> NONE] /\ next_generation
    ELSE entry' = e /\ mark_stale /\ UNCHANGED serial

\* crystalhd_hw_stop_capture_locked without unmap: every packet goes back to
\* the free queue.
stop_keeping ==
    core' = [b \in Bufs |-> IF core[b] = NONE THEN NONE ELSE [core[b] EXCEPT !.at = "queued"]]

-----------------------------------------------------------------------------
(* Submitting a buffer to the core *)

\* bc_cproc_add_cap_buff: legacy_rx_enter under ctx_lock, then the mapping.
add_cap_buff(t, b) ==
    /\ Admitted(t) /\ reg = NONE
    /\ core[b] = NONE /\ \A u \in Threads : th[u].buf # b
    /\ legacy' = legacy + 1 /\ acked' = FALSE
    /\ Go(t, "add", "legacy", b, NONE)
    /\ UNCHANGED <<hwvars, core, regvars, lock>>

\* crystalhd_rx_submit succeeds: the core owns the buffer under the current epoch.
rx_submit(t) ==
    /\ th[t].pc \in {"add", "register", "repost"} /\ ~fault
    /\ core' = [core EXCEPT ![th[t].buf] =
                   [mode |-> th[t].mode, ep |-> epoch, at |-> "queued"]]
    /\ Return(t)
    /\ UNCHANGED <<hwvars, regvars, acked>>

\* Variant: a failed repost leaves the entry QUEUED.
rx_submit_failed_queued(t) ==
    /\ th[t].pc \in {"add", "register", "repost"}
    /\ entry' = IF th[t].pc = "register" THEN [entry EXCEPT ![th[t].buf] = NONE] ELSE entry
    /\ Return(t)
    /\ UNCHANGED <<hwvars, core, reg, serial, acked>>

\* It fails on a signal, without a packet, on a hard error or on a fault: the
\* caller undoes its own step.
rx_submit_failed(t) ==
    /\ th[t].pc \in {"add", "register", "repost"}
    /\ entry' = CASE th[t].pc = "add" -> entry
                  [] th[t].pc = "register" -> [entry EXCEPT ![th[t].buf] = NONE]
                  [] OTHER -> [entry EXCEPT ![th[t].buf].st = "BORROWED"]
    /\ Return(t)
    /\ UNCHANGED <<hwvars, core, reg, serial, acked>>

\* Variant: only the core is asked, not the callers on their way to it.
register_mode_idle_core(t) ==
    /\ Admitted(t) /\ lock = NONE
    /\ reg = NONE /\ serial < MaxSerial
    /\ rx_idle
    /\ serial' = serial + 1
    /\ reg' = [gen |-> serial + 1, stale |-> FALSE]
    /\ acked' = FALSE
    /\ UNCHANGED <<hwvars, core, entry, legacy, lock, th>>

\* crystalhd_retained_register, first part: the first registration publishes the
\* mode under ctx_lock, when no legacy caller and no legacy buffer is left.
register_mode(t) ==
    /\ Admitted(t) /\ lock = NONE
    /\ reg = NONE /\ serial < MaxSerial
    /\ legacy = 0 /\ rx_idle
    /\ serial' = serial + 1
    /\ reg' = [gen |-> serial + 1, stale |-> FALSE]
    /\ acked' = FALSE
    /\ UNCHANGED <<hwvars, core, entry, legacy, lock, th>>

\* The rest up to the submission: the range is free, a slot is free, the
\* mapping is made and the entry is QUEUED before the core has it.
register(t, b) ==
    /\ Admitted(t) /\ lock = NONE
    /\ reg # NONE /\ ~reg.stale /\ serial < MaxSerial
    /\ entry[b] = NONE
    /\ Cardinality({c \in Bufs : entry[c] # NONE}) < Slots
    /\ serial' = serial + 1
    /\ entry' = [entry EXCEPT ![b] =
                    [key |-> [rid |-> serial + 1, gen |-> reg.gen, seq |-> 0],
                     st |-> "QUEUED", ep |-> epoch]]
    /\ lock' = t /\ acked' = FALSE
    /\ Go(t, "register", "retained", b, NONE)
    /\ UNCHANGED <<hwvars, core, reg, legacy>>

\* crystalhd_retained_return: the key names the entry and its current borrow.
key_matches(b, key) ==
    entry[b] # NONE /\ entry[b].key = key /\ entry[b].st = "BORROWED"

repost(t, b, key) ==
    /\ Admitted(t) /\ lock = NONE /\ reg # NONE
    /\ key_matches(b, key)
    /\ ~reg.stale /\ entry[b].ep = epoch /\ key.gen = reg.gen
    /\ entry' = [entry EXCEPT ![b].st = "QUEUED"]
    /\ lock' = t
    /\ Go(t, "repost", "retained", b, NONE)
    /\ UNCHANGED <<hwvars, core, reg, serial, legacy, acked>>

retire(t, b, key) ==
    /\ Admitted(t) /\ lock = NONE /\ reg # NONE
    /\ key_matches(b, key) /\ ~fault
    /\ entry' = [entry EXCEPT ![b] = NONE]
    /\ UNCHANGED <<hwvars, core, reg, serial, legacy, lock, th, acked>>

-----------------------------------------------------------------------------
(* Fetching *)

\* bc_cproc_fetch_frame: counted, then waiting without any lock.
fetch_frame(t) ==
    /\ Admitted(t) /\ reg = NONE /\ cap_en
    /\ legacy' = legacy + 1 /\ acked' = FALSE
    /\ Go(t, "wait", "legacy", NONE, NONE)
    /\ UNCHANGED <<hwvars, core, regvars, lock>>

\* crystalhd_retained_fetch: one borrow at a time, and the mutex is kept.
retained_fetch(t) ==
    /\ Admitted(t) /\ lock = NONE /\ cap_en
    /\ reg # NONE /\ ~reg.stale
    /\ \A b \in Bufs : entry[b] # NONE => entry[b].st # "BORROWED"
    /\ lock' = t
    /\ Go(t, "wait", "retained", NONE, NONE)
    /\ UNCHANGED <<hwvars, core, regvars, legacy, acked>>

\* crystalhd_dioq_fetch_wait: time-out or signal, or a packet leaves the core.
fetch_nothing(t) ==
    /\ th[t].pc = "wait"
    /\ Return(t)
    /\ UNCHANGED <<hwvars, core, regvars, acked>>

fetch_wait(t, b) ==
    /\ th[t].pc = "wait"
    /\ core[b] # NONE /\ core[b].at # "queued"
    /\ core' = [core EXCEPT ![b] = NONE]
    /\ Go(t, "hold", th[t].mode, b, core[b])
    /\ UNCHANGED <<hwvars, regvars, legacy, lock, acked>>

\* crystalhd_hw_complete_rx_locked: the packet is freed, or kept on a fault.
complete_rx(t) ==
    /\ th[t].pc = "hold" /\ ~fault
    /\ th' = [th EXCEPT ![t].pc = "done"]
    /\ UNCHANGED <<hwvars, core, regvars, legacy, lock, acked>>

complete_rx_fault(t) ==
    /\ th[t].pc = "hold" /\ fault
    /\ core' = [core EXCEPT ![th[t].buf] = th[t].pkt]
    /\ Return(t)
    /\ UNCHANGED <<hwvars, regvars, acked>>

\* The completion names an entry that waits for it.
fetch_matches(t) ==
    LET e == entry[th[t].buf] IN
    th[t].mode = "retained" => e # NONE /\ e.st = "QUEUED" /\ e.ep = th[t].pkt.ep

\* The borrow gets its number.
lend(e) == [e EXCEPT !.key.seq = @ + 1, !.st = "BORROWED"]

\* A picture ends a legacy mapping.
fetch_picture(t) ==
    /\ th[t].pc = "done" /\ th[t].mode = "legacy" /\ th[t].pkt.at = "picture"
    /\ Return(t)
    /\ UNCHANGED <<hwvars, core, regvars, acked>>

\* A retained buffer is lent; one that does not match, or has no borrow number
\* left, is detached and revokes the registry.
retained_picture(t) ==
    /\ th[t].pc = "done" /\ th[t].mode = "retained"
    /\ th[t].pkt.at = "picture" \/ ~fetch_matches(t)
    /\ IF fetch_matches(t) /\ entry[th[t].buf].key.seq < MaxSeq
       THEN entry' = [entry EXCEPT ![th[t].buf] = lend(@)] /\ UNCHANGED reg
       ELSE entry' = retained_detach({th[t].buf}) /\ mark_stale
    /\ Return(t)
    /\ UNCHANGED <<hwvars, core, serial, acked>>

\* crystalhd_rx_ack_format gives the buffer back to the same capture ...
ack_format(t) ==
    /\ th[t].pc = "done" /\ th[t].pkt.at = "boundary" /\ fetch_matches(t)
    /\ th[t].pkt.ep = epoch /\ cap_en /\ ~fault
    /\ core' = [core EXCEPT ![th[t].buf] =
                   [mode |-> th[t].mode, ep |-> epoch, at |-> "queued"]]
    /\ Return(t)
    /\ UNCHANGED <<hwvars, regvars, acked>>

\* ... or releases it: cancelled, faulted, interrupted, or the core refused it.
ack_format_released(t) ==
    /\ th[t].pc = "done" /\ th[t].pkt.at = "boundary" /\ fetch_matches(t)
    /\ entry' = retained_detach({th[t].buf})
    /\ Return(t)
    /\ UNCHANGED <<hwvars, core, reg, serial, acked>>

-----------------------------------------------------------------------------
(* Retirement, flush, start *)

\* A destructive stop with fetch_sem held: refused under a fault; the engine
\* may fail to stop; otherwise the core gives up every buffer and the registry
\* unmaps its own.
destructive_stop_failed ==
    /\ IF fault THEN UNCHANGED <<epoch, fault>>
                ELSE epoch < MaxEpoch /\ epoch' = epoch + 1 /\ fault' = TRUE
    /\ mark_stale
    /\ UNCHANGED <<core, entry, serial>>

destructive_stop ==
    /\ ~fault /\ epoch < MaxEpoch /\ epoch' = epoch + 1
    /\ core' = [b \in Bufs |-> NONE]
    /\ retained_cleanup(retained_detach(InCore))
    /\ UNCHANGED fault

\* Variant: the core alone is asked.
retained_no_owners_idle == rx_idle

\* crystalhd_retained_no_owners, under ctx_lock.
retained_no_owners == legacy = 0 /\ rx_idle

\* RETIRE of registration 0 without a registry: acknowledged when nobody owns.
retire_all_empty(t) ==
    /\ Admitted(t) /\ lock = NONE /\ reg = NONE
    /\ retained_no_owners
    /\ acked' = TRUE
    /\ UNCHANGED <<hwvars, core, regvars, legacy, lock, th>>

\* crystalhd_retained_retire_all.
retire_all_admitted(t) ==
    /\ Admitted(t) /\ lock = NONE /\ reg # NONE
    /\ state = "RESUME" => ~cap_en

retire_all(t) ==
    /\ retire_all_admitted(t)
    /\ cap_en' = FALSE
    /\ destructive_stop
    /\ acked' = cleanup_allowed(retained_detach(InCore))
    /\ UNCHANGED <<state, legacy, lock, th>>

retire_all_failed(t) ==
    /\ retire_all_admitted(t)
    /\ cap_en' = FALSE
    /\ destructive_stop_failed
    /\ UNCHANGED <<state, legacy, lock, th, acked>>

\* crystalhd_capture_flush takes the mutex in both modes; before capture starts
\* it may only undo registrations.
capture_flush(t) ==
    /\ Admitted(t) /\ lock = NONE
    /\ cap_en \/ state = "INIT"
    /\ cap_en' = FALSE
    /\ destructive_stop \/ destructive_stop_failed
    /\ UNCHANGED <<state, legacy, lock, th, acked>>

capture_discard(t) ==
    /\ Admitted(t) /\ lock = NONE /\ cap_en /\ ~fault
    /\ \/ stop_keeping /\ UNCHANGED fault
       \/ fault' = TRUE /\ UNCHANGED core
    /\ UNCHANGED <<state, cap_en, epoch, regvars, legacy, lock, th, acked>>

\* crystalhd_capture_start looks at the stale flag without the mutex.
capture_start(t) ==
    /\ Admitted(t) /\ ~fault /\ ~cap_en
    /\ reg # NONE => ~reg.stale
    /\ cap_en' = TRUE
    /\ UNCHANGED <<state, fault, epoch, core, regvars, legacy, lock, th, acked>>

-----------------------------------------------------------------------------
(* The device, the session and power management *)

\* The interrupt handler completes a packet.
rx_complete(b) ==
    /\ state \in {"INIT", "RESUME"} /\ cap_en /\ ~fault
    /\ core[b] # NONE /\ core[b].at = "queued"
    /\ \E at \in {"picture", "boundary"} : core' = [core EXCEPT ![b].at = at]
    /\ UNCHANGED <<hwvars, regvars, legacy, lock, th, acked>>

\* crystalhd_hw_publish_fault, by an engine or a thread outside this module.
publish_fault ==
    /\ state \in {"INIT", "RESUME"} /\ ~fault /\ fault' = TRUE
    /\ UNCHANGED <<state, cap_en, epoch, core, regvars, legacy, lock, th, acked>>

\* A session begins on a new hardware context.
session_open ==
    /\ state = "INVALID"
    /\ state' = "INIT" /\ cap_en' = FALSE /\ epoch' = 0 /\ fault' = FALSE
    /\ UNCHANGED <<core, regvars, legacy, lock, th, acked>>

\* crystalhd_suspend revokes the borrows first, whatever fails afterwards.
suspend ==
    /\ Exclusive /\ state \in {"INIT", "RESUME"}
    /\ mark_stale
    /\ \/ /\ ~fault
          /\ state' = "SUSPEND" /\ cap_en' = FALSE
          /\ IF cap_en THEN stop_keeping ELSE UNCHANGED core
          /\ UNCHANGED fault
       \/ fault' = TRUE /\ UNCHANGED <<state, cap_en, core>>
    /\ UNCHANGED <<epoch, entry, serial, legacy, lock, th, acked>>

resume ==
    /\ Exclusive /\ state = "SUSPEND" /\ ~fault
    /\ state' = "RESUME"
    /\ UNCHANGED <<cap_en, fault, epoch, core, regvars, legacy, lock, th, acked>>

\* crystalhd_retained_cleanup(destroy), after the rings gave up every buffer.
retained_destroy ==
    /\ core' = [b \in Bufs |-> NONE]
    /\ LET e == retained_detach(InCore) IN
       IF cleanup_allowed(e)
       THEN entry' = [b \in Bufs |-> NONE] /\ reg' = NONE
       ELSE entry' = e /\ UNCHANGED reg
    /\ UNCHANGED serial

\* crystalhd_retire_hw_context: nothing is freed when a stop fails.
retire_hw_context ==
    /\ Exclusive /\ state \in {"INIT", "RESUME"} /\ ~fault
    /\ \/ /\ retained_destroy
          /\ state' = IF reg' = NONE THEN "INVALID" ELSE state
          /\ cap_en' = FALSE /\ UNCHANGED fault
       \/ fault' = TRUE /\ UNCHANGED <<state, cap_en, core, regvars>>
    /\ UNCHANGED <<epoch, legacy, lock, th, acked>>

\* crystalhd_delete_cmd_context, bus mastering off and the interrupt released.
delete_cmd_context ==
    /\ Exclusive /\ state # "GONE"
    /\ retained_destroy
    /\ state' = IF reg' = NONE THEN "GONE" ELSE state
    /\ cap_en' = FALSE
    /\ UNCHANGED <<fault, epoch, legacy, lock, th, acked>>

Next ==
    \/ \E t \in Threads :
          \/ rx_submit(t) \/ rx_submit_failed(t) \/ register_mode(t)
          \/ fetch_frame(t) \/ retained_fetch(t) \/ fetch_nothing(t)
          \/ complete_rx(t) \/ complete_rx_fault(t)
          \/ fetch_picture(t) \/ retained_picture(t)
          \/ ack_format(t) \/ ack_format_released(t)
          \/ retire_all_empty(t) \/ retire_all(t) \/ retire_all_failed(t)
          \/ capture_flush(t) \/ capture_discard(t) \/ capture_start(t)
          \/ \E b \in Bufs :
                \/ add_cap_buff(t, b) \/ register(t, b) \/ fetch_wait(t, b)
                \/ \E key \in Keys : repost(t, b, key) \/ retire(t, b, key)
    \/ \E b \in Bufs : rx_complete(b)
    \/ publish_fault \/ session_open \/ suspend \/ resume
    \/ retire_hw_context \/ delete_cmd_context

Spec == Init /\ [][Next]_vars

-----------------------------------------------------------------------------
(* Properties *)

\* Where a QUEUED entry is when the core does not hold it: in the hands of the
\* thread that has retained_rx_lock.
InHand(b) ==
    \E t \in Threads : lock = t /\ th[t].mode = "retained" /\ th[t].buf = b

\* The registry and the capture core agree about every retained buffer: what
\* the core can still write is registered, QUEUED, of the packet's epoch and
\* the registry's generation; what is borrowed or detached, the client may read
\* or the driver may unmap without the core; at most one buffer is lent
\* (crystalhd_retained_fetch, _return, _cleanup; the mismatch branch at
\* crystalhd_cmds.c 2428 therefore never runs).
RegistryMatchesCore ==
    /\ \A b \in Bufs :
          /\ core[b] # NONE /\ core[b].mode = "retained" =>
                /\ reg # NONE /\ entry[b] # NONE
                /\ entry[b].st = "QUEUED" /\ entry[b].ep = core[b].ep
                /\ entry[b].key.gen = reg.gen
                /\ ~fault => core[b].ep = epoch
          /\ entry[b] # NONE =>
                (entry[b].st = "QUEUED" <=> core[b] # NONE \/ InHand(b))
    /\ \A b, c \in Bufs :
          entry[b] # NONE /\ entry[c] # NONE /\ entry[b].st = "BORROWED"
             /\ entry[c].st = "BORROWED" => b = c
    /\ \A t \in Threads : th[t].pc = "done" => fetch_matches(t)

\* A session is in one mode: once a registry is published no legacy caller is
\* inside, no legacy buffer is in the core, and nobody is about to bring one
\* (crystalhd_retained_register: "Publishing mode excludes every legacy RX
\* admission, including one that has not yet submitted its freshly pinned DIO").
ModesExclusive ==
    reg # NONE =>
        /\ legacy = 0
        /\ \A b \in Bufs : core[b] # NONE => core[b].mode = "retained"
        /\ \A t \in Threads : th[t].pc # "idle" => th[t].mode = "retained"

\* An acknowledged full retirement is true until something new begins: the core
\* and every thread are empty-handed and no mapping is left (bc_cproc_retained_rx:
\* "never ACK while legacy DMA still owns data").
RetiredMeansUnowned ==
    acked =>
        /\ \A b \in Bufs : core[b] = NONE /\ entry[b] = NONE
        /\ \A t \in Threads : th[t].buf = NONE
=============================================================================
