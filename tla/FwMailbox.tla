----------------------------- MODULE FwMailbox -----------------------------
(***************************************************************************)
(* The firmware command mailbox of the kernel driver.                      *)
(*                                                                         *)
(* A command is one transaction: fwcmd_trans_mutex is held from admission  *)
(* to the end of the command-layer post-processing, fwcmd_mutex from       *)
(* fw_cmd_begin to fw_cmd_end, and the bookkeeping below is changed under  *)
(* hw->lock.  The interrupt handler acknowledges the device and only then  *)
(* publishes the completion, so the two are separate steps.  A reply that  *)
(* does not come in time leaves the mailbox quarantined (fwcmd_poisoned);  *)
(* a verified firmware boot or a device restart releases it.               *)
(*                                                                         *)
(* Every step between two lock operations is one action.  Commands are     *)
(* numbered so that a reply can be told from the reply to another command. *)
(***************************************************************************)
EXTENDS Integers

CONSTANTS
    Callers,        \* threads that run firmware commands or downloads
    NoCaller,       \* a free mutex
    MaxCmds,        \* bound: commands begun in a behaviour
    MaxSpurious     \* bound: mailbox interrupts that answer no command

ASSUME CallerAssumption == NoCaller \notin Callers
ASSUME BoundAssumption == MaxCmds \in Nat /\ MaxSpurious \in Nat

NoCmd == 0
Cmds == Nat

VARIABLES
    fwcmd_trans_mutex,  \* holder of the transaction mutex
    fwcmd_mutex,        \* holder of the low-level mailbox mutex
    fwcmd_trans_active, \* outer power guard
    fwcmd_active,       \* inner power guard: reply copy not finished
    fwcmd_pending,      \* begun and not yet retired by interrupt or caller
    fwcmd_poisoned,     \* quarantined
    fwcmd_evt_sts,      \* completion latched for the waiter
    FwCmdCnt,           \* commands that inhibit Flea power-down
    dma_fault,          \* unproven DMA stop
    present,            \* adapter still admitted
    state,              \* ctx->state, reduced to INVALID/INIT/SUSPEND/RESUME
    pc,                 \* where each caller is
    cmd,                \* the command each caller runs
    reply,              \* the reply each caller has copied out
    issued,             \* number of commands begun
    mbox,               \* device: posted command the firmware has not answered
    resp,               \* device: command whose reply is in the reply buffer
    intr,               \* device: mailbox interrupt asserted
    isr,                \* the handler acknowledged it, completion not published
    spurious            \* number of unexpected interrupts so far

locks == <<fwcmd_trans_mutex, fwcmd_mutex>>
fwcmd == <<fwcmd_trans_active, fwcmd_active, fwcmd_pending, fwcmd_poisoned,
           fwcmd_evt_sts, FwCmdCnt>>
adapter == <<dma_fault, present, state>>
callers == <<pc, cmd, reply, issued>>
device == <<mbox, resp, intr, isr, spurious>>
vars == <<locks, fwcmd, adapter, callers, device>>

PcStates == {"idle", "entered", "begun", "posted", "answered", "replied",
             "ending", "leaving", "recovering", "booted"}
LinkStates == {"INVALID", "INIT", "SUSPEND", "RESUME"}

FlagsOK ==
    /\ fwcmd_trans_active \in BOOLEAN
    /\ fwcmd_active \in BOOLEAN
    /\ fwcmd_pending \in BOOLEAN
    /\ fwcmd_poisoned \in BOOLEAN
    /\ fwcmd_evt_sts \in BOOLEAN
    /\ dma_fault \in BOOLEAN
    /\ present \in BOOLEAN
    /\ intr \in BOOLEAN
    /\ isr \in BOOLEAN

DataOK ==
    /\ fwcmd_trans_mutex \in Callers \cup {NoCaller}
    /\ fwcmd_mutex \in Callers \cup {NoCaller}
    /\ FwCmdCnt \in Nat
    /\ state \in LinkStates
    /\ pc \in [Callers -> PcStates]
    /\ cmd \in [Callers -> Cmds]
    /\ reply \in [Callers -> Cmds]
    /\ issued \in Cmds
    /\ mbox \in Cmds
    /\ resp \in Cmds
    /\ spurious \in 0..MaxSpurious

\* Every variable has its type; the decrements keep the power count natural.
TypeOK == FlagsOK /\ DataOK

\* crystalhd_hw_open ends with crystalhd_hw_fw_cmd_reset on a started device.
Init ==
    /\ fwcmd_trans_mutex = NoCaller
    /\ fwcmd_mutex = NoCaller
    /\ fwcmd_trans_active = FALSE
    /\ fwcmd_active = FALSE
    /\ fwcmd_pending = FALSE
    /\ fwcmd_poisoned = FALSE
    /\ fwcmd_evt_sts = FALSE
    /\ FwCmdCnt = 0
    /\ dma_fault = FALSE
    /\ present = TRUE
    /\ state = "INVALID"
    /\ pc = [c \in Callers |-> "idle"]
    /\ cmd = [c \in Callers |-> NoCmd]
    /\ reply = [c \in Callers |-> NoCmd]
    /\ issued = 0
    /\ mbox = NoCmd
    /\ resp = NoCmd
    /\ intr = FALSE
    /\ isr = FALSE
    /\ spurious = 0

-----------------------------------------------------------------------------
\* A command transaction: crystalhd_fw_exec_locked and the Flea mailbox code.

Goto(c, from, to) == pc[c] = from /\ pc' = [pc EXCEPT ![c] = to]

\* Variant: the counter is decremented without a check for zero.
Dec_unchecked(n) == n - 1

Dec(n) == IF n > 0 THEN n - 1 ELSE 0

\* Admission.  A refused caller drops the mutex and returns, which changes
\* nothing, so only the admitted case is a step.
fw_cmd_enter(c) ==
    /\ Goto(c, "idle", "entered")
    /\ issued < MaxCmds
    /\ fwcmd_trans_mutex = NoCaller
    /\ ~dma_fault /\ present
    /\ ~fwcmd_poisoned /\ ~fwcmd_pending
    /\ fwcmd_trans_mutex' = c
    /\ fwcmd_trans_active' = TRUE
    /\ UNCHANGED <<fwcmd_mutex, fwcmd_active, fwcmd_pending, fwcmd_poisoned,
                   fwcmd_evt_sts, FwCmdCnt, adapter, cmd, reply, issued,
                   device>>

\* No firmware is loaded: ERR_USAGE.
fw_exec_usage(c) ==
    /\ Goto(c, "entered", "leaving")
    /\ state # "INIT"
    /\ UNCHANGED <<locks, fwcmd, adapter, cmd, reply, issued, device>>

\* fw_cmd_begin checks again what fw_cmd_enter has checked.  The transaction
\* mutex keeps the answer the same, so its BUSY return is never taken; if it
\* were, the caller would be stuck here and CallersReturn would fail.
fw_cmd_begin(c) ==
    /\ Goto(c, "entered", "begun")
    /\ state = "INIT"
    /\ fwcmd_mutex = NoCaller
    /\ ~fwcmd_poisoned /\ ~fwcmd_pending
    /\ fwcmd_mutex' = c
    /\ fwcmd_evt_sts' = FALSE
    /\ fwcmd_pending' = TRUE
    /\ fwcmd_active' = TRUE
    /\ FwCmdCnt' = FwCmdCnt + 1
    /\ issued' = issued + 1
    /\ cmd' = [cmd EXCEPT ![c] = issued + 1]
    /\ reply' = [reply EXCEPT ![c] = NoCmd]
    /\ UNCHANGED <<fwcmd_trans_mutex, fwcmd_trans_active, fwcmd_poisoned,
                   adapter, device>>

\* The device cannot be woken, or the command buffer cannot be written.
fw_cmd_abort_unposted(c) ==
    /\ Goto(c, "begun", "ending")
    /\ fwcmd_pending' = FALSE
    /\ FwCmdCnt' = IF fwcmd_pending THEN Dec(FwCmdCnt) ELSE FwCmdCnt
    /\ fwcmd_evt_sts' = FALSE
    /\ fwcmd_poisoned' = TRUE
    /\ UNCHANGED <<locks, fwcmd_trans_active, fwcmd_active, adapter, cmd,
                   reply, issued, device>>

\* Command words to DRAM, read back, then the doorbell.
post_command(c) ==
    /\ Goto(c, "begun", "posted")
    /\ mbox' = cmd[c]
    /\ UNCHANGED <<locks, fwcmd, adapter, cmd, reply, issued, resp, intr, isr,
                   spurious>>

\* The wait sees the latched completion, on time or at the last moment.
fw_cmd_wait_done(c) ==
    /\ Goto(c, "posted", "answered")
    /\ fwcmd_evt_sts
    /\ UNCHANGED <<locks, fwcmd, adapter, cmd, reply, issued, device>>

\* Variant: the count is dropped when the caller gives up.
fw_cmd_wait_timeout_uncounted(c) ==
    /\ Goto(c, "posted", "ending")
    /\ ~fwcmd_evt_sts
    /\ fwcmd_pending' = FALSE
    /\ fwcmd_poisoned' = (fwcmd_poisoned \/ fwcmd_pending)
    /\ FwCmdCnt' = Dec(FwCmdCnt)
    /\ UNCHANGED <<locks, fwcmd_trans_active, fwcmd_active, fwcmd_evt_sts,
                   adapter, cmd, reply, issued, device>>

\* Variant: giving up does not quarantine.
fw_cmd_wait_timeout_unpoisoned(c) ==
    /\ Goto(c, "posted", "ending")
    /\ ~fwcmd_evt_sts
    /\ fwcmd_pending' = FALSE
    /\ UNCHANGED <<locks, fwcmd_trans_active, fwcmd_active, fwcmd_poisoned,
                   fwcmd_evt_sts, FwCmdCnt, adapter, cmd, reply, issued,
                   device>>

\* Variant: the wait has no time limit.
fw_cmd_wait_timeout_never(c) == FALSE /\ UNCHANGED vars

\* 20 s passed and nothing is latched.  The command stays counted.
fw_cmd_wait_timeout(c) ==
    /\ Goto(c, "posted", "ending")
    /\ ~fwcmd_evt_sts
    /\ fwcmd_pending' = FALSE
    /\ fwcmd_poisoned' = (fwcmd_poisoned \/ fwcmd_pending)
    /\ UNCHANGED <<locks, fwcmd_trans_active, fwcmd_active, fwcmd_evt_sts,
                   FwCmdCnt, adapter, cmd, reply, issued, device>>

read_reply(c) ==
    /\ Goto(c, "answered", "replied")
    /\ reply' = [reply EXCEPT ![c] = resp]
    /\ UNCHANGED <<locks, fwcmd, adapter, cmd, issued, device>>

\* The reply cannot be read: the command may have been executed.
read_reply_failed(c) ==
    /\ Goto(c, "answered", "ending")
    /\ fwcmd_poisoned' = TRUE
    /\ UNCHANGED <<locks, fwcmd_trans_active, fwcmd_active, fwcmd_pending,
                   fwcmd_evt_sts, FwCmdCnt, adapter, cmd, reply, issued,
                   device>>

\* res_buff[2] # 0, or post-processing found nothing to reject.
fw_cmd_post_proc(c) ==
    /\ Goto(c, "replied", "ending")
    /\ UNCHANGED <<locks, fwcmd, adapter, cmd, reply, issued, device>>

\* An open reply names a channel the driver does not have.
fw_cmd_post_proc_bad_channel(c) ==
    /\ Goto(c, "replied", "ending")
    /\ fwcmd_poisoned' = TRUE
    /\ UNCHANGED <<locks, fwcmd_trans_active, fwcmd_active, fwcmd_pending,
                   fwcmd_evt_sts, FwCmdCnt, adapter, cmd, reply, issued,
                   device>>

fw_cmd_end(c) ==
    /\ Goto(c, "ending", "leaving")
    /\ fwcmd_active' = FALSE
    /\ fwcmd_mutex' = NoCaller
    /\ UNCHANGED <<fwcmd_trans_mutex, fwcmd_trans_active, fwcmd_pending,
                   fwcmd_poisoned, fwcmd_evt_sts, FwCmdCnt, adapter, cmd,
                   reply, issued, device>>

fw_cmd_leave(c) ==
    /\ Goto(c, "leaving", "idle")
    /\ fwcmd_trans_active' = FALSE
    /\ fwcmd_trans_mutex' = NoCaller
    /\ UNCHANGED <<fwcmd_mutex, fwcmd_active, fwcmd_pending, fwcmd_poisoned,
                   fwcmd_evt_sts, FwCmdCnt, adapter, cmd, reply, issued,
                   device>>

-----------------------------------------------------------------------------
\* Recovery: crystalhd_fw_download_locked, and suspend/resume of the device.

fw_cmd_recovery_enter(c) ==
    /\ Goto(c, "idle", "recovering")
    /\ fwcmd_trans_mutex = NoCaller
    /\ ~dma_fault /\ present
    /\ ~fwcmd_pending
    /\ fwcmd_trans_mutex' = c
    /\ fwcmd_trans_active' = TRUE
    /\ UNCHANGED <<fwcmd_mutex, fwcmd_active, fwcmd_pending, fwcmd_poisoned,
                   fwcmd_evt_sts, FwCmdCnt, adapter, cmd, reply, issued,
                   device>>

\* Variant: the mailbox is reset whether or not the image booted.
fw_download_failed_resets(c) ==
    /\ Goto(c, "recovering", "booted")
    /\ UNCHANGED <<locks, fwcmd, adapter, cmd, reply, issued, device>>

\* Refused by the link state, or the image did not boot.
fw_download_failed(c) ==
    /\ Goto(c, "recovering", "leaving")
    /\ UNCHANGED <<locks, fwcmd, adapter, cmd, reply, issued, device>>

\* The new image is verified and its heartbeat seen: whatever the old one was
\* asked is gone.  The download polls and sleeps for tens of milliseconds, so
\* a mailbox interrupt raised before it has been handled by now.
fw_download_booted(c) ==
    /\ Goto(c, "recovering", "booted")
    /\ state # "SUSPEND"
    /\ ~intr /\ ~isr
    /\ state' = "INIT"
    /\ mbox' = NoCmd
    /\ UNCHANGED <<locks, fwcmd, dma_fault, present, cmd, reply, issued, resp,
                   intr, isr, spurious>>

\* Variant: the power count survives the reset.
ResetMailbox_keeps_count ==
    /\ fwcmd_pending' = FALSE
    /\ fwcmd_active' = FALSE
    /\ fwcmd_poisoned' = FALSE
    /\ fwcmd_evt_sts' = FALSE
    /\ UNCHANGED FwCmdCnt

ResetMailbox ==
    /\ fwcmd_pending' = FALSE
    /\ fwcmd_active' = FALSE
    /\ fwcmd_poisoned' = FALSE
    /\ fwcmd_evt_sts' = FALSE
    /\ FwCmdCnt' = 0

fw_cmd_reset_locked(c) ==
    /\ Goto(c, "booted", "leaving")
    /\ fwcmd_mutex = NoCaller
    /\ ResetMailbox
    /\ UNCHANGED <<locks, fwcmd_trans_active, adapter, cmd, reply, issued,
                   device>>

\* StopDevice with the interrupt line disabled, which waits for a running
\* handler; the core reset drops the firmware's work and its interrupts.
hw_suspend ==
    /\ state \in {"INIT", "RESUME"}
    /\ fwcmd_trans_mutex = NoCaller
    /\ ~dma_fault /\ present
    /\ ~isr
    /\ state' = "SUSPEND"
    /\ mbox' = NoCmd
    /\ intr' = FALSE
    /\ UNCHANGED <<locks, fwcmd, dma_fault, present, callers, resp, isr,
                   spurious>>

\* StartDevice resets the core, clears the interrupts and succeeds.
hw_resume ==
    /\ state \in {"INVALID", "SUSPEND"}
    /\ fwcmd_trans_mutex = NoCaller
    /\ ~dma_fault /\ present
    /\ ~isr
    /\ fwcmd_mutex = NoCaller
    /\ state' = IF state = "SUSPEND" THEN "RESUME" ELSE state
    /\ mbox' = NoCmd
    /\ intr' = FALSE
    /\ ResetMailbox
    /\ UNCHANGED <<locks, fwcmd_trans_active, dma_fault, present, callers,
                   resp, isr, spurious>>

\* StartDevice fails: the PM callback withdraws the adapter and the mailbox
\* keeps its state.
hw_resume_failed ==
    /\ state \in {"INVALID", "SUSPEND"}
    /\ fwcmd_trans_mutex = NoCaller
    /\ ~dma_fault /\ present
    /\ present' = FALSE
    /\ UNCHANGED <<locks, fwcmd, dma_fault, state, callers, device>>

\* Any unproven DMA stop in the driver, a failed StopDevice included.
publish_fault ==
    /\ ~dma_fault
    /\ dma_fault' = TRUE
    /\ present' = FALSE
    /\ UNCHANGED <<locks, fwcmd, state, callers, device>>

-----------------------------------------------------------------------------
\* The interrupt handler and the firmware.

\* The handler clears the device's status bits and writes end-of-interrupt.
isr_acknowledge ==
    /\ intr /\ ~isr
    /\ ~dma_fault
    /\ intr' = FALSE
    /\ isr' = TRUE
    /\ UNCHANGED <<locks, fwcmd, adapter, callers, mbox, resp, spurious>>

\* Variant: a late interrupt is ignored.
fw_cmd_complete_ignores_late ==
    /\ isr
    /\ isr' = FALSE
    /\ fwcmd_pending' = FALSE
    /\ fwcmd_evt_sts' = (fwcmd_evt_sts \/ fwcmd_pending)
    /\ FwCmdCnt' = IF fwcmd_pending THEN Dec(FwCmdCnt) ELSE FwCmdCnt
    /\ UNCHANGED <<locks, fwcmd_trans_active, fwcmd_active, fwcmd_poisoned,
                   adapter, callers, mbox, resp, intr, spurious>>

\* Afterwards it publishes the completion.
fw_cmd_complete ==
    /\ isr
    /\ isr' = FALSE
    /\ fwcmd_pending' = FALSE
    /\ fwcmd_evt_sts' = (fwcmd_evt_sts \/ fwcmd_pending)
    /\ FwCmdCnt' = IF fwcmd_pending \/ fwcmd_poisoned THEN Dec(FwCmdCnt)
                                                      ELSE FwCmdCnt
    /\ UNCHANGED <<locks, fwcmd_trans_active, fwcmd_active, fwcmd_poisoned,
                   adapter, callers, mbox, resp, intr, spurious>>

\* After a fault the handler only acknowledges.
ack_fault_interrupt ==
    /\ intr /\ ~isr
    /\ dma_fault
    /\ intr' = FALSE
    /\ UNCHANGED <<locks, fwcmd, adapter, callers, mbox, resp, isr, spurious>>

\* The firmware answers, sooner or later or never.
firmware_answer ==
    /\ mbox # NoCmd
    /\ resp' = mbox
    /\ mbox' = NoCmd
    /\ intr' = TRUE
    /\ UNCHANGED <<locks, fwcmd, adapter, callers, isr, spurious>>

\* A mailbox interrupt no command caused, while none is posted: the one the
\* comment in fw_cmd_abort_unposted_locked expects.
firmware_spurious ==
    /\ spurious < MaxSpurious
    /\ state = "INIT"
    /\ mbox = NoCmd
    /\ spurious' = spurious + 1
    /\ intr' = TRUE
    /\ UNCHANGED <<locks, fwcmd, adapter, callers, mbox, resp, isr>>

-----------------------------------------------------------------------------

\* The steps a caller owes once it is inside a transaction.
CallerStep(c) ==
    \/ fw_exec_usage(c)
    \/ fw_cmd_begin(c)
    \/ fw_cmd_abort_unposted(c)
    \/ post_command(c)
    \/ fw_cmd_wait_done(c)
    \/ fw_cmd_wait_timeout(c)
    \/ read_reply(c)
    \/ read_reply_failed(c)
    \/ fw_cmd_post_proc(c)
    \/ fw_cmd_post_proc_bad_channel(c)
    \/ fw_cmd_end(c)
    \/ fw_cmd_leave(c)
    \/ fw_download_failed(c)
    \/ fw_download_booted(c)
    \/ fw_cmd_reset_locked(c)

PmStep == hw_suspend \/ hw_resume \/ hw_resume_failed
IsrStep == isr_acknowledge \/ fw_cmd_complete \/ ack_fault_interrupt
FirmwareStep == firmware_answer \/ firmware_spurious

Next ==
    \/ \E c \in Callers : fw_cmd_enter(c) \/ fw_cmd_recovery_enter(c)
                          \/ CallerStep(c)
    \/ PmStep
    \/ publish_fault
    \/ IsrStep
    \/ FirmwareStep

\* A thread inside the driver keeps running: every wait in it is bounded (the
\* mailbox wait by 20 s, the download by its poll counts).  An asserted
\* interrupt is handled.  Nothing is assumed of the firmware, of new requests,
\* of power management or of faults.
Fairness ==
    /\ \A c \in Callers : WF_vars(CallerStep(c))
    /\ WF_vars(IsrStep)

Spec == Init /\ [][Next]_vars /\ Fairness

-----------------------------------------------------------------------------
\* Properties.

\* The device still owes, or the handler still carries, an answer.
Outstanding == mbox # NoCmd \/ intr \/ isr

(***************************************************************************)
(* As long as the firmware may still answer a command, or its interrupt    *)
(* has not been consumed, FwCmdCnt is positive, even when the caller that  *)
(* posted it has timed out and left ("Flea power management must not sleep *)
(* the firmware while its response is outstanding").                       *)
(***************************************************************************)
OutstandingIsCounted == Outstanding => FwCmdCnt > 0

(***************************************************************************)
(* A positive count is accounted for: it belongs to the one command being  *)
(* carried out or to a quarantined mailbox.  A count that leaked on any    *)
(* other path would keep the device out of low power for good.             *)
(***************************************************************************)
CountIsAccounted ==
    /\ FwCmdCnt <= 1
    /\ FwCmdCnt = 1 => fwcmd_pending \/ fwcmd_poisoned

(***************************************************************************)
(* The reply a caller copies out answers the command that caller posted,   *)
(* whatever was timed out, aborted or recovered before it.                 *)
(***************************************************************************)
ReplyIsOwn == \A c \in Callers : pc[c] = "replied" => reply[c] = cmd[c]

(***************************************************************************)
(* Every caller that enters a transaction leaves it, although the firmware *)
(* may never answer and the device may fault meanwhile.                    *)
(***************************************************************************)
CallersReturn == \A c \in Callers : (pc[c] # "idle") ~> (pc[c] = "idle")

(***************************************************************************)
(* An asserted mailbox interrupt, late or not, releases its power count    *)
(* unless the device is stopped or withdrawn before it is handled.         *)
(***************************************************************************)
InterruptRetiresCount ==
    intr ~> (FwCmdCnt = 0 \/ dma_fault \/ state = "SUSPEND")

\* The mailbox as the abstract channel: quarantined when poisoned, else busy
\* while the low-level owner is inside, else free.
Chan == IF fwcmd_poisoned THEN "quarantined"
        ELSE IF fwcmd_active THEN "busy" ELSE "free"

Channel == INSTANCE CommandChannel WITH chan <- Chan, owed <- Outstanding

(***************************************************************************)
(* The mailbox implements CommandChannel: in particular a command is       *)
(* claimed, posted and released only when no answer is owed, and the       *)
(* quarantine is left only through recovery.                               *)
(***************************************************************************)
ImplementsChannel == Channel!Spec

=============================================================================
