-------------------------- MODULE FwMailboxProofs --------------------------
(***************************************************************************)
(* Proofs about FwMailbox, for any number of callers and commands.         *)
(*                                                                         *)
(* None of the properties is inductive: the count, the latched event and   *)
(* the quarantine only make sense together with the place the holder of    *)
(* fwcmd_mutex has reached.  IInv ties them together.                      *)
(***************************************************************************)
EXTENDS FwMailbox, TLAPS

MailboxPcs == {"begun", "posted", "answered", "replied", "ending"}

\* Who is inside which mutex.
LockInv ==
    /\ \A c \in Callers : pc[c] # "idle" <=> fwcmd_trans_mutex = c
    /\ \A c \in Callers : pc[c] \in MailboxPcs <=> fwcmd_mutex = c
    /\ fwcmd_active <=> fwcmd_mutex # NoCaller

\* What is owed to whom.
CountInv ==
    /\ FwCmdCnt \in {0, 1}
    /\ fwcmd_pending => FwCmdCnt = 1
    /\ FwCmdCnt = 1 => fwcmd_pending \/ fwcmd_poisoned
    /\ Outstanding => FwCmdCnt = 1
    /\ fwcmd_pending => ~fwcmd_poisoned /\ ~fwcmd_evt_sts
                        /\ \E c \in Callers : pc[c] \in {"begun", "posted"}

\* At most one of the three forms an owed answer takes.
DeviceInv ==
    /\ mbox # NoCmd => ~intr /\ ~isr
    /\ ~(intr /\ isr)

\* What the holder of fwcmd_mutex may rely on.
CallerInv == \A c \in Callers :
    /\ pc[c] = "begun" =>
        /\ fwcmd_pending /\ ~Outstanding
        /\ cmd[c] # NoCmd
    /\ pc[c] = "posted" =>
        /\ ~fwcmd_poisoned
        /\ fwcmd_evt_sts => ~fwcmd_pending /\ ~Outstanding /\ resp = cmd[c]
        /\ ~fwcmd_evt_sts => fwcmd_pending
        /\ mbox # NoCmd => mbox = cmd[c]
        /\ intr \/ isr => resp = cmd[c]
    /\ pc[c] = "answered" =>
        /\ ~fwcmd_poisoned /\ ~fwcmd_pending /\ ~Outstanding
        /\ resp = cmd[c]
    /\ pc[c] = "replied" =>
        /\ ~fwcmd_poisoned /\ ~fwcmd_pending /\ ~Outstanding
        /\ reply[c] = cmd[c]
    /\ pc[c] \in {"recovering", "booted"} => ~fwcmd_pending
    /\ pc[c] = "booted" => ~Outstanding

IInv == TypeOK /\ LockInv /\ CountInv /\ DeviceInv /\ CallerInv

-----------------------------------------------------------------------------
\* The variables themselves, and the constant NoCmd, are always expanded.
USE DEF vars, locks, fwcmd, adapter, callers, device, NoCmd, Cmds

LEMMA InitEstablishes == Init => IInv
<1> SUFFICES ASSUME Init PROVE IInv
  OBVIOUS
<1> USE DEF Init
<1>1. FlagsOK
  BY DEF FlagsOK
<1>2. DataOK
  BY BoundAssumption DEF DataOK, PcStates, LinkStates
<1>3. LockInv
  BY CallerAssumption DEF LockInv, MailboxPcs
<1>4. CountInv
  BY DEF CountInv, Outstanding
<1>5. DeviceInv
  BY DEF DeviceInv
<1>6. CallerInv
  BY DEF CallerInv
<1> QED
  BY <1>1, <1>2, <1>3, <1>4, <1>5, <1>6 DEF IInv, TypeOK

LEMMA FlagsStep == FlagsOK /\ [Next]_vars => FlagsOK'
<1> SUFFICES ASSUME FlagsOK, [Next]_vars PROVE FlagsOK'
  OBVIOUS
<1> USE DEF FlagsOK, Goto, ResetMailbox
<1>1. ASSUME NEW c \in Callers, fw_cmd_enter(c) \/ fw_cmd_recovery_enter(c)
      PROVE  FlagsOK'
  BY <1>1 DEF fw_cmd_enter, fw_cmd_recovery_enter
<1>2. ASSUME NEW c \in Callers, CallerStep(c) PROVE FlagsOK'
  <2>1. CASE fw_exec_usage(c)
    BY <2>1 DEF fw_exec_usage
  <2>2. CASE fw_cmd_begin(c)
    BY <2>2 DEF fw_cmd_begin
  <2>3. CASE fw_cmd_abort_unposted(c)
    BY <2>3 DEF fw_cmd_abort_unposted
  <2>4. CASE post_command(c)
    BY <2>4 DEF post_command
  <2>5. CASE fw_cmd_wait_done(c)
    BY <2>5 DEF fw_cmd_wait_done
  <2>6. CASE fw_cmd_wait_timeout(c)
    BY <2>6 DEF fw_cmd_wait_timeout
  <2>7. CASE read_reply(c)
    BY <2>7 DEF read_reply
  <2>8. CASE read_reply_failed(c)
    BY <2>8 DEF read_reply_failed
  <2>9. CASE fw_cmd_post_proc(c)
    BY <2>9 DEF fw_cmd_post_proc
  <2>10. CASE fw_cmd_post_proc_bad_channel(c)
    BY <2>10 DEF fw_cmd_post_proc_bad_channel
  <2>11. CASE fw_cmd_end(c)
    BY <2>11 DEF fw_cmd_end
  <2>12. CASE fw_cmd_leave(c)
    BY <2>12 DEF fw_cmd_leave
  <2>13. CASE fw_download_failed(c)
    BY <2>13 DEF fw_download_failed
  <2>14. CASE fw_download_booted(c)
    BY <2>14 DEF fw_download_booted
  <2>15. CASE fw_cmd_reset_locked(c)
    BY <2>15 DEF fw_cmd_reset_locked
  <2> QED
    BY <1>2, <2>1, <2>2, <2>3, <2>4, <2>5, <2>6, <2>7, <2>8,
       <2>9, <2>10, <2>11, <2>12, <2>13, <2>14, <2>15 DEF CallerStep
<1>3. CASE PmStep
  BY <1>3 DEF PmStep, hw_suspend, hw_resume, hw_resume_failed
<1>4. CASE publish_fault
  BY <1>4 DEF publish_fault
<1>5. CASE IsrStep
  BY <1>5 DEF IsrStep, isr_acknowledge, fw_cmd_complete, ack_fault_interrupt
<1>6. CASE FirmwareStep
  BY <1>6 DEF FirmwareStep, firmware_answer, firmware_spurious
<1>7. CASE UNCHANGED vars
  BY <1>7
<1> QED
  BY <1>1, <1>2, <1>3, <1>4, <1>5, <1>6, <1>7 DEF Next

LEMMA DataStep == DataOK /\ [Next]_vars => DataOK'
<1> SUFFICES ASSUME DataOK, [Next]_vars PROVE DataOK'
  OBVIOUS
<1> USE BoundAssumption
    DEF DataOK, PcStates, LinkStates, Goto, Dec, ResetMailbox
<1>1. ASSUME NEW c \in Callers, fw_cmd_enter(c) \/ fw_cmd_recovery_enter(c)
      PROVE  DataOK'
  BY <1>1 DEF fw_cmd_enter, fw_cmd_recovery_enter
<1>2. ASSUME NEW c \in Callers, CallerStep(c) PROVE DataOK'
  <2>1. CASE fw_exec_usage(c)
    BY <2>1 DEF fw_exec_usage
  <2>2. CASE fw_cmd_begin(c)
    BY <2>2 DEF fw_cmd_begin
  <2>3. CASE fw_cmd_abort_unposted(c)
    BY <2>3 DEF fw_cmd_abort_unposted
  <2>4. CASE post_command(c)
    BY <2>4 DEF post_command
  <2>5. CASE fw_cmd_wait_done(c)
    BY <2>5 DEF fw_cmd_wait_done
  <2>6. CASE fw_cmd_wait_timeout(c)
    BY <2>6 DEF fw_cmd_wait_timeout
  <2>7. CASE read_reply(c)
    BY <2>7 DEF read_reply
  <2>8. CASE read_reply_failed(c)
    BY <2>8 DEF read_reply_failed
  <2>9. CASE fw_cmd_post_proc(c)
    BY <2>9 DEF fw_cmd_post_proc
  <2>10. CASE fw_cmd_post_proc_bad_channel(c)
    BY <2>10 DEF fw_cmd_post_proc_bad_channel
  <2>11. CASE fw_cmd_end(c)
    BY <2>11 DEF fw_cmd_end
  <2>12. CASE fw_cmd_leave(c)
    BY <2>12 DEF fw_cmd_leave
  <2>13. CASE fw_download_failed(c)
    BY <2>13 DEF fw_download_failed
  <2>14. CASE fw_download_booted(c)
    BY <2>14 DEF fw_download_booted
  <2>15. CASE fw_cmd_reset_locked(c)
    BY <2>15 DEF fw_cmd_reset_locked
  <2> QED
    BY <1>2, <2>1, <2>2, <2>3, <2>4, <2>5, <2>6, <2>7, <2>8,
       <2>9, <2>10, <2>11, <2>12, <2>13, <2>14, <2>15 DEF CallerStep
<1>3. CASE PmStep
  BY <1>3 DEF PmStep, hw_suspend, hw_resume, hw_resume_failed
<1>4. CASE publish_fault
  BY <1>4 DEF publish_fault
<1>5. CASE IsrStep
  BY <1>5 DEF IsrStep, isr_acknowledge, fw_cmd_complete, ack_fault_interrupt
<1>6. CASE FirmwareStep
  BY <1>6 DEF FirmwareStep, firmware_answer, firmware_spurious
<1>7. CASE UNCHANGED vars
  BY <1>7
<1> QED
  BY <1>1, <1>2, <1>3, <1>4, <1>5, <1>6, <1>7 DEF Next

(***************************************************************************)
(* Every variable keeps its type, unexpected interrupts included; for the  *)
(* power count this says the decrements never go below zero.               *)
(***************************************************************************)
THEOREM TypeCorrect == Spec => []TypeOK
<1>1. Init => TypeOK
  BY InitEstablishes DEF IInv
<1>2. TypeOK /\ [Next]_vars => TypeOK'
  BY FlagsStep, DataStep DEF TypeOK
<1> QED
  BY <1>1, <1>2, PTL DEF Spec

-----------------------------------------------------------------------------
\* The part of IInv that is about the protocol.
ProtocolInv == LockInv /\ CountInv /\ DeviceInv /\ CallerInv

\* Without unexpected interrupts every step keeps the protocol invariant.
LEMMA ProtocolStep ==
  ASSUME MaxSpurious = 0, IInv, [Next]_vars
  PROVE  ProtocolInv'
<1> USE CallerAssumption
    DEF IInv, TypeOK, FlagsOK, DataOK, ProtocolInv, LockInv, CountInv,
        DeviceInv, CallerInv, Outstanding, MailboxPcs, PcStates, Goto, Dec,
        ResetMailbox
<1>1. ASSUME NEW c \in Callers, fw_cmd_enter(c) PROVE ProtocolInv'
  BY <1>1 DEF fw_cmd_enter
<1>2. ASSUME NEW c \in Callers, fw_cmd_recovery_enter(c) PROVE ProtocolInv'
  BY <1>2 DEF fw_cmd_recovery_enter
<1>3. ASSUME NEW c \in Callers, CallerStep(c) PROVE ProtocolInv'
  <2>1. CASE fw_exec_usage(c)
    BY <2>1 DEF fw_exec_usage
  <2>2. CASE fw_cmd_begin(c)
    BY <2>2 DEF fw_cmd_begin
  <2>3. CASE fw_cmd_abort_unposted(c)
    BY <2>3 DEF fw_cmd_abort_unposted
  <2>4. CASE post_command(c)
    BY <2>4 DEF post_command
  <2>5. CASE fw_cmd_wait_done(c)
    BY <2>5 DEF fw_cmd_wait_done
  <2>6. CASE fw_cmd_wait_timeout(c)
    BY <2>6 DEF fw_cmd_wait_timeout
  <2>7. CASE read_reply(c)
    BY <2>7 DEF read_reply
  <2>8. CASE read_reply_failed(c)
    BY <2>8 DEF read_reply_failed
  <2>9. CASE fw_cmd_post_proc(c)
    BY <2>9 DEF fw_cmd_post_proc
  <2>10. CASE fw_cmd_post_proc_bad_channel(c)
    BY <2>10 DEF fw_cmd_post_proc_bad_channel
  <2>11. CASE fw_cmd_end(c)
    BY <2>11 DEF fw_cmd_end
  <2>12. CASE fw_cmd_leave(c)
    BY <2>12 DEF fw_cmd_leave
  <2>13. CASE fw_download_failed(c)
    BY <2>13 DEF fw_download_failed
  <2>14. CASE fw_download_booted(c)
    BY <2>14 DEF fw_download_booted
  <2>15. CASE fw_cmd_reset_locked(c)
    BY <2>15 DEF fw_cmd_reset_locked
  <2> QED
    BY <1>3, <2>1, <2>2, <2>3, <2>4, <2>5, <2>6, <2>7, <2>8,
       <2>9, <2>10, <2>11, <2>12, <2>13, <2>14, <2>15 DEF CallerStep
<1>4. CASE hw_suspend
  BY <1>4 DEF hw_suspend
<1>5. CASE hw_resume
  BY <1>5 DEF hw_resume
<1>6. CASE hw_resume_failed
  BY <1>6 DEF hw_resume_failed
<1>7. CASE publish_fault
  BY <1>7 DEF publish_fault
<1>8. CASE isr_acknowledge
  BY <1>8 DEF isr_acknowledge
<1>9. CASE fw_cmd_complete
  BY <1>9 DEF fw_cmd_complete
<1>10. CASE ack_fault_interrupt
  BY <1>10 DEF ack_fault_interrupt
<1>11. CASE firmware_answer
  BY <1>11 DEF firmware_answer
<1>12. CASE firmware_spurious
  BY <1>12 DEF firmware_spurious
<1>13. CASE UNCHANGED vars
  BY <1>13
<1> QED
  BY <1>1, <1>2, <1>3, <1>4, <1>5, <1>6, <1>7, <1>8, <1>9, <1>10, <1>11,
     <1>12, <1>13 DEF Next, PmStep, IsrStep, FirmwareStep

LEMMA Inductive == ASSUME MaxSpurious = 0 PROVE Spec => []IInv
<1>1. IInv /\ [Next]_vars => IInv'
  <2> SUFFICES ASSUME IInv, [Next]_vars PROVE IInv'
    OBVIOUS
  <2>1. TypeOK'
    BY FlagsStep, DataStep DEF IInv, TypeOK
  <2>2. ProtocolInv'
    BY ProtocolStep
  <2> QED
    BY <2>1, <2>2 DEF IInv, ProtocolInv
<1> QED
  BY <1>1, InitEstablishes, PTL DEF Spec

(***************************************************************************)
(* The firmware is never without a power count while it may still answer.  *)
(***************************************************************************)
THEOREM PowerCountCorrect ==
  ASSUME MaxSpurious = 0 PROVE Spec => []OutstandingIsCounted
<1>1. IInv => OutstandingIsCounted
  BY DEF IInv, CountInv, OutstandingIsCounted
<1> QED
  BY <1>1, Inductive, PTL

\* No step leaks the count, whoever raised the interrupt it handles.
LEMMA CountStep ==
  ASSUME TypeOK, CountIsAccounted, [Next]_vars
  PROVE  CountIsAccounted'
<1> USE DEF TypeOK, FlagsOK, DataOK, CountIsAccounted, Goto, Dec, ResetMailbox
<1>1. ASSUME NEW c \in Callers, fw_cmd_enter(c) \/ fw_cmd_recovery_enter(c)
      PROVE  CountIsAccounted'
  BY <1>1 DEF fw_cmd_enter, fw_cmd_recovery_enter
<1>2. ASSUME NEW c \in Callers, CallerStep(c) PROVE CountIsAccounted'
  <2>1. CASE fw_exec_usage(c)
    BY <2>1 DEF fw_exec_usage
  <2>2. CASE fw_cmd_begin(c)
    BY <2>2 DEF fw_cmd_begin
  <2>3. CASE fw_cmd_abort_unposted(c)
    BY <2>3 DEF fw_cmd_abort_unposted
  <2>4. CASE post_command(c)
    BY <2>4 DEF post_command
  <2>5. CASE fw_cmd_wait_done(c)
    BY <2>5 DEF fw_cmd_wait_done
  <2>6. CASE fw_cmd_wait_timeout(c)
    BY <2>6 DEF fw_cmd_wait_timeout
  <2>7. CASE read_reply(c)
    BY <2>7 DEF read_reply
  <2>8. CASE read_reply_failed(c)
    BY <2>8 DEF read_reply_failed
  <2>9. CASE fw_cmd_post_proc(c)
    BY <2>9 DEF fw_cmd_post_proc
  <2>10. CASE fw_cmd_post_proc_bad_channel(c)
    BY <2>10 DEF fw_cmd_post_proc_bad_channel
  <2>11. CASE fw_cmd_end(c)
    BY <2>11 DEF fw_cmd_end
  <2>12. CASE fw_cmd_leave(c)
    BY <2>12 DEF fw_cmd_leave
  <2>13. CASE fw_download_failed(c)
    BY <2>13 DEF fw_download_failed
  <2>14. CASE fw_download_booted(c)
    BY <2>14 DEF fw_download_booted
  <2>15. CASE fw_cmd_reset_locked(c)
    BY <2>15 DEF fw_cmd_reset_locked
  <2> QED
    BY <1>2, <2>1, <2>2, <2>3, <2>4, <2>5, <2>6, <2>7, <2>8,
       <2>9, <2>10, <2>11, <2>12, <2>13, <2>14, <2>15 DEF CallerStep
<1>3. CASE hw_suspend
  BY <1>3 DEF hw_suspend
<1>4. CASE hw_resume
  BY <1>4 DEF hw_resume
<1>5. CASE hw_resume_failed
  BY <1>5 DEF hw_resume_failed
<1>6. CASE publish_fault
  BY <1>6 DEF publish_fault
<1>7. CASE isr_acknowledge
  BY <1>7 DEF isr_acknowledge
<1>8. CASE fw_cmd_complete
  BY <1>8 DEF fw_cmd_complete
<1>9. CASE ack_fault_interrupt
  BY <1>9 DEF ack_fault_interrupt
<1>10. CASE firmware_answer
  BY <1>10 DEF firmware_answer
<1>11. CASE firmware_spurious
  BY <1>11 DEF firmware_spurious
<1>12. CASE UNCHANGED vars
  BY <1>12
<1> QED
  BY <1>1, <1>2, <1>3, <1>4, <1>5, <1>6, <1>7, <1>8, <1>9, <1>10, <1>11,
     <1>12 DEF Next, PmStep, IsrStep, FirmwareStep

(***************************************************************************)
(* The power count is at most one and belongs to the command being carried *)
(* out or to the quarantine: no path of the driver leaks it, unexpected    *)
(* interrupts included.                                                    *)
(***************************************************************************)
THEOREM PowerCountOwned == Spec => []CountIsAccounted
<1>1. Init => CountIsAccounted
  BY DEF Init, CountIsAccounted
<1>2. TypeOK /\ CountIsAccounted /\ [Next]_vars => CountIsAccounted'
  BY CountStep
<1> QED
  BY <1>1, <1>2, TypeCorrect, PTL DEF Spec

(***************************************************************************)
(* No caller is ever handed the answer to another command.                 *)
(***************************************************************************)
THEOREM RepliesAreOwn ==
  ASSUME MaxSpurious = 0 PROVE Spec => []ReplyIsOwn
<1>1. IInv => ReplyIsOwn
  BY DEF IInv, CallerInv, ReplyIsOwn
<1> QED
  BY <1>1, Inductive, PTL

-----------------------------------------------------------------------------
\* Every mailbox step is a step of the abstract channel, or leaves it alone.
LEMMA ChannelStep ==
  ASSUME MaxSpurious = 0, IInv, [Next]_vars
  PROVE  [Channel!Next]_(Channel!vars)
<1> USE CallerAssumption
    DEF IInv, TypeOK, FlagsOK, DataOK, LockInv, CountInv, DeviceInv, CallerInv,
        Outstanding, Chan, MailboxPcs, PcStates, Goto, ResetMailbox,
        Channel!Next, Channel!vars, Channel!Claim, Channel!Post,
        Channel!Settle, Channel!Release, Channel!Quarantine, Channel!Recover
<1> DEFINE Abstract == [Channel!Next]_(Channel!vars)
<1>1. ASSUME NEW c \in Callers, fw_cmd_enter(c) PROVE Abstract
  BY <1>1 DEF fw_cmd_enter
<1>2. ASSUME NEW c \in Callers, fw_cmd_recovery_enter(c) PROVE Abstract
  BY <1>2 DEF fw_cmd_recovery_enter
<1>3. ASSUME NEW c \in Callers, CallerStep(c) PROVE Abstract
  <2>1. CASE fw_exec_usage(c)
    BY <2>1 DEF fw_exec_usage
  <2>2. CASE fw_cmd_begin(c)
    BY <2>2 DEF fw_cmd_begin
  <2>3. CASE fw_cmd_abort_unposted(c)
    BY <2>3 DEF fw_cmd_abort_unposted
  <2>4. CASE post_command(c)
    BY <2>4 DEF post_command
  <2>5. CASE fw_cmd_wait_done(c)
    BY <2>5 DEF fw_cmd_wait_done
  <2>6. CASE fw_cmd_wait_timeout(c)
    BY <2>6 DEF fw_cmd_wait_timeout
  <2>7. CASE read_reply(c)
    BY <2>7 DEF read_reply
  <2>8. CASE read_reply_failed(c)
    BY <2>8 DEF read_reply_failed
  <2>9. CASE fw_cmd_post_proc(c)
    BY <2>9 DEF fw_cmd_post_proc
  <2>10. CASE fw_cmd_post_proc_bad_channel(c)
    BY <2>10 DEF fw_cmd_post_proc_bad_channel
  <2>11. CASE fw_cmd_end(c)
    BY <2>11 DEF fw_cmd_end
  <2>12. CASE fw_cmd_leave(c)
    BY <2>12 DEF fw_cmd_leave
  <2>13. CASE fw_download_failed(c)
    BY <2>13 DEF fw_download_failed
  <2>14. CASE fw_download_booted(c)
    BY <2>14 DEF fw_download_booted
  <2>15. CASE fw_cmd_reset_locked(c)
    BY <2>15 DEF fw_cmd_reset_locked
  <2> QED
    BY <1>3, <2>1, <2>2, <2>3, <2>4, <2>5, <2>6, <2>7, <2>8,
       <2>9, <2>10, <2>11, <2>12, <2>13, <2>14, <2>15 DEF CallerStep
<1>4. CASE hw_suspend
  BY <1>4 DEF hw_suspend
<1>5. CASE hw_resume
  BY <1>5 DEF hw_resume
<1>6. CASE hw_resume_failed
  BY <1>6 DEF hw_resume_failed
<1>7. CASE publish_fault
  BY <1>7 DEF publish_fault
<1>8. CASE isr_acknowledge
  BY <1>8 DEF isr_acknowledge
<1>9. CASE fw_cmd_complete
  BY <1>9 DEF fw_cmd_complete
<1>10. CASE ack_fault_interrupt
  BY <1>10 DEF ack_fault_interrupt
<1>11. CASE firmware_answer
  BY <1>11 DEF firmware_answer
<1>12. CASE firmware_spurious
  BY <1>12 DEF firmware_spurious
<1>13. CASE UNCHANGED vars
  BY <1>13
<1> QED
  BY <1>1, <1>2, <1>3, <1>4, <1>5, <1>6, <1>7, <1>8, <1>9, <1>10, <1>11,
     <1>12, <1>13 DEF Next, PmStep, IsrStep, FirmwareStep

(***************************************************************************)
(* The mailbox implements the abstract channel: one command at a time,     *)
(* none while an answer is owed, and quarantine left only by recovery.     *)
(***************************************************************************)
THEOREM MailboxImplementsChannel ==
  ASSUME MaxSpurious = 0 PROVE Spec => ImplementsChannel
<1>1. Init => Channel!Init
  BY DEF Init, Channel!Init, Chan, Outstanding
<1>2. IInv /\ [Next]_vars => [Channel!Next]_(Channel!vars)
  BY ChannelStep
<1> QED
  BY <1>1, <1>2, Inductive, PTL DEF Spec, ImplementsChannel, Channel!Spec

=============================================================================
