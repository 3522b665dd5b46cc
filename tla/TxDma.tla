------------------------------- MODULE TxDma -------------------------------
(***************************************************************************)
(* The transmit (compressed input) path of the BCM70015 driver: one        *)
(* synchronous transfer at a time over a two-list DMA engine.              *)
(*                                                                         *)
(* A transfer takes an extra lease on its buffer, posts the buffer with a  *)
(* completion that lives on its own stack, and waits.  The interrupt       *)
(* handler retires the request, runs the completion and only afterwards    *)
(* acknowledges the device.  A timeout or a signal stops the whole engine; *)
(* when the stop cannot be proven the request keeps the lease and loses    *)
(* its completion.  Transfers hold adp->user_lock shared and adp->tx_lock; *)
(* suspend, close and removal exclude them, so that one program counter    *)
(* serves both.  The handler and the device run beside it.                 *)
(*                                                                         *)
(* Transfers are numbered: a number stands for the transfer's buffer, for  *)
(* its lease and for its completion context alike.                         *)
(***************************************************************************)
EXTENDS Integers, FiniteSets

CONSTANTS
    Pkts,           \* tx_pkt_pool
    NoPkt,          \* no request reserved
    MaxTransfers,   \* bound: transfers and capture stops in a behaviour
    MaxSessions,    \* bound: sessions opened in a behaviour
    MaxRxStops      \* bound: capture stops among them, beside transfers

ASSUME PktAssumption == NoPkt \notin Pkts /\ IsFiniteSet(Pkts)
ASSUME BoundAssumption ==
    MaxTransfers \in Nat /\ MaxSessions \in Nat /\ MaxRxStops \in Nat

DMA_ENGINE_CNT == 2
Lists == 0 .. DMA_ENGINE_CNT - 1
None == 0
Transfers == 1 .. MaxTransfers
Owner == Transfers \cup {None}

(* An interrupt status bit: a list and what happened to it. *)
Events == Lists \X {"done", "err"}

(* The order in which the handler looks at the bits: done before error, and  *)
(* list 0 before list 1.                                                     *)
Rank(e) == e[1] + (IF e[2] = "err" THEN DMA_ENGINE_CNT ELSE 0)

VARIABLES
    dma_fault,          \* an engine stop could not be proven
    present,            \* adapter still admitted
    dma_terminal_quiesced, \* terminal cleanup proved that DMA has ended
    state,              \* ctx->state: INVALID, INIT (or resumed), SUSPEND
    sessions,           \* sessions opened so far
    cin_wait_exit,      \* one-shot cancellation of a FIFO waiter
    tx_stopping,        \* a RELEASE of the same file waits for the transfer
    pkt,                \* completion context, tag, retained lease of a request
    tx_freeq, tx_actq,  \* the requests on each queue
    tx_list_post_index, \* list the next request goes to
    pc,                 \* where the transfer or the exclusive operation is
    who,                \* which of them called cancel_all_tx
    cur,                \* number of the last transfer begun
    bounded,            \* that transfer has a deadline
    late,               \* and it has passed
    held,               \* request reserved by post_tx
    done, status,       \* the transfer's stack completion
    lease,              \* leases on each transfer's buffer
    irq_off,            \* disable_irq depth
    rx_stop, rx_stops,  \* a capture stop holds the line off; stops so far
    isr, isr_bits, isr_todo, isr_ctx, isr_cs, \* the handler
    run,                \* device: engine run bit
    list,               \* device: buffer each valid list reads
    bits,               \* device: latched interrupt status
    masked,             \* device: interrupt sources masked
    consumed            \* transfers whose data the device has read

adapter == <<dma_fault, present, dma_terminal_quiesced, state, sessions>>
flags == <<cin_wait_exit, tx_stopping>>
queues == <<pkt, tx_freeq, tx_actq, tx_list_post_index>>
thread == <<pc, who, cur, bounded, late, held, lease, irq_off>>
capture == <<rx_stop, rx_stops>>
completion == <<done, status>>
handler == <<isr, isr_bits, isr_todo, isr_ctx, isr_cs>>
device == <<run, list, bits, masked, consumed>>
vars == <<adapter, flags, queues, thread, capture, completion, handler,
          device>>
allButPc == <<adapter, flags, queues, who, cur, bounded, late, held, lease,
              irq_off, capture, completion, handler, device>>

(* A transfer between taking its lease and giving it back or away. *)
Leasing == {"post", "reserved", "busy", "posted", "waiting", "cancel",
            "stopping", "stopped", "enabled", "retain", "complete", "put"}
PcStates == Leasing \cup {"idle", "close", "free"}

Packet == [ctx : Owner, tag : Lists, retained : Owner]
FreshPacket == [ctx |-> None, tag |-> 0, retained |-> None]

InTransfer == who = "transfer" /\ pc \in Leasing
Idle == pc = "idle"

(* user_lock or chd_device_lock is held for writing. *)
Alone == Idle /\ ~rx_stop

Init ==
    /\ dma_fault = FALSE
    /\ present = TRUE
    /\ dma_terminal_quiesced = FALSE
    /\ state = "INVALID"
    /\ sessions = 0
    /\ cin_wait_exit = FALSE
    /\ tx_stopping = FALSE
    /\ pkt = [p \in Pkts |-> FreshPacket]
    /\ tx_freeq = {}
    /\ tx_actq = {}
    /\ tx_list_post_index = 0
    /\ pc = "idle"
    /\ who = "none"
    /\ cur = None
    /\ bounded = FALSE
    /\ late = FALSE
    /\ held = NoPkt
    /\ done = FALSE
    /\ status = "success"
    /\ lease = [x \in Transfers |-> 0]
    /\ irq_off = 0
    /\ rx_stop = FALSE
    /\ rx_stops = 0
    /\ isr = "off"
    /\ isr_bits = {}
    /\ isr_todo = {}
    /\ isr_ctx = None
    /\ isr_cs = "success"
    /\ run = FALSE
    /\ list = [l \in Lists |-> None]
    /\ bits = {}
    /\ masked = TRUE
    /\ consumed = {}

-----------------------------------------------------------------------------
(* Session. *)

(* A core reset: no list is valid, no interrupt is latched. *)
DeviceReset(mask) ==
    /\ run' = FALSE
    /\ list' = [l \in Lists |-> None]
    /\ bits' = {}
    /\ masked' = mask
    /\ UNCHANGED consumed

(* Session setup: rings allocated, device started, cancellation cleared. *)
setup_dma_rings ==
    /\ Alone /\ isr = "off"
    /\ present /\ state = "INVALID" /\ sessions < MaxSessions
    /\ state' = "INIT"
    /\ sessions' = sessions + 1
    /\ cin_wait_exit' = FALSE
    /\ tx_freeq' = Pkts
    /\ tx_actq' = {}
    /\ tx_list_post_index' = 0
    /\ DeviceReset(FALSE)
    /\ UNCHANGED <<dma_fault, present, dma_terminal_quiesced, tx_stopping,
                   pkt, thread, completion, handler, capture>>

-----------------------------------------------------------------------------
(* Transfer. *)

Goto(label) == pc' = label

(* Admission: an empty completion on the stack and one extra lease. *)
tx_transfer_common ==
    /\ Idle /\ present /\ state = "INIT" /\ ~tx_stopping
    /\ cur + rx_stops < MaxTransfers
    /\ Goto("post")
    /\ who' = "transfer"
    /\ cur' = cur + 1
    /\ bounded' \in BOOLEAN
    /\ late' = FALSE
    /\ lease' = [lease EXCEPT ![cur + 1] = @ + 1]
    /\ done' = FALSE
    /\ status' = "success"
    /\ UNCHANGED <<adapter, flags, queues, held, irq_off, handler, device,
                   capture>>

(* The budget of a bounded transfer runs out. *)
tx_deadline ==
    /\ InTransfer /\ bounded /\ ~late
    /\ late' = TRUE
    /\ UNCHANGED <<adapter, flags, queues, pc, who, cur, bounded, held, lease,
                   irq_off, completion, handler, device, capture>>

(* post_tx reserves a free request; descriptors are built without a lock. *)
post_tx_reserve(p) ==
    /\ pc = "post" /\ ~dma_fault
    /\ p \in tx_freeq
    /\ tx_freeq' = tx_freeq \ {p}
    /\ held' = p
    /\ Goto("reserved")
    /\ UNCHANGED <<adapter, flags, pkt, tx_actq, tx_list_post_index, who, cur,
                   bounded, late, lease, irq_off, completion, handler, device,
                   capture>>

(* The firmware's input FIFO has no room. *)
post_tx_busy ==
    /\ pc = "post" /\ ~dma_fault
    /\ Goto("busy")
    /\ UNCHANGED allButPc

(* post_tx gives up before it reserved a request: fault or none free. *)
post_tx_refused ==
    /\ pc = "post"
    /\ dma_fault \/ tx_freeq = {}
    /\ Goto("put")
    /\ UNCHANGED allButPc

(* Variant of post_tx: the list index is not wrapped. *)
post_tx_unwrapped ==
    /\ pc = "reserved" /\ ~dma_fault
    /\ pkt' = [pkt EXCEPT ![held].ctx = cur, ![held].tag = tx_list_post_index]
    /\ tx_actq' = tx_actq \cup {held}
    /\ tx_list_post_index' = tx_list_post_index + 1
    /\ held' = NoPkt
    /\ run' = TRUE
    /\ list' = [list EXCEPT ![tx_list_post_index] = cur]
    /\ Goto("posted")
    /\ UNCHANGED <<adapter, flags, tx_freeq, who, cur, bounded, late, lease,
                   irq_off, completion, handler, bits, masked, consumed,
                   capture>>

(* Under hw->lock: the request becomes reachable, then the list is started. *)
post_tx ==
    /\ pc = "reserved" /\ ~dma_fault
    /\ pkt' = [pkt EXCEPT ![held].ctx = cur, ![held].tag = tx_list_post_index]
    /\ tx_actq' = tx_actq \cup {held}
    /\ tx_list_post_index' = (tx_list_post_index + 1) % DMA_ENGINE_CNT
    /\ held' = NoPkt
    /\ run' = TRUE
    /\ list' = [list EXCEPT ![tx_list_post_index] = cur]
    /\ Goto("posted")
    /\ UNCHANGED <<adapter, flags, tx_freeq, who, cur, bounded, late, lease,
                   irq_off, completion, handler, bits, masked, consumed,
                   capture>>

(* Translation or preparation failed, or the fault came first: requeued. *)
post_tx_requeue ==
    /\ pc = "reserved"
    /\ pkt' = [pkt EXCEPT ![held].ctx = None]
    /\ tx_freeq' = tx_freeq \cup {held}
    /\ held' = NoPkt
    /\ Goto("put")
    /\ UNCHANGED <<adapter, flags, tx_actq, tx_list_post_index, who, cur,
                   bounded, late, lease, irq_off, completion, handler, device,
                   capture>>

(* Variant of tx_busy_retry: the RELEASE token is not looked at. *)
tx_busy_retry_unstoppable ==
    /\ pc = "busy"
    /\ present /\ ~cin_wait_exit /\ ~late
    /\ Goto("post")
    /\ UNCHANGED allButPc

(* The busy loop sleeps and posts again while nothing cancels it. *)
tx_busy_retry ==
    /\ pc = "busy"
    /\ ~tx_stopping /\ present /\ ~cin_wait_exit /\ ~late
    /\ Goto("post")
    /\ UNCHANGED allButPc

(* RELEASE, removal, the deadline or a signal ends the busy loop. *)
tx_busy_exit ==
    /\ pc = "busy"
    /\ Goto("put")
    /\ UNCHANGED allButPc

(* The flush pulse ends the busy loop and is consumed. *)
codein_sleep_cancelled ==
    /\ pc = "busy" /\ present /\ cin_wait_exit
    /\ cin_wait_exit' = FALSE
    /\ Goto("put")
    /\ UNCHANGED <<adapter, tx_stopping, queues, who, cur, bounded, late,
                   held, lease, irq_off, completion, handler, device,
                   capture>>

(* A successful post drops a pending pulse before it waits. *)
tx_posted ==
    /\ pc = "posted"
    /\ cin_wait_exit' = FALSE
    /\ Goto("waiting")
    /\ UNCHANGED <<adapter, tx_stopping, queues, who, cur, bounded, late,
                   held, lease, irq_off, completion, handler, device,
                   capture>>

tx_wait_done ==
    /\ pc = "waiting" /\ done
    /\ Goto("complete")
    /\ UNCHANGED allButPc

(* The three-second watchdog, the deadline or a signal: cancel the engine. *)
tx_wait_timeout ==
    /\ pc = "waiting" /\ ~done
    /\ Goto("cancel")
    /\ UNCHANGED allButPc

(* Variant of tx_complete: returns without synchronize_irq. *)
tx_complete_unsynchronized ==
    /\ pc = "complete"
    /\ Goto("put")
    /\ UNCHANGED allButPc

(* synchronize_irq: the handler is past this stack before it goes away. *)
tx_complete ==
    /\ pc = "complete" /\ isr = "off"
    /\ Goto("put")
    /\ UNCHANGED allButPc

(* The lease goes back and the transfer returns. *)
tx_buffer_put ==
    /\ pc = "put"
    /\ lease' = [lease EXCEPT ![cur] = @ - 1]
    /\ Goto("idle")
    /\ who' = "none"
    /\ UNCHANGED <<adapter, flags, queues, cur, bounded, late, held, irq_off,
                   completion, handler, device, capture>>

(* Variant of retain_tx_buffer: the caller puts the lease it gave away. *)
retain_tx_buffer_and_put(p) ==
    /\ pc = "retain" /\ dma_fault /\ isr = "off"
    /\ pkt[p].ctx = cur
    /\ pkt' = [pkt EXCEPT ![p].ctx = None, ![p].retained = cur]
    /\ Goto("put")
    /\ UNCHANGED <<adapter, flags, tx_freeq, tx_actq, tx_list_post_index, who,
                   cur, bounded, late, held, lease, irq_off, completion,
                   handler, device, capture>>

(* Only a fault retains: the request still carrying this completion takes   *)
(* the lease and loses the completion.  disable_irq drains the handler.     *)
retain_tx_buffer(p) ==
    /\ pc = "retain" /\ dma_fault /\ isr = "off"
    /\ pkt[p].ctx = cur
    /\ pkt' = [pkt EXCEPT ![p].ctx = None, ![p].retained = cur]
    /\ Goto("idle")
    /\ who' = "none"
    /\ UNCHANGED <<adapter, flags, tx_freeq, tx_actq, tx_list_post_index, cur,
                   bounded, late, held, lease, irq_off, completion, handler,
                   device, capture>>

(* No fault, or the request was retired before: nothing to retain. *)
retain_tx_buffer_none ==
    /\ pc = "retain"
    /\ dma_fault => isr = "off" /\ \A p \in Pkts : pkt[p].ctx # cur
    /\ Goto("put")
    /\ UNCHANGED allButPc

-----------------------------------------------------------------------------
(* cancel_all_tx, for a transfer, for suspend and for close. *)

(* disable_irq waits for a running handler. *)
cancel_all_tx ==
    /\ pc = "cancel" /\ isr = "off"
    /\ irq_off' = irq_off + 1
    /\ Goto("stopping")
    /\ UNCHANGED <<adapter, flags, queues, who, cur, bounded, late, held,
                   lease, completion, handler, device, capture>>

(* Variant of Retire: the request is not put back on tx_freeq. *)
Retire_lost(ps) ==
    /\ pkt' = [p \in Pkts |-> IF p \in ps
                              THEN [pkt[p] EXCEPT !.ctx = None, !.tag = 0]
                              ELSE pkt[p]]
    /\ tx_actq' = tx_actq \ ps
    /\ UNCHANGED tx_freeq

(* tx_req_retire for a set of requests. *)
Retire(ps) ==
    /\ pkt' = [p \in Pkts |-> IF p \in ps
                              THEN [pkt[p] EXCEPT !.ctx = None, !.tag = 0]
                              ELSE pkt[p]]
    /\ tx_actq' = tx_actq \ ps
    /\ tx_freeq' = tx_freeq \cup ps

(* Both valid bits have fallen, or the engine was not running. *)
stop_tx_dma_engine ==
    /\ pc = "stopping" /\ ~dma_fault
    /\ run => \A l \in Lists : list[l] = None
    /\ run' = FALSE
    /\ tx_list_post_index' = 0
    /\ Goto("stopped")
    /\ UNCHANGED <<adapter, flags, pkt, tx_freeq, tx_actq, who, cur, bounded,
                   late, held, lease, irq_off, completion, handler, list,
                   bits, masked, consumed, capture>>

(* Every list owner is retired, then its completion runs with USER_ABORT. *)
cancel_all_tx_drain ==
    /\ pc = "stopped" /\ ~dma_fault
    /\ Retire(tx_actq)
    /\ IF \E p \in tx_actq : pkt[p].ctx # None
       THEN done' = TRUE /\ status' = "abort"
       ELSE UNCHANGED completion
    /\ Goto("enabled")
    /\ irq_off' = irq_off - 1
    /\ UNCHANGED <<adapter, flags, tx_list_post_index, who, cur, bounded,
                   late, held, lease, handler, device, capture>>

PublishFault ==
    /\ dma_fault' = TRUE
    /\ present' = FALSE
    /\ cin_wait_exit' = TRUE
    /\ masked' = TRUE

(* Variant of stop_tx_dma_failed: an expired poll counts as a stop. *)
stop_tx_dma_failed_ignored ==
    /\ pc = "stopping" /\ ~dma_fault /\ run
    /\ run' = FALSE
    /\ tx_list_post_index' = 0
    /\ Goto("stopped")
    /\ UNCHANGED <<adapter, flags, pkt, tx_freeq, tx_actq, who, cur, bounded,
                   late, held, lease, irq_off, completion, handler, list,
                   bits, masked, consumed, capture>>

(* Thirty polls and a list is still valid: fault, every owner stays. *)
stop_tx_dma_failed ==
    /\ pc = "stopping" /\ ~dma_fault /\ run
    /\ run' = FALSE
    /\ PublishFault
    /\ Goto("enabled")
    /\ irq_off' = irq_off - 1
    /\ UNCHANGED <<dma_terminal_quiesced, state, sessions, tx_stopping,
                   queues, who, cur, bounded, late, held, lease, completion,
                   handler, list, bits, consumed, capture>>

(* The owners of a faulted engine are not touched. *)
cancel_all_tx_faulted ==
    /\ pc \in {"stopping", "stopped"} /\ dma_fault
    /\ Goto("enabled")
    /\ irq_off' = irq_off - 1
    /\ UNCHANGED <<adapter, flags, queues, who, cur, bounded, late, held,
                   lease, completion, handler, device, capture>>

(* Variant of cancel_all_tx_drained: the latched interrupt is not waited for. *)
cancel_all_tx_undrained ==
    /\ pc = "enabled"
    /\ Goto(CASE who = "transfer" -> "retain"
              [] who = "suspend" -> "close"
              [] who = "close" -> "close")
    /\ UNCHANGED allButPc

(* enable_irq and synchronize_irq: an interrupt latched while the engine was *)
(* stopping is handled before the caller goes on, unless the line is still   *)
(* off: close and a concurrent capture stop keep it so.                      *)
cancel_all_tx_drained ==
    /\ pc = "enabled" /\ isr = "off"
    /\ irq_off > 0 \/ masked \/ bits = {}
    /\ Goto(CASE who = "transfer" -> "retain"
              [] who = "suspend" -> "close"
              [] who = "close" -> "close")
    /\ UNCHANGED allButPc

-----------------------------------------------------------------------------
(* Exclusive operations: RELEASE, suspend, resume, removal. *)

(* A RELEASE ioctl on the same file asks the transfer to stop. *)
release_request ==
    /\ ~tx_stopping /\ present /\ state # "INVALID"
    /\ tx_stopping' = TRUE
    /\ UNCHANGED <<adapter, cin_wait_exit, queues, thread, completion,
                   handler, device, capture>>

(* Admitted alone, it starts to stop the session. *)
retire_hw_context ==
    /\ Alone /\ tx_stopping /\ isr = "off"
    /\ present /\ ~dma_fault /\ state # "INVALID"
    /\ tx_stopping' = FALSE
    /\ cin_wait_exit' = TRUE
    /\ irq_off' = irq_off + 1
    /\ who' = "close"
    /\ Goto("cancel")
    /\ UNCHANGED <<adapter, queues, cur, bounded, late, held, lease,
                   completion, handler, device, capture>>

(* The adapter went away or faulted first; the request ends all the same. *)
release_refused ==
    /\ Alone /\ tx_stopping
    /\ ~present \/ dma_fault \/ state = "INVALID"
    /\ tx_stopping' = FALSE
    /\ UNCHANGED <<adapter, cin_wait_exit, queues, thread, completion,
                   handler, device, capture>>

suspend ==
    /\ Alone /\ present /\ state = "INIT"
    /\ who' = "suspend"
    /\ Goto("cancel")
    /\ UNCHANGED <<adapter, flags, queues, cur, bounded, late, held, lease,
                   irq_off, completion, handler, device, capture>>

(* Suspend stops the device with the line off. *)
hw_suspend ==
    /\ pc = "close" /\ who = "suspend" /\ ~dma_fault /\ isr = "off"
    /\ state' = "SUSPEND"
    /\ DeviceReset(TRUE)
    /\ Goto("idle")
    /\ who' = "none"
    /\ UNCHANGED <<dma_fault, present, dma_terminal_quiesced, sessions, flags,
                   queues, cur, bounded, late, held, lease, irq_off,
                   completion, handler, capture>>

(* Close stops the device before any ring is freed. *)
hw_close ==
    /\ pc = "close" /\ who = "close" /\ ~dma_fault
    /\ DeviceReset(TRUE)
    /\ Goto("free")
    /\ UNCHANGED <<adapter, flags, queues, who, cur, bounded, late, held,
                   lease, irq_off, completion, handler, capture>>

(* The device did not stop. *)
stop_device_failed ==
    /\ pc = "close" /\ ~dma_fault
    /\ PublishFault
    /\ state' = IF who = "suspend" THEN "SUSPEND" ELSE state
    /\ UNCHANGED <<dma_terminal_quiesced, sessions, tx_stopping, queues,
                   thread, completion, handler, run, list, bits, consumed,
                   capture>>

(* The session is retained: nothing is freed, the line is enabled again. *)
session_retained ==
    /\ pc \in {"close", "free"} /\ dma_fault
    /\ Goto("idle")
    /\ who' = "none"
    /\ irq_off' = 0
    /\ UNCHANGED <<adapter, flags, queues, cur, bounded, late, held, lease,
                   completion, handler, device, capture>>

(* retire_tx_quiesced: the fixed inventory gives every retained lease back, *)
(* no completion runs, and the queues are gone.                             *)
RetireQuiesced ==
    /\ lease' = [x \in Transfers |->
                    lease[x] - Cardinality({p \in Pkts : pkt[p].retained = x})]
    /\ pkt' = [p \in Pkts |-> FreshPacket]
    /\ tx_freeq' = {}
    /\ tx_actq' = {}
    /\ state' = "INVALID"

free_dma_rings ==
    /\ pc = "free" /\ ~dma_fault
    /\ RetireQuiesced
    /\ Goto("idle")
    /\ who' = "none"
    /\ irq_off' = 0
    /\ UNCHANGED <<dma_fault, present, dma_terminal_quiesced, sessions, flags,
                   tx_list_post_index, cur, bounded, late, held, completion,
                   handler, device, capture>>

hw_resume ==
    /\ Alone /\ present /\ ~dma_fault /\ state = "SUSPEND" /\ isr = "off"
    /\ state' = "INIT"
    /\ tx_list_post_index' = 0
    /\ DeviceReset(FALSE)
    /\ UNCHANGED <<dma_fault, present, dma_terminal_quiesced, sessions, flags,
                   pkt, tx_freeq, tx_actq, thread, completion, handler,
                   capture>>

(* Removal, or a failed power transition, cancels before it waits. *)
pci_remove ==
    /\ present
    /\ present' = FALSE
    /\ cin_wait_exit' = TRUE
    /\ UNCHANGED <<dma_fault, dma_terminal_quiesced, state, sessions,
                   tx_stopping, queues, thread, completion, handler, device,
                   capture>>

(* Terminal cleanup: bus mastering off and drained, the handler released,   *)
(* then the rings.  When the drain fails the adapter is quarantined as it   *)
(* stands.                                                                  *)
quiesce_terminal_dma ==
    /\ Alone /\ ~present /\ state # "INVALID" /\ isr = "off"
    /\ dma_terminal_quiesced' = TRUE
    /\ DeviceReset(TRUE)
    /\ RetireQuiesced
    /\ UNCHANGED <<dma_fault, present, sessions, flags, tx_list_post_index,
                   pc, who, cur, bounded, late, held, irq_off, completion,
                   handler, capture>>

(* Another path fails to stop its engine and publishes the fault. *)
publish_fault ==
    /\ ~dma_fault /\ state # "INVALID"
    /\ PublishFault
    /\ UNCHANGED <<dma_terminal_quiesced, state, sessions, tx_stopping,
                   queues, thread, completion, handler, run, list, bits,
                   consumed, capture>>

(* A capture flush on another thread keeps the shared line off while it      *)
(* polls the receive lists; it excludes neither transfers nor their cancel.  *)
rx_stop_begin ==
    /\ ~rx_stop /\ rx_stops < MaxRxStops /\ cur + rx_stops < MaxTransfers
    /\ state = "INIT" /\ ~dma_fault /\ isr = "off"
    /\ who \in {"none", "transfer"}
    /\ rx_stop' = TRUE
    /\ rx_stops' = rx_stops + 1
    /\ irq_off' = irq_off + 1
    /\ UNCHANGED <<adapter, flags, queues, pc, who, cur, bounded, late, held,
                   lease, completion, handler, device>>

rx_stop_end ==
    /\ rx_stop
    /\ rx_stop' = FALSE
    /\ irq_off' = irq_off - 1
    /\ UNCHANGED <<adapter, flags, queues, pc, who, cur, bounded, late, held,
                   lease, rx_stops, completion, handler, device>>

(* A firmware flush pulses the FIFO waiter. *)
flush_pulse ==
    /\ state = "INIT" /\ ~cin_wait_exit
    /\ cin_wait_exit' = TRUE
    /\ UNCHANGED <<adapter, tx_stopping, queues, thread, completion, handler,
                   device, capture>>

-----------------------------------------------------------------------------
(* Interrupt handler. *)

Raised == irq_off = 0 /\ ~masked /\ bits # {}

hw_interrupt_handle ==
    /\ isr = "off" /\ Raised /\ state = "INIT" /\ ~dma_fault
    /\ isr' = "work"
    /\ isr_bits' = bits
    /\ isr_todo' = bits
    /\ UNCHANGED <<adapter, flags, queues, thread, completion, isr_ctx,
                   isr_cs, device, capture>>

(* A faulted adapter only acknowledges and masks. *)
ack_fault_interrupt ==
    /\ isr = "off" /\ irq_off = 0 /\ bits # {} /\ state # "INVALID" /\ dma_fault
    /\ bits' = {}
    /\ masked' = TRUE
    /\ UNCHANGED <<adapter, flags, queues, thread, completion, handler, run,
                   list, consumed, capture>>

(* The active request posted to list l. *)
Tagged(l) == {p \in tx_actq : pkt[p].tag = l}

(* The bit that the handler looks at next. *)
NextBit(e) == e \in isr_todo /\ \A f \in isr_todo : Rank(e) <= Rank(f)

ListIndexAfter(kind) == IF kind = "err" THEN 0 ELSE tx_list_post_index

(* tx_isr takes the next bit; tx_req_complete retires the list's request    *)
(* before its completion runs.                                              *)
tx_req_complete(p) ==
    /\ isr = "work" /\ ~dma_fault
    /\ \E e \in isr_todo :
          /\ NextBit(e) /\ p \in Tagged(e[1])
          /\ isr_cs' = IF e[2] = "done" THEN "success" ELSE "error"
          /\ tx_list_post_index' = ListIndexAfter(e[2])
          /\ isr_todo' = isr_todo \ {e}
    /\ Retire({p})
    /\ isr_ctx' = pkt[p].ctx
    /\ isr' = IF pkt[p].ctx = None THEN "work" ELSE "callback"
    /\ UNCHANGED <<adapter, flags, thread, completion, isr_bits, device,
                   capture>>

(* No request has the list's tag, or a fault leaves every owner in place. *)
tx_req_complete_none ==
    /\ isr = "work"
    /\ \E e \in isr_todo :
          /\ NextBit(e) /\ (dma_fault \/ Tagged(e[1]) = {})
          /\ tx_list_post_index' = ListIndexAfter(e[2])
          /\ isr_todo' = isr_todo \ {e}
    /\ UNCHANGED <<adapter, flags, pkt, tx_freeq, tx_actq, thread, completion,
                   isr, isr_bits, isr_ctx, isr_cs, device, capture>>

(* bc_proc_in_completion publishes the result ... *)
proc_in_completion ==
    /\ isr = "callback"
    /\ done' = TRUE
    /\ status' = isr_cs
    /\ isr' = "wake"
    /\ UNCHANGED <<adapter, flags, queues, thread, isr_bits, isr_todo,
                   isr_ctx, isr_cs, device, capture>>

(* ... and then wakes the wait queue on the same stack. *)
set_event ==
    /\ isr = "wake"
    /\ isr' = "work"
    /\ isr_ctx' = None
    /\ UNCHANGED <<adapter, flags, queues, thread, completion, isr_bits,
                   isr_todo, isr_cs, device, capture>>

(* The bits read on entry are cleared last. *)
isr_acknowledge ==
    /\ isr = "work" /\ isr_todo = {}
    /\ bits' = bits \ isr_bits
    /\ isr' = "off"
    /\ UNCHANGED <<adapter, flags, queues, thread, completion, isr_bits,
                   isr_todo, isr_ctx, isr_cs, run, list, masked, consumed,
                   capture>>

-----------------------------------------------------------------------------
(* Device. *)

(* A list has been read to its end. *)
list_done(l) ==
    /\ list[l] # None
    /\ consumed' = consumed \cup {list[l]}
    /\ list' = [list EXCEPT ![l] = None]
    /\ bits' = bits \cup {<<l, "done">>}
    /\ UNCHANGED <<adapter, flags, queues, thread, completion, handler, run,
                   masked, capture>>

(* A list has ended in an error, or was abandoned after the run bit fell. *)
list_error(l) ==
    /\ list[l] # None
    /\ list' = [list EXCEPT ![l] = None]
    /\ bits' = bits \cup {<<l, "err">>}
    /\ UNCHANGED <<adapter, flags, queues, thread, completion, handler, run,
                   masked, consumed, capture>>

list_abandoned(l) ==
    /\ list[l] # None /\ pc = "stopping"
    /\ list' = [list EXCEPT ![l] = None]
    /\ UNCHANGED <<adapter, flags, queues, thread, completion, handler, run,
                   bits, masked, consumed, capture>>

-----------------------------------------------------------------------------
(* The steps that a transfer takes by itself once it has begun. *)
TransferStep ==
    \/ \E p \in Pkts : post_tx_reserve(p)
    \/ post_tx_busy \/ post_tx_refused \/ post_tx \/ post_tx_requeue
    \/ tx_busy_retry \/ tx_busy_exit \/ codein_sleep_cancelled
    \/ tx_posted \/ tx_wait_done \/ tx_wait_timeout
    \/ tx_complete \/ tx_buffer_put
    \/ \E p \in Pkts : retain_tx_buffer(p)
    \/ retain_tx_buffer_none

Transfer == tx_transfer_common \/ tx_deadline \/ TransferStep

Cancel ==
    \/ cancel_all_tx \/ stop_tx_dma_engine \/ stop_tx_dma_failed
    \/ cancel_all_tx_drain \/ cancel_all_tx_faulted \/ cancel_all_tx_drained

Exclusive ==
    \/ setup_dma_rings \/ release_request \/ retire_hw_context
    \/ release_refused \/ suspend \/ hw_suspend \/ hw_close
    \/ stop_device_failed
    \/ session_retained \/ free_dma_rings \/ hw_resume
    \/ pci_remove \/ quiesce_terminal_dma

Beside == publish_fault \/ flush_pulse \/ rx_stop_begin \/ rx_stop_end

Handler ==
    \/ hw_interrupt_handle \/ ack_fault_interrupt
    \/ \E p \in Pkts : tx_req_complete(p)
    \/ tx_req_complete_none
    \/ proc_in_completion \/ set_event \/ isr_acknowledge

Device == \E l \in Lists : list_done(l) \/ list_error(l) \/ list_abandoned(l)

Next == Transfer \/ Cancel \/ Exclusive \/ Beside \/ Handler \/ Device

Spec == Init /\ [][Next]_vars

(* A thread inside the driver runs, time passes, an interrupt that is raised *)
(* is handled.  Nothing is assumed of the device.                            *)
Fairness ==
    /\ WF_vars(TransferStep)
    /\ WF_vars(Cancel)
    /\ WF_vars(tx_deadline)
    /\ WF_vars(rx_stop_end)
    /\ WF_vars(Handler)

FairSpec == Spec /\ Fairness

-----------------------------------------------------------------------------
(* Properties. *)

(* Every variable has its type; the list index names one of the two lists    *)
(* and no lease count falls below zero.                                      *)
TypeOK ==
    /\ dma_fault \in BOOLEAN /\ present \in BOOLEAN
    /\ dma_terminal_quiesced \in BOOLEAN
    /\ state \in {"INVALID", "INIT", "SUSPEND"}
    /\ sessions \in 0 .. MaxSessions
    /\ cin_wait_exit \in BOOLEAN /\ tx_stopping \in BOOLEAN
    /\ pkt \in [Pkts -> Packet]
    /\ tx_freeq \subseteq Pkts /\ tx_actq \subseteq Pkts
    /\ tx_list_post_index \in Lists
    /\ pc \in PcStates /\ who \in {"none", "transfer", "suspend", "close"}
    /\ cur \in Owner
    /\ bounded \in BOOLEAN /\ late \in BOOLEAN
    /\ held \in Pkts \cup {NoPkt}
    /\ done \in BOOLEAN /\ status \in {"success", "error", "abort"}
    /\ lease \in [Transfers -> Nat]
    /\ irq_off \in 0 .. 2
    /\ rx_stop \in BOOLEAN /\ rx_stops \in 0 .. MaxRxStops
    /\ isr \in {"off", "work", "callback", "wake"}
    /\ isr_bits \subseteq Events /\ isr_todo \subseteq Events
    /\ isr_ctx \in Owner /\ isr_cs \in {"success", "error"}
    /\ run \in BOOLEAN
    /\ list \in [Lists -> Owner]
    /\ bits \subseteq Events
    /\ masked \in BOOLEAN
    /\ consumed \subseteq Transfers

(* The engine never reads a buffer that nobody keeps: a valid list belongs   *)
(* to the transfer still on the stack or to a lease retained after a failed  *)
(* stop (hw.c retain_tx_buffer, retire_tx_quiesced).  A capture stop beside  *)
(* a transfer breaks it together with SuccessIsConsumed.                     *)
DeviceReadsLeased ==
    rx_stops = 0 =>
        \A l \in Lists : list[l] # None => lease[list[l]] > 0

(* No request and no running handler refers to the stack completion of a     *)
(* transfer that has returned (synchronize_irq at the end of a completed     *)
(* transfer, severing in retain_tx_buffer).                                  *)
NoDanglingCompletion ==
    \A x \in {pkt[p].ctx : p \in Pkts} \cup {isr_ctx} :
        x # None => InTransfer /\ x = cur

(* A transfer is told SUCCESS only when the device has read its data: an     *)
(* interrupt latched for a cancelled transfer never completes the next one,  *)
(* although both use the same two list tags.                                 *)
SuccessIsConsumed ==
    InTransfer /\ done /\ status = "success" => cur \in consumed

(* As long as no capture stop has shared the interrupt line with a transfer, *)
(* SUCCESS means consumed: the drain at the end of cancel_all_tx is enough.  *)
SuccessIsConsumedAlone == rx_stops = 0 => SuccessIsConsumed

(* Every lease is given back exactly once: one is out for the transfer in    *)
(* progress and one for each request that retained it, and no other.         *)
LeaseAccounted ==
    \A x \in Transfers :
        lease[x] = (IF InTransfer /\ x = cur THEN 1 ELSE 0)
                   + Cardinality({p \in Pkts : pkt[p].retained = x})

(* In a session every request is on one queue or reserved by post_tx, and    *)
(* without a fault none stays active once its transfer has returned.         *)
RequestsConserved ==
    state # "INVALID" =>
        /\ tx_freeq \cap tx_actq = {}
        /\ held \notin tx_freeq \cup tx_actq
        /\ tx_freeq \cup tx_actq = Pkts \ {held}
        /\ tx_actq # {} => InTransfer \/ dma_fault

(* A transfer with a deadline, one whose file is being released and one      *)
(* whose adapter is gone all return, whatever the device does.               *)
TransferReturns ==
    (InTransfer /\ (bounded \/ tx_stopping \/ ~present)) ~> ~InTransfer

=============================================================================
