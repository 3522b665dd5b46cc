----------------------------- MODULE RxCapture -----------------------------
(***************************************************************************)
(* Ownership of the capture (RX) registrations of a BCM70015 session.      *)
(*                                                                         *)
(* A packet (struct crystalhd_rx_dma_pkt) outside the pool carries one     *)
(* buffer registered by a frontend; it goes back to the pool exactly when  *)
(* that buffer goes back to its frontend.  Between the two it travels over *)
(* rx_freeq, rx_actq, rx_rdyq and the allocation-free fallback list, and   *)
(* through the hands of three kinds of actor:                              *)
(*   "proc"  the thread that holds hw->fetch_sem (submit, dequeue, format  *)
(*           acknowledgement, start, flush, stop);                         *)
(*   "isr"   the interrupt handler, which takes only spin locks;           *)
(*   Fetchers, threads that took a ready packet and dropped fetch_sem      *)
(*           before completing it (crystalhd_hw_get_cap_buffer).           *)
(* The two DMA lists of the device write into the packets posted to them   *)
(* until their planes have finished.  FleaEnablePWM is false, its only     *)
(* value in the driver, so IssuePause has no device effect.                *)
(***************************************************************************)
EXTENDS Integers, Sequences, FiniteSets

CONSTANTS
    Pkts,             \* the packet inventory (BC_RX_LIST_CNT of them)
    NoPkt,            \* the NULL packet
    Fetchers,         \* threads inside crystalhd_rx_dequeue
    Planes,           \* the planes of the output format, Y and UV or Y alone
    PauseThreshold,   \* hw->PauseThreshold
    ResumeThreshold,  \* hw->ResumeThreshold
    MaxEpoch,         \* bound on destructive stops
    MaxHard,          \* failures before which a device write or a queue
                      \* insertion may fail
    MaxFail           \* failures before which a fault may come from elsewhere

ASSUME InventoryAssumption ==
    /\ IsFiniteSet(Pkts)
    /\ NoPkt \notin Pkts
    /\ {"idle", "done", "error"} \cap Pkts = {}

ASSUME RxBoundAssumption ==
    /\ PauseThreshold \in Nat
    /\ ResumeThreshold \in Nat
    /\ MaxEpoch \in Nat
    /\ MaxFail \in Nat /\ MaxHard \in 0..MaxFail

Lists == {0, 1}
Actors == {"proc", "isr"}

VARIABLES
    pool,       \* hw->rx_pkt_pool_head
    freeq,      \* hw->rx_freeq
    fallback,   \* hw->rx_fallback_head
    act,        \* hw->rx_actq, by the list in the packet's tag
    rdyq,       \* hw->rx_rdyq
    lists,      \* hw->rx_list_sts, per list and plane: "free", "wait", "err"
    index,      \* hw->rx_list_post_index
    capture,    \* hw->RxCaptureState
    picq,       \* the channel's bit of hw->PicQSts
    dev,        \* the device, per list and plane: the packet it writes into,
                \* or "idle", or how the transfer ended ("done", "error")
                \* when its interrupt has not been acknowledged
    fll,        \* whether the free list length last published is nonzero
    epoch,      \* hw->rx_cancel_epoch
    stamp,      \* pkt->capture_epoch
    paused,     \* hw->hw_pause_issued
    fault,      \* hw->dma_fault
    hard,       \* hard errors and faults from elsewhere so far
    cap_en,     \* BC_LINK_CAP_EN of ctx->state
    fmt_chg,    \* BC_LINK_FMT_CHG of ctx->state
    session,    \* "init", or "resume" after a power cycle
    pm,         \* power and removal progress
    pc,         \* program counter of each actor; proc idle = fetch_sem is free
    pkt,        \* packet in the hands of each actor
    todo,       \* start_capture rounds each actor has left
    fresh,      \* proc posts a registration not yet owned by the driver
    stop,       \* the arguments of the stop in progress
    irq,        \* locals of the interrupt handler
    fetch       \* state of each dequeue call

queues == <<pool, freeq, fallback, act, rdyq>>
engine == <<lists, index, capture, picq, dev>>
ctx == <<cap_en, fmt_chg, session, pm>>
actors == <<pc, pkt, todo, fresh, stop, irq>>
flags == <<fll, paused, fault, hard, epoch, stamp>>
vars == <<queues, engine, ctx, actors, flags, fetch>>

-----------------------------------------------------------------------------
(* State predicates and helpers *)

FreeList == [pl \in Planes |-> "free"]
IdleList == [pl \in Planes |-> "idle"]
Idle == [l \in Lists |-> IdleList]
NoIrq == [list |-> 0, err |-> [l \in Lists |-> NoPkt], avail |-> FALSE, pic |-> FALSE]
NoStop == [unmap |-> FALSE, after |-> "none"]
Out == [st |-> "out", pkt |-> NoPkt, ep |-> 0]

Active == UNION {act[l] : l \in Lists}
Ready == {rdyq[i] : i \in DOMAIN rdyq}
Queued == freeq \cup fallback \cup Active \cup Ready

SemFree == pc["proc"] = "idle"
IrqIdle == pc["isr"] = "idle"
IrqEnabled == pc["proc"] \notin {"irqoff", "stop", "drain"} /\ pm \in {"run", "stopped"}
LinkReady == cap_en /\ fmt_chg /\ session = "init"
Running == pm = "run" /\ session = "init"

\* hw->rx_lock is held by the interrupt handler while it walks the lists.
RxLockFree(a) == a = "isr" \/ pc["isr"] \notin {"lists", "complete"}

Goto(a, label) == pc' = [pc EXCEPT ![a] = label]

\* crystalhd_hw_retain_rx_pkt, or the free queue when an element is available.
Keep(p) ==
    \/ freeq' = freeq \cup {p} /\ UNCHANGED <<fallback, hard>>
    \/ hard < MaxHard /\ hard' = hard + 1
       /\ fallback' = fallback \cup {p} /\ UNCHANGED freeq

\* crystalhd_hw_free_rx_pkt: back to the pool with the identity erased.
FreePacket(S) ==
    /\ pool' = pool \cup S
    /\ stamp' = [p \in Pkts |-> IF p \in S THEN 0 ELSE stamp[p]]

\* crystalhd_hw_count_free_rx_pkts_locked, as far as firmware is told.
FreePkts == freeq \cup fallback # {}

\* Every variable has its type; the post index always names one of the two
\* lists, although posts advance it and errors rewind it.
TypeOK ==
    /\ pool \subseteq Pkts /\ freeq \subseteq Pkts /\ fallback \subseteq Pkts
    /\ act \in [Lists -> SUBSET Pkts]
    /\ rdyq \in Seq(Pkts)
    /\ lists \in [Lists -> [Planes -> {"free", "wait", "err"}]]
    /\ index \in Lists /\ capture \in 0..2 /\ picq \in BOOLEAN
    /\ dev \in [Lists -> [Planes -> Pkts \cup {"idle", "done", "error"}]]
    /\ fll \in BOOLEAN /\ paused \in BOOLEAN /\ fault \in BOOLEAN
    /\ hard \in 0..MaxFail /\ epoch \in 0..MaxEpoch /\ stamp \in [Pkts -> 0..MaxEpoch]
    /\ cap_en \in BOOLEAN /\ fmt_chg \in BOOLEAN /\ session \in {"init", "resume"}
    /\ pm \in {"run", "stopped", "drained", "suspended", "closing", "removing", "quiesced",
               "gone"}
    /\ pc \in [Actors -> {"idle", "fetch", "post", "busy", "fll", "hard", "try",
                          "irqoff", "stop", "drain", "lists", "complete", "next"}]
    /\ pkt \in [Actors -> Pkts \cup {NoPkt}]
    /\ todo \in [Actors -> 0..2] /\ fresh \in BOOLEAN
    /\ stop \in [unmap : BOOLEAN, after : {"none", "discard", "suspend", "format", "close"}]
    /\ irq \in [list : 0..2, err : [Lists -> Pkts \cup {NoPkt}],
                avail : BOOLEAN, pic : BOOLEAN]
    /\ fetch \in [Fetchers -> [st : {"out", "admitted", "detached", "trying", "format"},
                               pkt : Pkts \cup {NoPkt}, ep : 0..MaxEpoch]]

Init ==
    /\ pool = Pkts /\ freeq = {} /\ fallback = {} /\ rdyq = <<>>
    /\ act = [l \in Lists |-> {}]
    /\ lists = [l \in Lists |-> FreeList] /\ index = 0 /\ capture = 0 /\ picq = FALSE
    /\ dev = Idle
    /\ fll = FALSE /\ paused = FALSE /\ fault = FALSE /\ hard = 0
    /\ epoch = 0 /\ stamp = [p \in Pkts |-> 0]
    /\ cap_en = FALSE /\ fmt_chg = FALSE /\ session = "init" /\ pm = "run"
    /\ pc = [a \in Actors |-> "idle"] /\ pkt = [a \in Actors |-> NoPkt]
    /\ todo = [a \in Actors |-> 0] /\ fresh = FALSE
    /\ stop = NoStop /\ irq = NoIrq
    /\ fetch = [f \in Fetchers |-> Out]

-----------------------------------------------------------------------------
(* Posting a packet: crystalhd_hw_repost_cap_buffer, crystalhd_hw_start_   *)
(* capture and the BCM70015 post wrapper, run by either actor.             *)

\* Where an actor goes when a post has ended.
Base(a) == IF a = "isr" THEN "next" ELSE "idle"
Return(a, again) ==
    IF again /\ todo[a] > 0
    THEN Goto(a, "fetch") /\ UNCHANGED todo
    ELSE Goto(a, Base(a)) /\ todo' = [todo EXCEPT ![a] = 0]

\* crystalhd_hw_fetch_free_rx_pkt: the free queue first, then the fallback.
fetch_free(a) ==
    /\ pc[a] = "fetch"
    /\ \/ \E p \in freeq :
            /\ freeq' = freeq \ {p} /\ UNCHANGED fallback
            /\ pkt' = [pkt EXCEPT ![a] = p]
            /\ Goto(a, "post") /\ todo' = [todo EXCEPT ![a] = @ - 1]
       \/ /\ freeq = {}
          /\ \E p \in fallback :
               /\ fallback' = fallback \ {p} /\ UNCHANGED freeq
               /\ pkt' = [pkt EXCEPT ![a] = p]
               /\ Goto(a, "post") /\ todo' = [todo EXCEPT ![a] = @ - 1]
       \/ /\ freeq = {} /\ fallback = {}
          /\ Return(a, FALSE) /\ UNCHANGED <<freeq, fallback, pkt>>
    /\ UNCHANGED <<pool, act, rdyq, engine, ctx, fresh, stop, irq, flags, fetch>>

\* Variant: the post index is not wrapped.
fire_rxdma_unwrapped(a) ==
    /\ pc[a] = "post" /\ RxLockFree(a)
    /\ ~fault /\ capture = 1 /\ lists[index] = FreeList /\ picq
    /\ act' = [act EXCEPT ![index] = @ \cup {pkt[a]}]
    /\ lists' = [lists EXCEPT ![index] = [pl \in Planes |-> "wait"]]
    /\ dev' = [dev EXCEPT ![index] = [pl \in Planes |-> pkt[a]]]
    /\ index' = index + 1 /\ picq' = FALSE
    /\ pkt' = [pkt EXCEPT ![a] = NoPkt]
    /\ Goto(a, "fll")
    /\ UNCHANGED <<pool, freeq, fallback, rdyq, capture, ctx, todo, fresh, stop, irq,
                   flags, fetch>>

\* crystalhd_flea_hw_fire_rxdma under rx_lock and hw->lock: the packet is
\* queued under the list's tag and the doorbell starts the device.
fire_rxdma(a) ==
    /\ pc[a] = "post" /\ RxLockFree(a)
    /\ ~fault /\ capture = 1 /\ lists[index] = FreeList /\ picq
    /\ act' = [act EXCEPT ![index] = @ \cup {pkt[a]}]
    /\ lists' = [lists EXCEPT ![index] = [pl \in Planes |-> "wait"]]
    /\ dev' = [dev EXCEPT ![index] = [pl \in Planes |-> pkt[a]]]
    /\ index' = 1 - index /\ picq' = FALSE
    /\ pkt' = [pkt EXCEPT ![a] = NoPkt]
    /\ Goto(a, "fll")
    /\ UNCHANGED <<pool, freeq, fallback, rdyq, capture, ctx, todo, fresh, stop, irq,
                   flags, fetch>>

\* Capture not enabled, the next list busy, or no picture announced.
fire_rxdma_busy(a) ==
    /\ pc[a] = "post" /\ ~fault
    /\ \/ capture # 1
       \/ RxLockFree(a) /\ (lists[index] # FreeList \/ ~picq)
    /\ Goto(a, "busy")
    /\ UNCHANGED <<queues, engine, ctx, pkt, todo, fresh, stop, irq, flags, fetch>>

\* The metadata write or the active-queue insertion failed, or the device is
\* faulted: nothing was transferred and no interrupt was armed.
fire_rxdma_error(a) ==
    /\ pc[a] = "post"
    /\ \/ fault /\ UNCHANGED hard
       \/ /\ RxLockFree(a) /\ capture = 1 /\ lists[index] = FreeList /\ picq
          /\ hard < MaxHard /\ hard' = hard + 1
    /\ Goto(a, "hard")
    /\ UNCHANGED <<queues, engine, ctx, pkt, todo, fresh, stop, irq, fll, paused, fault,
                   epoch, stamp, fetch>>

\* crystalhd_flea_hw_post_cap_buff: BUSY puts the packet on the free queue.
requeue_busy(a) ==
    /\ pc[a] = "busy"
    /\ \/ /\ freeq' = freeq \cup {pkt[a]}
          /\ pkt' = [pkt EXCEPT ![a] = NoPkt]
          /\ Goto(a, "fll") /\ UNCHANGED hard
       \/ /\ hard < MaxHard /\ hard' = hard + 1
          /\ Goto(a, "hard") /\ UNCHANGED <<freeq, pkt>>
    /\ todo' = [todo EXCEPT ![a] = 0]
    /\ UNCHANGED <<pool, fallback, act, rdyq, engine, ctx, fresh, stop, irq, fll, paused,
                   fault, epoch, stamp, fetch>>

\* crystalhd_flea_publish_fll: sampled and written under hw->lock.
notify_fll_change(a) ==
    /\ pc[a] = "fll"
    /\ fll' = IF fault THEN fll ELSE FreePkts
    /\ Return(a, TRUE)
    /\ fresh' = IF a = "proc" THEN FALSE ELSE fresh
    /\ UNCHANGED <<queues, engine, ctx, pkt, stop, irq, paused, fault, hard, epoch, stamp,
                   fetch>>

\* A post that failed: a fresh registration stays with its caller, any other
\* one is kept reachable for process-context cleanup.
post_failed(a) ==
    /\ pc[a] = "hard"
    /\ \/ /\ a = "proc" /\ fresh
          /\ FreePacket({pkt[a]}) /\ UNCHANGED <<freeq, fallback, hard>>
       \/ /\ ~(a = "proc" /\ fresh)
          /\ UNCHANGED <<pool, stamp>>
          /\ \/ Keep(pkt[a])
             \/ fault /\ fallback' = fallback \cup {pkt[a]} /\ UNCHANGED <<freeq, hard>>
    /\ fll' \in {fll, IF fault THEN fll ELSE FreePkts}
    /\ pkt' = [pkt EXCEPT ![a] = NoPkt]
    /\ fresh' = IF a = "proc" THEN FALSE ELSE fresh
    /\ Return(a, FALSE)
    /\ UNCHANGED <<act, rdyq, engine, ctx, stop, irq, paused, fault, epoch, fetch>>

-----------------------------------------------------------------------------
(* Operations of the thread that holds fetch_sem *)

\* crystalhd_rx_submit: post at once when capture is ready, else queue.
rx_submit ==
    /\ SemFree /\ Running /\ ~fault
    /\ \E p \in pool :
         /\ pool' = pool \ {p}
         /\ stamp' = [stamp EXCEPT ![p] = epoch]
         /\ IF LinkReady /\ ~paused
            THEN /\ pkt' = [pkt EXCEPT !["proc"] = p] /\ fresh' = TRUE
                 /\ Goto("proc", "post") /\ UNCHANGED <<freeq, hard>>
            ELSE \/ /\ freeq' = freeq \cup {p} /\ Goto("proc", "fll")
                    /\ UNCHANGED <<pkt, fresh, hard>>
                 \/ /\ hard < MaxHard /\ hard' = hard + 1
                    /\ pkt' = [pkt EXCEPT !["proc"] = p] /\ fresh' = TRUE
                    /\ Goto("proc", "hard") /\ UNCHANGED freeq
    /\ UNCHANGED <<fallback, act, rdyq, engine, ctx, todo, stop, irq, fll, paused, fault,
                   epoch, fetch>>

\* crystalhd_capture_start, with crystalhd_hw_start_capture when ready.
capture_start ==
    /\ SemFree /\ Running /\ ~fault
    /\ cap_en' = TRUE
    /\ IF fmt_chg
       THEN Goto("proc", "fetch") /\ todo' = [todo EXCEPT !["proc"] = 2]
       ELSE UNCHANGED <<pc, todo>>
    /\ UNCHANGED <<queues, engine, fmt_chg, session, pm, pkt, fresh, stop, irq, flags, fetch>>

\* crystalhd_hw_stop_capture_locked up to disable_irq: a destructive stop
\* first invalidates what a fetcher holds outside every queue.
stop_capture(unmap, after) ==
    /\ ~fault
    /\ unmap => epoch < MaxEpoch
    /\ epoch' = IF unmap THEN epoch + 1 ELSE epoch
    /\ stop' = [unmap |-> unmap, after |-> after]
    /\ Goto("proc", "irqoff")
    /\ UNCHANGED <<queues, engine, session, pm, pkt, todo, fresh, irq, fll, paused, fault,
                   hard, stamp>>

\* crystalhd_capture_flush, which keeps the registrations or returns them.
capture_flush_discard ==
    /\ SemFree /\ Running /\ cap_en
    /\ stop_capture(FALSE, "discard")
    /\ UNCHANGED <<cap_en, fmt_chg, fetch>>

capture_flush ==
    /\ SemFree /\ Running
    /\ cap_en \/ ~fmt_chg
    /\ cap_en' = FALSE /\ fmt_chg' = FALSE
    /\ stop_capture(TRUE, "none")
    /\ UNCHANGED fetch

\* disable_irq returns once no handler runs.
disable_irq ==
    /\ pc["proc"] = "irqoff" /\ IrqIdle
    /\ capture' = 2
    /\ Goto("proc", "stop")
    /\ UNCHANGED <<queues, lists, index, picq, dev, ctx, pkt, todo, fresh, stop, irq,
                   flags, fetch>>

Finished(s) == s \in {"done", "error"}
Acknowledge == dev' = [l \in Lists |-> [pl \in Planes |->
                          IF Finished(dev[l][pl]) THEN "idle" ELSE dev[l][pl]]]
Drained == \A l \in Lists, pl \in Planes : lists[l][pl] = "wait" => Finished(dev[l][pl])
AllFree == \A l \in Lists : lists[l] = FreeList

\* crystalhd_flea_stop_rx_dma_engine: nothing posted, or every plane still
\* awaited reported its end during the polls.
stop_rx_dma_engine ==
    /\ pc["proc"] = "stop"
    /\ AllFree \/ Drained
    /\ capture' = 0 /\ index' = 0
    /\ lists' = [l \in Lists |-> FreeList]
    /\ IF AllFree THEN UNCHANGED dev ELSE Acknowledge
    /\ Goto("proc", "drain")
    /\ UNCHANGED <<queues, picq, ctx, pkt, todo, fresh, stop, irq, flags, fetch>>

\* Variant: a stop whose polls ran out is taken for a success.
stop_rx_dma_failed_ignored ==
    /\ pc["proc"] = "stop"
    /\ ~AllFree /\ ~Drained
    /\ capture' = 0 /\ index' = 0
    /\ lists' = [l \in Lists |-> FreeList]
    /\ Acknowledge
    /\ Goto("proc", "drain")
    /\ UNCHANGED <<queues, picq, ctx, pkt, todo, fresh, stop, irq, flags, fetch>>

\* Variant: the polls have no bound.
stop_rx_dma_failed_never == FALSE /\ UNCHANGED vars

\* The polls ran out: crystalhd_hw_dma_fatal_stop, the lists stay busy.
stop_rx_dma_failed ==
    /\ pc["proc"] = "stop"
    /\ ~AllFree /\ ~Drained
    /\ fault' = TRUE /\ capture' = 0
    /\ Acknowledge
    /\ Goto("proc", "drain")
    /\ UNCHANGED <<queues, lists, index, picq, ctx, pkt, todo, fresh, stop, irq, fll,
                   paused, hard, epoch, stamp, fetch>>

\* What the caller of the stop does after enable_irq.
AfterStop ==
    /\ stop' = NoStop
    /\ pm' = CASE stop.after = "suspend" -> "stopped"
               [] stop.after = "close" -> "closing"
               [] OTHER -> pm
    /\ fmt_chg' = IF stop.after = "format" THEN TRUE ELSE fmt_chg
    /\ IF stop.after = "discard"
       THEN Goto("proc", "fetch") /\ todo' = [todo EXCEPT !["proc"] = 2]
       ELSE Goto("proc", "idle") /\ UNCHANGED todo
    /\ UNCHANGED <<cap_en, session>>

\* crystalhd_hw_detach_rx_owners: every queued packet gives up its buffer.
detach_rx_owners ==
    /\ FreePacket(Queued)
    /\ freeq' = {} /\ fallback' = {} /\ rdyq' = <<>> /\ act' = [l \in Lists |-> {}]

\* Variant: the free queue is not drained.
drain_release_keeps_free ==
    /\ pc["proc"] = "drain" /\ ~fault /\ stop.unmap
    /\ FreePacket(Queued \ freeq)
    /\ UNCHANGED freeq /\ fallback' = {} /\ rdyq' = <<>> /\ act' = [l \in Lists |-> {}]
    /\ AfterStop
    /\ UNCHANGED <<engine, pkt, fresh, irq, fll, paused, fault, hard, epoch, fetch>>

\* A destructive stop that succeeded releases the buffers.
drain_release ==
    /\ pc["proc"] = "drain" /\ ~fault /\ stop.unmap
    /\ detach_rx_owners
    /\ AfterStop
    /\ UNCHANGED <<engine, pkt, fresh, irq, fll, paused, fault, hard, epoch, fetch>>

\* Without unmap every registration moves to the free queue or the fallback.
drain_keep ==
    /\ pc["proc"] = "drain" /\ ~fault /\ ~stop.unmap
    /\ \E k \in {{}} \cup (IF hard < MaxHard THEN {{p} : p \in Active \cup Ready} ELSE {}) :
         /\ freeq' = freeq \cup ((Active \cup Ready) \ k)
         /\ fallback' = fallback \cup k
         /\ hard' = IF k = {} THEN hard ELSE hard + 1
    /\ rdyq' = <<>> /\ act' = [l \in Lists |-> {}]
    /\ AfterStop
    /\ UNCHANGED <<pool, engine, pkt, fresh, irq, fll, paused, fault, epoch, stamp, fetch>>

\* A failed or faulted stop keeps every registration reachable.
drain_faulted ==
    /\ pc["proc"] = "drain" /\ fault
    /\ stop' = NoStop /\ Goto("proc", "idle")
    /\ UNCHANGED <<queues, engine, ctx, pkt, todo, fresh, irq, flags, fetch>>

\* crystalhd_hw_rx_idle: nothing posted, queued or in anybody's hands.
rx_idle == ~fault /\ AllFree /\ Active = {} /\ rdyq = <<>> /\ freeq = {} /\ fallback = {}
           /\ pool = Pkts

\* crystalhd_rx_pause_metadata_idle; BUSY leaves everything alone.
rx_pause_metadata_idle ==
    /\ SemFree /\ IrqIdle /\ Running /\ cap_en /\ rx_idle /\ epoch < MaxEpoch
    /\ epoch' = epoch + 1 /\ fmt_chg' = TRUE
    /\ UNCHANGED <<queues, engine, cap_en, session, pm, actors, fll, paused, fault, hard,
                   stamp, fetch>>

-----------------------------------------------------------------------------
(* Dequeue: crystalhd_rx_dequeue_common and the two ways to fetch *)

rx_dequeue(f) ==
    /\ fetch[f].st = "out" /\ SemFree /\ Running /\ cap_en
    /\ fetch' = [fetch EXCEPT ![f] = [st |-> "admitted", pkt |-> NoPkt, ep |-> epoch]]
    /\ UNCHANGED <<queues, engine, ctx, actors, flags>>

\* crystalhd_dioq_fetch_wait, an accepted picture: fetch_sem is dropped with
\* the packet outside every queue.
fetch_wait(f) ==
    /\ fetch[f].st = "admitted" /\ SemFree /\ rdyq # <<>>
    /\ fetch' = [fetch EXCEPT ![f] = [st |-> "detached", pkt |-> Head(rdyq),
                                           ep |-> 0]]
    /\ rdyq' = Tail(rdyq)
    /\ UNCHANGED <<pool, freeq, fallback, act, engine, ctx, actors, flags>>

\* Variant: the repeated picture is posted again without leaving the ready queue.
accept_packet_repeat_peeks(f) ==
    /\ fetch[f].st = "admitted" /\ SemFree /\ rdyq # <<>>
    /\ rdyq' = rdyq
    /\ pkt' = [pkt EXCEPT !["proc"] = Head(rdyq)]
    /\ Goto("proc", "post")
    /\ UNCHANGED <<pool, freeq, fallback, act, engine, ctx, todo, fresh, stop, irq, flags,
                   fetch>>

\* Variant: the repeated picture is put on the free queue and nobody is told.
accept_packet_repeat_bare(f) ==
    /\ fetch[f].st = "admitted" /\ SemFree /\ rdyq # <<>>
    /\ rdyq' = Tail(rdyq)
    /\ freeq' = freeq \cup {Head(rdyq)}
    /\ UNCHANGED <<pool, fallback, act, engine, ctx, actors, flags, fetch>>

\* crystalhd_rx_accept_packet_locked refuses a repeated picture: repost it.
accept_packet_repeat(f) ==
    /\ fetch[f].st = "admitted" /\ SemFree /\ rdyq # <<>>
    /\ rdyq' = Tail(rdyq)
    /\ pkt' = [pkt EXCEPT !["proc"] = Head(rdyq)]
    /\ Goto("proc", "post")
    /\ UNCHANGED <<pool, freeq, fallback, act, engine, ctx, todo, fresh, stop, irq, flags,
                   fetch>>

\* The pause intent is withdrawn at the resume threshold, by a completion or
\* an empty wait of the current epoch only.
Unpause(ep) ==
    paused' = IF ep = epoch /\ Len(rdyq) <= ResumeThreshold THEN FALSE ELSE paused

\* Variant: a completion does not look at the fault.
complete_rx_faulted(f, p) ==
    /\ FreePacket({p}) /\ Unpause(stamp[p])
    /\ fetch' = [fetch EXCEPT ![f] = Out]
    /\ UNCHANGED <<freeq, fallback, act, rdyq, engine, ctx, todo, fresh, stop, irq, fll,
                   fault, hard, epoch>>

\* crystalhd_hw_complete_rx_locked: the buffer goes to the caller, which
\* releases it, or acknowledges it when it marks a format change.
complete_rx(f, p) ==
    /\ IF fault
       THEN /\ fallback' = fallback \cup {p} /\ UNCHANGED <<pool, stamp, paused>>
            /\ fetch' = [fetch EXCEPT ![f] = Out]
       ELSE /\ FreePacket({p}) /\ UNCHANGED fallback
            /\ Unpause(stamp[p])
            /\ fetch' \in {[fetch EXCEPT ![f] = Out],
                           [fetch EXCEPT ![f] = [st |-> "format", pkt |-> NoPkt,
                                                 ep |-> stamp[p]]]}
    /\ UNCHANGED <<freeq, act, rdyq, engine, ctx, todo, fresh, stop, irq, fll, fault, hard,
                   epoch>>

get_cap_buffer(f) ==
    /\ fetch[f].st = "detached" /\ SemFree
    /\ complete_rx(f, fetch[f].pkt)
    /\ UNCHANGED <<pc, pkt>>

\* The wait timed out or was interrupted: completion without a packet.
fetch_timeout(f) ==
    /\ fetch[f].st = "admitted" /\ SemFree
    /\ IF fault THEN UNCHANGED paused ELSE Unpause(fetch[f].ep)
    /\ fetch' = [fetch EXCEPT ![f] = Out]
    /\ UNCHANGED <<queues, engine, ctx, actors, fll, fault, hard, epoch, stamp>>

\* crystalhd_hw_try_get_cap_buffer keeps fetch_sem from fetch to completion.
try_get_cap_buffer(f) ==
    /\ fetch[f].st = "admitted" /\ SemFree /\ rdyq # <<>>
    /\ ~fault /\ pm = "run" /\ fetch[f].ep = epoch
    /\ rdyq' = Tail(rdyq)
    /\ pkt' = [pkt EXCEPT !["proc"] = Head(rdyq)]
    /\ Goto("proc", "try")
    /\ fetch' = [fetch EXCEPT ![f].st = "trying"]
    /\ UNCHANGED <<pool, freeq, fallback, act, engine, ctx, todo, fresh, stop, irq, flags>>

try_complete(f) ==
    /\ fetch[f].st = "trying" /\ pc["proc"] = "try"
    /\ complete_rx(f, pkt["proc"])
    /\ pkt' = [pkt EXCEPT !["proc"] = NoPkt] /\ Goto("proc", "idle")

\* crystalhd_rx_ack_format: a boundary of a cancelled capture, or one that
\* finds no packet or no queue element, only releases its buffer.
rx_ack_format(f) ==
    /\ fetch[f].st = "format" /\ SemFree
    /\ fetch' = [fetch EXCEPT ![f] = Out]
    /\ \/ /\ fetch[f].ep # epoch \/ ~cap_en \/ fault \/ pool = {} \/ hard < MaxHard
          /\ UNCHANGED <<pool, freeq, stamp, fmt_chg, pc, todo>>
       \/ /\ fetch[f].ep = epoch /\ cap_en /\ ~fault
          /\ \E p \in pool :
               /\ pool' = pool \ {p} /\ freeq' = freeq \cup {p}
               /\ stamp' = [stamp EXCEPT ![p] = epoch]
          /\ fmt_chg' = TRUE
          /\ Goto("proc", "fll")
          /\ todo' = [todo EXCEPT !["proc"] = IF session = "init" THEN 2 ELSE 0]
    /\ UNCHANGED <<fallback, act, rdyq, engine, cap_en, session, pm, pkt, fresh, stop, irq,
                   fll, paused, fault, hard, epoch>>

\* crystalhd_rx_pause_format: an idle device keeps its picture handshake,
\* otherwise capture is stopped destructively.
rx_pause_format(f) ==
    /\ fetch[f].st = "format" /\ SemFree
    /\ fetch' = [fetch EXCEPT ![f] = Out]
    /\ \/ /\ fetch[f].ep # epoch \/ ~cap_en
          /\ UNCHANGED <<queues, engine, ctx, actors, flags>>
       \/ /\ fetch[f].ep = epoch /\ cap_en /\ IrqIdle /\ rx_idle /\ epoch < MaxEpoch
          /\ epoch' = epoch + 1 /\ fmt_chg' = TRUE
          /\ UNCHANGED <<queues, engine, cap_en, session, pm, actors, fll, paused, fault,
                         hard, stamp>>
       \/ /\ fetch[f].ep = epoch /\ cap_en /\ IrqIdle /\ ~rx_idle
          /\ IF fault THEN UNCHANGED <<queues, engine, ctx, actors, flags>>
             ELSE stop_capture(TRUE, "format") /\ UNCHANGED <<cap_en, fmt_chg>>

-----------------------------------------------------------------------------
(* The interrupt handler *)

Pending == \E l \in Lists, pl \in Planes : Finished(dev[l][pl])

\* crystalhd_flea_hw_interrupt_handle: status read, RX lists first.  Firmware
\* announces a picture (ArmMbox1Int) only while it knows of a free buffer.
interrupt(rx, pic) ==
    /\ IrqIdle /\ IrqEnabled /\ ~fault
    /\ rx \/ pic
    /\ rx => Pending
    /\ pic => fll /\ session = "init"
    /\ irq' = [NoIrq EXCEPT !.pic = pic]
    /\ Goto("isr", IF rx THEN "lists" ELSE "next")
    /\ UNCHANGED <<queues, engine, ctx, pkt, todo, fresh, stop, flags, fetch>>

\* crystalhd_flea_rx_list0_handler and list1: the planes that ended leave the
\* wait, an error marks the plane and rewinds the post index.
Handled(l) == [pl \in Planes |->
    CASE dev[l][pl] = "done" -> IF lists[l][pl] = "wait" THEN "free" ELSE lists[l][pl]
      [] dev[l][pl] = "error" -> "err"
      [] OTHER -> lists[l][pl]]

\* Variant: a list counts as ended when one of its planes has ended.
Waiting_for_all(s) == \A pl \in Planes : s[pl] = "wait"

Waiting(s) == \E pl \in Planes : s[pl] = "wait"
Failed(s) == \E pl \in Planes : s[pl] = "err"

\* One list of crystalhd_flea_rx_isr, under rx_lock.  crystalhd_rx_pkt_detach
\* refuses once the device is faulted; the packet then stays on rx_actq.
rx_isr_list ==
    LET l == irq.list
        s == Handled(l)
        ended == s # lists[l] /\ ~Waiting(s)
    IN
    /\ pc["isr"] = "lists" /\ l \in Lists
    /\ dev' = [dev EXCEPT ![l] = [pl \in Planes |->
                  IF Finished(@[pl]) THEN "idle" ELSE @[pl]]]
    /\ lists' = [lists EXCEPT ![l] = IF ended THEN FreeList ELSE s]
    /\ index' = IF \E pl \in Planes : dev[l][pl] = "error" THEN 0 ELSE index
    /\ IF ended /\ ~fault /\ act[l] # {}
       THEN \E p \in act[l] :
              /\ act' = [act EXCEPT ![l] = @ \ {p}]
              /\ IF Failed(s)
                 THEN /\ irq' = [irq EXCEPT !.list = l + 1, !.err[l] = p]
                      /\ UNCHANGED <<pc, pkt>>
                 ELSE /\ irq' = [irq EXCEPT !.avail = TRUE]
                      /\ pkt' = [pkt EXCEPT !["isr"] = p]
                      /\ Goto("isr", "complete")
       ELSE /\ irq' = [irq EXCEPT !.list = l + 1,
                                  !.avail = @ \/ (ended /\ ~Failed(s))]
            /\ UNCHANGED <<act, pc, pkt>>
    /\ UNCHANGED <<pool, freeq, fallback, rdyq, capture, picq, ctx, todo, fresh, stop,
                   flags, fetch>>

\* crystalhd_rx_pkt_complete of a picture: ready queue, or the fallback when
\* the insertion fails or the device faulted meanwhile.
rx_pkt_complete ==
    /\ pc["isr"] = "complete"
    /\ \/ /\ ~fault
          /\ rdyq' = Append(rdyq, pkt["isr"])
          /\ paused' = (paused \/ Len(rdyq') >= PauseThreshold)
          /\ UNCHANGED <<fallback, hard>>
       \/ /\ IF fault THEN UNCHANGED hard ELSE hard < MaxHard /\ hard' = hard + 1
          /\ fallback' = fallback \cup {pkt["isr"]}
          /\ UNCHANGED <<rdyq, paused>>
    /\ pkt' = [pkt EXCEPT !["isr"] = NoPkt]
    /\ irq' = [irq EXCEPT !.list = @ + 1]
    /\ Goto("isr", "lists")
    /\ UNCHANGED <<pool, freeq, act, engine, ctx, todo, fresh, stop, fll, fault, epoch, stamp,
                   fetch>>

\* Both lists done: rx_lock is dropped.
rx_isr_unlock ==
    /\ pc["isr"] = "lists" /\ irq.list = 2
    /\ Goto("isr", "next")
    /\ UNCHANGED <<queues, engine, ctx, pkt, todo, fresh, stop, irq, flags, fetch>>

\* A failed transfer is posted again, list 0 first.
rx_isr_repost(l) ==
    /\ pc["isr"] = "next" /\ irq.err[l] # NoPkt
    /\ l = 1 => irq.err[0] = NoPkt
    /\ pkt' = [pkt EXCEPT !["isr"] = irq.err[l]]
    /\ irq' = [irq EXCEPT !.err[l] = NoPkt]
    /\ Goto("isr", "post")
    /\ UNCHANGED <<queues, engine, ctx, todo, fresh, stop, flags, fetch>>

NoErrors == \A l \in Lists : irq.err[l] = NoPkt

\* A list became available: crystalhd_hw_start_capture.
rx_isr_start_capture ==
    /\ pc["isr"] = "next" /\ NoErrors /\ irq.avail
    /\ irq' = [irq EXCEPT !.avail = FALSE]
    /\ IF fault THEN UNCHANGED <<pc, todo>>
       ELSE Goto("isr", "fetch") /\ todo' = [todo EXCEPT !["isr"] = 2]
    /\ UNCHANGED <<queues, engine, ctx, pkt, fresh, stop, flags, fetch>>

\* crystalhd_flea_handle_PicQSts_intr, without rx_lock, then one post.
handle_PicQSts_intr ==
    /\ pc["isr"] = "next" /\ NoErrors /\ ~irq.avail /\ irq.pic
    /\ irq' = [irq EXCEPT !.pic = FALSE]
    /\ picq' \in BOOLEAN /\ capture' = 1
    /\ Goto("isr", "fetch") /\ todo' = [todo EXCEPT !["isr"] = 1]
    /\ UNCHANGED <<queues, lists, index, dev, ctx, pkt, fresh, stop, flags, fetch>>

interrupt_return ==
    /\ pc["isr"] = "next" /\ NoErrors /\ ~irq.avail /\ ~irq.pic
    /\ irq' = NoIrq /\ Goto("isr", "idle")
    /\ UNCHANGED <<queues, engine, ctx, pkt, todo, fresh, stop, flags, fetch>>

-----------------------------------------------------------------------------
(* The device, faults published elsewhere, power management and removal *)

\* External: a plane of a posted list ends, well or with an error.
plane_ends(l, pl, how) ==
    /\ dev[l][pl] \in Pkts
    /\ dev' = [dev EXCEPT ![l][pl] = how]
    /\ UNCHANGED <<queues, lists, index, capture, picq, ctx, actors, flags, fetch>>

\* crystalhd_hw_publish_fault by a failed TX stop or a DDR fault.
publish_fault ==
    /\ ~fault /\ hard < MaxFail /\ pm \in {"run", "stopped", "closing"}
    /\ fault' = TRUE /\ hard' = hard + 1
    /\ UNCHANGED <<queues, engine, ctx, actors, fll, paused, epoch, stamp, fetch>>

\* user_lock is held for writing: no ioctl is inside the driver.
Exclusive == SemFree /\ \A f \in Fetchers : fetch[f].st = "out"

\* crystalhd_suspend: RX is stopped only when capture is enabled.
suspend ==
    /\ Exclusive /\ Running /\ ~fault
    /\ IF cap_en
       THEN stop_capture(FALSE, "suspend") /\ UNCHANGED <<cap_en, fmt_chg, fetch>>
       ELSE /\ pm' = "stopped"
            /\ UNCHANGED <<queues, engine, cap_en, fmt_chg, session, actors, flags, fetch>>

\* chd_dec_disable_int, then chd_dec_clear_master_and_drain proves that no
\* transfer is left; a removal does the same.
clear_master_and_drain ==
    /\ Exclusive /\ IrqIdle
    /\ \/ pm = "stopped" /\ ~fault /\ pm' = "drained"
       \/ pm = "removing" /\ pm' = "quiesced"
    /\ dev' = Idle
    /\ UNCHANGED <<queues, lists, index, capture, picq, cap_en, fmt_chg, session,
                   actors, flags, fetch>>

\* crystalhd_hw_retire_rx_quiesced, the last step of a suspend; a legacy
\* session keeps its registrations (retain_rx_on_suspend).
rx_retire_quiesced ==
    /\ pm = "drained"
    /\ pm' = "suspended"
    /\ \/ detach_rx_owners /\ epoch < MaxEpoch /\ epoch' = epoch + 1
       \/ UNCHANGED <<queues, epoch, stamp>>
    /\ UNCHANGED <<engine, cap_en, fmt_chg, session, actors, fll, paused, fault, hard, fetch>>

\* crystalhd_hw_resume and crystalhd_resume: list state is reset, and only a
\* close is left to the session.
resume ==
    /\ pm = "suspended" /\ ~fault
    /\ pm' = "run" /\ session' = "resume" /\ cap_en' = FALSE /\ fmt_chg' = FALSE
    /\ lists' = [l \in Lists |-> FreeList] /\ index' = 0 /\ capture' = 0
    /\ UNCHANGED <<queues, picq, dev, actors, flags, fetch>>

\* crystalhd_retire_hw_context: the interrupt stays disabled from before the
\* stop until the rings are freed.
release_session ==
    /\ Exclusive /\ pm = "run"
    /\ stop_capture(FALSE, "close")
    /\ UNCHANGED <<cap_en, fmt_chg, fetch>>

\* The registrations are returned only after every engine has stopped; the
\* next open starts from a fresh hardware context.
retire_hw_context ==
    /\ pm = "closing" /\ ~fault
    /\ detach_rx_owners
    /\ pm' = "run" /\ session' = "init" /\ cap_en' = FALSE /\ fmt_chg' = FALSE
    /\ capture' = 0 /\ picq' = FALSE /\ fll' = FALSE /\ paused' = FALSE /\ epoch' = 0
    /\ UNCHANGED <<lists, index, dev, actors, fault, hard, fetch>>

retire_hw_context_failed ==
    /\ pm = "closing" /\ fault
    /\ pm' = "run"
    /\ UNCHANGED <<queues, engine, cap_en, fmt_chg, session, actors, flags, fetch>>

\* chd_dec_pci_remove: ioctls excluded and the interrupt line released.
remove ==
    /\ Exclusive /\ IrqIdle /\ pm \in {"run", "stopped", "drained", "suspended"}
    /\ pm' = "removing"
    /\ UNCHANGED <<queues, engine, cap_en, fmt_chg, session, actors, flags, fetch>>

\* crystalhd_hw_free_dma_rings after proven quiescence.
free_dma_rings ==
    /\ pm = "quiesced"
    /\ pm' = "gone"
    /\ detach_rx_owners
    /\ UNCHANGED <<engine, cap_en, fmt_chg, session, actors, fll, paused, fault, hard, epoch,
                   fetch>>

-----------------------------------------------------------------------------
Post(a) ==
    \/ fetch_free(a) \/ fire_rxdma(a) \/ fire_rxdma_busy(a) \/ fire_rxdma_error(a)
    \/ requeue_busy(a) \/ notify_fll_change(a) \/ post_failed(a)

StopStep ==
    \/ disable_irq \/ stop_rx_dma_engine \/ stop_rx_dma_failed
    \/ drain_release \/ drain_keep \/ drain_faulted

CaptureStep ==
    \/ rx_submit \/ capture_start \/ capture_flush \/ capture_flush_discard
    \/ rx_pause_metadata_idle

FetchStep(f) ==
    \/ rx_dequeue(f) \/ fetch_wait(f) \/ accept_packet_repeat(f) \/ get_cap_buffer(f)
    \/ fetch_timeout(f) \/ try_get_cap_buffer(f) \/ try_complete(f)
    \/ rx_ack_format(f) \/ rx_pause_format(f)

IrqStep ==
    \/ rx_isr_list \/ rx_pkt_complete \/ rx_isr_unlock
    \/ \E l \in Lists : rx_isr_repost(l)
    \/ rx_isr_start_capture \/ handle_PicQSts_intr \/ interrupt_return

PmStep ==
    \/ suspend \/ clear_master_and_drain \/ rx_retire_quiesced \/ resume
    \/ release_session \/ retire_hw_context \/ retire_hw_context_failed
    \/ remove \/ free_dma_rings

DeviceStep ==
    \/ \E l \in Lists, pl \in Planes, how \in {"done", "error"} : plane_ends(l, pl, how)
    \/ \E rx \in BOOLEAN, pic \in BOOLEAN : interrupt(rx, pic)

Next ==
    \/ \E a \in Actors : Post(a)
    \/ StopStep \/ CaptureStep
    \/ \E f \in Fetchers : FetchStep(f)
    \/ IrqStep \/ PmStep \/ DeviceStep \/ publish_fault

\* A handler and a thread that hold a lock keep running.  A thread waiting for
\* rx_lock (a queued spin lock) or for fetch_sem (FIFO) is served although the
\* lock is taken again and again.  Nothing is assumed of the device.
Fairness ==
    /\ WF_vars(IrqStep) /\ WF_vars(Post("isr"))
    /\ SF_vars(Post("proc")) /\ WF_vars(StopStep)
    /\ \A f \in Fetchers : SF_vars(get_cap_buffer(f)) /\ WF_vars(try_complete(f))

Spec == Init /\ [][Next]_vars /\ Fairness

-----------------------------------------------------------------------------
(* Properties *)

\* Every packet of the inventory is in exactly one place: the pool, one queue
\* or one pair of hands.
SingleOwner ==
    \A p \in Pkts :
      Cardinality({x \in {"pool", "freeq", "fallback"} :
                     p \in (CASE x = "pool" -> pool [] x = "freeq" -> freeq
                              [] x = "fallback" -> fallback)})
      + Cardinality({l \in Lists : p \in act[l]})
      + Cardinality({i \in DOMAIN rdyq : rdyq[i] = p})
      + Cardinality({a \in Actors : pkt[a] = p})
      + Cardinality({l \in Lists : irq.err[l] = p})
      + Cardinality({f \in Fetchers : fetch[f].pkt = p}) = 1

\* While the device still writes a plane, the packet it writes into is on
\* rx_actq under that list: it is neither returned nor readable as a picture.
DeviceWritesOwned ==
    \A l \in Lists, pl \in Planes : dev[l][pl] \in Pkts => dev[l][pl] \in act[l]

\* Registrations the driver owns, outside the hands of a submitter.
Owned == Queued \cup {fetch[f].pkt : f \in Fetchers}
                \cup {pkt["isr"]} \cup {irq.err[l] : l \in Lists}
                \cup (IF fresh THEN {} ELSE {pkt["proc"]})

\* Once a fault is published, a registration the driver owns is released only
\* after the terminal proof of quiescence, whoever held it.
FaultRetains ==
    [][fault /\ pm # "quiesced" => \A p \in Owned : p \notin pool']_vars

\* After a destructive stop no queue holds a registration of the cancelled
\* capture.
QueuedAreCurrent ==
    (~fault /\ pm = "run" /\ ~(stop.unmap /\ pc["proc"] \in {"irqoff", "stop", "drain"}))
      => \A p \in Queued : stamp[p] = epoch

\* A free registration is never invisible to firmware: with nobody inside the
\* driver and no error so far, firmware knows that the free list is nonempty.
NotStranded ==
    (Running /\ SemFree /\ IrqIdle /\ ~fault /\ hard = 0) => (FreePkts => fll)

\* fetch_sem is always given back, although interrupts keep arriving and the
\* device may never end a transfer, and no fetcher keeps a packet forever.
HoldersFinish ==
    /\ []<>SemFree
    /\ \A f \in Fetchers : []<>(fetch[f].st # "detached")
=============================================================================
