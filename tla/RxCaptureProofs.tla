-------------------------- MODULE RxCaptureProofs --------------------------
(***************************************************************************)
(* What RxCapture promises for any inventory, any number of fetchers and   *)
(* any set of planes.                                                      *)
(*                                                                         *)
(* The inductive invariant gives every packet one place (PlaceInv), says   *)
(* which program counters hold a packet (HandInv), when the handler and    *)
(* the fetchers are out of the driver (OrderInv), what keeps a written     *)
(* packet on its list (DeviceInv), which registrations belong to the       *)
(* current capture (StampInv) and who still owes firmware the length of    *)
(* the free list (NoticeInv).                                              *)
(***************************************************************************)
EXTENDS RxCapture, FiniteSetTheorems, TLAPS

(* TypeOK, the Boolean variables apart. *)
FlagsOK ==
    /\ picq \in BOOLEAN /\ fll \in BOOLEAN /\ paused \in BOOLEAN /\ fault \in BOOLEAN
    /\ cap_en \in BOOLEAN /\ fmt_chg \in BOOLEAN /\ fresh \in BOOLEAN

QueuesOK ==
    /\ pool \subseteq Pkts /\ freeq \subseteq Pkts /\ fallback \subseteq Pkts
    /\ act \in [Lists -> SUBSET Pkts]
    /\ rdyq \in Seq(Pkts)

DeviceOK ==
    /\ lists \in [Lists -> [Planes -> {"free", "wait", "err"}]]
    /\ index \in Lists /\ capture \in 0..2
    /\ dev \in [Lists -> [Planes -> Pkts \cup {"idle", "done", "error"}]]

CountersOK ==
    /\ hard \in 0..MaxFail /\ epoch \in 0..MaxEpoch /\ stamp \in [Pkts -> 0..MaxEpoch]
    /\ session \in {"init", "resume"}
    /\ pm \in {"run", "stopped", "drained", "suspended", "closing", "removing", "quiesced",
               "gone"}

ActorsOK ==
    /\ pc \in [Actors -> {"idle", "fetch", "post", "busy", "fll", "hard", "try",
                          "irqoff", "stop", "drain", "lists", "complete", "next"}]
    /\ pkt \in [Actors -> Pkts \cup {NoPkt}]
    /\ todo \in [Actors -> 0..2]
    /\ stop \in [unmap : BOOLEAN, after : {"none", "discard", "suspend", "format", "close"}]
    /\ irq \in [list : 0..2, err : [Lists -> Pkts \cup {NoPkt}],
                avail : BOOLEAN, pic : BOOLEAN]

Calls == [st : {"out", "admitted", "detached", "trying", "format"},
          pkt : Pkts \cup {NoPkt}, ep : 0..MaxEpoch]
FetchersOK == fetch \in [Fetchers -> Calls]

(* An actor has a packet in its hands exactly in these states, and fetches   *)
(* another one only while rounds are left.                                   *)
Holding == {"post", "busy", "hard", "try", "complete"}
Stopping == {"irqoff", "stop", "drain"}

HandInv ==
    /\ pc["proc"] \notin {"lists", "complete", "next"}
    /\ pc["isr"] \notin Stopping \cup {"try"}
    /\ \A a \in Actors : pkt[a] # NoPkt <=> pc[a] \in Holding
    /\ \A a \in Actors : pc[a] = "fetch" => todo[a] > 0
    /\ \A f \in Fetchers : fetch[f].pkt # NoPkt <=> fetch[f].st = "detached"

(* The handler carries failed packets of the lists it has been through.      *)
IrqInv ==
    /\ pc["isr"] = "idle" => irq.err = NoIrq.err
    /\ pc["isr"] \in {"lists", "complete"} =>
          \A l \in Lists : irq.list <= l => irq.err[l] = NoPkt
    /\ pc["isr"] = "complete" => irq.list \in Lists

(* Leaving "run" excludes the ioctls, everything past a stop the handler.    *)
OrderInv ==
    /\ pm # "run" => pc["proc"] = "idle"
    /\ pm # "run" \/ (pc["proc"] \in Stopping /\ stop.after \in {"suspend", "close"}) =>
          \A f \in Fetchers : fetch[f].st = "out"
    /\ pm \notin {"run", "stopped"} \/ pc["proc"] \in {"stop", "drain"} => pc["isr"] = "idle"
    /\ pm \in {"drained", "suspended"} => ~fault
    /\ pc["proc"] \in Stopping /\ ~stop.unmap =>
          stop.after \in {"discard", "suspend", "close"}

(* Where a packet is.                                                        *)
Places == {"pool", "freeq", "fallback", "list0", "list1", "ready", "proc", "isr",
           "failed0", "failed1", "fetcher"}

Fetched == {fetch[f].pkt : f \in Fetchers}

Located(at) ==
    \A p \in Pkts :
      /\ p \in pool <=> at[p] = "pool"
      /\ p \in freeq <=> at[p] = "freeq"
      /\ p \in fallback <=> at[p] = "fallback"
      /\ p \in act[0] <=> at[p] = "list0"
      /\ p \in act[1] <=> at[p] = "list1"
      /\ p \in Ready <=> at[p] = "ready"
      /\ pkt["proc"] = p <=> at[p] = "proc"
      /\ pkt["isr"] = p <=> at[p] = "isr"
      /\ irq.err[0] = p <=> at[p] = "failed0"
      /\ irq.err[1] = p <=> at[p] = "failed1"
      /\ p \in Fetched <=> at[p] = "fetcher"

Distinct(s) == \A i, j \in DOMAIN s : s[i] = s[j] => i = j

FetchedOnce ==
    \A f, g \in Fetchers : fetch[f].pkt = fetch[g].pkt /\ fetch[f].pkt # NoPkt => f = g

PlaceInv ==
    /\ \E at \in [Pkts -> Places] : Located(at)
    /\ Distinct(rdyq) /\ FetchedOnce

(* A plane that is written is awaited, and nothing is written once a stop    *)
(* succeeded or bus mastering was drained.                                   *)
Quiet == \A l \in Lists, pl \in Planes : dev[l][pl] \notin Pkts

DeviceInv ==
    /\ \A l \in Lists, pl \in Planes :
          dev[l][pl] \in Pkts => lists[l][pl] = "wait" /\ dev[l][pl] \in act[l]
    /\ (pc["proc"] = "drain" \/ pm = "closing") /\ ~fault => Quiet
    /\ pm \in {"drained", "suspended", "quiesced"} => Quiet

(* Outside a destructive stop, what is queued or carried by an actor belongs *)
(* to the current capture.                                                   *)
Cancelling == stop.unmap /\ pc["proc"] \in Stopping

StampInv ==
    ~fault /\ ~Cancelling =>
      /\ \A p \in Queued : stamp[p] = epoch
      /\ \A a \in Actors : pkt[a] # NoPkt => stamp[pkt[a]] = epoch
      /\ \A l \in Lists : irq.err[l] # NoPkt => stamp[irq.err[l]] = epoch

(* Somebody on the way to publish_fll.                                       *)
NoticeInv ==
    ~fault /\ hard = 0 =>
      /\ \A a \in Actors : pc[a] # "hard"
      /\ Running /\ FreePkts /\ ~fll =>
            \E a \in Actors : pc[a] \in {"fetch", "post", "busy", "fll"}

IInv == /\ FlagsOK /\ QueuesOK /\ DeviceOK /\ CountersOK /\ ActorsOK /\ FetchersOK
        /\ HandInv /\ IrqInv /\ OrderInv /\ PlaceInv /\ DeviceInv /\ StampInv /\ NoticeInv

USE DEF vars, queues, engine, ctx, actors, flags, Lists, Actors

-----------------------------------------------------------------------------
(* The ready queue as a set. *)
LEMMA HeadTaken ==
    ASSUME rdyq \in Seq(Pkts), rdyq # <<>>, Distinct(rdyq), rdyq' = Tail(rdyq)
    PROVE  /\ rdyq' \in Seq(Pkts) /\ Distinct(rdyq')
           /\ Head(rdyq) \in Pkts /\ Head(rdyq) \in Ready /\ Ready' = Ready \ {Head(rdyq)}
<1>1. /\ Len(rdyq) \in Nat \ {0} /\ DOMAIN rdyq = 1 .. Len(rdyq)
      /\ Head(rdyq) = rdyq[1] /\ \A i \in DOMAIN rdyq : rdyq[i] \in Pkts
  OBVIOUS
<1>2. /\ Tail(rdyq) \in Seq(Pkts) /\ DOMAIN Tail(rdyq) = 1 .. Len(rdyq) - 1
      /\ \A i \in 1 .. Len(rdyq) - 1 : Tail(rdyq)[i] = rdyq[i + 1]
  BY <1>1
<1>3. Distinct(rdyq')
  BY <1>1, <1>2 DEF Distinct
<1>4. Ready' \subseteq Ready \ {Head(rdyq)}
  BY <1>1, <1>2 DEF Ready, Distinct
<1>5. ASSUME NEW p \in Ready \ {Head(rdyq)} PROVE p \in Ready'
  <2>1. PICK i \in 2 .. Len(rdyq) : p = rdyq[i]
    BY <1>1 DEF Ready
  <2>2. i - 1 \in 1 .. Len(rdyq) - 1 /\ Tail(rdyq)[i - 1] = p
    BY <1>1, <1>2, <2>1
  <2> QED
    BY <1>2, <2>2 DEF Ready
<1>6. Head(rdyq) \in Ready
  BY <1>1 DEF Ready
<1>7. Ready' = Ready \ {Head(rdyq)}
  BY <1>4, <1>5
<1> QED
  BY <1>1, <1>2, <1>3, <1>6, <1>7

LEMMA Appended ==
    ASSUME rdyq \in Seq(Pkts), Distinct(rdyq), NEW p \in Pkts, p \notin Ready,
           rdyq' = Append(rdyq, p)
    PROVE  rdyq' \in Seq(Pkts) /\ Distinct(rdyq') /\ Ready' = Ready \cup {p}
<1>1. Len(rdyq) \in Nat /\ DOMAIN rdyq = 1 .. Len(rdyq)
  OBVIOUS
<1>2. /\ Append(rdyq, p) \in Seq(Pkts) /\ DOMAIN Append(rdyq, p) = 1 .. Len(rdyq) + 1
      /\ \A i \in 1 .. Len(rdyq) : Append(rdyq, p)[i] = rdyq[i]
      /\ Append(rdyq, p)[Len(rdyq) + 1] = p
  BY <1>1
<1>3. Distinct(rdyq')
  BY <1>1, <1>2 DEF Distinct, Ready
<1> QED
  BY <1>1, <1>2, <1>3 DEF Ready

LEMMA Emptied ==
    ASSUME rdyq' = <<>>
    PROVE  rdyq' \in Seq(Pkts) /\ Distinct(rdyq') /\ Ready' = {}
  BY DEF Distinct, Ready

LEMMA ReadySame ==
    ASSUME rdyq' = rdyq
    PROVE  Ready' = Ready /\ (Distinct(rdyq) => Distinct(rdyq'))
  BY DEF Ready, Distinct

LEMMA FetchedSame ==
    ASSUME \A f \in Fetchers : fetch'[f].pkt = fetch[f].pkt
    PROVE  Fetched' = Fetched /\ (FetchedOnce => FetchedOnce')
  BY DEF Fetched, FetchedOnce

(* What a fetcher's hands show after one call has changed. *)
LEMMA CallDropsPacket ==
    ASSUME FetchersOK, FetchedOnce, NEW f \in Fetchers, NEW c \in Calls, c.pkt = NoPkt,
           fetch' = [fetch EXCEPT ![f] = c]
    PROVE  /\ FetchersOK' /\ FetchedOnce'
           /\ \A p \in Pkts : p \in Fetched' <=> p \in Fetched /\ p # fetch[f].pkt
<1>1. /\ fetch'[f].pkt = NoPkt /\ FetchersOK'
      /\ \A g \in Fetchers : g # f => fetch'[g] = fetch[g]
  BY DEF FetchersOK
<1> QED
  BY <1>1, InventoryAssumption DEF Fetched, FetchedOnce

LEMMA CallTakesPacket ==
    ASSUME FetchersOK, FetchedOnce, NEW f \in Fetchers, NEW c \in Calls, c.pkt \in Pkts,
           c.pkt \notin Fetched, fetch[f].pkt = NoPkt, fetch' = [fetch EXCEPT ![f] = c]
    PROVE  /\ FetchersOK' /\ FetchedOnce'
           /\ \A p \in Pkts : p \in Fetched' <=> p \in Fetched \/ p = c.pkt
<1>1. /\ fetch'[f].pkt = c.pkt /\ FetchersOK'
      /\ \A g \in Fetchers : g # f => fetch'[g] = fetch[g]
  BY DEF FetchersOK
<1> QED
  BY <1>1, InventoryAssumption DEF Fetched, FetchedOnce

(* Nothing that names the place of a packet has changed. *)
LEMMA PlacesSame ==
    ASSUME IInv, UNCHANGED queues, UNCHANGED pkt, irq'.err = irq.err,
           \A f \in Fetchers : fetch'[f].pkt = fetch[f].pkt
    PROVE  PlaceInv'
<1>1. PICK at \in [Pkts -> Places] : Located(at)
  BY DEF IInv, PlaceInv
<1>2. Located(at)'
  BY <1>1, ReadySame, FetchedSame DEF Located
<1> QED
  BY <1>2, ReadySame, FetchedSame DEF IInv, PlaceInv

LEMMA UnchangedKeeps == IInv /\ UNCHANGED vars => IInv'
<1> SUFFICES ASSUME IInv, UNCHANGED vars PROVE IInv'
  OBVIOUS
<1>1. PlaceInv'
  BY PlacesSame
<1>2. /\ FlagsOK' /\ QueuesOK' /\ DeviceOK' /\ CountersOK' /\ ActorsOK' /\ FetchersOK'
      /\ HandInv' /\ IrqInv' /\ OrderInv'
  BY DEF IInv, FlagsOK, QueuesOK, DeviceOK, CountersOK, ActorsOK, FetchersOK, HandInv,
         IrqInv, OrderInv
<1>3. DeviceInv' /\ StampInv' /\ NoticeInv'
  BY DEF IInv, DeviceInv, Quiet, StampInv, Queued, Active, Ready, Cancelling, NoticeInv,
         Running, FreePkts
<1> QED
  BY <1>1, <1>2, <1>3 DEF IInv

(* Every queued packet goes back to the pool. *)
LEMMA DetachKeeps ==
    ASSUME IInv, detach_rx_owners, UNCHANGED <<pkt, irq, fetch>>
    PROVE  PlaceInv' /\ QueuesOK' /\ Queued' = {}
<1>1. PICK at \in [Pkts -> Places] : Located(at)
  BY DEF IInv, PlaceInv
<1>2. /\ freeq' = {} /\ fallback' = {} /\ act' = [l \in Lists |-> {}] /\ rdyq' = <<>>
      /\ pool' = pool \cup Queued
  BY DEF detach_rx_owners, FreePacket
<1>3. Queued \subseteq Pkts /\ Queued = freeq \cup fallback \cup act[0] \cup act[1] \cup Ready
  BY DEF IInv, QueuesOK, Queued, Active, Ready
<1>4. rdyq' \in Seq(Pkts) /\ Distinct(rdyq') /\ Ready' = {}
  BY <1>2, Emptied
<1>5. Fetched' = Fetched /\ FetchedOnce'
  BY FetchedSame DEF IInv, PlaceInv
<1>6. PICK then \in [Pkts -> Places] :
               then = [p \in Pkts |-> IF p \in Queued THEN "pool" ELSE at[p]]
  BY <1>1 DEF Places
<1>7. Located(then)'
  BY <1>1, <1>2, <1>3, <1>4, <1>5, <1>6 DEF Located
<1>8. PlaceInv'
  BY <1>4, <1>5, <1>6, <1>7 DEF PlaceInv
<1>9. QueuesOK'
  BY <1>2, <1>3, <1>4 DEF IInv, QueuesOK
<1> QED
  BY <1>2, <1>4, <1>8, <1>9 DEF Queued, Active

(* crystalhd_hw_complete_rx_locked, whoever holds the packet. *)
LEMMA CompleteKeeps ==
    ASSUME IInv, NEW f \in Fetchers, NEW q \in Pkts, complete_rx(f, q),
           \/ /\ fetch[f].st = "detached" /\ q = fetch[f].pkt
              /\ UNCHANGED <<pc, pkt>>
           \/ /\ fetch[f].st = "trying" /\ pc["proc"] = "try" /\ q = pkt["proc"]
              /\ pkt' = [pkt EXCEPT !["proc"] = NoPkt] /\ Goto("proc", "idle")
    PROVE  QueuesOK' /\ CountersOK' /\ FetchersOK' /\ HandInv' /\ PlaceInv' /\ StampInv'
<1>1. PICK at \in [Pkts -> Places] : Located(at)
  BY DEF IInv, PlaceInv
<1>2. PICK c \in Calls : /\ c.pkt = NoPkt /\ c.st \in {"out", "format"}
                         /\ fetch' = [fetch EXCEPT ![f] = c]
  <2>1. Out \in Calls /\ Out.pkt = NoPkt /\ Out.st = "out"
    BY RxBoundAssumption DEF Out, Calls
  <2> DEFINE marked == [st |-> "format", pkt |-> NoPkt, ep |-> stamp[q]]
  <2>2. marked \in Calls /\ marked.pkt = NoPkt /\ marked.st = "format"
    BY DEF IInv, CountersOK, Calls
  <2>3. fetch' = [fetch EXCEPT ![f] = Out] \/ fetch' = [fetch EXCEPT ![f] = marked]
    BY DEF complete_rx
  <2> QED
    BY <2>1, <2>2, <2>3
<1>3. /\ FetchersOK' /\ FetchedOnce'
      /\ \A p \in Pkts : p \in Fetched' <=> p \in Fetched /\ p # fetch[f].pkt
  BY <1>2, CallDropsPacket DEF IInv, PlaceInv
<1>4. fetch[f].pkt \in {q, NoPkt} /\ pkt["proc"] \in Pkts \cup {NoPkt} /\ NoPkt \notin Pkts
      /\ (fetch[f].pkt = NoPkt => pkt["proc"] = q)
  BY InventoryAssumption DEF IInv, ActorsOK, FetchersOK, Calls, HandInv, Holding
<1>5. /\ UNCHANGED <<freeq, act, rdyq, irq, epoch, hard, session, pm, stop, todo, fault>>
      /\ \/ fault /\ fallback' = fallback \cup {q} /\ UNCHANGED <<pool, stamp>>
         \/ /\ ~fault /\ pool' = pool \cup {q} /\ UNCHANGED fallback
            /\ stamp' = [p \in Pkts |-> IF p \in {q} THEN 0 ELSE stamp[p]]
  BY DEF complete_rx, FreePacket
<1>6. /\ pkt'["isr"] = pkt["isr"] /\ pkt'["proc"] \in {pkt["proc"], NoPkt}
      /\ pkt'["proc"] # q /\ (pkt["proc"] # q => pkt'["proc"] = pkt["proc"])
  BY <1>1, <1>4 DEF IInv, ActorsOK, Located, Fetched
<1>7. PICK then \in [Pkts -> Places] :
               then = [at EXCEPT ![q] = IF fault THEN "fallback" ELSE "pool"]
  BY DEF Places
<1>8. at[q] \in {"fetcher", "proc"}
  BY <1>1, <1>4 DEF Located, Fetched
<1>9. Located(then)'
  BY <1>1, <1>3, <1>4, <1>5, <1>6, <1>7, <1>8, ReadySame DEF Located
<1>10. PlaceInv'
  BY <1>3, <1>5, <1>9, ReadySame DEF IInv, PlaceInv
<1>11. QueuesOK' /\ CountersOK'
  BY <1>5, RxBoundAssumption DEF IInv, QueuesOK, CountersOK
<1>12. HandInv'
  <2>1. fetch'[f] = c /\ \A g \in Fetchers : g # f => fetch'[g] = fetch[g]
    BY <1>2 DEF IInv, FetchersOK
  <2> QED
    BY <1>2, <1>5, <2>1 DEF IInv, HandInv, Holding, Stopping, ActorsOK, Goto
<1>13. StampInv'
  <2>1. Queued = freeq \cup fallback \cup act[0] \cup act[1] \cup Ready /\ Ready' = Ready
        /\ Queued' = freeq \cup fallback' \cup act[0] \cup act[1] \cup Ready
    BY <1>5, ReadySame DEF Queued, Active
  <2>2. Queued \subseteq Pkts
    BY DEF IInv, QueuesOK, Queued, Active, Ready
  <2>3. /\ \A p \in Queued : p # q
        /\ pkt["isr"] # q /\ \A l \in Lists : irq.err[l] # q
    BY <1>1, <1>8, <2>1, <2>2 DEF Located
  <2>4. Cancelling' <=> Cancelling
    BY <1>5 DEF IInv, ActorsOK, Cancelling, Stopping, Goto
  <2> QED
    BY <1>4, <1>5, <1>6, <2>1, <2>2, <2>3, <2>4 DEF IInv, ActorsOK, StampInv
<1> QED
  BY <1>3, <1>10, <1>11, <1>12, <1>13

LEMMA Keeps_fetch_free ==
    ASSUME IInv, NEW a \in Actors, fetch_free(a)
    PROVE  IInv'
<1>1. FlagsOK' /\ QueuesOK' /\ DeviceOK' /\ CountersOK' /\ FetchersOK'
  BY RxBoundAssumption
     DEF IInv, FlagsOK, QueuesOK, DeviceOK, CountersOK, FetchersOK, Calls,
         fetch_free, Goto, Return, Base
<1>2. /\ ActorsOK' /\ HandInv' /\ IrqInv' /\ OrderInv'
      /\ DeviceInv' /\ StampInv' /\ NoticeInv'
  BY InventoryAssumption
     DEF IInv, ActorsOK, QueuesOK, HandInv, NoIrq, NoStop, Holding, Stopping,
         FetchersOK, Out, IrqInv, OrderInv, DeviceInv, Quiet, DeviceOK,
         FreeList, IdleList, Idle, StampInv, Queued, Active, Ready, Cancelling,
         CountersOK, NoticeInv, Running, FreePkts, fetch_free, Goto, Return,
         Base
<1>3. PlaceInv'
  <2>1. CASE UNCHANGED <<freeq, fallback, pkt>>
    BY <2>1, PlacesSame DEF fetch_free
  <2>2. ASSUME NEW p \in freeq \cup fallback, pkt' = [pkt EXCEPT ![a] = p],
               \/ freeq' = freeq \ {p} /\ p \in freeq /\ UNCHANGED fallback
               \/ fallback' = fallback \ {p} /\ p \in fallback /\ UNCHANGED freeq
        PROVE  PlaceInv'
    <3>1. PICK at \in [Pkts -> Places] : Located(at)
      BY DEF IInv, PlaceInv
    <3>2. p \in Pkts /\ pkt[a] = NoPkt /\ NoPkt \notin Pkts
      BY InventoryAssumption DEF IInv, QueuesOK, HandInv, Holding, fetch_free
    <3>3. Located([at EXCEPT ![p] = a])'
      BY <2>2, <3>1, <3>2, ReadySame, FetchedSame
         DEF IInv, ActorsOK, Located, fetch_free
    <3>4. [at EXCEPT ![p] = a] \in [Pkts -> Places]
      BY DEF Places
    <3> QED
      BY <3>3, <3>4, ReadySame, FetchedSame DEF IInv, PlaceInv, fetch_free
  <2> QED
    BY <2>1, <2>2 DEF fetch_free
<1> QED
  BY <1>1, <1>2, <1>3 DEF IInv

LEMMA Keeps_fire_rxdma ==
    ASSUME IInv, NEW a \in Actors, fire_rxdma(a)
    PROVE  IInv'
<1>1. FlagsOK'
  BY DEF IInv, FlagsOK, fire_rxdma, Goto
<1>2. QueuesOK'
  <2>1. pkt[a] \in Pkts /\ index \in Lists
    BY InventoryAssumption DEF IInv, ActorsOK, DeviceOK, HandInv, Holding, fire_rxdma
  <2> QED
    BY <2>1 DEF IInv, QueuesOK, fire_rxdma
<1>3. DeviceOK'
  <2>1. pkt[a] \in Pkts /\ index \in Lists
    BY InventoryAssumption DEF IInv, ActorsOK, DeviceOK, HandInv, Holding, fire_rxdma
  <2>2. dev' \in [Lists -> [Planes -> Pkts \cup {"idle", "done", "error"}]]
    BY <2>1 DEF IInv, DeviceOK, fire_rxdma
  <2>3. lists' \in [Lists -> [Planes -> {"free", "wait", "err"}]]
    BY <2>1 DEF IInv, DeviceOK, fire_rxdma
  <2> QED
    BY <2>1, <2>2, <2>3 DEF IInv, DeviceOK, fire_rxdma
<1>4. CountersOK' /\ ActorsOK' /\ FetchersOK'
  BY RxBoundAssumption
     DEF IInv, CountersOK, ActorsOK, FetchersOK, Calls, fire_rxdma, Goto
<1>5. HandInv' /\ DeviceInv'
  BY InventoryAssumption
     DEF IInv, HandInv, Holding, Stopping, ActorsOK, QueuesOK, FetchersOK, Out,
         DeviceInv, Quiet, FreeList, DeviceOK, OrderInv, IdleList, Idle,
         fire_rxdma, Goto
<1>6. IrqInv' /\ OrderInv' /\ NoticeInv'
  BY DEF IInv, IrqInv, OrderInv, Stopping, NoticeInv, Running, FreePkts,
         fire_rxdma, Goto
<1>7. PlaceInv'
  <2>1. PICK at \in [Pkts -> Places] : Located(at)
    BY DEF IInv, PlaceInv
  <2>2. PICK x \in {"list0", "list1"} : x = "list0" <=> index = 0
    OBVIOUS
  <2>3. pkt[a] \in Pkts /\ NoPkt \notin Pkts /\ index \in Lists
    BY InventoryAssumption DEF IInv, ActorsOK, DeviceOK, HandInv, Holding, fire_rxdma
  <2>4. PICK then \in [Pkts -> Places] : then = [at EXCEPT ![pkt[a]] = x]
    BY DEF Places
  <2>5. Located(then)'
    BY <2>1, <2>2, <2>3, <2>4, ReadySame, FetchedSame
       DEF IInv, ActorsOK, QueuesOK, Located, fire_rxdma
  <2> QED
    BY <2>5, ReadySame, FetchedSame DEF IInv, PlaceInv, fire_rxdma
<1>8. StampInv'
  BY InventoryAssumption
     DEF IInv, StampInv, Queued, Active, Ready, Cancelling, Stopping, NoIrq,
         NoStop, QueuesOK, ActorsOK, HandInv, CountersOK, RxLockFree, FreeList,
         Goto, OrderInv, IrqInv, Holding, fire_rxdma
<1> QED
  BY <1>1, <1>2, <1>3, <1>4, <1>5, <1>6, <1>7, <1>8 DEF IInv

LEMMA Keeps_fire_rxdma_busy ==
    ASSUME IInv, NEW a \in Actors, fire_rxdma_busy(a)
    PROVE  IInv'
<1>1. /\ FlagsOK' /\ QueuesOK' /\ DeviceOK' /\ CountersOK'
      /\ ActorsOK' /\ FetchersOK' /\ HandInv' /\ IrqInv'
      /\ OrderInv' /\ DeviceInv' /\ StampInv' /\ NoticeInv'
  BY RxBoundAssumption
     DEF IInv, FlagsOK, QueuesOK, DeviceOK, FreeList, CountersOK, ActorsOK,
         FetchersOK, Calls, HandInv, Holding, Stopping, IrqInv, OrderInv,
         DeviceInv, Quiet, StampInv, Queued, Active, Ready, Cancelling, NoIrq,
         NoStop, NoticeInv, Running, FreePkts, fire_rxdma_busy, Goto
<1>2. PlaceInv'
  BY PlacesSame DEF IInv, FetchersOK, ActorsOK, Calls, fire_rxdma_busy, Goto
<1> QED
  BY <1>1, <1>2 DEF IInv

LEMMA Keeps_fire_rxdma_error ==
    ASSUME IInv, NEW a \in Actors, fire_rxdma_error(a)
    PROVE  IInv'
<1>1. /\ FlagsOK' /\ QueuesOK' /\ DeviceOK' /\ CountersOK'
      /\ ActorsOK' /\ FetchersOK'
  BY RxBoundAssumption
     DEF IInv, FlagsOK, QueuesOK, DeviceOK, FreeList, CountersOK, ActorsOK,
         FetchersOK, Calls, fire_rxdma_error, Goto
<1>2. HandInv' /\ IrqInv' /\ OrderInv' /\ DeviceInv' /\ StampInv'
  BY DEF IInv, HandInv, Holding, Stopping, IrqInv, OrderInv, DeviceInv, Quiet,
         FreeList, StampInv, Queued, Active, Ready, Cancelling, NoIrq, NoStop,
         fire_rxdma_error, Goto
<1>3. PlaceInv'
  BY PlacesSame DEF IInv, FetchersOK, ActorsOK, Calls, fire_rxdma_error, Goto
<1>4. NoticeInv'
  BY InventoryAssumption
     DEF IInv, NoticeInv, Running, FreePkts, ActorsOK, HandInv, CountersOK,
         fire_rxdma_error, Goto
<1> QED
  BY <1>1, <1>2, <1>3, <1>4 DEF IInv

LEMMA Keeps_requeue_busy ==
    ASSUME IInv, NEW a \in Actors, requeue_busy(a)
    PROVE  IInv'
<1>1. FlagsOK' /\ DeviceOK' /\ CountersOK' /\ ActorsOK' /\ FetchersOK'
  BY RxBoundAssumption
     DEF IInv, FlagsOK, DeviceOK, CountersOK, ActorsOK, FetchersOK, Calls,
         requeue_busy, Goto
<1>2. QueuesOK'
  BY InventoryAssumption
     DEF IInv, QueuesOK, ActorsOK, FetchersOK, HandInv, Goto, OrderInv, IrqInv,
         Holding, Stopping, requeue_busy
<1>3. HandInv' /\ IrqInv' /\ OrderInv' /\ DeviceInv' /\ NoticeInv'
  BY InventoryAssumption
     DEF IInv, HandInv, Holding, Stopping, ActorsOK, QueuesOK, FetchersOK, Out,
         IrqInv, NoIrq, OrderInv, NoStop, DeviceInv, Quiet, DeviceOK, FreeList,
         IdleList, Idle, NoticeInv, Running, FreePkts, CountersOK, requeue_busy,
         Goto
<1>4. PlaceInv'
  <2>1. CASE UNCHANGED <<freeq, pkt>>
    BY <2>1, PlacesSame DEF requeue_busy
  <2>2. CASE freeq' = freeq \cup {pkt[a]} /\ pkt' = [pkt EXCEPT ![a] = NoPkt]
    <3>1. PICK at \in [Pkts -> Places] : Located(at)
      BY DEF IInv, PlaceInv
    <3>2. pkt[a] \in Pkts /\ NoPkt \notin Pkts
      BY InventoryAssumption DEF IInv, ActorsOK, HandInv, Holding, requeue_busy
    <3>3. PICK then \in [Pkts -> Places] : then = [at EXCEPT ![pkt[a]] = "freeq"]
      BY DEF Places
    <3>4. Located(then)'
      BY <2>2, <3>1, <3>2, <3>3, ReadySame, FetchedSame
         DEF IInv, ActorsOK, Located, requeue_busy
    <3> QED
      BY <3>4, ReadySame, FetchedSame DEF IInv, PlaceInv, requeue_busy
  <2> QED
    BY <2>1, <2>2 DEF requeue_busy
<1>5. StampInv'
  BY InventoryAssumption
     DEF IInv, StampInv, Queued, Active, Ready, Cancelling, Stopping, NoIrq,
         NoStop, QueuesOK, ActorsOK, HandInv, CountersOK, Goto, OrderInv,
         IrqInv, Holding, requeue_busy
<1> QED
  BY <1>1, <1>2, <1>3, <1>4, <1>5 DEF IInv

LEMMA Keeps_notify_fll_change ==
    ASSUME IInv, NEW a \in Actors, notify_fll_change(a)
    PROVE  IInv'
<1>1. FlagsOK'
  BY InventoryAssumption
     DEF IInv, FlagsOK, FreePkts, Return, Goto, Base, OrderInv, IrqInv, Holding,
         Stopping, notify_fll_change
<1>2. QueuesOK' /\ DeviceOK' /\ CountersOK' /\ ActorsOK' /\ FetchersOK'
  BY RxBoundAssumption
     DEF IInv, QueuesOK, DeviceOK, CountersOK, ActorsOK, FetchersOK, Calls,
         notify_fll_change, Return, Goto, Base
<1>3. HandInv' /\ IrqInv' /\ OrderInv' /\ DeviceInv' /\ StampInv'
  BY InventoryAssumption
     DEF IInv, HandInv, Holding, Stopping, ActorsOK, QueuesOK, FetchersOK, Out,
         IrqInv, NoIrq, OrderInv, NoStop, DeviceInv, Quiet, DeviceOK, FreeList,
         IdleList, Idle, StampInv, Queued, Active, Ready, Cancelling,
         CountersOK, notify_fll_change, Return, Goto, Base
<1>4. PlaceInv'
  BY PlacesSame
     DEF IInv, FetchersOK, ActorsOK, Calls, notify_fll_change, Return, Goto,
         Base
<1>5. NoticeInv'
  <2>1. ~fault => fll' = FreePkts
    BY DEF notify_fll_change
  <2>2. FreePkts' = FreePkts
    BY DEF notify_fll_change, FreePkts
  <2>3. \A b \in Actors : pc'[b] = "hard" => pc[b] = "hard"
    BY DEF IInv, ActorsOK, notify_fll_change, Return, Goto, Base
  <2> QED
    BY <2>1, <2>2, <2>3 DEF IInv, NoticeInv, Running, notify_fll_change
<1> QED
  BY <1>1, <1>2, <1>3, <1>4, <1>5 DEF IInv

LEMMA Keeps_post_failed ==
    ASSUME IInv, NEW a \in Actors, post_failed(a)
    PROVE  IInv'
<1>1. FlagsOK'
  BY InventoryAssumption
     DEF IInv, FlagsOK, FreePacket, Keep, FreePkts, Return, Goto, Base,
         OrderInv, IrqInv, Holding, Stopping, post_failed
<1>2. QueuesOK'
  BY InventoryAssumption
     DEF IInv, QueuesOK, ActorsOK, FetchersOK, HandInv, FreePacket, Keep,
         FreePkts, Return, Goto, Base, OrderInv, IrqInv, Holding, Stopping,
         post_failed
<1>3. DeviceOK' /\ CountersOK' /\ ActorsOK' /\ FetchersOK'
  BY RxBoundAssumption
     DEF IInv, DeviceOK, CountersOK, ActorsOK, FetchersOK, Calls, post_failed,
         FreePacket, Keep, Return, Goto, Base
<1>4. HandInv' /\ IrqInv' /\ OrderInv' /\ DeviceInv' /\ NoticeInv'
  BY InventoryAssumption
     DEF IInv, HandInv, Holding, Stopping, ActorsOK, QueuesOK, FetchersOK, Out,
         IrqInv, NoIrq, OrderInv, NoStop, DeviceInv, Quiet, DeviceOK, FreeList,
         IdleList, Idle, NoticeInv, Running, FreePkts, CountersOK, post_failed,
         FreePacket, Keep, Return, Goto, Base
<1>5. PlaceInv'
  <2>1. PICK at \in [Pkts -> Places] : Located(at)
    BY DEF IInv, PlaceInv
  <2>2. pkt[a] \in Pkts /\ NoPkt \notin Pkts
    BY InventoryAssumption DEF IInv, ActorsOK, HandInv, Holding, post_failed
  <2>3. /\ pkt' = [pkt EXCEPT ![a] = NoPkt] /\ UNCHANGED <<act, rdyq, irq, fetch>>
        /\ \/ pool' = pool \cup {pkt[a]} /\ UNCHANGED <<freeq, fallback>>
           \/ freeq' = freeq \cup {pkt[a]} /\ UNCHANGED <<pool, fallback>>
           \/ fallback' = fallback \cup {pkt[a]} /\ UNCHANGED <<pool, freeq>>
    BY DEF post_failed, Keep, FreePacket
  <2>4. CASE pool' = pool \cup {pkt[a]} /\ UNCHANGED <<freeq, fallback>>
    <3>1. PICK then \in [Pkts -> Places] : then = [at EXCEPT ![pkt[a]] = "pool"]
      BY DEF Places
    <3>2. Located(then)'
      BY <2>1, <2>2, <2>3, <2>4, <3>1, ReadySame, FetchedSame DEF IInv, ActorsOK, Located
    <3> QED
      BY <2>3, <3>2, ReadySame, FetchedSame DEF IInv, PlaceInv
  <2>5. CASE freeq' = freeq \cup {pkt[a]} /\ UNCHANGED <<pool, fallback>>
    <3>1. PICK then \in [Pkts -> Places] : then = [at EXCEPT ![pkt[a]] = "freeq"]
      BY DEF Places
    <3>2. Located(then)'
      BY <2>1, <2>2, <2>3, <2>5, <3>1, ReadySame, FetchedSame DEF IInv, ActorsOK, Located
    <3> QED
      BY <2>3, <3>2, ReadySame, FetchedSame DEF IInv, PlaceInv
  <2>6. CASE fallback' = fallback \cup {pkt[a]} /\ UNCHANGED <<pool, freeq>>
    <3>1. PICK then \in [Pkts -> Places] : then = [at EXCEPT ![pkt[a]] = "fallback"]
      BY DEF Places
    <3>2. Located(then)'
      BY <2>1, <2>2, <2>3, <2>6, <3>1, ReadySame, FetchedSame DEF IInv, ActorsOK, Located
    <3> QED
      BY <2>3, <3>2, ReadySame, FetchedSame DEF IInv, PlaceInv
  <2> QED
    BY <2>3, <2>4, <2>5, <2>6
<1>6. StampInv'
  <2>1. CASE fault
    BY <2>1 DEF StampInv, post_failed
  <2>2. CASE ~fault
    <3>1. PICK at \in [Pkts -> Places] : Located(at)
      BY DEF IInv, PlaceInv
    <3>2. pkt[a] \in Pkts /\ NoPkt \notin Pkts /\ pc[a] = "hard"
      BY InventoryAssumption DEF IInv, ActorsOK, HandInv, Holding, post_failed
    <3>3. /\ pkt' = [pkt EXCEPT ![a] = NoPkt] /\ UNCHANGED <<act, rdyq, irq, epoch, fault, stop>>
          /\ \/ /\ stamp' = [p \in Pkts |-> IF p \in {pkt[a]} THEN 0 ELSE stamp[p]]
                /\ UNCHANGED <<freeq, fallback>>
             \/ freeq' = freeq \cup {pkt[a]} /\ UNCHANGED <<stamp, fallback>>
             \/ fallback' = fallback \cup {pkt[a]} /\ UNCHANGED <<stamp, freeq>>
      BY DEF post_failed, Keep, FreePacket
    <3>4. Cancelling' <=> Cancelling
      BY <3>2, <3>3 DEF IInv, ActorsOK, HandInv, Cancelling, Stopping, post_failed, Return,
                        Goto, Base
    <3>5. Queued = freeq \cup fallback \cup act[0] \cup act[1] \cup Ready /\ Ready' = Ready
          /\ Queued' = freeq' \cup fallback' \cup act[0] \cup act[1] \cup Ready
      BY <3>3, ReadySame DEF Queued, Active
    <3>6. Queued \subseteq Pkts
      BY DEF IInv, QueuesOK, Queued, Active, Ready
    <3>7. \A p \in Queued : p # pkt[a]
      BY <3>1, <3>2, <3>5, <3>6 DEF Located
    <3>8. /\ \A b \in Actors : b # a => pkt[b] # pkt[a]
          /\ \A l \in Lists : irq.err[l] # pkt[a]
      BY <3>1, <3>2 DEF Located
    <3> QED
      BY <2>2, <3>2, <3>3, <3>4, <3>5, <3>6, <3>7, <3>8 DEF IInv, ActorsOK, StampInv
  <2> QED
    BY <2>1, <2>2
<1> QED
  BY <1>1, <1>2, <1>3, <1>4, <1>5, <1>6 DEF IInv

LEMMA Keeps_disable_irq == ASSUME IInv, disable_irq PROVE IInv'
<1>1. /\ FlagsOK' /\ QueuesOK' /\ DeviceOK' /\ CountersOK'
      /\ ActorsOK' /\ FetchersOK' /\ HandInv' /\ IrqInv'
      /\ OrderInv' /\ DeviceInv' /\ StampInv' /\ NoticeInv'
  BY RxBoundAssumption
     DEF IInv, FlagsOK, QueuesOK, DeviceOK, CountersOK, ActorsOK, FetchersOK,
         Calls, HandInv, Holding, Stopping, IrqInv, OrderInv, DeviceInv, Quiet,
         StampInv, Queued, Active, Ready, Cancelling, NoIrq, NoStop, NoticeInv,
         Running, FreePkts, disable_irq, IrqIdle, Goto
<1>2. PlaceInv'
  BY PlacesSame
     DEF IInv, FetchersOK, ActorsOK, Calls, disable_irq, IrqIdle, Goto
<1> QED
  BY <1>1, <1>2 DEF IInv

LEMMA Keeps_stop_rx_dma_engine == ASSUME IInv, stop_rx_dma_engine PROVE IInv'
<1>1. /\ FlagsOK' /\ QueuesOK' /\ DeviceOK' /\ CountersOK'
      /\ ActorsOK' /\ FetchersOK' /\ HandInv' /\ IrqInv'
      /\ OrderInv' /\ StampInv' /\ NoticeInv'
  BY RxBoundAssumption
     DEF IInv, FlagsOK, QueuesOK, DeviceOK, FreeList, CountersOK, ActorsOK,
         FetchersOK, Calls, HandInv, Holding, Stopping, IrqInv, OrderInv,
         StampInv, Queued, Active, Ready, Cancelling, NoIrq, NoStop, NoticeInv,
         Running, FreePkts, stop_rx_dma_engine, Acknowledge, Goto
<1>2. PlaceInv'
  BY PlacesSame
     DEF IInv, FetchersOK, ActorsOK, Calls, stop_rx_dma_engine, Acknowledge,
         Goto
<1>3. DeviceInv'
  BY InventoryAssumption
     DEF IInv, DeviceInv, Quiet, FreeList, DeviceOK, QueuesOK, HandInv,
         OrderInv, ActorsOK, IdleList, Idle, AllFree, Drained, Acknowledge,
         Goto, Finished, IrqInv, Holding, Stopping, stop_rx_dma_engine
<1> QED
  BY <1>1, <1>2, <1>3 DEF IInv

LEMMA Keeps_stop_rx_dma_failed == ASSUME IInv, stop_rx_dma_failed PROVE IInv'
<1>1. /\ FlagsOK' /\ QueuesOK' /\ DeviceOK' /\ CountersOK'
      /\ ActorsOK' /\ FetchersOK' /\ HandInv' /\ IrqInv'
      /\ OrderInv' /\ StampInv' /\ NoticeInv'
  BY RxBoundAssumption
     DEF IInv, FlagsOK, QueuesOK, DeviceOK, FreeList, CountersOK, ActorsOK,
         FetchersOK, Calls, HandInv, Holding, Stopping, IrqInv, OrderInv,
         StampInv, Queued, Active, Ready, Cancelling, NoIrq, NoStop, NoticeInv,
         Running, FreePkts, stop_rx_dma_failed, Acknowledge, Goto
<1>2. PlaceInv'
  BY PlacesSame
     DEF IInv, FetchersOK, ActorsOK, Calls, stop_rx_dma_failed, Acknowledge,
         Goto
<1>3. DeviceInv'
  BY InventoryAssumption
     DEF IInv, DeviceInv, Quiet, FreeList, DeviceOK, QueuesOK, HandInv,
         OrderInv, ActorsOK, IdleList, Idle, stop_rx_dma_failed, Acknowledge,
         Goto
<1> QED
  BY <1>1, <1>2, <1>3 DEF IInv

LEMMA Keeps_drain_release == ASSUME IInv, drain_release PROVE IInv'
<1>1. FlagsOK'
  BY DEF IInv, FlagsOK, drain_release, detach_rx_owners, AfterStop, FreePacket,
         Goto
<1>2. QueuesOK'
  BY DetachKeeps DEF drain_release
<1>3. DeviceOK'
  BY DEF IInv, DeviceOK, drain_release, detach_rx_owners, AfterStop, FreePacket,
         Goto
<1>4. CountersOK'
  BY RxBoundAssumption
     DEF IInv, CountersOK, drain_release, detach_rx_owners, AfterStop,
         FreePacket, Goto
<1>5. ActorsOK'
  BY DEF IInv, ActorsOK, NoStop, drain_release, detach_rx_owners, AfterStop,
         FreePacket, Goto
<1>6. FetchersOK'
  BY RxBoundAssumption
     DEF IInv, FetchersOK, Calls, drain_release, detach_rx_owners, AfterStop,
         FreePacket, Goto
<1>7. HandInv' /\ IrqInv' /\ OrderInv' /\ NoticeInv'
  BY InventoryAssumption
     DEF IInv, HandInv, Holding, Stopping, ActorsOK, QueuesOK, FetchersOK, Out,
         IrqInv, NoIrq, OrderInv, NoStop, NoticeInv, Running, FreePkts,
         CountersOK, drain_release, detach_rx_owners, AfterStop, FreePacket,
         Goto
<1>8. PlaceInv'
  BY DetachKeeps DEF drain_release
<1>9. DeviceInv'
  BY DEF IInv, DeviceInv, Quiet, drain_release, detach_rx_owners, AfterStop,
         FreePacket, Goto
<1>10. StampInv'
  BY InventoryAssumption
     DEF IInv, StampInv, Queued, Active, Ready, Cancelling, Stopping, NoIrq,
         NoStop, QueuesOK, ActorsOK, HandInv, CountersOK, detach_rx_owners,
         AfterStop, FreePacket, Goto, OrderInv, IrqInv, Holding, drain_release
<1> QED
  BY <1>1, <1>2, <1>3, <1>4, <1>5, <1>6, <1>7, <1>8, <1>9, <1>10 DEF IInv

LEMMA Keeps_drain_keep == ASSUME IInv, drain_keep PROVE IInv'
<1>1. FlagsOK'
  BY DEF IInv, FlagsOK, drain_keep, AfterStop, Goto
<1>2. QueuesOK'
  BY DEF IInv, QueuesOK, drain_keep, AfterStop, Goto
<1>3. DeviceOK'
  BY DEF IInv, DeviceOK, drain_keep, AfterStop, Goto
<1>4. CountersOK'
  BY RxBoundAssumption DEF IInv, CountersOK, drain_keep, AfterStop, Goto
<1>5. ActorsOK'
  BY DEF IInv, ActorsOK, NoStop, drain_keep, AfterStop, Goto
<1>6. FetchersOK'
  BY RxBoundAssumption DEF IInv, FetchersOK, Calls, drain_keep, AfterStop, Goto
<1>7. HandInv' /\ IrqInv' /\ OrderInv'
  BY InventoryAssumption
     DEF IInv, HandInv, Holding, Stopping, ActorsOK, QueuesOK, FetchersOK, Out,
         IrqInv, NoIrq, OrderInv, NoStop, drain_keep, AfterStop, Goto
<1>8. PlaceInv'
  <2>1. PICK at \in [Pkts -> Places] : Located(at)
    BY DEF IInv, PlaceInv
  <2>2. PICK k \in SUBSET (Active \cup Ready) :
               /\ freeq' = freeq \cup ((Active \cup Ready) \ k)
               /\ fallback' = fallback \cup k
    BY DEF drain_keep
  <2>3. Active = act[0] \cup act[1] /\ Active \cup Ready \subseteq Pkts
    BY DEF IInv, QueuesOK, Active, Ready
  <2>4. Distinct(rdyq') /\ Ready' = {}
    BY Emptied DEF drain_keep
  <2>5. PICK then \in [Pkts -> Places] :
               then = [p \in Pkts |-> IF p \in k THEN "fallback"
                                      ELSE IF p \in Active \cup Ready THEN "freeq" ELSE at[p]]
    BY DEF Places
  <2>6. Located(then)'
    BY <2>1, <2>2, <2>3, <2>4, <2>5, FetchedSame DEF Located, drain_keep, AfterStop
  <2> QED
    BY <2>4, <2>6, FetchedSame DEF IInv, PlaceInv, drain_keep
<1>9. DeviceInv' /\ StampInv'
  BY DEF IInv, DeviceInv, Quiet, StampInv, Queued, Active, Ready, Cancelling,
         Stopping, NoIrq, NoStop, drain_keep, AfterStop, Goto
<1>10. NoticeInv'
  BY InventoryAssumption
     DEF IInv, NoticeInv, Running, FreePkts, ActorsOK, HandInv, CountersOK,
         Active, Ready, AfterStop, NoStop, Goto, OrderInv, IrqInv, Holding,
         Stopping, drain_keep
<1> QED
  BY <1>1, <1>2, <1>3, <1>4, <1>5, <1>6, <1>7, <1>8, <1>9, <1>10 DEF IInv

LEMMA Keeps_drain_faulted == ASSUME IInv, drain_faulted PROVE IInv'
<1>1. /\ FlagsOK' /\ QueuesOK' /\ DeviceOK' /\ CountersOK'
      /\ ActorsOK' /\ FetchersOK' /\ HandInv' /\ IrqInv'
      /\ DeviceInv' /\ StampInv' /\ NoticeInv'
  BY RxBoundAssumption
     DEF IInv, FlagsOK, QueuesOK, DeviceOK, CountersOK, ActorsOK, NoStop,
         FetchersOK, Calls, HandInv, Holding, Stopping, IrqInv, DeviceInv,
         Quiet, StampInv, Queued, Active, Ready, Cancelling, NoIrq, NoticeInv,
         Running, FreePkts, drain_faulted, Goto
<1>2. OrderInv'
  BY InventoryAssumption
     DEF IInv, OrderInv, Stopping, NoStop, ActorsOK, FetchersOK, HandInv, Out,
         drain_faulted, Goto
<1>3. PlaceInv'
  BY PlacesSame DEF IInv, FetchersOK, ActorsOK, Calls, drain_faulted, Goto
<1> QED
  BY <1>1, <1>2, <1>3 DEF IInv

LEMMA Keeps_rx_submit == ASSUME IInv, rx_submit PROVE IInv'
<1>1. FlagsOK' /\ QueuesOK' /\ DeviceOK' /\ FetchersOK'
  BY RxBoundAssumption
     DEF IInv, FlagsOK, QueuesOK, DeviceOK, FetchersOK, Calls, rx_submit,
         SemFree, Running, Goto
<1>2. CountersOK'
  <2>1. stamp' \in [Pkts -> 0..MaxEpoch]
    BY DEF IInv, CountersOK, rx_submit
  <2>2. hard' \in 0..MaxFail
    BY RxBoundAssumption DEF IInv, CountersOK, rx_submit
  <2> QED
    BY <2>1, <2>2 DEF IInv, CountersOK, rx_submit
<1>3. /\ ActorsOK' /\ HandInv' /\ IrqInv' /\ OrderInv'
      /\ DeviceInv' /\ StampInv' /\ NoticeInv'
  BY InventoryAssumption
     DEF IInv, ActorsOK, QueuesOK, HandInv, NoIrq, NoStop, Holding, Stopping,
         FetchersOK, Out, IrqInv, OrderInv, DeviceInv, Quiet, DeviceOK,
         FreeList, IdleList, Idle, StampInv, Queued, Active, Ready, Cancelling,
         CountersOK, NoticeInv, Running, FreePkts, rx_submit, SemFree, Goto
<1>4. PlaceInv'
  <2>1. PICK at \in [Pkts -> Places] : Located(at)
    BY DEF IInv, PlaceInv
  <2>2. PICK q \in pool : /\ pool' = pool \ {q}
                          /\ \/ pkt' = [pkt EXCEPT !["proc"] = q] /\ UNCHANGED freeq
                             \/ freeq' = freeq \cup {q} /\ UNCHANGED pkt
    BY DEF rx_submit
  <2>3. q \in Pkts /\ pkt["proc"] = NoPkt /\ NoPkt \notin Pkts
    BY InventoryAssumption DEF IInv, QueuesOK, HandInv, Holding, rx_submit, SemFree
  <2>4. PICK then \in [Pkts -> Places] :
                 then = [at EXCEPT ![q] = IF pkt' = pkt THEN "freeq" ELSE "proc"]
    BY DEF Places
  <2>5. Located(then)'
    BY <2>1, <2>2, <2>3, <2>4, ReadySame, FetchedSame DEF IInv, ActorsOK, Located, rx_submit
  <2> QED
    BY <2>5, ReadySame, FetchedSame DEF IInv, PlaceInv, rx_submit
<1> QED
  BY <1>1, <1>2, <1>3, <1>4 DEF IInv

LEMMA Keeps_capture_start == ASSUME IInv, capture_start PROVE IInv'
<1>1. /\ FlagsOK' /\ QueuesOK' /\ DeviceOK' /\ CountersOK'
      /\ ActorsOK' /\ FetchersOK' /\ StampInv'
  BY RxBoundAssumption
     DEF IInv, FlagsOK, QueuesOK, DeviceOK, CountersOK, ActorsOK, FetchersOK,
         Calls, StampInv, Queued, Active, Ready, Cancelling, Stopping, NoIrq,
         NoStop, capture_start, SemFree, Running, Goto
<1>2. HandInv' /\ IrqInv' /\ OrderInv' /\ DeviceInv' /\ NoticeInv'
  BY InventoryAssumption
     DEF IInv, HandInv, Holding, Stopping, ActorsOK, QueuesOK, FetchersOK, Out,
         IrqInv, NoIrq, OrderInv, NoStop, DeviceInv, Quiet, DeviceOK, FreeList,
         IdleList, Idle, NoticeInv, Running, FreePkts, CountersOK,
         capture_start, SemFree, Goto
<1>3. PlaceInv'
  BY PlacesSame
     DEF IInv, FetchersOK, ActorsOK, Calls, capture_start, SemFree, Running,
         Goto
<1> QED
  BY <1>1, <1>2, <1>3 DEF IInv

LEMMA Keeps_capture_flush == ASSUME IInv, capture_flush PROVE IInv'
<1>1. FlagsOK'
  BY DEF IInv, FlagsOK, capture_flush, SemFree, Running, stop_capture, Goto
<1>2. QueuesOK' /\ DeviceOK' /\ CountersOK' /\ ActorsOK' /\ FetchersOK'
  BY RxBoundAssumption
     DEF IInv, QueuesOK, DeviceOK, CountersOK, ActorsOK, FetchersOK, Calls,
         capture_flush, SemFree, Running, stop_capture, Goto
<1>3. HandInv' /\ IrqInv' /\ OrderInv' /\ DeviceInv' /\ NoticeInv'
  BY DEF IInv, HandInv, Holding, Stopping, IrqInv, OrderInv, DeviceInv, Quiet,
         NoticeInv, Running, FreePkts, capture_flush, SemFree, stop_capture,
         Goto
<1>4. PlaceInv'
  BY PlacesSame
     DEF IInv, FetchersOK, ActorsOK, Calls, capture_flush, SemFree, Running,
         stop_capture, Goto
<1>5. StampInv'
  BY InventoryAssumption
     DEF IInv, StampInv, Queued, Active, Ready, Cancelling, Stopping, NoIrq,
         NoStop, QueuesOK, ActorsOK, HandInv, CountersOK, capture_flush,
         SemFree, Running, stop_capture, Goto
<1> QED
  BY <1>1, <1>2, <1>3, <1>4, <1>5 DEF IInv

LEMMA Keeps_capture_flush_discard ==
    ASSUME IInv, capture_flush_discard
    PROVE  IInv'
<1>1. /\ FlagsOK' /\ QueuesOK' /\ DeviceOK' /\ CountersOK'
      /\ ActorsOK' /\ FetchersOK' /\ HandInv' /\ IrqInv'
      /\ OrderInv' /\ DeviceInv' /\ StampInv' /\ NoticeInv'
  BY RxBoundAssumption
     DEF IInv, FlagsOK, QueuesOK, DeviceOK, CountersOK, ActorsOK, FetchersOK,
         Calls, HandInv, Holding, Stopping, IrqInv, OrderInv, DeviceInv, Quiet,
         StampInv, Queued, Active, Ready, Cancelling, NoIrq, NoStop, NoticeInv,
         Running, FreePkts, capture_flush_discard, SemFree, stop_capture, Goto
<1>2. PlaceInv'
  BY PlacesSame
     DEF IInv, FetchersOK, ActorsOK, Calls, capture_flush_discard, SemFree,
         Running, stop_capture, Goto
<1> QED
  BY <1>1, <1>2 DEF IInv

LEMMA Keeps_rx_pause_metadata_idle ==
    ASSUME IInv, rx_pause_metadata_idle
    PROVE  IInv'
<1>1. /\ FlagsOK' /\ QueuesOK' /\ DeviceOK' /\ CountersOK'
      /\ ActorsOK' /\ FetchersOK' /\ HandInv' /\ IrqInv'
      /\ OrderInv' /\ DeviceInv' /\ NoticeInv'
  BY RxBoundAssumption
     DEF IInv, FlagsOK, QueuesOK, DeviceOK, FreeList, CountersOK, ActorsOK,
         FetchersOK, Calls, HandInv, Holding, Stopping, IrqInv, OrderInv,
         DeviceInv, Quiet, NoticeInv, Running, FreePkts, rx_pause_metadata_idle,
         SemFree, IrqIdle
<1>2. PlaceInv'
  BY PlacesSame
     DEF IInv, FetchersOK, ActorsOK, Calls, rx_pause_metadata_idle, SemFree,
         IrqIdle, Running
<1>3. StampInv'
  BY InventoryAssumption
     DEF IInv, StampInv, Queued, Active, Ready, Cancelling, Stopping, NoIrq,
         NoStop, QueuesOK, ActorsOK, HandInv, CountersOK, SemFree, IrqIdle,
         Running, rx_idle, AllFree, FreeList, OrderInv, IrqInv, Holding,
         rx_pause_metadata_idle
<1> QED
  BY <1>1, <1>2, <1>3 DEF IInv

LEMMA Keeps_rx_dequeue ==
    ASSUME IInv, NEW f \in Fetchers, rx_dequeue(f)
    PROVE  IInv'
<1>1. /\ FlagsOK' /\ QueuesOK' /\ DeviceOK' /\ CountersOK'
      /\ ActorsOK' /\ HandInv' /\ IrqInv' /\ OrderInv'
      /\ DeviceInv' /\ StampInv' /\ NoticeInv'
  BY RxBoundAssumption
     DEF IInv, FlagsOK, QueuesOK, DeviceOK, CountersOK, ActorsOK, HandInv,
         Holding, Stopping, IrqInv, OrderInv, DeviceInv, Quiet, StampInv,
         Queued, Active, Ready, Cancelling, NoIrq, NoStop, NoticeInv, Running,
         FreePkts, rx_dequeue, SemFree
<1>2. FetchersOK'
  BY InventoryAssumption, RxBoundAssumption
     DEF IInv, FetchersOK, Calls, CountersOK, QueuesOK, ActorsOK, Out,
         rx_dequeue, SemFree, Running
<1>3. PlaceInv'
  BY PlacesSame
     DEF IInv, FetchersOK, ActorsOK, Calls, rx_dequeue, SemFree, Running,
         IrqInv, HandInv
<1> QED
  BY <1>1, <1>2, <1>3 DEF IInv

LEMMA Keeps_fetch_wait ==
    ASSUME IInv, NEW f \in Fetchers, fetch_wait(f)
    PROVE  IInv'
<1>1. /\ FlagsOK' /\ QueuesOK' /\ DeviceOK' /\ CountersOK'
      /\ ActorsOK' /\ IrqInv' /\ OrderInv' /\ DeviceInv'
      /\ NoticeInv'
  BY RxBoundAssumption
     DEF IInv, FlagsOK, QueuesOK, DeviceOK, CountersOK, ActorsOK, IrqInv,
         OrderInv, Stopping, DeviceInv, Quiet, NoticeInv, Running, FreePkts,
         fetch_wait, SemFree
<1>2. FetchersOK' /\ HandInv'
  BY InventoryAssumption, RxBoundAssumption
     DEF IInv, FetchersOK, Calls, CountersOK, QueuesOK, ActorsOK, Out, HandInv,
         Holding, Stopping, fetch_wait, SemFree
<1>3. PlaceInv'
  <2>1. PICK at \in [Pkts -> Places] : Located(at)
    BY DEF IInv, PlaceInv
  <2>2. /\ Distinct(rdyq') /\ Head(rdyq) \in Pkts /\ Head(rdyq) \in Ready
        /\ Ready' = Ready \ {Head(rdyq)}
    BY HeadTaken DEF IInv, QueuesOK, PlaceInv, fetch_wait
  <2>3. PICK c \in Calls : c.pkt = Head(rdyq) /\ fetch' = [fetch EXCEPT ![f] = c]
    <3> DEFINE taken == [st |-> "detached", pkt |-> Head(rdyq), ep |-> 0]
    <3>1. taken \in Calls /\ taken.pkt = Head(rdyq)
      BY <2>2, RxBoundAssumption DEF Calls
    <3> QED
      BY <3>1 DEF fetch_wait
  <2>4. fetch[f].pkt = NoPkt /\ Head(rdyq) \notin Fetched
    BY <2>1, <2>2 DEF IInv, HandInv, Located, fetch_wait
  <2>5. FetchedOnce' /\ \A p \in Pkts : p \in Fetched' <=> p \in Fetched \/ p = Head(rdyq)
    BY <2>2, <2>3, <2>4, CallTakesPacket DEF IInv, PlaceInv
  <2>6. PICK then \in [Pkts -> Places] : then = [at EXCEPT ![Head(rdyq)] = "fetcher"]
    BY DEF Places
  <2>7. Located(then)'
    BY <2>1, <2>2, <2>5, <2>6 DEF Located, fetch_wait
  <2> QED
    BY <2>2, <2>5, <2>7 DEF PlaceInv
<1>4. StampInv'
  BY InventoryAssumption
     DEF IInv, StampInv, Queued, Active, Ready, Cancelling, Stopping, NoIrq,
         NoStop, QueuesOK, ActorsOK, HandInv, CountersOK, SemFree, OrderInv,
         IrqInv, Holding, fetch_wait
<1> QED
  BY <1>1, <1>2, <1>3, <1>4 DEF IInv

LEMMA Keeps_accept_packet_repeat ==
    ASSUME IInv, NEW f \in Fetchers, accept_packet_repeat(f)
    PROVE  IInv'
<1>1. /\ FlagsOK' /\ QueuesOK' /\ DeviceOK' /\ CountersOK'
      /\ FetchersOK' /\ IrqInv' /\ OrderInv' /\ DeviceInv'
      /\ NoticeInv'
  BY RxBoundAssumption
     DEF IInv, FlagsOK, QueuesOK, DeviceOK, CountersOK, FetchersOK, Calls,
         IrqInv, OrderInv, Stopping, DeviceInv, Quiet, NoticeInv, Running,
         FreePkts, accept_packet_repeat, SemFree, Goto
<1>2. ActorsOK' /\ HandInv' /\ StampInv'
  BY InventoryAssumption
     DEF IInv, ActorsOK, QueuesOK, HandInv, NoIrq, NoStop, Holding, Stopping,
         FetchersOK, Out, StampInv, Queued, Active, Ready, Cancelling,
         CountersOK, accept_packet_repeat, SemFree, Goto
<1>3. PlaceInv'
  <2>1. PICK at \in [Pkts -> Places] : Located(at)
    BY DEF IInv, PlaceInv
  <2>2. /\ Distinct(rdyq') /\ Head(rdyq) \in Pkts /\ Head(rdyq) \in Ready
        /\ Ready' = Ready \ {Head(rdyq)}
    BY HeadTaken DEF IInv, QueuesOK, PlaceInv, accept_packet_repeat
  <2>3. pkt["proc"] = NoPkt /\ NoPkt \notin Pkts
    BY InventoryAssumption DEF IInv, HandInv, Holding, SemFree, accept_packet_repeat
  <2>4. Fetched' = Fetched /\ FetchedOnce'
    <3>1. \A g \in Fetchers : fetch'[g].pkt = fetch[g].pkt
      BY DEF IInv, FetchersOK, Calls, accept_packet_repeat
    <3> QED
      BY <3>1, FetchedSame DEF IInv, PlaceInv
  <2>5. PICK then \in [Pkts -> Places] : then = [at EXCEPT ![Head(rdyq)] = "proc"]
    BY DEF Places
  <2>6. Located(then)'
    BY <2>1, <2>2, <2>3, <2>4, <2>5 DEF IInv, ActorsOK, Located, accept_packet_repeat
  <2> QED
    BY <2>2, <2>4, <2>6 DEF PlaceInv
<1> QED
  BY <1>1, <1>2, <1>3 DEF IInv

LEMMA Keeps_get_cap_buffer == ASSUME IInv, NEW f \in Fetchers, get_cap_buffer(f) PROVE IInv'
<1>1. fetch[f].pkt \in Pkts
  BY DEF IInv, ActorsOK, FetchersOK, Calls, HandInv, Holding, get_cap_buffer
<1>2. QueuesOK' /\ CountersOK' /\ FetchersOK' /\ HandInv' /\ PlaceInv' /\ StampInv'
  BY <1>1, CompleteKeeps DEF get_cap_buffer
<1>3. FlagsOK' /\ DeviceOK'
  BY DEF IInv, FlagsOK, DeviceOK, get_cap_buffer, complete_rx, Unpause
<1>4. ActorsOK' /\ IrqInv'
  BY DEF IInv, ActorsOK, IrqInv, get_cap_buffer, complete_rx, Goto
<1>5. OrderInv' /\ DeviceInv' /\ NoticeInv'
  BY DEF IInv, ActorsOK, FetchersOK, Calls, OrderInv, Stopping, DeviceInv, Quiet, NoticeInv,
         Running, FreePkts, SemFree, get_cap_buffer, complete_rx, Goto
<1> QED
  BY <1>2, <1>3, <1>4, <1>5 DEF IInv

LEMMA Keeps_fetch_timeout ==
    ASSUME IInv, NEW f \in Fetchers, fetch_timeout(f)
    PROVE  IInv'
<1>1. FlagsOK'
  BY DEF IInv, FlagsOK, fetch_timeout, SemFree, Unpause
<1>2. QueuesOK' /\ DeviceOK' /\ CountersOK' /\ ActorsOK' /\ FetchersOK'
  BY RxBoundAssumption
     DEF IInv, QueuesOK, DeviceOK, CountersOK, ActorsOK, FetchersOK, Calls, Out,
         fetch_timeout, SemFree, Unpause
<1>3. /\ HandInv' /\ IrqInv' /\ OrderInv' /\ DeviceInv'
      /\ StampInv' /\ NoticeInv'
  BY DEF IInv, HandInv, Holding, Stopping, Out, IrqInv, OrderInv, DeviceInv,
         Quiet, StampInv, Queued, Active, Ready, Cancelling, NoIrq, NoStop,
         NoticeInv, Running, FreePkts, fetch_timeout, SemFree, Unpause
<1>4. PlaceInv'
  BY PlacesSame
     DEF IInv, FetchersOK, ActorsOK, Calls, fetch_timeout, SemFree, Unpause,
         Out, IrqInv, HandInv
<1> QED
  BY <1>1, <1>2, <1>3, <1>4 DEF IInv

LEMMA Keeps_try_get_cap_buffer ==
    ASSUME IInv, NEW f \in Fetchers, try_get_cap_buffer(f)
    PROVE  IInv'
<1>1. FlagsOK'
  BY DEF IInv, FlagsOK, try_get_cap_buffer, SemFree, Goto
<1>2. QueuesOK'
  BY DEF IInv, QueuesOK, try_get_cap_buffer, SemFree, Goto
<1>3. DeviceOK'
  BY DEF IInv, DeviceOK, try_get_cap_buffer, SemFree, Goto
<1>4. CountersOK'
  BY RxBoundAssumption DEF IInv, CountersOK, try_get_cap_buffer, SemFree, Goto
<1>5. ActorsOK' /\ HandInv' /\ StampInv'
  BY InventoryAssumption
     DEF IInv, ActorsOK, QueuesOK, HandInv, NoIrq, NoStop, Holding, Stopping,
         FetchersOK, Out, StampInv, Queued, Active, Ready, Cancelling,
         CountersOK, try_get_cap_buffer, SemFree, Goto
<1>6. FetchersOK'
  BY RxBoundAssumption
     DEF IInv, FetchersOK, Calls, try_get_cap_buffer, SemFree, Goto
<1>7. IrqInv' /\ OrderInv' /\ DeviceInv' /\ NoticeInv'
  BY DEF IInv, IrqInv, OrderInv, Stopping, DeviceInv, Quiet, NoticeInv, Running,
         FreePkts, try_get_cap_buffer, SemFree, Goto
<1>8. PlaceInv'
  <2>1. PICK at \in [Pkts -> Places] : Located(at)
    BY DEF IInv, PlaceInv
  <2>2. /\ Distinct(rdyq') /\ Head(rdyq) \in Pkts /\ Head(rdyq) \in Ready
        /\ Ready' = Ready \ {Head(rdyq)}
    BY HeadTaken DEF IInv, QueuesOK, PlaceInv, try_get_cap_buffer
  <2>3. pkt["proc"] = NoPkt /\ NoPkt \notin Pkts
    BY InventoryAssumption DEF IInv, HandInv, Holding, SemFree, try_get_cap_buffer
  <2>4. Fetched' = Fetched /\ FetchedOnce'
    <3>1. \A g \in Fetchers : fetch'[g].pkt = fetch[g].pkt
      BY DEF IInv, FetchersOK, Calls, try_get_cap_buffer
    <3> QED
      BY <3>1, FetchedSame DEF IInv, PlaceInv
  <2>5. PICK then \in [Pkts -> Places] : then = [at EXCEPT ![Head(rdyq)] = "proc"]
    BY DEF Places
  <2>6. Located(then)'
    BY <2>1, <2>2, <2>3, <2>4, <2>5 DEF IInv, ActorsOK, Located, try_get_cap_buffer
  <2> QED
    BY <2>2, <2>4, <2>6 DEF PlaceInv
<1> QED
  BY <1>1, <1>2, <1>3, <1>4, <1>5, <1>6, <1>7, <1>8 DEF IInv

LEMMA Keeps_try_complete == ASSUME IInv, NEW f \in Fetchers, try_complete(f) PROVE IInv'
<1>1. pkt["proc"] \in Pkts
  BY DEF IInv, ActorsOK, FetchersOK, Calls, HandInv, Holding, try_complete
<1>2. QueuesOK' /\ CountersOK' /\ FetchersOK' /\ HandInv' /\ PlaceInv' /\ StampInv'
  BY <1>1, CompleteKeeps DEF try_complete
<1>3. FlagsOK' /\ DeviceOK'
  BY DEF IInv, FlagsOK, DeviceOK, try_complete, complete_rx, Unpause
<1>4. ActorsOK' /\ IrqInv'
  BY DEF IInv, ActorsOK, IrqInv, try_complete, complete_rx, Goto
<1>5. OrderInv' /\ DeviceInv' /\ NoticeInv'
  BY DEF IInv, ActorsOK, FetchersOK, Calls, OrderInv, Stopping, DeviceInv, Quiet, NoticeInv,
         Running, FreePkts, SemFree, try_complete, complete_rx, Goto
<1> QED
  BY <1>2, <1>3, <1>4, <1>5 DEF IInv

LEMMA Keeps_rx_ack_format ==
    ASSUME IInv, NEW f \in Fetchers, rx_ack_format(f)
    PROVE  IInv'
<1>1. FlagsOK'
  BY DEF IInv, FlagsOK, rx_ack_format, SemFree, Goto
<1>2. QueuesOK'
  BY DEF IInv, QueuesOK, rx_ack_format, SemFree, Goto
<1>3. DeviceOK'
  BY DEF IInv, DeviceOK, rx_ack_format, SemFree, Goto
<1>4. CountersOK'
  BY RxBoundAssumption DEF IInv, CountersOK, rx_ack_format, SemFree, Goto
<1>5. ActorsOK'
  BY DEF IInv, ActorsOK, rx_ack_format, SemFree, Goto
<1>6. FetchersOK'
  BY RxBoundAssumption
     DEF IInv, FetchersOK, Calls, Out, rx_ack_format, SemFree, Goto
<1>7. /\ HandInv' /\ IrqInv' /\ OrderInv' /\ DeviceInv'
      /\ StampInv' /\ NoticeInv'
  BY InventoryAssumption
     DEF IInv, HandInv, Holding, Stopping, Out, ActorsOK, QueuesOK, FetchersOK,
         IrqInv, NoIrq, OrderInv, NoStop, DeviceInv, Quiet, DeviceOK, FreeList,
         IdleList, Idle, StampInv, Queued, Active, Ready, Cancelling,
         CountersOK, NoticeInv, Running, FreePkts, rx_ack_format, SemFree, Goto
<1>8. PlaceInv'
  <2>1. fetch[f].pkt = NoPkt /\ Out \in Calls /\ Out.pkt = NoPkt
    BY RxBoundAssumption DEF IInv, HandInv, rx_ack_format, Out, Calls
  <2>2. FetchedOnce' /\ \A p \in Pkts : p \in Fetched' <=> p \in Fetched
    BY <2>1, CallDropsPacket, InventoryAssumption DEF IInv, PlaceInv, rx_ack_format
  <2>3. PICK at \in [Pkts -> Places] : Located(at)
    BY DEF IInv, PlaceInv
  <2>4. CASE UNCHANGED <<pool, freeq>>
    <3>1. Located(at)'
      BY <2>2, <2>3, <2>4, ReadySame DEF Located, rx_ack_format
    <3> QED
      BY <2>2, <3>1, ReadySame DEF IInv, PlaceInv, rx_ack_format
  <2>5. ASSUME NEW q \in pool, pool' = pool \ {q}, freeq' = freeq \cup {q} PROVE PlaceInv'
    <3>1. PICK then \in [Pkts -> Places] : then = [at EXCEPT ![q] = "freeq"]
      BY DEF Places
    <3>2. Located(then)'
      BY <2>2, <2>3, <2>5, <3>1, ReadySame DEF IInv, QueuesOK, Located, rx_ack_format
    <3> QED
      BY <2>2, <3>2, ReadySame DEF IInv, PlaceInv, rx_ack_format
  <2> QED
    BY <2>4, <2>5 DEF rx_ack_format
<1> QED
  BY <1>1, <1>2, <1>3, <1>4, <1>5, <1>6, <1>7, <1>8 DEF IInv

LEMMA Keeps_rx_pause_format ==
    ASSUME IInv, NEW f \in Fetchers, rx_pause_format(f)
    PROVE  IInv'
<1>1. FlagsOK'
  BY DEF IInv, FlagsOK, rx_pause_format, SemFree, IrqIdle, stop_capture, Goto
<1>2. QueuesOK' /\ DeviceOK' /\ CountersOK' /\ FetchersOK'
  BY RxBoundAssumption
     DEF IInv, QueuesOK, DeviceOK, FreeList, CountersOK, FetchersOK, Calls, Out,
         rx_pause_format, SemFree, IrqIdle, stop_capture, Goto
<1>3. ActorsOK'
  <2>1. CASE UNCHANGED actors
    BY <2>1 DEF IInv, ActorsOK
  <2>2. CASE stop_capture(TRUE, "format")
    <3>1. stop' \in [unmap : BOOLEAN,
                     after : {"none", "discard", "suspend", "format", "close"}]
      BY <2>2 DEF stop_capture
    <3> QED
      BY <2>2, <3>1 DEF IInv, ActorsOK, stop_capture, Goto
  <2> QED
    BY <2>1, <2>2 DEF rx_pause_format
<1>4. HandInv'
  BY InventoryAssumption
     DEF IInv, HandInv, Holding, Stopping, Out, ActorsOK, QueuesOK, FetchersOK,
         rx_pause_format, SemFree, IrqIdle, stop_capture, Goto
<1>5. IrqInv'
  BY InventoryAssumption
     DEF IInv, IrqInv, ActorsOK, HandInv, NoIrq, rx_pause_format, SemFree,
         IrqIdle, stop_capture, Goto
<1>6. OrderInv'
  BY InventoryAssumption
     DEF IInv, OrderInv, Stopping, Out, ActorsOK, FetchersOK, HandInv, NoStop,
         rx_pause_format, SemFree, IrqIdle, stop_capture, Goto
<1>7. PlaceInv'
  BY PlacesSame
     DEF IInv, FetchersOK, ActorsOK, Calls, rx_pause_format, SemFree, IrqIdle,
         stop_capture, Goto, Out, IrqInv, HandInv
<1>8. DeviceInv'
  BY InventoryAssumption
     DEF IInv, DeviceInv, Quiet, FreeList, DeviceOK, QueuesOK, HandInv,
         OrderInv, ActorsOK, IdleList, Idle, rx_pause_format, SemFree, IrqIdle,
         stop_capture, Goto
<1>9. StampInv'
  BY InventoryAssumption
     DEF IInv, StampInv, Queued, Active, Ready, Cancelling, Stopping, NoIrq,
         NoStop, QueuesOK, ActorsOK, HandInv, CountersOK, SemFree, Out, IrqIdle,
         rx_idle, stop_capture, AllFree, Goto, FreeList, OrderInv, IrqInv,
         Holding, rx_pause_format
<1>10. NoticeInv'
  BY InventoryAssumption
     DEF IInv, NoticeInv, Running, FreePkts, ActorsOK, HandInv, CountersOK,
         rx_pause_format, SemFree, IrqIdle, stop_capture, Goto
<1> QED
  BY <1>1, <1>2, <1>3, <1>4, <1>5, <1>6, <1>7, <1>8, <1>9, <1>10 DEF IInv

LEMMA Keeps_rx_isr_list == ASSUME IInv, rx_isr_list PROVE IInv'
<1> DEFINE l == irq.list
           s == Handled(l)
           ended == s # lists[l] /\ ~Waiting(s)
<1>1. l \in Lists /\ pc["isr"] = "lists" /\ pkt["isr"] = NoPkt /\ irq.err[l] = NoPkt
      /\ NoPkt \notin Pkts
  <2>1. l \in Lists /\ pc["isr"] = "lists"
    BY DEF rx_isr_list
  <2>2. l <= l
    BY <2>1
  <2> QED
    BY <2>1, <2>2, InventoryAssumption DEF IInv, HandInv, Holding, IrqInv
<1>2. s \in [Planes -> {"free", "wait", "err"}]
  BY <1>1 DEF IInv, DeviceOK, Handled
<1>3. /\ dev' = [dev EXCEPT ![l] = [pl \in Planes |->
                     IF Finished(dev[l][pl]) THEN "idle" ELSE dev[l][pl]]]
      /\ lists' = [lists EXCEPT ![l] = IF ended THEN FreeList ELSE s]
      /\ index' \in {0, index}
      /\ UNCHANGED <<pool, freeq, fallback, rdyq, capture, picq, ctx, todo, fresh, stop,
                     flags, fetch>>
  BY <1>1 DEF IInv, DeviceOK, rx_isr_list
<1>4. \/ \E p \in act[l] :
            /\ ended /\ act' = [act EXCEPT ![l] = @ \ {p}]
            /\ irq' = [irq EXCEPT !.list = l + 1, !.err[l] = p] /\ UNCHANGED <<pc, pkt>>
      \/ \E p \in act[l] :
            /\ ended /\ act' = [act EXCEPT ![l] = @ \ {p}]
            /\ irq' = [irq EXCEPT !.avail = TRUE]
            /\ pkt' = [pkt EXCEPT !["isr"] = p] /\ Goto("isr", "complete")
      \/ /\ irq' = [irq EXCEPT !.list = l + 1, !.avail = @ \/ (ended /\ ~Failed(s))]
         /\ UNCHANGED <<act, pc, pkt>>
  BY DEF rx_isr_list
<1>5. \A pl \in Planes : dev[l][pl] \in Pkts => s[pl] = "wait" /\ ~ended
  BY <1>1, InventoryAssumption DEF IInv, DeviceInv, Handled, Waiting
<1> HIDE DEF l, s, ended
<1>6. /\ \A pl \in Planes : dev'[l][pl] \in Pkts => dev'[l][pl] = dev[l][pl]
      /\ \A m \in Lists : m # l => dev'[m] = dev[m] /\ lists'[m] = lists[m]
      /\ lists'[l] = (IF ended THEN FreeList ELSE s)
  BY <1>1, <1>3, InventoryAssumption DEF IInv, DeviceOK
<1>7. FlagsOK' /\ CountersOK' /\ FetchersOK'
  BY <1>3 DEF IInv, FlagsOK, CountersOK, FetchersOK
<1>8. DeviceOK'
  <2>1. dev' \in [Lists -> [Planes -> Pkts \cup {"idle", "done", "error"}]]
    BY <1>1, <1>3 DEF IInv, DeviceOK
  <2>2. lists' \in [Lists -> [Planes -> {"free", "wait", "err"}]]
    BY <1>1, <1>2, <1>3 DEF IInv, DeviceOK, FreeList
  <2> QED
    BY <1>3, <2>1, <2>2 DEF IInv, DeviceOK
<1>9. PICK at \in [Pkts -> Places] : Located(at)
  BY DEF IInv, PlaceInv
<1>10. /\ Ready' = Ready /\ Distinct(rdyq') /\ Fetched' = Fetched /\ FetchedOnce'
  BY <1>3, ReadySame, FetchedSame DEF IInv, PlaceInv
<1> DEFINE irqs == [list : 0..2, err : [Lists -> Pkts \cup {NoPkt}],
                    avail : BOOLEAN, pic : BOOLEAN]
           Effect ==
             /\ ActorsOK' /\ IrqInv' /\ PlaceInv' /\ act' \in [Lists -> SUBSET Pkts]
             /\ pc'["proc"] = pc["proc"] /\ pc'["isr"] \in {"lists", "complete"}
             /\ pkt'["proc"] = pkt["proc"] /\ pkt'["isr"] \in {NoPkt} \cup act[l]
             /\ pkt'["isr"] # NoPkt <=> pc'["isr"] = "complete"
             /\ \A m \in Lists : irq'.err[m] \in {irq.err[m]} \cup act[l]
             /\ \A m \in Lists : act'[m] \subseteq act[m]
             /\ \A m \in Lists : m # l \/ ~ended => act'[m] = act[m]
<1>11. ASSUME NEW p \in act[l], ended, act' = [act EXCEPT ![l] = @ \ {p}],
              irq' = [irq EXCEPT !.list = l + 1, !.err[l] = p], UNCHANGED <<pc, pkt>>
       PROVE  Effect
  <2>1. p \in Pkts
    BY <1>1 DEF IInv, QueuesOK
  <2>2. irq' \in irqs /\ irq'.list = l + 1 /\ irq'.err = [irq.err EXCEPT ![l] = p]
    <3>1. irq \in irqs /\ l + 1 \in 0..2
      BY <1>1 DEF IInv, ActorsOK
    <3>2. PICK e \in [Lists -> Pkts \cup {NoPkt}] : e = [irq.err EXCEPT ![l] = p]
      BY <2>1, <3>1
    <3>3. irq' = [irq EXCEPT !.list = l + 1, !.err = e]
      BY <1>11, <3>1, <3>2
    <3> QED
      BY <3>1, <3>2, <3>3
  <2>3. ActorsOK'
    BY <1>3, <1>11, <2>2 DEF IInv, ActorsOK
  <2>4. irq.err \in [Lists -> Pkts \cup {NoPkt}]
    BY DEF IInv, ActorsOK
  <2>5. IrqInv'
    BY <1>1, <1>11, <2>2, <2>4 DEF IInv, IrqInv, l
  <2>6. PICK x \in {"failed0", "failed1"} : x = "failed0" <=> l = 0
    OBVIOUS
  <2>7. PICK then \in [Pkts -> Places] : then = [at EXCEPT ![p] = x]
    BY DEF Places
  <2>8. Located(then)'
    BY <1>1, <1>3, <1>9, <1>10, <1>11, <2>1, <2>2, <2>4, <2>6, <2>7 DEF IInv, QueuesOK, Located
  <2> QED
    BY <1>1, <1>10, <1>11, <2>1, <2>2, <2>3, <2>4, <2>5, <2>8 DEF IInv, QueuesOK, PlaceInv
<1>12. ASSUME NEW p \in act[l], ended, act' = [act EXCEPT ![l] = @ \ {p}],
              irq' = [irq EXCEPT !.avail = TRUE],
              pkt' = [pkt EXCEPT !["isr"] = p], Goto("isr", "complete")
       PROVE  Effect
  <2>1. p \in Pkts
    BY <1>1 DEF IInv, QueuesOK
  <2>2. irq' \in irqs /\ irq'.list = irq.list /\ irq'.err = irq.err
    BY <1>12 DEF IInv, ActorsOK
  <2>3. ActorsOK'
    BY <1>3, <1>12, <2>1, <2>2 DEF IInv, ActorsOK, Goto
  <2>4. IrqInv' /\ pc'["proc"] = pc["proc"] /\ pc'["isr"] = "complete"
    BY <1>1, <1>12, <2>2 DEF IInv, ActorsOK, IrqInv, Goto, l
  <2>5. PICK then \in [Pkts -> Places] : then = [at EXCEPT ![p] = "isr"]
    BY DEF Places
  <2>6. Located(then)'
    BY <1>1, <1>3, <1>9, <1>10, <1>12, <2>1, <2>2, <2>5 DEF IInv, ActorsOK, QueuesOK, Located
  <2> QED
    BY <1>1, <1>10, <1>12, <2>1, <2>2, <2>3, <2>4, <2>6 DEF IInv, ActorsOK, QueuesOK, PlaceInv
<1>13. ASSUME irq' = [irq EXCEPT !.list = l + 1, !.avail = @ \/ (ended /\ ~Failed(s))],
              UNCHANGED <<act, pc, pkt>>
       PROVE  Effect
  <2>1. irq' \in irqs /\ irq'.list = l + 1 /\ irq'.err = irq.err
    <3>1. irq \in irqs /\ l + 1 \in 0..2
      BY <1>1 DEF IInv, ActorsOK
    <3>2. (irq.avail \/ (ended /\ ~Failed(s))) \in BOOLEAN
      BY <3>1
    <3> QED
      BY <1>13, <3>1, <3>2
  <2>2. ActorsOK'
    BY <1>3, <1>13, <2>1 DEF IInv, ActorsOK
  <2>3. IrqInv'
    BY <1>1, <1>13, <2>1 DEF IInv, IrqInv, l
  <2>4. PlaceInv'
    BY <1>3, <1>13, <2>1, PlacesSame
  <2> QED
    BY <1>1, <1>13, <2>1, <2>2, <2>3, <2>4 DEF IInv, QueuesOK
<1>14. Effect
  BY <1>4, <1>11, <1>12, <1>13
<1>15. QueuesOK'
  BY <1>3, <1>14 DEF IInv, QueuesOK
<1>16. HandInv' /\ OrderInv'
  BY <1>1, <1>3, <1>14 DEF IInv, HandInv, Holding, Stopping, OrderInv
<1>17. NoticeInv'
  BY <1>1, <1>3, <1>14 DEF IInv, NoticeInv, Running, FreePkts
<1>18. DeviceInv'
  <2>1. ASSUME NEW m \in Lists, NEW pl \in Planes, dev'[m][pl] \in Pkts
        PROVE  dev[m][pl] \in Pkts /\ lists'[m][pl] = "wait" /\ dev'[m][pl] \in act'[m]
    <3>1. CASE m = l
      BY <1>5, <1>6, <1>14, <2>1, <3>1 DEF IInv, DeviceInv
    <3>2. CASE m # l
      BY <1>6, <1>14, <2>1, <3>2 DEF IInv, DeviceInv
    <3> QED
      BY <3>1, <3>2
  <2> QED
    BY <1>1, <1>3, <1>14, <2>1 DEF IInv, DeviceInv, Quiet, OrderInv
<1>19. StampInv'
  <2>1. act[l] \subseteq Queued /\ Queued' \subseteq Queued
    BY <1>1, <1>3, <1>10, <1>14 DEF Queued, Active
  <2>2. Cancelling' <=> Cancelling
    BY <1>3, <1>14 DEF Cancelling
  <2> QED
    BY <1>1, <1>3, <1>14, <2>1, <2>2 DEF IInv, StampInv
<1> QED
  BY <1>7, <1>8, <1>14, <1>15, <1>16, <1>17, <1>18, <1>19 DEF IInv

LEMMA Keeps_rx_pkt_complete == ASSUME IInv, rx_pkt_complete PROVE IInv'
<1>1. FlagsOK'
  BY DEF IInv, FlagsOK, rx_pkt_complete, Goto
<1>2. QueuesOK'
  <2>1. pkt["isr"] \in Pkts
    BY DEF IInv, ActorsOK, HandInv, Holding, rx_pkt_complete
  <2>2. rdyq' \in Seq(Pkts)
    BY <2>1 DEF IInv, QueuesOK, rx_pkt_complete
  <2> QED
    BY <2>1, <2>2 DEF IInv, QueuesOK, rx_pkt_complete
<1>3. DeviceOK' /\ CountersOK' /\ FetchersOK'
  BY RxBoundAssumption
     DEF IInv, DeviceOK, CountersOK, FetchersOK, Calls, rx_pkt_complete, Goto
<1>4. ActorsOK'
  BY InventoryAssumption
     DEF IInv, ActorsOK, QueuesOK, HandInv, NoIrq, NoStop, Goto, OrderInv,
         IrqInv, Holding, Stopping, rx_pkt_complete
<1>5. HandInv' /\ IrqInv' /\ NoticeInv'
  BY InventoryAssumption
     DEF IInv, HandInv, Holding, Stopping, ActorsOK, QueuesOK, FetchersOK, Out,
         IrqInv, NoIrq, NoticeInv, Running, FreePkts, CountersOK,
         rx_pkt_complete, Goto
<1>6. OrderInv' /\ DeviceInv'
  BY DEF IInv, OrderInv, Stopping, DeviceInv, Quiet, rx_pkt_complete, Goto
<1>7. PlaceInv'
  <2>1. PICK at \in [Pkts -> Places] : Located(at)
    BY DEF IInv, PlaceInv
  <2>2. /\ pkt["isr"] \in Pkts /\ NoPkt \notin Pkts /\ irq'.err = irq.err
        /\ pkt' = [pkt EXCEPT !["isr"] = NoPkt] /\ UNCHANGED <<pool, freeq, act, fetch>>
    BY InventoryAssumption DEF IInv, ActorsOK, HandInv, Holding, rx_pkt_complete
  <2>3. Fetched' = Fetched /\ FetchedOnce'
    BY <2>2, FetchedSame DEF IInv, PlaceInv
  <2>4. CASE rdyq' = Append(rdyq, pkt["isr"]) /\ UNCHANGED fallback
    <3>1. Distinct(rdyq') /\ Ready' = Ready \cup {pkt["isr"]}
      BY <2>1, <2>2, <2>4, Appended DEF IInv, QueuesOK, PlaceInv, Located
    <3>2. PICK then \in [Pkts -> Places] : then = [at EXCEPT ![pkt["isr"]] = "ready"]
      BY DEF Places
    <3>3. Located(then)'
      BY <2>1, <2>2, <2>3, <2>4, <3>1, <3>2 DEF IInv, ActorsOK, Located
    <3> QED
      BY <2>3, <3>1, <3>3 DEF PlaceInv
  <2>5. CASE fallback' = fallback \cup {pkt["isr"]} /\ UNCHANGED rdyq
    <3>1. PICK then \in [Pkts -> Places] : then = [at EXCEPT ![pkt["isr"]] = "fallback"]
      BY DEF Places
    <3>2. Located(then)'
      BY <2>1, <2>2, <2>3, <2>5, <3>1, ReadySame DEF IInv, ActorsOK, Located
    <3> QED
      BY <2>3, <2>5, <3>2, ReadySame DEF IInv, PlaceInv
  <2> QED
    BY <2>4, <2>5 DEF rx_pkt_complete
<1>8. StampInv'
  <2>1. PICK at \in [Pkts -> Places] : Located(at)
    BY DEF IInv, PlaceInv
  <2>2. /\ pkt["isr"] \in Pkts /\ pkt["isr"] # NoPkt /\ irq'.err = irq.err
        /\ pkt' = [pkt EXCEPT !["isr"] = NoPkt]
        /\ UNCHANGED <<freeq, act, stamp, epoch, fault, stop>>
    BY InventoryAssumption DEF IInv, ActorsOK, HandInv, Holding, rx_pkt_complete
  <2>3. Ready' \cup fallback' = Ready \cup fallback \cup {pkt["isr"]}
    <3>1. CASE rdyq' = Append(rdyq, pkt["isr"]) /\ UNCHANGED fallback
      BY <2>1, <2>2, <3>1, Appended DEF IInv, QueuesOK, PlaceInv, Located
    <3>2. CASE fallback' = fallback \cup {pkt["isr"]} /\ UNCHANGED rdyq
      BY <3>2, ReadySame
    <3> QED
      BY <3>1, <3>2 DEF rx_pkt_complete
  <2>4. Queued' = Queued \cup {pkt["isr"]}
    BY <2>2, <2>3 DEF Queued, Active
  <2>5. Cancelling' <=> Cancelling
    BY <2>2 DEF IInv, ActorsOK, Cancelling, rx_pkt_complete, Goto
  <2> QED
    BY <2>2, <2>4, <2>5 DEF IInv, ActorsOK, StampInv
<1> QED
  BY <1>1, <1>2, <1>3, <1>4, <1>5, <1>6, <1>7, <1>8 DEF IInv

LEMMA Keeps_rx_isr_unlock == ASSUME IInv, rx_isr_unlock PROVE IInv'
<1>1. /\ FlagsOK' /\ QueuesOK' /\ DeviceOK' /\ CountersOK'
      /\ ActorsOK' /\ FetchersOK' /\ HandInv' /\ IrqInv'
      /\ OrderInv' /\ DeviceInv' /\ StampInv' /\ NoticeInv'
  BY RxBoundAssumption
     DEF IInv, FlagsOK, QueuesOK, DeviceOK, CountersOK, ActorsOK, FetchersOK,
         Calls, HandInv, Holding, Stopping, IrqInv, OrderInv, DeviceInv, Quiet,
         StampInv, Queued, Active, Ready, Cancelling, NoIrq, NoStop, NoticeInv,
         Running, FreePkts, rx_isr_unlock, Goto
<1>2. PlaceInv'
  BY PlacesSame DEF IInv, FetchersOK, ActorsOK, Calls, rx_isr_unlock, Goto
<1> QED
  BY <1>1, <1>2 DEF IInv

LEMMA Keeps_rx_isr_repost ==
    ASSUME IInv, NEW l \in Lists, rx_isr_repost(l)
    PROVE  IInv'
<1>1. FlagsOK'
  BY DEF IInv, FlagsOK, rx_isr_repost, Goto
<1>2. QueuesOK' /\ DeviceOK' /\ CountersOK' /\ ActorsOK' /\ FetchersOK'
  BY RxBoundAssumption
     DEF IInv, QueuesOK, DeviceOK, CountersOK, ActorsOK, FetchersOK, Calls,
         rx_isr_repost, Goto
<1>3. HandInv'
  BY InventoryAssumption
     DEF IInv, HandInv, Holding, Stopping, ActorsOK, QueuesOK, FetchersOK, Out,
         rx_isr_repost, Goto
<1>4. IrqInv' /\ OrderInv' /\ DeviceInv' /\ StampInv' /\ NoticeInv'
  BY DEF IInv, IrqInv, OrderInv, Stopping, DeviceInv, Quiet, StampInv, Queued,
         Active, Ready, Cancelling, NoIrq, NoStop, NoticeInv, Running, FreePkts,
         rx_isr_repost, Goto
<1>5. PlaceInv'
  <2>1. PICK at \in [Pkts -> Places] : Located(at)
    BY DEF IInv, PlaceInv
  <2>2. /\ irq.err[l] \in Pkts /\ pkt["isr"] = NoPkt /\ NoPkt \notin Pkts
        /\ irq'.err = [irq.err EXCEPT ![l] = NoPkt]
    BY InventoryAssumption DEF IInv, ActorsOK, HandInv, Holding, rx_isr_repost
  <2>3. PICK then \in [Pkts -> Places] : then = [at EXCEPT ![irq.err[l]] = "isr"]
    BY DEF Places
  <2>4. Located(then)'
    BY <2>1, <2>2, <2>3, ReadySame, FetchedSame DEF IInv, ActorsOK, Located, rx_isr_repost
  <2> QED
    BY <2>4, ReadySame, FetchedSame DEF IInv, PlaceInv, rx_isr_repost
<1> QED
  BY <1>1, <1>2, <1>3, <1>4, <1>5 DEF IInv

LEMMA Keeps_rx_isr_start_capture ==
    ASSUME IInv, rx_isr_start_capture
    PROVE  IInv'
<1>1. FlagsOK' /\ QueuesOK' /\ DeviceOK' /\ CountersOK' /\ FetchersOK'
  BY RxBoundAssumption
     DEF IInv, FlagsOK, QueuesOK, DeviceOK, CountersOK, FetchersOK, Calls,
         rx_isr_start_capture, Goto
<1>2. ActorsOK'
  <2>1. irq' \in [list : 0..2, err : [Lists -> Pkts \cup {NoPkt}],
                  avail : BOOLEAN, pic : BOOLEAN]
    BY DEF IInv, ActorsOK, rx_isr_start_capture
  <2>2. /\ todo' \in [Actors -> 0..2]
        /\ pc' \in [Actors -> {"idle", "fetch", "post", "busy", "fll", "hard", "try",
                                "irqoff", "stop", "drain", "lists", "complete", "next"}]
    BY DEF IInv, ActorsOK, rx_isr_start_capture, Goto
  <2> QED
    BY <2>1, <2>2 DEF IInv, ActorsOK, rx_isr_start_capture
<1>3. /\ HandInv' /\ IrqInv' /\ OrderInv' /\ DeviceInv'
      /\ StampInv' /\ NoticeInv'
  BY InventoryAssumption
     DEF IInv, HandInv, Holding, Stopping, ActorsOK, QueuesOK, FetchersOK, Out,
         IrqInv, NoIrq, OrderInv, NoStop, DeviceInv, Quiet, DeviceOK, FreeList,
         IdleList, Idle, StampInv, Queued, Active, Ready, Cancelling,
         CountersOK, NoticeInv, Running, FreePkts, rx_isr_start_capture, Goto
<1>4. PlaceInv'
  BY PlacesSame
     DEF IInv, FetchersOK, ActorsOK, Calls, rx_isr_start_capture, Goto
<1> QED
  BY <1>1, <1>2, <1>3, <1>4 DEF IInv

LEMMA Keeps_handle_PicQSts_intr == ASSUME IInv, handle_PicQSts_intr PROVE IInv'
<1>1. /\ FlagsOK' /\ QueuesOK' /\ DeviceOK' /\ CountersOK'
      /\ FetchersOK' /\ IrqInv' /\ OrderInv' /\ DeviceInv'
      /\ StampInv' /\ NoticeInv'
  BY RxBoundAssumption
     DEF IInv, FlagsOK, QueuesOK, DeviceOK, CountersOK, FetchersOK, Calls,
         IrqInv, OrderInv, Stopping, DeviceInv, Quiet, StampInv, Queued, Active,
         Ready, Cancelling, NoIrq, NoStop, NoticeInv, Running, FreePkts,
         handle_PicQSts_intr, Goto
<1>2. ActorsOK'
  <2>1. irq' \in [list : 0..2, err : [Lists -> Pkts \cup {NoPkt}],
                  avail : BOOLEAN, pic : BOOLEAN]
    BY DEF IInv, ActorsOK, handle_PicQSts_intr
  <2>2. /\ todo' \in [Actors -> 0..2]
        /\ pc' \in [Actors -> {"idle", "fetch", "post", "busy", "fll", "hard", "try",
                                "irqoff", "stop", "drain", "lists", "complete", "next"}]
    BY DEF IInv, ActorsOK, handle_PicQSts_intr, Goto
  <2> QED
    BY <2>1, <2>2 DEF IInv, ActorsOK, handle_PicQSts_intr
<1>3. HandInv'
  BY InventoryAssumption
     DEF IInv, HandInv, Holding, Stopping, ActorsOK, QueuesOK, FetchersOK, Out,
         handle_PicQSts_intr, Goto
<1>4. PlaceInv'
  BY PlacesSame DEF IInv, FetchersOK, ActorsOK, Calls, handle_PicQSts_intr, Goto
<1> QED
  BY <1>1, <1>2, <1>3, <1>4 DEF IInv

LEMMA Keeps_interrupt_return == ASSUME IInv, interrupt_return PROVE IInv'
<1>1. /\ FlagsOK' /\ QueuesOK' /\ DeviceOK' /\ CountersOK'
      /\ ActorsOK' /\ FetchersOK' /\ HandInv' /\ IrqInv'
      /\ OrderInv' /\ DeviceInv' /\ StampInv' /\ NoticeInv'
  BY RxBoundAssumption
     DEF IInv, FlagsOK, QueuesOK, DeviceOK, CountersOK, ActorsOK, NoIrq,
         FetchersOK, Calls, HandInv, Holding, Stopping, IrqInv, OrderInv,
         DeviceInv, Quiet, StampInv, Queued, Active, Ready, Cancelling, NoStop,
         NoticeInv, Running, FreePkts, interrupt_return, Goto
<1>2. PlaceInv'
  <2>1. irq'.err = irq.err
    BY DEF IInv, ActorsOK, interrupt_return, NoErrors, NoIrq
  <2> QED
    BY <2>1, PlacesSame DEF interrupt_return
<1> QED
  BY <1>1, <1>2 DEF IInv

LEMMA Keeps_suspend == ASSUME IInv, suspend PROVE IInv'
<1>1. /\ FlagsOK' /\ QueuesOK' /\ DeviceOK' /\ CountersOK'
      /\ FetchersOK' /\ StampInv'
  BY RxBoundAssumption
     DEF IInv, FlagsOK, QueuesOK, DeviceOK, CountersOK, FetchersOK, Calls,
         StampInv, Queued, Active, Ready, Cancelling, Stopping, NoIrq, NoStop,
         suspend, Exclusive, Running, stop_capture, SemFree, Goto
<1>2. ActorsOK'
  <2>1. CASE UNCHANGED actors
    BY <2>1 DEF IInv, ActorsOK
  <2>2. CASE stop_capture(FALSE, "suspend")
    <3>1. stop' \in [unmap : BOOLEAN,
                     after : {"none", "discard", "suspend", "format", "close"}]
      BY <2>2 DEF stop_capture
    <3> QED
      BY <2>2, <3>1 DEF IInv, ActorsOK, stop_capture, Goto
  <2> QED
    BY <2>1, <2>2 DEF suspend
<1>3. HandInv'
  BY InventoryAssumption
     DEF IInv, HandInv, Holding, Stopping, ActorsOK, QueuesOK, FetchersOK, Out,
         suspend, Exclusive, Running, stop_capture, SemFree, Goto
<1>4. IrqInv'
  BY InventoryAssumption
     DEF IInv, IrqInv, ActorsOK, HandInv, NoIrq, suspend, Exclusive, Running,
         stop_capture, SemFree, Goto
<1>5. OrderInv'
  BY InventoryAssumption
     DEF IInv, OrderInv, Stopping, ActorsOK, FetchersOK, HandInv, Out, NoStop,
         suspend, Exclusive, Running, stop_capture, SemFree, Goto
<1>6. PlaceInv'
  BY PlacesSame
     DEF IInv, FetchersOK, ActorsOK, Calls, suspend, Exclusive, Running,
         stop_capture, SemFree, Goto
<1>7. DeviceInv'
  BY InventoryAssumption
     DEF IInv, DeviceInv, Quiet, DeviceOK, QueuesOK, HandInv, OrderInv,
         ActorsOK, FreeList, IdleList, Idle, suspend, Exclusive, Running,
         stop_capture, SemFree, Goto
<1>8. NoticeInv'
  BY InventoryAssumption
     DEF IInv, NoticeInv, Running, FreePkts, ActorsOK, HandInv, CountersOK,
         suspend, Exclusive, stop_capture, SemFree, Goto
<1> QED
  BY <1>1, <1>2, <1>3, <1>4, <1>5, <1>6, <1>7, <1>8 DEF IInv

LEMMA Keeps_clear_master_and_drain ==
    ASSUME IInv, clear_master_and_drain
    PROVE  IInv'
<1>1. /\ FlagsOK' /\ QueuesOK' /\ DeviceOK' /\ CountersOK'
      /\ ActorsOK' /\ FetchersOK' /\ HandInv' /\ IrqInv'
      /\ OrderInv' /\ StampInv' /\ NoticeInv'
  BY RxBoundAssumption
     DEF IInv, FlagsOK, QueuesOK, DeviceOK, IdleList, Idle, CountersOK,
         ActorsOK, FetchersOK, Calls, HandInv, Holding, Stopping, IrqInv,
         OrderInv, StampInv, Queued, Active, Ready, Cancelling, NoIrq, NoStop,
         NoticeInv, Running, FreePkts, clear_master_and_drain, Exclusive,
         IrqIdle, SemFree
<1>2. PlaceInv'
  BY PlacesSame
     DEF IInv, FetchersOK, ActorsOK, Calls, clear_master_and_drain, Exclusive,
         IrqIdle, SemFree
<1>3. DeviceInv'
  BY InventoryAssumption
     DEF IInv, DeviceInv, Quiet, IdleList, Idle, DeviceOK, QueuesOK, HandInv,
         OrderInv, ActorsOK, FreeList, clear_master_and_drain, Exclusive,
         IrqIdle, SemFree
<1> QED
  BY <1>1, <1>2, <1>3 DEF IInv

LEMMA Keeps_rx_retire_quiesced == ASSUME IInv, rx_retire_quiesced PROVE IInv'
<1>1. FlagsOK'
  BY DEF IInv, FlagsOK, rx_retire_quiesced, detach_rx_owners, FreePacket
<1>2. QueuesOK'
  <2>1. CASE detach_rx_owners
    BY <2>1, DetachKeeps DEF rx_retire_quiesced
  <2>2. CASE UNCHANGED queues
    BY <2>2 DEF IInv, QueuesOK
  <2> QED
    BY <2>1, <2>2 DEF rx_retire_quiesced
<1>3. DeviceOK'
  BY DEF IInv, DeviceOK, rx_retire_quiesced, detach_rx_owners, FreePacket
<1>4. CountersOK'
  BY RxBoundAssumption
     DEF IInv, CountersOK, rx_retire_quiesced, detach_rx_owners, FreePacket
<1>5. ActorsOK'
  BY DEF IInv, ActorsOK, rx_retire_quiesced, detach_rx_owners, FreePacket
<1>6. FetchersOK'
  BY RxBoundAssumption
     DEF IInv, FetchersOK, Calls, rx_retire_quiesced, detach_rx_owners,
         FreePacket
<1>7. HandInv' /\ IrqInv' /\ OrderInv' /\ DeviceInv' /\ NoticeInv'
  BY DEF IInv, HandInv, Holding, Stopping, IrqInv, OrderInv, DeviceInv, Quiet,
         NoticeInv, Running, FreePkts, rx_retire_quiesced, detach_rx_owners,
         FreePacket
<1>8. PlaceInv'
  <2>1. CASE detach_rx_owners
    BY <2>1, DetachKeeps DEF rx_retire_quiesced
  <2>2. CASE UNCHANGED queues
    BY <2>2, PlacesSame DEF rx_retire_quiesced
  <2> QED
    BY <2>1, <2>2 DEF rx_retire_quiesced
<1>9. StampInv'
  BY InventoryAssumption
     DEF IInv, StampInv, Queued, Active, Ready, Cancelling, Stopping, NoIrq,
         NoStop, QueuesOK, ActorsOK, HandInv, CountersOK, detach_rx_owners,
         FreePacket, OrderInv, IrqInv, Holding, rx_retire_quiesced
<1> QED
  BY <1>1, <1>2, <1>3, <1>4, <1>5, <1>6, <1>7, <1>8, <1>9 DEF IInv

LEMMA Keeps_resume == ASSUME IInv, resume PROVE IInv'
<1>1. FlagsOK'
  BY DEF IInv, FlagsOK, resume
<1>2. QueuesOK' /\ DeviceOK' /\ CountersOK' /\ ActorsOK' /\ FetchersOK'
  BY RxBoundAssumption
     DEF IInv, QueuesOK, DeviceOK, FreeList, CountersOK, ActorsOK, FetchersOK,
         Calls, resume
<1>3. /\ HandInv' /\ IrqInv' /\ OrderInv' /\ DeviceInv'
      /\ StampInv' /\ NoticeInv'
  BY DEF IInv, HandInv, Holding, Stopping, IrqInv, OrderInv, DeviceInv, Quiet,
         FreeList, StampInv, Queued, Active, Ready, Cancelling, NoIrq, NoStop,
         NoticeInv, Running, FreePkts, resume
<1>4. PlaceInv'
  BY PlacesSame DEF IInv, FetchersOK, ActorsOK, Calls, resume
<1> QED
  BY <1>1, <1>2, <1>3, <1>4 DEF IInv

LEMMA Keeps_release_session == ASSUME IInv, release_session PROVE IInv'
<1>1. /\ FlagsOK' /\ QueuesOK' /\ DeviceOK' /\ CountersOK'
      /\ ActorsOK' /\ FetchersOK' /\ HandInv' /\ IrqInv'
      /\ OrderInv' /\ DeviceInv' /\ StampInv' /\ NoticeInv'
  BY RxBoundAssumption
     DEF IInv, FlagsOK, QueuesOK, DeviceOK, CountersOK, ActorsOK, FetchersOK,
         Calls, HandInv, Holding, Stopping, IrqInv, OrderInv, DeviceInv, Quiet,
         StampInv, Queued, Active, Ready, Cancelling, NoIrq, NoStop, NoticeInv,
         Running, FreePkts, release_session, Exclusive, stop_capture, SemFree,
         Goto
<1>2. PlaceInv'
  BY PlacesSame
     DEF IInv, FetchersOK, ActorsOK, Calls, release_session, Exclusive,
         stop_capture, SemFree, Goto
<1> QED
  BY <1>1, <1>2 DEF IInv

LEMMA Keeps_retire_hw_context == ASSUME IInv, retire_hw_context PROVE IInv'
<1>1. FlagsOK'
  BY DEF IInv, FlagsOK, retire_hw_context, detach_rx_owners, FreePacket
<1>2. QueuesOK'
  BY DetachKeeps DEF retire_hw_context
<1>3. DeviceOK' /\ CountersOK' /\ ActorsOK' /\ FetchersOK'
  BY RxBoundAssumption
     DEF IInv, DeviceOK, CountersOK, ActorsOK, FetchersOK, Calls,
         retire_hw_context, detach_rx_owners, FreePacket
<1>4. HandInv' /\ IrqInv' /\ OrderInv' /\ DeviceInv' /\ NoticeInv'
  BY DEF IInv, HandInv, Holding, Stopping, IrqInv, OrderInv, DeviceInv, Quiet,
         NoticeInv, Running, FreePkts, retire_hw_context, detach_rx_owners,
         FreePacket
<1>5. PlaceInv'
  BY DetachKeeps DEF retire_hw_context
<1>6. StampInv'
  BY InventoryAssumption
     DEF IInv, StampInv, Queued, Active, Ready, Cancelling, Stopping, NoIrq,
         NoStop, QueuesOK, ActorsOK, HandInv, CountersOK, detach_rx_owners,
         FreePacket, OrderInv, IrqInv, Holding, retire_hw_context
<1> QED
  BY <1>1, <1>2, <1>3, <1>4, <1>5, <1>6 DEF IInv

LEMMA Keeps_retire_hw_context_failed ==
    ASSUME IInv, retire_hw_context_failed
    PROVE  IInv'
<1>1. /\ FlagsOK' /\ QueuesOK' /\ DeviceOK' /\ CountersOK'
      /\ ActorsOK' /\ FetchersOK' /\ HandInv' /\ IrqInv'
      /\ OrderInv' /\ DeviceInv' /\ StampInv' /\ NoticeInv'
  BY RxBoundAssumption
     DEF IInv, FlagsOK, QueuesOK, DeviceOK, CountersOK, ActorsOK, FetchersOK,
         Calls, HandInv, Holding, Stopping, IrqInv, OrderInv, DeviceInv, Quiet,
         StampInv, Queued, Active, Ready, Cancelling, NoIrq, NoStop, NoticeInv,
         Running, FreePkts, retire_hw_context_failed
<1>2. PlaceInv'
  BY PlacesSame DEF IInv, FetchersOK, ActorsOK, Calls, retire_hw_context_failed
<1> QED
  BY <1>1, <1>2 DEF IInv

LEMMA Keeps_remove == ASSUME IInv, remove PROVE IInv'
<1>1. /\ FlagsOK' /\ QueuesOK' /\ DeviceOK' /\ CountersOK'
      /\ ActorsOK' /\ FetchersOK' /\ HandInv' /\ IrqInv'
      /\ OrderInv' /\ DeviceInv' /\ StampInv' /\ NoticeInv'
  BY RxBoundAssumption
     DEF IInv, FlagsOK, QueuesOK, DeviceOK, CountersOK, ActorsOK, FetchersOK,
         Calls, HandInv, Holding, Stopping, IrqInv, OrderInv, DeviceInv, Quiet,
         StampInv, Queued, Active, Ready, Cancelling, NoIrq, NoStop, NoticeInv,
         Running, FreePkts, remove, Exclusive, IrqIdle, SemFree
<1>2. PlaceInv'
  BY PlacesSame
     DEF IInv, FetchersOK, ActorsOK, Calls, remove, Exclusive, IrqIdle, SemFree
<1> QED
  BY <1>1, <1>2 DEF IInv

LEMMA Keeps_free_dma_rings == ASSUME IInv, free_dma_rings PROVE IInv'
<1>1. /\ FlagsOK' /\ DeviceOK' /\ CountersOK' /\ ActorsOK'
      /\ FetchersOK' /\ HandInv' /\ IrqInv' /\ OrderInv'
      /\ DeviceInv' /\ NoticeInv'
  BY RxBoundAssumption
     DEF IInv, FlagsOK, DeviceOK, CountersOK, ActorsOK, FetchersOK, Calls,
         HandInv, Holding, Stopping, IrqInv, OrderInv, DeviceInv, Quiet,
         NoticeInv, Running, FreePkts, free_dma_rings, detach_rx_owners,
         FreePacket
<1>2. QueuesOK'
  BY DetachKeeps DEF free_dma_rings
<1>3. PlaceInv'
  BY DetachKeeps DEF free_dma_rings
<1>4. StampInv'
  BY InventoryAssumption
     DEF IInv, StampInv, Queued, Active, Ready, Cancelling, Stopping, NoIrq,
         NoStop, QueuesOK, ActorsOK, HandInv, CountersOK, detach_rx_owners,
         FreePacket, OrderInv, IrqInv, Holding, free_dma_rings
<1> QED
  BY <1>1, <1>2, <1>3, <1>4 DEF IInv

LEMMA Keeps_plane_ends ==
    ASSUME IInv, NEW l \in Lists, NEW pl \in Planes, NEW how \in {"done", "error"},
           plane_ends(l, pl, how)
    PROVE  IInv'
<1>1. /\ FlagsOK' /\ QueuesOK' /\ DeviceOK' /\ CountersOK'
      /\ ActorsOK' /\ FetchersOK' /\ HandInv' /\ IrqInv'
      /\ OrderInv' /\ StampInv' /\ NoticeInv'
  BY RxBoundAssumption
     DEF IInv, FlagsOK, QueuesOK, DeviceOK, CountersOK, ActorsOK, FetchersOK,
         Calls, HandInv, Holding, Stopping, IrqInv, OrderInv, StampInv, Queued,
         Active, Ready, Cancelling, NoIrq, NoStop, NoticeInv, Running, FreePkts,
         plane_ends
<1>2. PlaceInv'
  BY PlacesSame DEF IInv, FetchersOK, ActorsOK, Calls, plane_ends
<1>3. DeviceInv'
  BY InventoryAssumption
     DEF IInv, DeviceInv, Quiet, DeviceOK, QueuesOK, HandInv, OrderInv,
         ActorsOK, FreeList, IdleList, Idle, plane_ends
<1> QED
  BY <1>1, <1>2, <1>3 DEF IInv

LEMMA Keeps_interrupt ==
    ASSUME IInv, NEW rx \in BOOLEAN, NEW pic \in BOOLEAN, interrupt(rx, pic)
    PROVE  IInv'
<1>1. /\ FlagsOK' /\ QueuesOK' /\ DeviceOK' /\ CountersOK'
      /\ FetchersOK' /\ HandInv' /\ IrqInv' /\ OrderInv'
      /\ DeviceInv' /\ StampInv' /\ NoticeInv'
  BY RxBoundAssumption
     DEF IInv, FlagsOK, QueuesOK, DeviceOK, CountersOK, FetchersOK, Calls,
         HandInv, Holding, Stopping, IrqInv, NoIrq, OrderInv, DeviceInv, Quiet,
         StampInv, Queued, Active, Ready, Cancelling, NoStop, NoticeInv,
         Running, FreePkts, interrupt, IrqIdle, IrqEnabled, Goto
<1>2. ActorsOK'
  <2>1. irq' \in [list : 0..2, err : [Lists -> Pkts \cup {NoPkt}],
                  avail : BOOLEAN, pic : BOOLEAN]
    <3>1. NoIrq \in [list : 0..2, err : [Lists -> Pkts \cup {NoPkt}],
                     avail : BOOLEAN, pic : BOOLEAN]
      BY DEF NoIrq
    <3> QED
      BY <3>1 DEF interrupt
  <2> QED
    BY <2>1 DEF IInv, ActorsOK, interrupt, Goto
<1>3. PlaceInv'
  BY PlacesSame
     DEF IInv, FetchersOK, ActorsOK, Calls, interrupt, IrqIdle, IrqEnabled,
         Goto, NoIrq, IrqInv, HandInv
<1> QED
  BY <1>1, <1>2, <1>3 DEF IInv

LEMMA Keeps_publish_fault == ASSUME IInv, publish_fault PROVE IInv'
<1>1. /\ FlagsOK' /\ QueuesOK' /\ DeviceOK' /\ CountersOK'
      /\ ActorsOK' /\ FetchersOK'
  BY RxBoundAssumption
     DEF IInv, FlagsOK, QueuesOK, DeviceOK, CountersOK, ActorsOK, FetchersOK,
         Calls, publish_fault
<1>2. /\ HandInv' /\ IrqInv' /\ OrderInv' /\ DeviceInv'
      /\ StampInv' /\ NoticeInv'
  BY DEF IInv, HandInv, Holding, Stopping, IrqInv, OrderInv, DeviceInv, Quiet,
         StampInv, Queued, Active, Ready, Cancelling, NoIrq, NoStop, NoticeInv,
         Running, FreePkts, publish_fault
<1>3. PlaceInv'
  BY PlacesSame DEF IInv, FetchersOK, ActorsOK, Calls, publish_fault
<1> QED
  BY <1>1, <1>2, <1>3 DEF IInv

-----------------------------------------------------------------------------
LEMMA InitEstablishes == Init => IInv
<1> SUFFICES ASSUME Init PROVE IInv
  OBVIOUS
<1> USE DEF Init
<1>1. FlagsOK
  BY DEF FlagsOK
<1>2. Ready = {} /\ Distinct(rdyq)
  BY DEF Ready, Distinct
<1>3. QueuesOK /\ DeviceOK /\ CountersOK
  BY RxBoundAssumption DEF QueuesOK, DeviceOK, CountersOK, Idle, IdleList, FreeList
<1>4. ActorsOK
  BY DEF ActorsOK, NoStop, NoIrq
<1>5. FetchersOK /\ FetchedOnce /\ Fetched \subseteq {NoPkt}
  BY RxBoundAssumption DEF FetchersOK, Calls, Out, FetchedOnce, Fetched
<1>6. HandInv /\ IrqInv /\ OrderInv
  BY DEF HandInv, IrqInv, OrderInv, Holding, Stopping, Out, NoIrq
<1>7. PlaceInv
  <2>1. PICK at \in [Pkts -> Places] : at = [p \in Pkts |-> "pool"]
    BY DEF Places
  <2>2. Located(at)
    BY <1>2, <1>5, <2>1, InventoryAssumption DEF Located, NoIrq
  <2> QED
    BY <1>2, <1>5, <2>2 DEF PlaceInv
<1>8. DeviceInv
  BY InventoryAssumption DEF DeviceInv, Quiet, Idle, IdleList
<1>9. StampInv /\ NoticeInv
  BY <1>2 DEF StampInv, Queued, Active, NoIrq, NoticeInv, FreePkts
<1> QED
  BY <1>1, <1>3, <1>4, <1>5, <1>6, <1>7, <1>8, <1>9 DEF IInv

LEMMA StepKeeps == IInv /\ [Next]_vars => IInv'
<1> SUFFICES ASSUME IInv, [Next]_vars PROVE IInv'
  OBVIOUS
<1>1. ASSUME NEW a \in Actors, Post(a) PROVE IInv'
  BY <1>1, Keeps_fetch_free, Keeps_fire_rxdma, Keeps_fire_rxdma_busy,
         Keeps_fire_rxdma_error, Keeps_requeue_busy, Keeps_notify_fll_change,
         Keeps_post_failed DEF Post
<1>2. CASE StopStep
  BY <1>2, Keeps_disable_irq, Keeps_stop_rx_dma_engine,
         Keeps_stop_rx_dma_failed, Keeps_drain_release, Keeps_drain_keep,
         Keeps_drain_faulted DEF StopStep
<1>3. CASE CaptureStep
  BY <1>3, Keeps_rx_submit, Keeps_capture_start, Keeps_capture_flush,
         Keeps_capture_flush_discard, Keeps_rx_pause_metadata_idle DEF
         CaptureStep
<1>4. ASSUME NEW f \in Fetchers, FetchStep(f) PROVE IInv'
  BY <1>4, Keeps_rx_dequeue, Keeps_fetch_wait, Keeps_accept_packet_repeat,
         Keeps_get_cap_buffer, Keeps_fetch_timeout, Keeps_try_get_cap_buffer,
         Keeps_try_complete, Keeps_rx_ack_format, Keeps_rx_pause_format DEF
         FetchStep
<1>5. CASE IrqStep
  BY <1>5, Keeps_rx_isr_list, Keeps_rx_pkt_complete, Keeps_rx_isr_unlock,
         Keeps_rx_isr_repost, Keeps_rx_isr_start_capture,
         Keeps_handle_PicQSts_intr, Keeps_interrupt_return DEF IrqStep
<1>6. CASE PmStep
  BY <1>6, Keeps_suspend, Keeps_clear_master_and_drain,
         Keeps_rx_retire_quiesced, Keeps_resume, Keeps_release_session,
         Keeps_retire_hw_context, Keeps_retire_hw_context_failed, Keeps_remove,
         Keeps_free_dma_rings DEF PmStep
<1>7. CASE DeviceStep
  BY <1>7, Keeps_plane_ends, Keeps_interrupt DEF DeviceStep
<1>8. CASE publish_fault
  BY <1>8, Keeps_publish_fault
<1>9. CASE UNCHANGED vars
  BY <1>9, UnchangedKeeps
<1> QED
  BY <1>1, <1>2, <1>3, <1>4, <1>5, <1>6, <1>7, <1>8, <1>9 DEF Next

LEMMA Invariant == Spec => []IInv
  BY InitEstablishes, StepKeeps, PTL DEF Spec

-----------------------------------------------------------------------------
(* Every variable has its type; the post index always names one of the two   *)
(* lists, although posts advance it and errors rewind it.                    *)
THEOREM TypeCorrect == Spec => []TypeOK
<1>1. IInv => TypeOK
  BY DEF IInv, TypeOK, FlagsOK, QueuesOK, DeviceOK, CountersOK, ActorsOK, FetchersOK, Calls
<1> QED
  BY <1>1, Invariant, PTL

(* How often one place shows a packet. *)
LEMMA Once ==
    ASSUME NEW S, NEW x, S = {x}
    PROVE  Cardinality(S) = 1
  BY FS_Singleton

LEMMA Never ==
    ASSUME NEW S, S = {}
    PROVE  Cardinality(S) = 0
  BY FS_EmptySet

(* Every packet of the inventory is in exactly one place, whatever the       *)
(* posts, stops, dequeues and interrupts in between: no buffer is lost and   *)
(* none is given to two owners (crystalhd_hw.c, crystalhd_fleafuncs.c).      *)
THEOREM PacketsHaveOneOwner == Spec => []SingleOwner
<1>1. IInv => SingleOwner
  <2> SUFFICES ASSUME IInv, NEW p \in Pkts
               PROVE  Cardinality({x \in {"pool", "freeq", "fallback"} :
                            p \in (CASE x = "pool" -> pool [] x = "freeq" -> freeq
                                     [] x = "fallback" -> fallback)})
                      + Cardinality({l \in Lists : p \in act[l]})
                      + Cardinality({i \in DOMAIN rdyq : rdyq[i] = p})
                      + Cardinality({a \in Actors : pkt[a] = p})
                      + Cardinality({l \in Lists : irq.err[l] = p})
                      + Cardinality({f \in Fetchers : fetch[f].pkt = p}) = 1
    BY DEF SingleOwner
  <2> DEFINE stored == {x \in {"pool", "freeq", "fallback"} :
                          p \in (CASE x = "pool" -> pool [] x = "freeq" -> freeq
                                   [] x = "fallback" -> fallback)}
             posted == {l \in Lists : p \in act[l]}
             queued == {i \in DOMAIN rdyq : rdyq[i] = p}
             held == {a \in Actors : pkt[a] = p}
             failed == {l \in Lists : irq.err[l] = p}
             calls == {f \in Fetchers : fetch[f].pkt = p}
  <2>1. PICK at \in [Pkts -> Places] : Located(at)
    BY DEF IInv, PlaceInv
  <2>2. at[p] \in Places
    OBVIOUS
  <2>3. Cardinality(stored) = IF at[p] \in {"pool", "freeq", "fallback"} THEN 1 ELSE 0
    <3>1. \A x \in {"pool", "freeq", "fallback"} : x \in stored <=> x = at[p]
      BY <2>1 DEF Located
    <3>2. CASE at[p] \in {"pool", "freeq", "fallback"}
      <4>1. stored = {at[p]}
        BY <3>1, <3>2
      <4> QED
        BY <3>2, <4>1, Once
    <3>3. CASE at[p] \notin {"pool", "freeq", "fallback"}
      <4>1. stored = {}
        BY <3>1, <3>3
      <4> QED
        BY <3>3, <4>1, Never
    <3> QED
      BY <3>2, <3>3
  <2>4. Cardinality(posted) = IF at[p] \in {"list0", "list1"} THEN 1 ELSE 0
    <3>1. CASE at[p] = "list0"
      <4>1. posted = {0}
        BY <2>1, <3>1 DEF Located
      <4> QED
        BY <3>1, <4>1, Once
    <3>2. CASE at[p] = "list1"
      <4>1. posted = {1}
        BY <2>1, <3>2 DEF Located
      <4> QED
        BY <3>2, <4>1, Once
    <3>3. CASE at[p] \notin {"list0", "list1"}
      <4>1. posted = {}
        BY <2>1, <3>3 DEF Located
      <4> QED
        BY <3>3, <4>1, Never
    <3> QED
      BY <3>1, <3>2, <3>3
  <2>5. Cardinality(queued) = IF at[p] = "ready" THEN 1 ELSE 0
    <3>1. CASE at[p] = "ready"
      <4>1. PICK i \in DOMAIN rdyq : rdyq[i] = p
        BY <2>1, <3>1 DEF Located, Ready
      <4>2. queued = {i}
        BY <4>1 DEF IInv, PlaceInv, Distinct
      <4> QED
        BY <3>1, <4>2, Once
    <3>2. CASE at[p] # "ready"
      <4>1. queued = {}
        BY <2>1, <3>2 DEF Located, Ready
      <4> QED
        BY <3>2, <4>1, Never
    <3> QED
      BY <3>1, <3>2
  <2>6. Cardinality(held) = IF at[p] \in {"proc", "isr"} THEN 1 ELSE 0
    <3>1. CASE at[p] \in {"proc", "isr"}
      <4>1. held = {at[p]}
        BY <2>1, <3>1 DEF Located
      <4> QED
        BY <3>1, <4>1, Once
    <3>2. CASE at[p] \notin {"proc", "isr"}
      <4>1. held = {}
        BY <2>1, <3>2 DEF Located
      <4> QED
        BY <3>2, <4>1, Never
    <3> QED
      BY <3>1, <3>2
  <2>7. Cardinality(failed) = IF at[p] \in {"failed0", "failed1"} THEN 1 ELSE 0
    <3>1. CASE at[p] = "failed0"
      <4>1. failed = {0}
        BY <2>1, <3>1 DEF Located
      <4> QED
        BY <3>1, <4>1, Once
    <3>2. CASE at[p] = "failed1"
      <4>1. failed = {1}
        BY <2>1, <3>2 DEF Located
      <4> QED
        BY <3>2, <4>1, Once
    <3>3. CASE at[p] \notin {"failed0", "failed1"}
      <4>1. failed = {}
        BY <2>1, <3>3 DEF Located
      <4> QED
        BY <3>3, <4>1, Never
    <3> QED
      BY <3>1, <3>2, <3>3
  <2>8. Cardinality(calls) = IF at[p] = "fetcher" THEN 1 ELSE 0
    <3>1. CASE at[p] = "fetcher"
      <4>1. PICK f \in Fetchers : fetch[f].pkt = p
        BY <2>1, <3>1 DEF Located, Fetched
      <4>2. calls = {f}
        BY <4>1, InventoryAssumption DEF IInv, PlaceInv, FetchedOnce
      <4> QED
        BY <3>1, <4>2, Once
    <3>2. CASE at[p] # "fetcher"
      <4>1. calls = {}
        BY <2>1, <3>2 DEF Located, Fetched
      <4> QED
        BY <3>2, <4>1, Never
    <3> QED
      BY <3>1, <3>2
  <2> HIDE DEF stored, posted, queued, held, failed, calls
  <2>9. Cardinality(stored) + Cardinality(posted) + Cardinality(queued)
        + Cardinality(held) + Cardinality(failed) + Cardinality(calls) = 1
    BY <2>2, <2>3, <2>4, <2>5, <2>6, <2>7, <2>8 DEF Places
  <2> QED
    BY <2>9 DEF stored, posted, queued, held, failed, calls
<1> QED
  BY <1>1, Invariant, PTL

(* While the device still writes a plane, the packet it writes into is on    *)
(* rx_actq under that list: a stop, a flush, a suspend or a removal returns  *)
(* no buffer under the device.                                               *)
THEOREM WritesAreOwned == Spec => []DeviceWritesOwned
<1>1. IInv => DeviceWritesOwned
  BY DEF IInv, DeviceInv, DeviceWritesOwned
<1> QED
  BY <1>1, Invariant, PTL

(* After a destructive stop no queue holds a registration of the cancelled   *)
(* capture, although a handler may still have carried one when the epoch was *)
(* advanced.                                                                 *)
THEOREM QueuesAreCurrent == Spec => []QueuedAreCurrent
<1>1. IInv => QueuedAreCurrent
  BY DEF IInv, StampInv, Cancelling, Stopping, QueuedAreCurrent
<1> QED
  BY <1>1, Invariant, PTL

(* With nobody inside the driver and no error so far, firmware knows that    *)
(* the free list is nonempty (crystalhd_flea_publish_fll).                   *)
THEOREM FreePacketsAnnounced == Spec => []NotStranded
<1>1. IInv => NotStranded
  BY DEF IInv, NoticeInv, SemFree, IrqIdle, NotStranded
<1> QED
  BY <1>1, Invariant, PTL

-----------------------------------------------------------------------------
(* After a fault only a submitter gets its own packet back. *)
LEMMA PoolAfterFault ==
    ASSUME IInv, Next, fault, pm # "quiesced", NEW p \in pool'
    PROVE  p \in pool \/ (fresh /\ pc["proc"] = "hard" /\ p = pkt["proc"])
<1>1. ASSUME NEW a \in Actors, Post(a) PROVE p \in pool \/ (fresh /\ pc["proc"] = "hard" /\ p = pkt["proc"])
  BY <1>1
     DEF Post, fetch_free, fire_rxdma, fire_rxdma_busy, fire_rxdma_error,
         requeue_busy, notify_fll_change, post_failed, FreePacket
<1>2. CASE StopStep
  BY <1>2
     DEF StopStep, disable_irq, stop_rx_dma_engine, stop_rx_dma_failed,
         drain_release, drain_keep, drain_faulted
<1>3. CASE CaptureStep
  BY <1>3
     DEF CaptureStep, rx_submit, capture_start, capture_flush,
         capture_flush_discard, rx_pause_metadata_idle, stop_capture
<1>4. ASSUME NEW f \in Fetchers, FetchStep(f) PROVE p \in pool
  BY <1>4
     DEF FetchStep, rx_dequeue, fetch_wait, accept_packet_repeat,
         get_cap_buffer, fetch_timeout, try_get_cap_buffer, try_complete,
         rx_ack_format, rx_pause_format, complete_rx, stop_capture
<1>5. CASE IrqStep
  BY <1>5
     DEF IrqStep, rx_isr_list, rx_pkt_complete, rx_isr_unlock, rx_isr_repost,
         rx_isr_start_capture, handle_PicQSts_intr, interrupt_return
<1>6. CASE PmStep
  BY <1>6
     DEF PmStep, suspend, clear_master_and_drain, rx_retire_quiesced, resume,
         release_session, retire_hw_context, retire_hw_context_failed, remove,
         free_dma_rings, stop_capture, IInv, OrderInv
<1>7. CASE DeviceStep
  BY <1>7 DEF DeviceStep, plane_ends, interrupt
<1>8. CASE publish_fault
  BY <1>8 DEF publish_fault
<1> QED
  BY <1>1, <1>2, <1>3, <1>4, <1>5, <1>6, <1>7, <1>8 DEF Next

LEMMA OwnedOutsidePool ==
    ASSUME IInv, NEW p \in Owned
    PROVE  p \notin pool /\ (fresh /\ pc["proc"] = "hard" => p # pkt["proc"])
<1>1. PICK at \in [Pkts -> Places] : Located(at)
  BY DEF IInv, PlaceInv
<1>2. Queued = freeq \cup fallback \cup act[0] \cup act[1] \cup Ready /\ Queued \subseteq Pkts
  BY DEF IInv, QueuesOK, Queued, Active, Ready
<1>3. pc["proc"] = "hard" => pkt["proc"] \in Pkts
  BY DEF IInv, ActorsOK, HandInv, Holding
<1>4. p \in Pkts \/ p = NoPkt
  BY <1>2 DEF IInv, ActorsOK, FetchersOK, Calls, Owned
<1>5. CASE p = NoPkt
  BY <1>3, <1>5, InventoryAssumption DEF IInv, QueuesOK
<1>6. CASE p \in Pkts
  BY <1>1, <1>2, <1>3, <1>6 DEF Located, Owned, Fetched
<1> QED
  BY <1>4, <1>5, <1>6

(* Once a fault is published, a registration the driver owns is released     *)
(* only after the terminal proof of quiescence, whoever held it              *)
(* (crystalhd_hw_publish_fault, crystalhd_hw_complete_rx_locked).            *)
THEOREM FaultKeepsRegistrations == Spec => FaultRetains
<1>1. IInv /\ [Next]_vars
        => [fault /\ pm # "quiesced" => \A p \in Owned : p \notin pool']_vars
  BY PoolAfterFault, OwnedOutsidePool
<1> QED
  BY <1>1, Invariant, PTL DEF Spec, FaultRetains
============================================================================
