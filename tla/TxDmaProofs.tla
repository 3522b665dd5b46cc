---------------------------- MODULE TxDmaProofs ----------------------------
(***************************************************************************)
(* What TxDma promises for any pool of requests and any number of          *)
(* transfers and sessions.                                                 *)
(*                                                                         *)
(* The inductive invariant says who is running and what it holds off       *)
(* (ThreadInv, IrqInv), which requests carry the completion of the         *)
(* transfer in progress (RequestInv), what the handler may still be        *)
(* running (HandlerInv) and, as long as no capture stop has kept the line  *)
(* off, that the device is quiet whenever no request is posted (QuietInv). *)
(***************************************************************************)
EXTENDS TxDma, FiniteSetTheorems, TLAPS

(* One program counter serves the transfer and the exclusive operations.     *)
TransferPcs == {"post", "reserved", "busy", "posted", "waiting", "retain", "complete", "put"}

ThreadInv ==
    /\ who = "none" <=> pc = "idle"
    /\ pc \in TransferPcs => who = "transfer"
    /\ pc \in {"close", "free"} => who \in {"suspend", "close"}
    /\ pc = "free" => who = "close"
    /\ who = "transfer" => pc \in Leasing /\ cur # None /\ state = "INIT"
    /\ pc # "idle" => state # "INVALID"
    /\ held # NoPkt <=> pc = "reserved"
    /\ cur + rx_stops <= MaxTransfers

(* disable_irq depth: a capture stop, a cancellation and a close each count  *)
(* one, and the handler runs only at depth zero.                             *)
IrqInv ==
    /\ irq_off = (IF rx_stop THEN 1 ELSE 0)
                 + (IF pc \in {"stopping", "stopped"} THEN 1 ELSE 0)
                 + (IF who = "close" THEN 1 ELSE 0)
    /\ rx_stop => rx_stops > 0 /\ who \in {"none", "transfer"}
    /\ isr # "off" => irq_off = 0 /\ state # "INVALID" /\ (dma_fault \/ state = "INIT")

(* A request carries a completion only for the transfer in progress, between *)
(* its post and the end of its cancellation; at most one does.               *)
RequestInv ==
    /\ \A p \in Pkts : pkt[p].ctx # None =>
          /\ pkt[p].ctx = cur /\ p \in tx_actq /\ who = "transfer" /\ ~done
          /\ pkt[p].retained = None
          /\ pc \in {"posted", "waiting", "cancel", "stopping", "stopped", "enabled", "retain"}
          /\ pc \in {"enabled", "retain"} => dma_fault
          /\ isr \notin {"callback", "wake"}
    /\ \A p, q \in Pkts : pkt[p].ctx # None /\ pkt[q].ctx # None => p = q
    /\ \A p \in Pkts : pkt[p].retained # None => dma_fault /\ p \in tx_actq
    /\ \A p \in tx_actq : ~dma_fault => pkt[p].ctx # None

HandlerInv ==
    /\ isr_ctx # None <=> isr \in {"callback", "wake"}
    /\ isr_ctx # None =>
          /\ isr_ctx = cur /\ who = "transfer"
          /\ pc \in {"posted", "waiting", "complete", "cancel"}
    /\ isr = "off" => isr_todo = {}
    /\ pc = "complete" => done
    /\ pc \in {"post", "reserved", "busy"} => ~done
    /\ isr = "callback" /\ isr_cs = "success" /\ rx_stops = 0 => cur \in consumed

(* A list that is valid has its run bit unless the engine was given up, and  *)
(* is gone once a stop was proven; a context without rings owns nothing.     *)
NoList == \A l \in Lists : list[l] = None

EngineInv ==
    /\ ~dma_fault /\ ~run => NoList
    /\ ~dma_fault /\ (pc = "stopped" \/ state # "INIT") => NoList
    /\ pc = "free" \/ state = "INVALID" => NoList
    /\ state = "INVALID" => tx_actq = {} /\ isr = "off"

(* Without a fault and a capture stop a valid list is the one of the request *)
(* in progress; a latched bit means that it has ended; and nothing is        *)
(* latched, pending or valid when no transfer waits.                         *)
QuietInv ==
    rx_stops = 0 =>
        /\ \A l \in Lists : list[l] # None =>
              \E p \in tx_actq : list[l] \in {pkt[p].ctx, pkt[p].retained}
        /\ ~dma_fault /\ state = "INIT" =>
              /\ pc # "free" => ~masked
              /\ \A l, m \in Lists : list[l] # None /\ list[m] # None => l = m
              /\ bits # {} \/ isr # "off" => NoList
              /\ isr # "off" => bits \subseteq isr_bits
              /\ \A l \in Lists : <<l, "done">> \in bits \cup isr_todo => cur \in consumed
              /\ pc \in {"posted", "waiting", "complete"} /\ done => isr # "off" \/ bits = {}
              /\ pc \in {"stopped", "enabled"} => NoList
              /\ who # "transfer" \/ pc \in {"post", "reserved", "busy", "put", "retain"} =>
                    bits = {} /\ isr = "off" /\ NoList

(* Every request of a session is on one queue or reserved.                   *)
QueueInv ==
    state # "INVALID" =>
        /\ tx_freeq \cap tx_actq = {}
        /\ held \notin tx_freeq \cup tx_actq
        /\ tx_freeq \cup tx_actq = Pkts \ {held}

(* One lease for the transfer in progress and one for each request in f that *)
(* keeps it.                                                                 *)
Keepers(f, x) == {p \in Pkts : f[p].retained = x}

LeaseInv ==
    \A x \in Transfers :
        lease[x] = (IF who = "transfer" /\ x = cur THEN 1 ELSE 0)
                   + Cardinality(Keepers(pkt, x))

SuccessInv ==
    rx_stops = 0 /\ who = "transfer" /\ done /\ status = "success" => cur \in consumed

(* TypeOK, the Boolean variables apart.                                      *)
FlagsOK ==
    /\ dma_fault \in BOOLEAN /\ present \in BOOLEAN
    /\ dma_terminal_quiesced \in BOOLEAN
    /\ cin_wait_exit \in BOOLEAN /\ tx_stopping \in BOOLEAN
    /\ bounded \in BOOLEAN /\ late \in BOOLEAN /\ done \in BOOLEAN
    /\ rx_stop \in BOOLEAN /\ run \in BOOLEAN /\ masked \in BOOLEAN

DataOK ==
    /\ state \in {"INVALID", "INIT", "SUSPEND"}
    /\ sessions \in 0 .. MaxSessions
    /\ pkt \in [Pkts -> Packet]
    /\ tx_freeq \subseteq Pkts /\ tx_actq \subseteq Pkts
    /\ tx_list_post_index \in Lists
    /\ pc \in PcStates /\ who \in {"none", "transfer", "suspend", "close"}
    /\ cur \in Owner
    /\ held \in Pkts \cup {NoPkt}
    /\ status \in {"success", "error", "abort"}
    /\ lease \in [Transfers -> Nat]
    /\ irq_off \in 0 .. 2
    /\ rx_stops \in 0 .. MaxRxStops
    /\ isr \in {"off", "work", "callback", "wake"}
    /\ isr_bits \subseteq Events /\ isr_todo \subseteq Events
    /\ isr_ctx \in Owner /\ isr_cs \in {"success", "error"}
    /\ list \in [Lists -> Owner]
    /\ bits \subseteq Events
    /\ consumed \subseteq Transfers

IInv ==
    /\ FlagsOK /\ DataOK /\ ThreadInv /\ IrqInv /\ RequestInv /\ HandlerInv
    /\ EngineInv /\ QuietInv /\ QueueInv /\ LeaseInv /\ SuccessInv

USE DEF vars, allButPc, adapter, flags, queues, thread, capture, completion,
        handler, device, None, Lists, DMA_ENGINE_CNT

-----------------------------------------------------------------------------
LEMMA KeepersCount ==
    ASSUME NEW f, NEW x
    PROVE  IsFiniteSet(Keepers(f, x)) /\ Cardinality(Keepers(f, x)) \in Nat
<1>1. Keepers(f, x) \in SUBSET Pkts
  BY DEF Keepers
<1> QED
  BY <1>1, PktAssumption, FS_Subset, FS_CardinalityType

LEMMA KeepersSame ==
    ASSUME NEW f, NEW g, NEW x, \A p \in Pkts : f[p].retained = g[p].retained
    PROVE  Keepers(f, x) = Keepers(g, x)
  BY DEF Keepers

LEMMA NoKeepers ==
    ASSUME NEW f, NEW x, \A p \in Pkts : f[p].retained # x
    PROVE  Cardinality(Keepers(f, x)) = 0
<1>1. Keepers(f, x) = {}
  BY DEF Keepers
<1> QED
  BY <1>1, FS_EmptySet

LEMMA OneMoreKeeper ==
    ASSUME NEW f, NEW g, NEW x, NEW q \in Pkts,
           f[q].retained # x, g[q].retained = x,
           \A p \in Pkts \ {q} : f[p].retained = g[p].retained
    PROVE  Cardinality(Keepers(g, x)) = Cardinality(Keepers(f, x)) + 1
<1>1. Keepers(g, x) = Keepers(f, x) \cup {q} /\ q \notin Keepers(f, x)
  BY DEF Keepers
<1> QED
  BY <1>1, KeepersCount, FS_AddElement

LEMMA SomeKeeper ==
    ASSUME NEW f, NEW x, NEW p \in Pkts, f[p].retained = x
    PROVE  Cardinality(Keepers(f, x)) > 0
<1>1. Keepers(f, x) # {}
  BY DEF Keepers
<1>2. IsFiniteSet(Keepers(f, x)) /\ Cardinality(Keepers(f, x)) \in Nat
  BY KeepersCount
<1> QED
  BY <1>1, <1>2, FS_EmptySet

(* tx_req_retire clears the completion and the tag, not the lease. *)
LEMMA RetireEffect ==
    ASSUME DataOK, NEW ps \in SUBSET Pkts, Retire(ps)
    PROVE  /\ pkt' \in [Pkts -> Packet]
           /\ \A p \in Pkts : pkt'[p].retained = pkt[p].retained
           /\ \A p \in ps : pkt'[p].ctx = None
           /\ \A p \in Pkts \ ps : pkt'[p] = pkt[p]
           /\ tx_actq' = tx_actq \ ps /\ tx_freeq' = tx_freeq \cup ps
<1>1. ASSUME NEW p \in Pkts
      PROVE  LET r == [pkt[p] EXCEPT !.ctx = None, !.tag = 0] IN
             r \in Packet /\ r.retained = pkt[p].retained /\ r.ctx = None
  <2>1. pkt[p] \in Packet /\ None \in Owner /\ 0 \in Lists
    BY DEF DataOK, Owner
  <2> QED
    BY <2>1 DEF Packet
<1>2. pkt' = [p \in Pkts |-> IF p \in ps THEN [pkt[p] EXCEPT !.ctx = None, !.tag = 0]
                                         ELSE pkt[p]]
  BY DEF Retire
<1> QED
  BY <1>1, <1>2 DEF DataOK, Retire

(* The fixed inventory gives back exactly the leases it keeps. *)
LEMMA QuiescedLeases ==
    ASSUME IInv, RetireQuiesced, who # "transfer", who' # "transfer"
    PROVE  LeaseInv' /\ lease' \in [Transfers -> Nat] /\ pkt' \in [Pkts -> Packet]
<1>1. pkt' = [p \in Pkts |-> FreshPacket] /\ FreshPacket \in Packet
  BY DEF RetireQuiesced, FreshPacket, Packet, Owner
<1>2. \A x \in Transfers : Cardinality(Keepers(pkt', x)) = 0
  <2>1. ASSUME NEW x \in Transfers PROVE \A p \in Pkts : pkt'[p].retained # x
    BY <1>1 DEF FreshPacket, Transfers
  <2> QED
    BY <2>1, NoKeepers
<1>3. \A x \in Transfers : lease'[x] = lease[x] - Cardinality(Keepers(pkt, x))
  BY DEF RetireQuiesced, Keepers
<1>4. \A x \in Transfers : lease[x] = Cardinality(Keepers(pkt, x))
  BY KeepersCount DEF IInv, LeaseInv
<1>5. lease' \in [Transfers -> Nat] /\ \A x \in Transfers : lease'[x] = 0
  BY <1>3, <1>4, KeepersCount DEF RetireQuiesced
<1> QED
  BY <1>1, <1>2, <1>5 DEF LeaseInv

LEMMA Numbers ==
    ASSUME DataOK
    PROVE  /\ MaxTransfers \in Nat /\ cur \in 0 .. MaxTransfers /\ rx_stops \in Nat
           /\ cur # None => cur \in Transfers
  BY BoundAssumption DEF DataOK, Owner, Transfers

LEMMA Keeps_tx_transfer_common == ASSUME IInv, tx_transfer_common PROVE IInv'
<1>1. cur \in 0 .. MaxTransfers /\ cur + 1 \in Transfers /\ rx_stops \in Nat
  BY Numbers DEF IInv, tx_transfer_common, Transfers
<1>2. FlagsOK'
  BY DEF IInv, FlagsOK, tx_transfer_common
<1>3. lease' \in [Transfers -> Nat]
  BY <1>1 DEF IInv, DataOK, tx_transfer_common
<1>4. DataOK'
  BY <1>1, <1>3 DEF IInv, DataOK, PcStates, Leasing, Owner, tx_transfer_common, Goto
<1>5. ThreadInv'
  BY <1>1, Numbers
     DEF IInv, ThreadInv, TransferPcs, Leasing, tx_transfer_common, Goto, Idle
<1>6. IrqInv' /\ EngineInv' /\ QueueInv'
  BY DEF IInv, DataOK, ThreadInv, IrqInv, EngineInv, NoList, QueueInv,
         tx_transfer_common, Goto, Idle
<1>7. RequestInv' /\ HandlerInv' /\ SuccessInv'
  BY DEF IInv, DataOK, ThreadInv, RequestInv, HandlerInv, SuccessInv,
         tx_transfer_common, Goto, Idle
<1>8. QuietInv'
  BY DEF IInv, DataOK, ThreadInv, HandlerInv, QuietInv, NoList, tx_transfer_common,
         Goto, Idle
<1>9. LeaseInv'
  <2>1. who = "none" /\ who' = "transfer" /\ pkt' = pkt /\ cur' = cur + 1
        /\ lease' = [lease EXCEPT ![cur + 1] = @ + 1]
    BY DEF IInv, ThreadInv, tx_transfer_common, Idle
  <2> QED
    BY <1>1, <2>1, KeepersCount DEF IInv, DataOK, LeaseInv
<1> QED
  BY <1>2, <1>4, <1>5, <1>6, <1>7, <1>8, <1>9 DEF IInv

LEMMA Keeps_tx_deadline == ASSUME IInv, tx_deadline PROVE IInv'
<1>1. FlagsOK'
  BY BoundAssumption, PktAssumption DEF IInv, DataOK, FlagsOK, tx_deadline,
     InTransfer, Leasing
<1>2. DataOK'
  BY BoundAssumption, PktAssumption DEF IInv, DataOK, PcStates, Leasing, Packet,
     Owner, Transfers, Events, FreshPacket, tx_deadline, InTransfer
<1>3. /\ ThreadInv' /\ IrqInv' /\ RequestInv' /\ HandlerInv' /\ EngineInv'
      /\ QuietInv' /\ QueueInv' /\ LeaseInv' /\ SuccessInv'
  BY BoundAssumption, PktAssumption DEF IInv, DataOK, ThreadInv, TransferPcs,
     Leasing, IrqInv, RequestInv, Packet, HandlerInv, EngineInv, NoList,
     QuietInv, Events, QueueInv, LeaseInv, SuccessInv, tx_deadline, InTransfer
<1> QED
  BY <1>1, <1>2, <1>3 DEF IInv

LEMMA Keeps_post_tx_reserve == ASSUME IInv, NEW p \in Pkts, post_tx_reserve(p) PROVE IInv'
<1>1. FlagsOK'
  BY BoundAssumption, PktAssumption DEF IInv, DataOK, FlagsOK, post_tx_reserve,
     Goto
<1>2. DataOK'
  BY BoundAssumption, PktAssumption DEF IInv, DataOK, PcStates, Leasing, Packet,
     Owner, Transfers, Events, FreshPacket, post_tx_reserve, Goto
<1>3. /\ ThreadInv' /\ IrqInv' /\ RequestInv' /\ HandlerInv' /\ EngineInv'
      /\ QuietInv' /\ QueueInv' /\ LeaseInv' /\ SuccessInv'
  BY BoundAssumption, PktAssumption DEF IInv, DataOK, ThreadInv, TransferPcs,
     Leasing, IrqInv, RequestInv, Packet, HandlerInv, EngineInv, NoList,
     QuietInv, Events, QueueInv, LeaseInv, SuccessInv, post_tx_reserve, Goto
<1> QED
  BY <1>1, <1>2, <1>3 DEF IInv

LEMMA Keeps_post_tx_busy == ASSUME IInv, post_tx_busy PROVE IInv'
<1>1. FlagsOK'
  BY BoundAssumption, PktAssumption DEF IInv, DataOK, FlagsOK, post_tx_busy,
     Goto
<1>2. DataOK'
  BY BoundAssumption, PktAssumption DEF IInv, DataOK, PcStates, Leasing, Packet,
     Owner, Transfers, Events, FreshPacket, post_tx_busy, Goto
<1>3. /\ ThreadInv' /\ IrqInv' /\ RequestInv' /\ HandlerInv' /\ EngineInv'
      /\ QuietInv' /\ QueueInv' /\ LeaseInv' /\ SuccessInv'
  BY BoundAssumption, PktAssumption DEF IInv, DataOK, ThreadInv, TransferPcs,
     Leasing, IrqInv, RequestInv, Packet, HandlerInv, EngineInv, NoList,
     QuietInv, Events, QueueInv, LeaseInv, SuccessInv, post_tx_busy, Goto
<1> QED
  BY <1>1, <1>2, <1>3 DEF IInv

LEMMA Keeps_post_tx_refused == ASSUME IInv, post_tx_refused PROVE IInv'
<1>1. FlagsOK'
  BY BoundAssumption, PktAssumption DEF IInv, DataOK, FlagsOK, post_tx_refused,
     Goto
<1>2. DataOK'
  BY BoundAssumption, PktAssumption DEF IInv, DataOK, PcStates, Leasing, Packet,
     Owner, Transfers, Events, FreshPacket, post_tx_refused, Goto
<1>3. /\ ThreadInv' /\ IrqInv' /\ RequestInv' /\ HandlerInv' /\ EngineInv'
      /\ QuietInv' /\ QueueInv' /\ LeaseInv' /\ SuccessInv'
  BY BoundAssumption, PktAssumption DEF IInv, DataOK, ThreadInv, TransferPcs,
     Leasing, IrqInv, RequestInv, Packet, HandlerInv, EngineInv, NoList,
     QuietInv, Events, QueueInv, LeaseInv, SuccessInv, post_tx_refused, Goto
<1> QED
  BY <1>1, <1>2, <1>3 DEF IInv

LEMMA Keeps_post_tx == ASSUME IInv, post_tx PROVE IInv'
<1> DEFINE posted == [pkt[held] EXCEPT !.ctx = cur, !.tag = tx_list_post_index]
<1>1. held \in Pkts /\ held # NoPkt /\ who = "transfer" /\ cur # None
  BY PktAssumption DEF IInv, DataOK, ThreadInv, TransferPcs, post_tx
<1>2. posted \in Packet /\ posted.ctx = cur /\ posted.retained = pkt[held].retained
  BY <1>1 DEF IInv, DataOK, Packet
<1>3. pkt' = [pkt EXCEPT ![held] = posted]
  BY <1>1 DEF IInv, DataOK, Packet, post_tx
<1> HIDE DEF posted
<1>4. pkt' \in [Pkts -> Packet] /\ pkt'[held] = posted
      /\ \A p \in Pkts \ {held} : pkt'[p] = pkt[p]
  BY <1>1, <1>2, <1>3 DEF IInv, DataOK
<1>5. FlagsOK'
  BY DEF IInv, FlagsOK, post_tx
<1>6. DataOK'
  BY <1>1, <1>4 DEF IInv, DataOK, PcStates, Leasing, post_tx, Goto
<1>7. ThreadInv' /\ IrqInv' /\ HandlerInv' /\ SuccessInv'
  BY <1>1 DEF IInv, DataOK, ThreadInv, IrqInv, HandlerInv, SuccessInv, TransferPcs,
              Leasing, post_tx, Goto
<1>8. held \notin tx_actq /\ held \notin tx_freeq
  BY <1>1 DEF IInv, ThreadInv, QueueInv
<1>9. QueueInv'
  BY <1>1, <1>8, PktAssumption DEF IInv, DataOK, ThreadInv, QueueInv, post_tx
<1>10. RequestInv'
  BY <1>1, <1>2, <1>4, <1>8
     DEF IInv, DataOK, ThreadInv, RequestInv, HandlerInv, post_tx, Goto
<1>11. EngineInv'
  BY <1>1 DEF IInv, ThreadInv, EngineInv, post_tx, Goto
<1>12. QuietInv'
  BY <1>1, <1>2, <1>4, <1>8
     DEF IInv, DataOK, ThreadInv, QuietInv, NoList, post_tx, Goto
<1>13. LeaseInv'
  <2>1. \A x \in Transfers : Keepers(pkt', x) = Keepers(pkt, x)
    BY <1>2, <1>4, KeepersSame
  <2> QED
    BY <2>1 DEF IInv, LeaseInv, post_tx
<1> QED
  BY <1>5, <1>6, <1>7, <1>9, <1>10, <1>11, <1>12, <1>13 DEF IInv

LEMMA Keeps_post_tx_requeue == ASSUME IInv, post_tx_requeue PROVE IInv'
<1>1. held \in Pkts /\ held # NoPkt /\ who = "transfer"
  BY PktAssumption DEF IInv, DataOK, ThreadInv, TransferPcs, post_tx_requeue
<1>2. held \notin tx_actq /\ held \notin tx_freeq /\ pkt[held].ctx = None
  BY <1>1 DEF IInv, ThreadInv, QueueInv, RequestInv
<1>3. pkt' = pkt
  BY <1>1, <1>2 DEF IInv, DataOK, Packet, post_tx_requeue
<1>4. FlagsOK'
  BY DEF IInv, FlagsOK, post_tx_requeue
<1>5. DataOK'
  BY <1>1, <1>3 DEF IInv, DataOK, PcStates, Leasing, post_tx_requeue, Goto
<1>6. ThreadInv' /\ IrqInv' /\ HandlerInv' /\ EngineInv' /\ SuccessInv'
  BY <1>1 DEF IInv, ThreadInv, IrqInv, HandlerInv, EngineInv, NoList, SuccessInv,
              TransferPcs, Leasing, post_tx_requeue, Goto
<1>7. RequestInv' /\ LeaseInv'
  BY <1>3 DEF IInv, RequestInv, LeaseInv, post_tx_requeue, Goto
<1>8. QueueInv'
  BY <1>1, <1>2, PktAssumption DEF IInv, DataOK, QueueInv, post_tx_requeue
<1>9. QuietInv'
  BY <1>1, <1>3 DEF IInv, QuietInv, NoList, post_tx_requeue, Goto
<1> QED
  BY <1>4, <1>5, <1>6, <1>7, <1>8, <1>9 DEF IInv

LEMMA Keeps_tx_busy_retry == ASSUME IInv, tx_busy_retry PROVE IInv'
<1>1. FlagsOK'
  BY BoundAssumption, PktAssumption DEF IInv, DataOK, FlagsOK, tx_busy_retry,
     Goto
<1>2. DataOK'
  BY BoundAssumption, PktAssumption DEF IInv, DataOK, PcStates, Leasing, Packet,
     Owner, Transfers, Events, FreshPacket, tx_busy_retry, Goto
<1>3. /\ ThreadInv' /\ IrqInv' /\ RequestInv' /\ HandlerInv' /\ EngineInv'
      /\ QuietInv' /\ QueueInv' /\ LeaseInv' /\ SuccessInv'
  BY BoundAssumption, PktAssumption DEF IInv, DataOK, ThreadInv, TransferPcs,
     Leasing, IrqInv, RequestInv, Packet, HandlerInv, EngineInv, NoList,
     QuietInv, Events, QueueInv, LeaseInv, SuccessInv, tx_busy_retry, Goto
<1> QED
  BY <1>1, <1>2, <1>3 DEF IInv

LEMMA Keeps_tx_busy_exit == ASSUME IInv, tx_busy_exit PROVE IInv'
<1>1. FlagsOK'
  BY BoundAssumption, PktAssumption DEF IInv, DataOK, FlagsOK, tx_busy_exit,
     Goto
<1>2. DataOK'
  BY BoundAssumption, PktAssumption DEF IInv, DataOK, PcStates, Leasing, Packet,
     Owner, Transfers, Events, FreshPacket, tx_busy_exit, Goto
<1>3. /\ ThreadInv' /\ IrqInv' /\ RequestInv' /\ HandlerInv' /\ EngineInv'
      /\ QuietInv' /\ QueueInv' /\ LeaseInv' /\ SuccessInv'
  BY BoundAssumption, PktAssumption DEF IInv, DataOK, ThreadInv, TransferPcs,
     Leasing, IrqInv, RequestInv, Packet, HandlerInv, EngineInv, NoList,
     QuietInv, Events, QueueInv, LeaseInv, SuccessInv, tx_busy_exit, Goto
<1> QED
  BY <1>1, <1>2, <1>3 DEF IInv

LEMMA Keeps_codein_sleep_cancelled == ASSUME IInv, codein_sleep_cancelled PROVE IInv'
<1>1. FlagsOK'
  BY BoundAssumption, PktAssumption DEF IInv, DataOK, FlagsOK,
     codein_sleep_cancelled, Goto
<1>2. DataOK'
  BY BoundAssumption, PktAssumption DEF IInv, DataOK, PcStates, Leasing, Packet,
     Owner, Transfers, Events, FreshPacket, codein_sleep_cancelled, Goto
<1>3. /\ ThreadInv' /\ IrqInv' /\ RequestInv' /\ HandlerInv' /\ EngineInv'
      /\ QuietInv' /\ QueueInv' /\ LeaseInv' /\ SuccessInv'
  BY BoundAssumption, PktAssumption DEF IInv, DataOK, ThreadInv, TransferPcs,
     Leasing, IrqInv, RequestInv, Packet, HandlerInv, EngineInv, NoList,
     QuietInv, Events, QueueInv, LeaseInv, SuccessInv, codein_sleep_cancelled,
     Goto
<1> QED
  BY <1>1, <1>2, <1>3 DEF IInv

LEMMA Keeps_tx_posted == ASSUME IInv, tx_posted PROVE IInv'
<1>1. FlagsOK'
  BY BoundAssumption, PktAssumption DEF IInv, DataOK, FlagsOK, tx_posted, Goto
<1>2. DataOK'
  BY BoundAssumption, PktAssumption DEF IInv, DataOK, PcStates, Leasing, Packet,
     Owner, Transfers, Events, FreshPacket, tx_posted, Goto
<1>3. /\ ThreadInv' /\ IrqInv' /\ RequestInv' /\ HandlerInv' /\ EngineInv'
      /\ QuietInv' /\ QueueInv' /\ LeaseInv' /\ SuccessInv'
  BY BoundAssumption, PktAssumption DEF IInv, DataOK, ThreadInv, TransferPcs,
     Leasing, IrqInv, RequestInv, Packet, HandlerInv, EngineInv, NoList,
     QuietInv, Events, QueueInv, LeaseInv, SuccessInv, tx_posted, Goto
<1> QED
  BY <1>1, <1>2, <1>3 DEF IInv

LEMMA Keeps_tx_wait_done == ASSUME IInv, tx_wait_done PROVE IInv'
<1>1. FlagsOK'
  BY BoundAssumption, PktAssumption DEF IInv, DataOK, FlagsOK, tx_wait_done,
     Goto
<1>2. DataOK'
  BY BoundAssumption, PktAssumption DEF IInv, DataOK, PcStates, Leasing, Packet,
     Owner, Transfers, Events, FreshPacket, tx_wait_done, Goto
<1>3. /\ ThreadInv' /\ IrqInv' /\ RequestInv' /\ HandlerInv' /\ EngineInv'
      /\ QuietInv' /\ QueueInv' /\ LeaseInv' /\ SuccessInv'
  BY BoundAssumption, PktAssumption DEF IInv, DataOK, ThreadInv, TransferPcs,
     Leasing, IrqInv, RequestInv, Packet, HandlerInv, EngineInv, NoList,
     QuietInv, Events, QueueInv, LeaseInv, SuccessInv, tx_wait_done, Goto
<1> QED
  BY <1>1, <1>2, <1>3 DEF IInv

LEMMA Keeps_tx_wait_timeout == ASSUME IInv, tx_wait_timeout PROVE IInv'
<1>1. FlagsOK'
  BY BoundAssumption, PktAssumption DEF IInv, DataOK, FlagsOK, tx_wait_timeout,
     Goto
<1>2. DataOK'
  BY BoundAssumption, PktAssumption DEF IInv, DataOK, PcStates, Leasing, Packet,
     Owner, Transfers, Events, FreshPacket, tx_wait_timeout, Goto
<1>3. /\ ThreadInv' /\ IrqInv' /\ RequestInv' /\ HandlerInv' /\ EngineInv'
      /\ QuietInv' /\ QueueInv' /\ LeaseInv' /\ SuccessInv'
  BY BoundAssumption, PktAssumption DEF IInv, DataOK, ThreadInv, TransferPcs,
     Leasing, IrqInv, RequestInv, Packet, HandlerInv, EngineInv, NoList,
     QuietInv, Events, QueueInv, LeaseInv, SuccessInv, tx_wait_timeout, Goto
<1> QED
  BY <1>1, <1>2, <1>3 DEF IInv

LEMMA Keeps_tx_complete == ASSUME IInv, tx_complete PROVE IInv'
<1>1. FlagsOK'
  BY BoundAssumption, PktAssumption DEF IInv, DataOK, FlagsOK, tx_complete, Goto
<1>2. DataOK'
  BY BoundAssumption, PktAssumption DEF IInv, DataOK, PcStates, Leasing, Packet,
     Owner, Transfers, Events, FreshPacket, tx_complete, Goto
<1>3. /\ ThreadInv' /\ IrqInv' /\ RequestInv' /\ HandlerInv'
      /\ EngineInv' /\ QueueInv' /\ LeaseInv' /\ SuccessInv'
  BY BoundAssumption, PktAssumption DEF IInv, DataOK, ThreadInv, TransferPcs,
     Leasing, IrqInv, RequestInv, Packet, HandlerInv, EngineInv, NoList,
     QueueInv, LeaseInv, SuccessInv, tx_complete, Goto
<1>4. QuietInv'
  BY BoundAssumption, PktAssumption DEF IInv, QuietInv, NoList, Events, DataOK,
     ThreadInv, TransferPcs, Leasing, IrqInv, RequestInv, HandlerInv, EngineInv,
     QueueInv, tx_complete, Goto
<1> QED
  BY <1>1, <1>2, <1>3, <1>4 DEF IInv

LEMMA Keeps_tx_buffer_put == ASSUME IInv, tx_buffer_put PROVE IInv'
<1>1. who = "transfer" /\ cur \in Transfers
  BY Numbers DEF IInv, ThreadInv, TransferPcs, tx_buffer_put
<1>2. lease' \in [Transfers -> Nat] /\ LeaseInv'
  BY <1>1, KeepersCount DEF IInv, DataOK, LeaseInv, tx_buffer_put
<1>3. FlagsOK'
  BY DEF IInv, FlagsOK, tx_buffer_put
<1>4. DataOK'
  BY <1>2 DEF IInv, DataOK, PcStates, tx_buffer_put, Goto
<1>5. ThreadInv' /\ RequestInv' /\ HandlerInv' /\ QueueInv' /\ SuccessInv'
  BY DEF IInv, ThreadInv, RequestInv, HandlerInv, QueueInv, SuccessInv,
         TransferPcs, Leasing, tx_buffer_put, Goto
<1>6. IrqInv'
  BY <1>1 DEF IInv, DataOK, IrqInv, tx_buffer_put, Goto
<1>7. EngineInv' /\ QuietInv'
  BY DEF IInv, EngineInv, QuietInv, NoList, tx_buffer_put, Goto
<1> QED
  BY <1>2, <1>3, <1>4, <1>5, <1>6, <1>7 DEF IInv

LEMMA Keeps_retain_tx_buffer == ASSUME IInv, NEW p \in Pkts, retain_tx_buffer(p) PROVE IInv'
<1>1. FlagsOK'
  BY BoundAssumption, PktAssumption DEF IInv, DataOK, FlagsOK, retain_tx_buffer,
     Goto
<1>2. /\ ThreadInv' /\ RequestInv' /\ HandlerInv' /\ EngineInv'
      /\ QueueInv' /\ LeaseInv' /\ SuccessInv'
  BY BoundAssumption, PktAssumption DEF IInv, DataOK, ThreadInv, TransferPcs,
     Leasing, RequestInv, Packet, HandlerInv, EngineInv, NoList, QueueInv,
     LeaseInv, SuccessInv, retain_tx_buffer, Goto
<1>3. DataOK'
  BY BoundAssumption, PktAssumption DEF IInv, DataOK, PcStates, Leasing, Packet,
     Owner, Transfers, Events, FreshPacket, ThreadInv, TransferPcs, IrqInv,
     RequestInv, HandlerInv, EngineInv, NoList, QueueInv, retain_tx_buffer, Goto
<1>4. IrqInv'
  BY BoundAssumption, PktAssumption DEF IInv, IrqInv, DataOK, ThreadInv,
     TransferPcs, Leasing, RequestInv, HandlerInv, EngineInv, NoList, QueueInv,
     retain_tx_buffer, Goto
<1>5. QuietInv'
  BY BoundAssumption, PktAssumption DEF IInv, QuietInv, NoList, Events, DataOK,
     ThreadInv, TransferPcs, Leasing, IrqInv, RequestInv, HandlerInv, EngineInv,
     QueueInv, retain_tx_buffer, Goto
<1> QED
  BY <1>1, <1>2, <1>3, <1>4, <1>5 DEF IInv

LEMMA Keeps_retain_tx_buffer_none == ASSUME IInv, retain_tx_buffer_none PROVE IInv'
<1>1. FlagsOK'
  BY BoundAssumption, PktAssumption DEF IInv, DataOK, FlagsOK,
     retain_tx_buffer_none, Goto
<1>2. DataOK'
  BY BoundAssumption, PktAssumption DEF IInv, DataOK, PcStates, Leasing, Packet,
     Owner, Transfers, Events, FreshPacket, retain_tx_buffer_none, Goto
<1>3. /\ ThreadInv' /\ IrqInv' /\ RequestInv' /\ HandlerInv' /\ EngineInv'
      /\ QuietInv' /\ QueueInv' /\ LeaseInv' /\ SuccessInv'
  BY BoundAssumption, PktAssumption DEF IInv, DataOK, ThreadInv, TransferPcs,
     Leasing, IrqInv, RequestInv, Packet, HandlerInv, EngineInv, NoList,
     QuietInv, Events, QueueInv, LeaseInv, SuccessInv, retain_tx_buffer_none,
     Goto
<1> QED
  BY <1>1, <1>2, <1>3 DEF IInv

LEMMA Keeps_cancel_all_tx == ASSUME IInv, cancel_all_tx PROVE IInv'
<1>1. FlagsOK'
  BY BoundAssumption, PktAssumption DEF IInv, DataOK, FlagsOK, cancel_all_tx,
     Goto
<1>2. /\ ThreadInv' /\ IrqInv' /\ RequestInv' /\ HandlerInv' /\ EngineInv'
      /\ QuietInv' /\ QueueInv' /\ LeaseInv' /\ SuccessInv'
  BY BoundAssumption, PktAssumption DEF IInv, DataOK, ThreadInv, TransferPcs,
     Leasing, IrqInv, RequestInv, Packet, HandlerInv, EngineInv, NoList,
     QuietInv, Events, QueueInv, LeaseInv, SuccessInv, cancel_all_tx, Goto
<1>3. DataOK'
  BY BoundAssumption, PktAssumption DEF IInv, DataOK, PcStates, Leasing, Packet,
     Owner, Transfers, Events, FreshPacket, ThreadInv, TransferPcs, IrqInv,
     RequestInv, HandlerInv, EngineInv, NoList, QueueInv, cancel_all_tx, Goto
<1> QED
  BY <1>1, <1>2, <1>3 DEF IInv

LEMMA Keeps_stop_tx_dma_engine == ASSUME IInv, stop_tx_dma_engine PROVE IInv'
<1>1. FlagsOK'
  BY BoundAssumption, PktAssumption DEF IInv, DataOK, FlagsOK,
     stop_tx_dma_engine, Goto
<1>2. DataOK'
  BY BoundAssumption, PktAssumption DEF IInv, DataOK, PcStates, Leasing, Packet,
     Owner, Transfers, Events, FreshPacket, stop_tx_dma_engine, Goto
<1>3. /\ ThreadInv' /\ IrqInv' /\ RequestInv' /\ HandlerInv'
      /\ EngineInv' /\ QueueInv' /\ LeaseInv' /\ SuccessInv'
  BY BoundAssumption, PktAssumption DEF IInv, DataOK, ThreadInv, TransferPcs,
     Leasing, IrqInv, RequestInv, Packet, HandlerInv, EngineInv, NoList,
     QueueInv, LeaseInv, SuccessInv, stop_tx_dma_engine, Goto
<1>4. QuietInv'
  BY BoundAssumption, PktAssumption DEF IInv, QuietInv, NoList, Events, DataOK,
     ThreadInv, TransferPcs, Leasing, IrqInv, RequestInv, HandlerInv, EngineInv,
     QueueInv, stop_tx_dma_engine, Goto
<1> QED
  BY <1>1, <1>2, <1>3, <1>4 DEF IInv

LEMMA Keeps_stop_tx_dma_failed == ASSUME IInv, stop_tx_dma_failed PROVE IInv'
<1>1. FlagsOK'
  BY BoundAssumption, PktAssumption DEF IInv, DataOK, FlagsOK,
     stop_tx_dma_failed, PublishFault, Goto
<1>2. /\ ThreadInv' /\ IrqInv' /\ RequestInv' /\ HandlerInv' /\ EngineInv'
      /\ QuietInv' /\ QueueInv' /\ LeaseInv' /\ SuccessInv'
  BY BoundAssumption, PktAssumption DEF IInv, DataOK, ThreadInv, TransferPcs,
     Leasing, IrqInv, RequestInv, Packet, HandlerInv, EngineInv, NoList,
     QuietInv, Events, QueueInv, LeaseInv, SuccessInv, stop_tx_dma_failed,
     PublishFault, Goto
<1>3. DataOK'
  BY BoundAssumption, PktAssumption DEF IInv, DataOK, PcStates, Leasing, Packet,
     Owner, Transfers, Events, FreshPacket, ThreadInv, TransferPcs, IrqInv,
     RequestInv, HandlerInv, EngineInv, NoList, QueueInv, stop_tx_dma_failed,
     PublishFault, Goto
<1> QED
  BY <1>1, <1>2, <1>3 DEF IInv

LEMMA Keeps_cancel_all_tx_drain == ASSUME IInv, cancel_all_tx_drain PROVE IInv'
<1>1. /\ pkt' \in [Pkts -> Packet] /\ tx_actq' = {} /\ tx_freeq' = tx_freeq \cup tx_actq
      /\ \A p \in Pkts : pkt'[p].retained = pkt[p].retained
      /\ \A p \in Pkts : pkt'[p].ctx = None
  BY RetireEffect DEF IInv, DataOK, RequestInv, cancel_all_tx_drain
<1>2. FlagsOK'
  BY DEF IInv, FlagsOK, cancel_all_tx_drain
<1>3. DataOK'
  BY <1>1 DEF IInv, DataOK, IrqInv, PcStates, Leasing, cancel_all_tx_drain, Goto
<1>4. ThreadInv' /\ HandlerInv'
  BY DEF IInv, DataOK, ThreadInv, IrqInv, HandlerInv, TransferPcs, Leasing,
         cancel_all_tx_drain, Goto
<1>5. IrqInv'
  BY DEF IInv, DataOK, IrqInv, cancel_all_tx_drain, Goto
<1>6. RequestInv' /\ QueueInv'
  BY <1>1, PktAssumption DEF IInv, DataOK, ThreadInv, RequestInv, QueueInv, cancel_all_tx_drain, Goto
<1>7. EngineInv' /\ SuccessInv'
  BY <1>1 DEF IInv, EngineInv, NoList, SuccessInv, cancel_all_tx_drain, Goto
<1>8. QuietInv'
  BY <1>1 DEF IInv, IrqInv, EngineInv, QuietInv, NoList, cancel_all_tx_drain, Goto
<1>9. LeaseInv'
  BY <1>1, KeepersSame DEF IInv, LeaseInv, cancel_all_tx_drain
<1> QED
  BY <1>2, <1>3, <1>4, <1>5, <1>6, <1>7, <1>8, <1>9 DEF IInv

LEMMA Keeps_cancel_all_tx_faulted == ASSUME IInv, cancel_all_tx_faulted PROVE IInv'
<1>1. FlagsOK'
  BY BoundAssumption, PktAssumption DEF IInv, DataOK, FlagsOK,
     cancel_all_tx_faulted, Goto
<1>2. /\ ThreadInv' /\ IrqInv' /\ RequestInv' /\ HandlerInv' /\ EngineInv'
      /\ QuietInv' /\ QueueInv' /\ LeaseInv' /\ SuccessInv'
  BY BoundAssumption, PktAssumption DEF IInv, DataOK, ThreadInv, TransferPcs,
     Leasing, IrqInv, RequestInv, Packet, HandlerInv, EngineInv, NoList,
     QuietInv, Events, QueueInv, LeaseInv, SuccessInv, cancel_all_tx_faulted,
     Goto
<1>3. DataOK'
  BY BoundAssumption, PktAssumption DEF IInv, DataOK, PcStates, Leasing, Packet,
     Owner, Transfers, Events, FreshPacket, ThreadInv, TransferPcs, IrqInv,
     RequestInv, HandlerInv, EngineInv, NoList, QueueInv, cancel_all_tx_faulted,
     Goto
<1> QED
  BY <1>1, <1>2, <1>3 DEF IInv

LEMMA Keeps_cancel_all_tx_drained == ASSUME IInv, cancel_all_tx_drained PROVE IInv'
<1>1. FlagsOK'
  BY BoundAssumption, PktAssumption DEF IInv, DataOK, FlagsOK,
     cancel_all_tx_drained, Goto
<1>2. ThreadInv' /\ RequestInv' /\ QueueInv' /\ LeaseInv' /\ SuccessInv'
  BY BoundAssumption, PktAssumption DEF IInv, DataOK, ThreadInv, TransferPcs,
     Leasing, RequestInv, Packet, QueueInv, LeaseInv, SuccessInv,
     cancel_all_tx_drained, Goto
<1>3. DataOK'
  BY BoundAssumption, PktAssumption DEF IInv, DataOK, PcStates, Leasing, Packet,
     Owner, Transfers, Events, FreshPacket, ThreadInv, TransferPcs, IrqInv,
     RequestInv, HandlerInv, EngineInv, NoList, QueueInv, cancel_all_tx_drained,
     Goto
<1>4. IrqInv'
  BY BoundAssumption, PktAssumption DEF IInv, IrqInv, DataOK, ThreadInv,
     TransferPcs, Leasing, RequestInv, HandlerInv, EngineInv, NoList, QueueInv,
     cancel_all_tx_drained, Goto
<1>5. HandlerInv'
  BY BoundAssumption, PktAssumption DEF IInv, HandlerInv, DataOK, ThreadInv,
     TransferPcs, Leasing, IrqInv, RequestInv, EngineInv, NoList, QueueInv,
     cancel_all_tx_drained, Goto
<1>6. EngineInv'
  BY BoundAssumption, PktAssumption DEF IInv, EngineInv, NoList, DataOK,
     ThreadInv, TransferPcs, Leasing, IrqInv, RequestInv, HandlerInv, QueueInv,
     cancel_all_tx_drained, Goto
<1>7. QuietInv'
  BY BoundAssumption, PktAssumption DEF IInv, QuietInv, NoList, Events, DataOK,
     ThreadInv, TransferPcs, Leasing, IrqInv, RequestInv, HandlerInv, EngineInv,
     QueueInv, cancel_all_tx_drained, Goto
<1> QED
  BY <1>1, <1>2, <1>3, <1>4, <1>5, <1>6, <1>7 DEF IInv

LEMMA Keeps_setup_dma_rings == ASSUME IInv, setup_dma_rings PROVE IInv'
<1>1. \A p \in Pkts : pkt[p].ctx = None /\ pkt[p].retained = None
  BY DEF IInv, EngineInv, RequestInv, setup_dma_rings
<1>2. FlagsOK'
  BY DEF IInv, FlagsOK, setup_dma_rings, DeviceReset
<1>3. DataOK'
  BY BoundAssumption DEF IInv, DataOK, Owner, setup_dma_rings, DeviceReset
<1>4. ThreadInv' /\ IrqInv' /\ HandlerInv' /\ SuccessInv' /\ LeaseInv'
  BY DEF IInv, ThreadInv, IrqInv, HandlerInv, SuccessInv, LeaseInv, setup_dma_rings,
         DeviceReset, Alone, Idle
<1>5. RequestInv' /\ EngineInv'
  BY <1>1 DEF IInv, RequestInv, EngineInv, NoList, setup_dma_rings, DeviceReset,
              Alone, Idle
<1>6. QueueInv'
  BY PktAssumption DEF IInv, ThreadInv, QueueInv, setup_dma_rings, Alone, Idle
<1>7. QuietInv'
  <2>1. bits' = {} /\ isr' = "off" /\ isr_todo' = isr_todo /\ ~masked'
    BY DEF setup_dma_rings, DeviceReset
  <2>2. NoList'
    BY DEF setup_dma_rings, DeviceReset, NoList
  <2> QED
    BY <2>1, <2>2 DEF IInv, EngineInv, HandlerInv, QuietInv, NoList, setup_dma_rings, Alone, Idle
<1> QED
  BY <1>2, <1>3, <1>4, <1>5, <1>6, <1>7 DEF IInv

LEMMA Keeps_release_request == ASSUME IInv, release_request PROVE IInv'
<1>1. FlagsOK'
  BY BoundAssumption, PktAssumption DEF IInv, DataOK, FlagsOK, release_request
<1>2. DataOK'
  BY BoundAssumption, PktAssumption DEF IInv, DataOK, PcStates, Leasing, Packet,
     Owner, Transfers, Events, FreshPacket, release_request
<1>3. /\ ThreadInv' /\ IrqInv' /\ RequestInv' /\ HandlerInv' /\ EngineInv'
      /\ QuietInv' /\ QueueInv' /\ LeaseInv' /\ SuccessInv'
  BY BoundAssumption, PktAssumption DEF IInv, DataOK, ThreadInv, TransferPcs,
     Leasing, IrqInv, RequestInv, Packet, HandlerInv, EngineInv, NoList,
     QuietInv, Events, QueueInv, LeaseInv, SuccessInv, release_request
<1> QED
  BY <1>1, <1>2, <1>3 DEF IInv

LEMMA Keeps_retire_hw_context == ASSUME IInv, retire_hw_context PROVE IInv'
<1>1. FlagsOK'
  BY BoundAssumption, PktAssumption DEF IInv, DataOK, FlagsOK,
     retire_hw_context, Alone, Goto, Idle
<1>2. /\ ThreadInv' /\ RequestInv' /\ HandlerInv' /\ EngineInv'
      /\ QueueInv' /\ LeaseInv' /\ SuccessInv'
  BY BoundAssumption, PktAssumption DEF IInv, DataOK, ThreadInv, TransferPcs,
     Leasing, RequestInv, Packet, HandlerInv, EngineInv, NoList, QueueInv,
     LeaseInv, SuccessInv, retire_hw_context, Alone, Goto, Idle
<1>3. DataOK'
  BY BoundAssumption, PktAssumption DEF IInv, DataOK, PcStates, Leasing, Packet,
     Owner, Transfers, Events, FreshPacket, ThreadInv, TransferPcs, IrqInv,
     RequestInv, HandlerInv, EngineInv, NoList, QueueInv, retire_hw_context,
     Alone, Goto, Idle
<1>4. IrqInv'
  BY BoundAssumption, PktAssumption DEF IInv, IrqInv, DataOK, ThreadInv,
     TransferPcs, Leasing, RequestInv, HandlerInv, EngineInv, NoList, QueueInv,
     retire_hw_context, Alone, Goto, Idle
<1>5. QuietInv'
  BY BoundAssumption, PktAssumption DEF IInv, QuietInv, NoList, Events, DataOK,
     ThreadInv, TransferPcs, Leasing, IrqInv, RequestInv, HandlerInv, EngineInv,
     QueueInv, retire_hw_context, Alone, Goto, Idle
<1> QED
  BY <1>1, <1>2, <1>3, <1>4, <1>5 DEF IInv

LEMMA Keeps_release_refused == ASSUME IInv, release_refused PROVE IInv'
<1>1. FlagsOK'
  BY BoundAssumption, PktAssumption DEF IInv, DataOK, FlagsOK, release_refused,
     Alone, Idle
<1>2. DataOK'
  BY BoundAssumption, PktAssumption DEF IInv, DataOK, PcStates, Leasing, Packet,
     Owner, Transfers, Events, FreshPacket, release_refused, Alone, Idle
<1>3. /\ ThreadInv' /\ IrqInv' /\ RequestInv' /\ HandlerInv' /\ EngineInv'
      /\ QuietInv' /\ QueueInv' /\ LeaseInv' /\ SuccessInv'
  BY BoundAssumption, PktAssumption DEF IInv, DataOK, ThreadInv, TransferPcs,
     Leasing, IrqInv, RequestInv, Packet, HandlerInv, EngineInv, NoList,
     QuietInv, Events, QueueInv, LeaseInv, SuccessInv, release_refused, Alone,
     Idle
<1> QED
  BY <1>1, <1>2, <1>3 DEF IInv

LEMMA Keeps_suspend == ASSUME IInv, suspend PROVE IInv'
<1>1. FlagsOK'
  BY BoundAssumption, PktAssumption DEF IInv, DataOK, FlagsOK, suspend, Alone,
     Goto, Idle
<1>2. DataOK'
  BY BoundAssumption, PktAssumption DEF IInv, DataOK, PcStates, Leasing, Packet,
     Owner, Transfers, Events, FreshPacket, suspend, Alone, Goto, Idle
<1>3. /\ ThreadInv' /\ RequestInv' /\ HandlerInv' /\ EngineInv'
      /\ QueueInv' /\ LeaseInv' /\ SuccessInv'
  BY BoundAssumption, PktAssumption DEF IInv, DataOK, ThreadInv, TransferPcs,
     Leasing, RequestInv, Packet, HandlerInv, EngineInv, NoList, QueueInv,
     LeaseInv, SuccessInv, suspend, Alone, Goto, Idle
<1>4. IrqInv'
  BY BoundAssumption, PktAssumption DEF IInv, IrqInv, DataOK, ThreadInv,
     TransferPcs, Leasing, RequestInv, HandlerInv, EngineInv, NoList, QueueInv,
     suspend, Alone, Goto, Idle
<1>5. QuietInv'
  BY BoundAssumption, PktAssumption DEF IInv, QuietInv, NoList, Events, DataOK,
     ThreadInv, TransferPcs, Leasing, IrqInv, RequestInv, HandlerInv, EngineInv,
     QueueInv, suspend, Alone, Goto, Idle
<1> QED
  BY <1>1, <1>2, <1>3, <1>4, <1>5 DEF IInv

LEMMA Keeps_hw_suspend == ASSUME IInv, hw_suspend PROVE IInv'
<1>1. FlagsOK'
  BY BoundAssumption, PktAssumption DEF IInv, DataOK, FlagsOK, hw_suspend,
     DeviceReset, Goto
<1>2. DataOK'
  BY BoundAssumption, PktAssumption DEF IInv, DataOK, PcStates, Leasing, Packet,
     Owner, Transfers, Events, FreshPacket, hw_suspend, DeviceReset, Goto
<1>3. /\ ThreadInv' /\ IrqInv' /\ RequestInv' /\ HandlerInv' /\ EngineInv'
      /\ QuietInv' /\ QueueInv' /\ LeaseInv' /\ SuccessInv'
  BY BoundAssumption, PktAssumption DEF IInv, DataOK, ThreadInv, TransferPcs,
     Leasing, IrqInv, RequestInv, Packet, HandlerInv, EngineInv, NoList,
     QuietInv, Events, QueueInv, LeaseInv, SuccessInv, hw_suspend, DeviceReset,
     Goto
<1> QED
  BY <1>1, <1>2, <1>3 DEF IInv

LEMMA Keeps_hw_close == ASSUME IInv, hw_close PROVE IInv'
<1>1. FlagsOK'
  BY BoundAssumption, PktAssumption DEF IInv, DataOK, FlagsOK, hw_close,
     DeviceReset, Goto
<1>2. DataOK'
  BY BoundAssumption, PktAssumption DEF IInv, DataOK, PcStates, Leasing, Packet,
     Owner, Transfers, Events, FreshPacket, hw_close, DeviceReset, Goto
<1>3. /\ ThreadInv' /\ IrqInv' /\ RequestInv' /\ HandlerInv' /\ EngineInv'
      /\ QuietInv' /\ QueueInv' /\ LeaseInv' /\ SuccessInv'
  BY BoundAssumption, PktAssumption DEF IInv, DataOK, ThreadInv, TransferPcs,
     Leasing, IrqInv, RequestInv, Packet, HandlerInv, EngineInv, NoList,
     QuietInv, Events, QueueInv, LeaseInv, SuccessInv, hw_close, DeviceReset,
     Goto
<1> QED
  BY <1>1, <1>2, <1>3 DEF IInv

LEMMA Keeps_stop_device_failed == ASSUME IInv, stop_device_failed PROVE IInv'
<1>1. FlagsOK'
  BY BoundAssumption, PktAssumption DEF IInv, DataOK, FlagsOK,
     stop_device_failed, PublishFault
<1>2. DataOK'
  BY BoundAssumption, PktAssumption DEF IInv, DataOK, PcStates, Leasing, Packet,
     Owner, Transfers, Events, FreshPacket, stop_device_failed, PublishFault
<1>3. /\ ThreadInv' /\ IrqInv' /\ RequestInv' /\ HandlerInv' /\ EngineInv'
      /\ QuietInv' /\ QueueInv' /\ LeaseInv' /\ SuccessInv'
  BY BoundAssumption, PktAssumption DEF IInv, DataOK, ThreadInv, TransferPcs,
     Leasing, IrqInv, RequestInv, Packet, HandlerInv, EngineInv, NoList,
     QuietInv, Events, QueueInv, LeaseInv, SuccessInv, stop_device_failed,
     PublishFault
<1> QED
  BY <1>1, <1>2, <1>3 DEF IInv

LEMMA Keeps_session_retained == ASSUME IInv, session_retained PROVE IInv'
<1>1. FlagsOK'
  BY BoundAssumption, PktAssumption DEF IInv, DataOK, FlagsOK, session_retained,
     Goto
<1>2. DataOK'
  BY BoundAssumption, PktAssumption DEF IInv, DataOK, PcStates, Leasing, Packet,
     Owner, Transfers, Events, FreshPacket, session_retained, Goto
<1>3. /\ ThreadInv' /\ RequestInv' /\ HandlerInv' /\ EngineInv'
      /\ QuietInv' /\ QueueInv' /\ LeaseInv' /\ SuccessInv'
  BY BoundAssumption, PktAssumption DEF IInv, DataOK, ThreadInv, TransferPcs,
     Leasing, RequestInv, Packet, HandlerInv, EngineInv, NoList, QuietInv,
     Events, QueueInv, LeaseInv, SuccessInv, session_retained, Goto
<1>4. IrqInv'
  BY BoundAssumption, PktAssumption DEF IInv, IrqInv, DataOK, ThreadInv,
     TransferPcs, Leasing, RequestInv, HandlerInv, EngineInv, NoList, QueueInv,
     session_retained, Goto
<1> QED
  BY <1>1, <1>2, <1>3, <1>4 DEF IInv

LEMMA Keeps_free_dma_rings == ASSUME IInv, free_dma_rings PROVE IInv'
<1>1. who = "close" /\ isr = "off" /\ NoList /\ ~rx_stop
  BY DEF IInv, DataOK, ThreadInv, IrqInv, EngineInv, free_dma_rings
<1>2. RetireQuiesced
  BY DEF free_dma_rings
<1>3. LeaseInv' /\ lease' \in [Transfers -> Nat] /\ pkt' \in [Pkts -> Packet]
  BY <1>1, <1>2, QuiescedLeases DEF free_dma_rings
<1>4. FlagsOK'
  BY DEF IInv, FlagsOK, free_dma_rings
<1>5. DataOK'
  BY <1>2, <1>3 DEF IInv, DataOK, PcStates, RetireQuiesced, free_dma_rings, Goto
<1>6. ThreadInv' /\ HandlerInv' /\ QueueInv' /\ SuccessInv'
  BY <1>1, <1>2
     DEF IInv, ThreadInv, HandlerInv, QueueInv, SuccessInv, TransferPcs,
         RetireQuiesced, free_dma_rings, Goto
<1>7. IrqInv' /\ EngineInv'
  BY <1>1, <1>2 DEF IInv, IrqInv, EngineInv, NoList, RetireQuiesced, free_dma_rings, Goto
<1>8. RequestInv'
  BY <1>2 DEF RequestInv, RetireQuiesced, FreshPacket
<1>9. QuietInv'
  BY <1>1, <1>2 DEF IInv, QuietInv, NoList, RetireQuiesced, free_dma_rings
<1> QED
  BY <1>3, <1>4, <1>5, <1>6, <1>7, <1>8, <1>9 DEF IInv

LEMMA Keeps_hw_resume == ASSUME IInv, hw_resume PROVE IInv'
<1>1. FlagsOK'
  BY DEF IInv, FlagsOK, hw_resume, DeviceReset
<1>2. DataOK'
  BY DEF IInv, DataOK, Owner, hw_resume, DeviceReset
<1>3. ThreadInv' /\ IrqInv' /\ HandlerInv' /\ SuccessInv' /\ LeaseInv'
  BY DEF IInv, ThreadInv, IrqInv, HandlerInv, SuccessInv, LeaseInv, hw_resume,
         DeviceReset, Alone, Idle
<1>4. RequestInv' /\ EngineInv' /\ QueueInv'
  BY DEF IInv, RequestInv, EngineInv, NoList, QueueInv, hw_resume, DeviceReset,
         Alone, Idle
<1>5. QuietInv'
  <2>1. bits' = {} /\ isr' = "off" /\ isr_todo' = isr_todo /\ ~masked'
    BY DEF hw_resume, DeviceReset
  <2>2. NoList'
    BY DEF hw_resume, DeviceReset, NoList
  <2> QED
    BY <2>1, <2>2 DEF IInv, EngineInv, HandlerInv, QuietInv, NoList, hw_resume, Alone, Idle
<1> QED
  BY <1>1, <1>2, <1>3, <1>4, <1>5 DEF IInv

LEMMA Keeps_pci_remove == ASSUME IInv, pci_remove PROVE IInv'
<1>1. FlagsOK'
  BY BoundAssumption, PktAssumption DEF IInv, DataOK, FlagsOK, pci_remove
<1>2. DataOK'
  BY BoundAssumption, PktAssumption DEF IInv, DataOK, PcStates, Leasing, Packet,
     Owner, Transfers, Events, FreshPacket, pci_remove
<1>3. /\ ThreadInv' /\ IrqInv' /\ RequestInv' /\ HandlerInv' /\ EngineInv'
      /\ QuietInv' /\ QueueInv' /\ LeaseInv' /\ SuccessInv'
  BY BoundAssumption, PktAssumption DEF IInv, DataOK, ThreadInv, TransferPcs,
     Leasing, IrqInv, RequestInv, Packet, HandlerInv, EngineInv, NoList,
     QuietInv, Events, QueueInv, LeaseInv, SuccessInv, pci_remove
<1> QED
  BY <1>1, <1>2, <1>3 DEF IInv

LEMMA Keeps_quiesce_terminal_dma == ASSUME IInv, quiesce_terminal_dma PROVE IInv'
<1>1. who = "none" /\ pc = "idle" /\ isr = "off" /\ RetireQuiesced /\ NoList' /\ bits' = {}
  BY DEF IInv, ThreadInv, quiesce_terminal_dma, DeviceReset, Alone, Idle, NoList
<1>2. LeaseInv' /\ lease' \in [Transfers -> Nat] /\ pkt' \in [Pkts -> Packet]
  BY <1>1, QuiescedLeases DEF quiesce_terminal_dma
<1>3. FlagsOK'
  BY DEF IInv, FlagsOK, quiesce_terminal_dma, DeviceReset
<1>4. DataOK'
  BY <1>1, <1>2 DEF IInv, DataOK, Owner, RetireQuiesced, quiesce_terminal_dma,
                    DeviceReset
<1>5. ThreadInv' /\ IrqInv' /\ HandlerInv' /\ QueueInv' /\ SuccessInv'
  BY <1>1 DEF IInv, ThreadInv, IrqInv, HandlerInv, QueueInv, SuccessInv, TransferPcs,
              RetireQuiesced, quiesce_terminal_dma, DeviceReset
<1>6. RequestInv' /\ EngineInv'
  BY <1>1 DEF RequestInv, EngineInv, RetireQuiesced, FreshPacket, quiesce_terminal_dma
<1>7. QuietInv'
  BY <1>1 DEF QuietInv, NoList, RetireQuiesced, quiesce_terminal_dma
<1> QED
  BY <1>2, <1>3, <1>4, <1>5, <1>6, <1>7 DEF IInv

LEMMA Keeps_publish_fault == ASSUME IInv, publish_fault PROVE IInv'
<1>1. FlagsOK'
  BY BoundAssumption, PktAssumption DEF IInv, DataOK, FlagsOK, publish_fault,
     PublishFault
<1>2. DataOK'
  BY BoundAssumption, PktAssumption DEF IInv, DataOK, PcStates, Leasing, Packet,
     Owner, Transfers, Events, FreshPacket, publish_fault, PublishFault
<1>3. /\ ThreadInv' /\ IrqInv' /\ RequestInv' /\ HandlerInv' /\ EngineInv'
      /\ QuietInv' /\ QueueInv' /\ LeaseInv' /\ SuccessInv'
  BY BoundAssumption, PktAssumption DEF IInv, DataOK, ThreadInv, TransferPcs,
     Leasing, IrqInv, RequestInv, Packet, HandlerInv, EngineInv, NoList,
     QuietInv, Events, QueueInv, LeaseInv, SuccessInv, publish_fault,
     PublishFault
<1> QED
  BY <1>1, <1>2, <1>3 DEF IInv

LEMMA Keeps_flush_pulse == ASSUME IInv, flush_pulse PROVE IInv'
<1>1. FlagsOK'
  BY BoundAssumption, PktAssumption DEF IInv, DataOK, FlagsOK, flush_pulse
<1>2. DataOK'
  BY BoundAssumption, PktAssumption DEF IInv, DataOK, PcStates, Leasing, Packet,
     Owner, Transfers, Events, FreshPacket, flush_pulse
<1>3. /\ ThreadInv' /\ IrqInv' /\ RequestInv' /\ HandlerInv' /\ EngineInv'
      /\ QuietInv' /\ QueueInv' /\ LeaseInv' /\ SuccessInv'
  BY BoundAssumption, PktAssumption DEF IInv, DataOK, ThreadInv, TransferPcs,
     Leasing, IrqInv, RequestInv, Packet, HandlerInv, EngineInv, NoList,
     QuietInv, Events, QueueInv, LeaseInv, SuccessInv, flush_pulse
<1> QED
  BY <1>1, <1>2, <1>3 DEF IInv

LEMMA Keeps_rx_stop_begin == ASSUME IInv, rx_stop_begin PROVE IInv'
<1>1. rx_stops \in 0 .. MaxRxStops /\ MaxRxStops \in Nat /\ cur \in 0 .. MaxTransfers
      /\ MaxTransfers \in Nat
  BY Numbers, BoundAssumption DEF IInv, DataOK
<1>2. FlagsOK'
  BY DEF IInv, FlagsOK, rx_stop_begin
<1>3. DataOK'
  BY <1>1 DEF IInv, DataOK, IrqInv, rx_stop_begin
<1>4. ThreadInv'
  BY <1>1 DEF IInv, ThreadInv, rx_stop_begin
<1>5. IrqInv'
  BY <1>1 DEF IInv, DataOK, IrqInv, rx_stop_begin
<1>6. RequestInv' /\ HandlerInv' /\ EngineInv' /\ QueueInv' /\ LeaseInv'
  BY <1>1 DEF IInv, RequestInv, HandlerInv, EngineInv, NoList, QueueInv, LeaseInv,
              rx_stop_begin
<1>7. QuietInv' /\ SuccessInv'
  BY <1>1 DEF IInv, QuietInv, SuccessInv, rx_stop_begin
<1> QED
  BY <1>2, <1>3, <1>4, <1>5, <1>6, <1>7 DEF IInv

LEMMA Keeps_rx_stop_end == ASSUME IInv, rx_stop_end PROVE IInv'
<1>1. FlagsOK'
  BY BoundAssumption, PktAssumption DEF IInv, DataOK, FlagsOK, rx_stop_end
<1>2. /\ ThreadInv' /\ IrqInv' /\ RequestInv' /\ HandlerInv' /\ EngineInv'
      /\ QuietInv' /\ QueueInv' /\ LeaseInv' /\ SuccessInv'
  BY BoundAssumption, PktAssumption DEF IInv, DataOK, ThreadInv, TransferPcs,
     Leasing, IrqInv, RequestInv, Packet, HandlerInv, EngineInv, NoList,
     QuietInv, Events, QueueInv, LeaseInv, SuccessInv, rx_stop_end
<1>3. DataOK'
  BY BoundAssumption, PktAssumption DEF IInv, DataOK, PcStates, Leasing, Packet,
     Owner, Transfers, Events, FreshPacket, ThreadInv, TransferPcs, IrqInv,
     RequestInv, HandlerInv, EngineInv, NoList, QueueInv, rx_stop_end
<1> QED
  BY <1>1, <1>2, <1>3 DEF IInv

LEMMA Keeps_hw_interrupt_handle == ASSUME IInv, hw_interrupt_handle PROVE IInv'
<1>1. FlagsOK'
  BY BoundAssumption, PktAssumption DEF IInv, DataOK, FlagsOK,
     hw_interrupt_handle, Raised
<1>2. DataOK'
  BY BoundAssumption, PktAssumption DEF IInv, DataOK, PcStates, Leasing, Packet,
     Owner, Transfers, Events, FreshPacket, hw_interrupt_handle, Raised
<1>3. /\ ThreadInv' /\ IrqInv' /\ RequestInv' /\ HandlerInv' /\ EngineInv'
      /\ QuietInv' /\ QueueInv' /\ LeaseInv' /\ SuccessInv'
  BY BoundAssumption, PktAssumption DEF IInv, DataOK, ThreadInv, TransferPcs,
     Leasing, IrqInv, RequestInv, Packet, HandlerInv, EngineInv, NoList,
     QuietInv, Events, QueueInv, LeaseInv, SuccessInv, hw_interrupt_handle,
     Raised
<1> QED
  BY <1>1, <1>2, <1>3 DEF IInv

LEMMA Keeps_ack_fault_interrupt == ASSUME IInv, ack_fault_interrupt PROVE IInv'
<1>1. FlagsOK'
  BY BoundAssumption, PktAssumption DEF IInv, DataOK, FlagsOK,
     ack_fault_interrupt
<1>2. DataOK'
  BY BoundAssumption, PktAssumption DEF IInv, DataOK, PcStates, Leasing, Packet,
     Owner, Transfers, Events, FreshPacket, ack_fault_interrupt
<1>3. /\ ThreadInv' /\ IrqInv' /\ RequestInv' /\ HandlerInv' /\ EngineInv'
      /\ QuietInv' /\ QueueInv' /\ LeaseInv' /\ SuccessInv'
  BY BoundAssumption, PktAssumption DEF IInv, DataOK, ThreadInv, TransferPcs,
     Leasing, IrqInv, RequestInv, Packet, HandlerInv, EngineInv, NoList,
     QuietInv, Events, QueueInv, LeaseInv, SuccessInv, ack_fault_interrupt
<1> QED
  BY <1>1, <1>2, <1>3 DEF IInv

LEMMA Keeps_tx_req_complete ==
    ASSUME IInv, NEW p \in Pkts, tx_req_complete(p)
    PROVE  IInv'
<1>1. PICK e \in isr_todo :
         /\ p \in Tagged(e[1])
         /\ isr_cs' = IF e[2] = "done" THEN "success" ELSE "error"
         /\ tx_list_post_index' = ListIndexAfter(e[2])
         /\ isr_todo' = isr_todo \ {e}
  BY DEF tx_req_complete
<1>2. /\ isr = "work" /\ ~dma_fault /\ state = "INIT" /\ irq_off = 0
      /\ isr' = "callback" /\ isr_ctx' = cur /\ pkt[p].ctx = cur /\ cur # None
      /\ p \in tx_actq /\ who = "transfer" /\ ~done
      /\ pc \in {"posted", "waiting", "cancel"}
  BY <1>1 DEF IInv, DataOK, IrqInv, RequestInv, Tagged, tx_req_complete
<1>3. /\ pkt' \in [Pkts -> Packet]
      /\ \A q \in Pkts : pkt'[q].retained = pkt[q].retained
      /\ \A q \in Pkts : pkt'[q].ctx = None
      /\ tx_actq' = tx_actq \ {p} /\ tx_freeq' = tx_freeq \cup {p}
  BY <1>2, RetireEffect DEF IInv, RequestInv, tx_req_complete
<1>4. e[1] \in Lists /\ e[2] \in {"done", "err"} /\ e = <<e[1], e[2]>>
  BY DEF IInv, DataOK, Events
<1>5. FlagsOK'
  BY DEF IInv, FlagsOK, tx_req_complete
<1>6. tx_list_post_index' \in Lists /\ isr_todo' \subseteq Events /\ isr_cs' \in {"success", "error"}
  BY <1>1 DEF IInv, DataOK, ListIndexAfter
<1>7. DataOK'
  BY <1>2, <1>3, <1>6 DEF IInv, DataOK, tx_req_complete
<1>8. ThreadInv' /\ IrqInv' /\ EngineInv' /\ SuccessInv'
  BY <1>2, <1>3 DEF IInv, ThreadInv, IrqInv, EngineInv, NoList, SuccessInv, tx_req_complete
<1>9. RequestInv' /\ QueueInv'
  BY <1>2, <1>3 DEF IInv, DataOK, RequestInv, QueueInv, tx_req_complete
<1>10. rx_stops = 0 /\ isr_cs' = "success" => cur \in consumed
  BY <1>1, <1>2, <1>4 DEF IInv, QuietInv
<1>11. HandlerInv'
  BY <1>2, <1>10 DEF IInv, HandlerInv, tx_req_complete
<1>12. QuietInv'
  BY <1>1, <1>2, <1>3 DEF IInv, QuietInv, NoList, tx_req_complete
<1>13. LeaseInv'
  BY <1>3, KeepersSame DEF IInv, LeaseInv, tx_req_complete
<1> QED
  BY <1>5, <1>7, <1>8, <1>9, <1>11, <1>12, <1>13 DEF IInv

LEMMA Keeps_tx_req_complete_none == ASSUME IInv, tx_req_complete_none PROVE IInv'
<1>1. FlagsOK'
  BY BoundAssumption, PktAssumption DEF IInv, DataOK, FlagsOK,
     tx_req_complete_none, NextBit, Tagged, ListIndexAfter
<1>2. DataOK'
  BY BoundAssumption, PktAssumption DEF IInv, DataOK, PcStates, Leasing, Packet,
     Owner, Transfers, Events, FreshPacket, tx_req_complete_none, NextBit,
     Tagged, ListIndexAfter
<1>3. /\ ThreadInv' /\ IrqInv' /\ RequestInv' /\ HandlerInv' /\ EngineInv'
      /\ QuietInv' /\ QueueInv' /\ LeaseInv' /\ SuccessInv'
  BY BoundAssumption, PktAssumption DEF IInv, DataOK, ThreadInv, TransferPcs,
     Leasing, IrqInv, RequestInv, Packet, HandlerInv, EngineInv, NoList,
     QuietInv, Events, QueueInv, LeaseInv, SuccessInv, tx_req_complete_none,
     NextBit, Tagged, ListIndexAfter
<1> QED
  BY <1>1, <1>2, <1>3 DEF IInv

LEMMA Keeps_proc_in_completion == ASSUME IInv, proc_in_completion PROVE IInv'
<1>1. FlagsOK'
  BY BoundAssumption, PktAssumption DEF IInv, DataOK, FlagsOK,
     proc_in_completion
<1>2. DataOK'
  BY BoundAssumption, PktAssumption DEF IInv, DataOK, PcStates, Leasing, Packet,
     Owner, Transfers, Events, FreshPacket, proc_in_completion
<1>3. /\ ThreadInv' /\ IrqInv' /\ RequestInv' /\ HandlerInv' /\ EngineInv'
      /\ QuietInv' /\ QueueInv' /\ LeaseInv' /\ SuccessInv'
  BY BoundAssumption, PktAssumption DEF IInv, DataOK, ThreadInv, TransferPcs,
     Leasing, IrqInv, RequestInv, Packet, HandlerInv, EngineInv, NoList,
     QuietInv, Events, QueueInv, LeaseInv, SuccessInv, proc_in_completion
<1> QED
  BY <1>1, <1>2, <1>3 DEF IInv

LEMMA Keeps_set_event == ASSUME IInv, set_event PROVE IInv'
<1>1. FlagsOK'
  BY BoundAssumption, PktAssumption DEF IInv, DataOK, FlagsOK, set_event
<1>2. DataOK'
  BY BoundAssumption, PktAssumption DEF IInv, DataOK, PcStates, Leasing, Packet,
     Owner, Transfers, Events, FreshPacket, set_event
<1>3. /\ ThreadInv' /\ IrqInv' /\ RequestInv' /\ HandlerInv' /\ EngineInv'
      /\ QuietInv' /\ QueueInv' /\ LeaseInv' /\ SuccessInv'
  BY BoundAssumption, PktAssumption DEF IInv, DataOK, ThreadInv, TransferPcs,
     Leasing, IrqInv, RequestInv, Packet, HandlerInv, EngineInv, NoList,
     QuietInv, Events, QueueInv, LeaseInv, SuccessInv, set_event
<1> QED
  BY <1>1, <1>2, <1>3 DEF IInv

LEMMA Keeps_isr_acknowledge == ASSUME IInv, isr_acknowledge PROVE IInv'
<1>1. FlagsOK'
  BY BoundAssumption, PktAssumption DEF IInv, DataOK, FlagsOK, isr_acknowledge
<1>2. DataOK'
  BY BoundAssumption, PktAssumption DEF IInv, DataOK, PcStates, Leasing, Packet,
     Owner, Transfers, Events, FreshPacket, isr_acknowledge
<1>3. /\ ThreadInv' /\ IrqInv' /\ RequestInv' /\ HandlerInv' /\ EngineInv'
      /\ QuietInv' /\ QueueInv' /\ LeaseInv' /\ SuccessInv'
  BY BoundAssumption, PktAssumption DEF IInv, DataOK, ThreadInv, TransferPcs,
     Leasing, IrqInv, RequestInv, Packet, HandlerInv, EngineInv, NoList,
     QuietInv, Events, QueueInv, LeaseInv, SuccessInv, isr_acknowledge
<1> QED
  BY <1>1, <1>2, <1>3 DEF IInv

LEMMA Keeps_list_done == ASSUME IInv, NEW l \in Lists, list_done(l) PROVE IInv'
<1>1. FlagsOK'
  BY DEF IInv, FlagsOK, list_done
<1>2. list[l] \in Transfers /\ list' \in [Lists -> Owner] /\ <<l, "done">> \in Events
  BY DEF IInv, DataOK, Owner, Events, list_done
<1>3. DataOK'
  BY <1>2 DEF IInv, DataOK, list_done
<1>4. ThreadInv' /\ IrqInv' /\ RequestInv' /\ QueueInv' /\ LeaseInv'
  BY DEF IInv, ThreadInv, IrqInv, RequestInv, QueueInv, LeaseInv, list_done
<1>5. HandlerInv' /\ SuccessInv'
  BY DEF IInv, HandlerInv, SuccessInv, list_done
<1>6. EngineInv'
  BY DEF IInv, DataOK, EngineInv, NoList, list_done
<1>7. QuietInv'
  <2> SUFFICES ASSUME rx_stops = 0 PROVE QuietInv'
    BY DEF QuietInv, list_done
  <2>1. \A m \in Lists : list'[m] # None => list'[m] = list[m] /\ list[m] # None
    BY DEF IInv, DataOK, list_done
  <2>2. ASSUME ~dma_fault, state = "INIT"
        PROVE  /\ bits = {} /\ isr = "off" /\ isr_todo = {} /\ ~done
               /\ list[l] = cur /\ who = "transfer"
               /\ pc \in {"posted", "waiting", "cancel", "stopping"}
    <3>1. PICK p \in tx_actq : list[l] \in {pkt[p].ctx, pkt[p].retained}
      BY DEF IInv, QuietInv, list_done
    <3>2. pkt[p].retained = None /\ pkt[p].ctx = list[l]
      BY <2>2, <3>1 DEF IInv, DataOK, RequestInv, list_done
    <3> QED
      BY <2>2, <3>1, <3>2
         DEF IInv, DataOK, RequestInv, HandlerInv, QuietInv, NoList, list_done
  <2>3. ASSUME ~dma_fault, state = "INIT" PROVE NoList'
    BY <2>3 DEF IInv, DataOK, QuietInv, NoList, list_done
  <2> QED
    BY <2>1, <2>2, <2>3 DEF IInv, DataOK, QuietInv, list_done
<1> QED
  BY <1>1, <1>3, <1>4, <1>5, <1>6, <1>7 DEF IInv

LEMMA Keeps_list_error == ASSUME IInv, NEW l \in Lists, list_error(l) PROVE IInv'
<1>1. FlagsOK'
  BY DEF IInv, FlagsOK, list_error
<1>2. list[l] \in Transfers /\ list' \in [Lists -> Owner] /\ <<l, "err">> \in Events
  BY DEF IInv, DataOK, Owner, Events, list_error
<1>3. DataOK'
  BY <1>2 DEF IInv, DataOK, list_error
<1>4. ThreadInv' /\ IrqInv' /\ RequestInv' /\ QueueInv' /\ LeaseInv'
  BY DEF IInv, ThreadInv, IrqInv, RequestInv, QueueInv, LeaseInv, list_error
<1>5. HandlerInv' /\ SuccessInv'
  BY DEF IInv, HandlerInv, SuccessInv, list_error
<1>6. EngineInv'
  BY DEF IInv, DataOK, EngineInv, NoList, list_error
<1>7. QuietInv'
  <2> SUFFICES ASSUME rx_stops = 0 PROVE QuietInv'
    BY DEF QuietInv, list_error
  <2>1. \A m \in Lists : list'[m] # None => list'[m] = list[m] /\ list[m] # None
    BY DEF IInv, DataOK, list_error
  <2>2. ASSUME ~dma_fault, state = "INIT"
        PROVE  /\ bits = {} /\ isr = "off" /\ isr_todo = {} /\ ~done
               /\ list[l] = cur /\ who = "transfer"
               /\ pc \in {"posted", "waiting", "cancel", "stopping"}
    <3>1. PICK p \in tx_actq : list[l] \in {pkt[p].ctx, pkt[p].retained}
      BY DEF IInv, QuietInv, list_error
    <3>2. pkt[p].retained = None /\ pkt[p].ctx = list[l]
      BY <2>2, <3>1 DEF IInv, DataOK, RequestInv, list_error
    <3> QED
      BY <2>2, <3>1, <3>2
         DEF IInv, DataOK, RequestInv, HandlerInv, QuietInv, NoList, list_error
  <2>3. ASSUME ~dma_fault, state = "INIT" PROVE NoList'
    BY <2>3 DEF IInv, DataOK, QuietInv, NoList, list_error
  <2> QED
    BY <2>1, <2>2, <2>3 DEF IInv, DataOK, QuietInv, list_error
<1> QED
  BY <1>1, <1>3, <1>4, <1>5, <1>6, <1>7 DEF IInv

LEMMA Keeps_list_abandoned == ASSUME IInv, NEW l \in Lists, list_abandoned(l) PROVE IInv'
<1>1. FlagsOK'
  BY BoundAssumption, PktAssumption DEF IInv, DataOK, FlagsOK, list_abandoned
<1>2. DataOK'
  BY BoundAssumption, PktAssumption DEF IInv, DataOK, PcStates, Leasing, Packet,
     Owner, Transfers, Events, FreshPacket, list_abandoned
<1>3. /\ ThreadInv' /\ IrqInv' /\ RequestInv' /\ HandlerInv' /\ EngineInv'
      /\ QuietInv' /\ QueueInv' /\ LeaseInv' /\ SuccessInv'
  BY BoundAssumption, PktAssumption DEF IInv, DataOK, ThreadInv, TransferPcs,
     Leasing, IrqInv, RequestInv, Packet, HandlerInv, EngineInv, NoList,
     QuietInv, Events, QueueInv, LeaseInv, SuccessInv, list_abandoned
<1> QED
  BY <1>1, <1>2, <1>3 DEF IInv

-----------------------------------------------------------------------------
LEMMA InitEstablishes == Init => IInv
<1> SUFFICES ASSUME Init PROVE IInv
  OBVIOUS
<1> USE DEF Init
<1>1. FlagsOK
  BY DEF FlagsOK
<1>2. FreshPacket \in Packet /\ None \in Owner
  BY DEF FreshPacket, Packet, Owner
<1>3. DataOK
  BY <1>2, BoundAssumption DEF DataOK, PcStates
<1>4. ThreadInv /\ IrqInv /\ HandlerInv /\ SuccessInv
  BY BoundAssumption DEF ThreadInv, IrqInv, HandlerInv, SuccessInv, TransferPcs, Leasing
<1>5. RequestInv /\ EngineInv /\ QueueInv /\ QuietInv
  BY DEF RequestInv, EngineInv, NoList, QueueInv, QuietInv, FreshPacket
<1>6. LeaseInv
  <2>1. ASSUME NEW x \in Transfers PROVE \A p \in Pkts : pkt[p].retained # x
    BY DEF FreshPacket, Transfers
  <2> QED
    BY <2>1, NoKeepers DEF LeaseInv
<1> QED
  BY <1>1, <1>3, <1>4, <1>5, <1>6 DEF IInv

LEMMA StepKeeps == IInv /\ [Next]_vars => IInv'
<1> SUFFICES ASSUME IInv, [Next]_vars PROVE IInv'
  OBVIOUS
<1>1. CASE Transfer
  BY <1>1, Keeps_tx_transfer_common, Keeps_tx_deadline, Keeps_post_tx_reserve,
     Keeps_post_tx_busy, Keeps_post_tx_refused, Keeps_post_tx,
     Keeps_post_tx_requeue, Keeps_tx_busy_retry, Keeps_tx_busy_exit,
     Keeps_codein_sleep_cancelled, Keeps_tx_posted, Keeps_tx_wait_done,
     Keeps_tx_wait_timeout, Keeps_tx_complete, Keeps_tx_buffer_put,
     Keeps_retain_tx_buffer, Keeps_retain_tx_buffer_none DEF Transfer,
     TransferStep
<1>2. CASE Cancel
  BY <1>2, Keeps_cancel_all_tx, Keeps_stop_tx_dma_engine,
     Keeps_stop_tx_dma_failed, Keeps_cancel_all_tx_drain,
     Keeps_cancel_all_tx_faulted, Keeps_cancel_all_tx_drained DEF Cancel
<1>3. CASE Exclusive
  BY <1>3, Keeps_setup_dma_rings, Keeps_release_request,
     Keeps_retire_hw_context, Keeps_release_refused, Keeps_suspend,
     Keeps_hw_suspend, Keeps_hw_close, Keeps_stop_device_failed,
     Keeps_session_retained, Keeps_free_dma_rings, Keeps_hw_resume,
     Keeps_pci_remove, Keeps_quiesce_terminal_dma DEF Exclusive
<1>4. CASE Beside
  BY <1>4, Keeps_publish_fault, Keeps_flush_pulse, Keeps_rx_stop_begin,
     Keeps_rx_stop_end DEF Beside
<1>5. CASE Handler
  BY <1>5, Keeps_hw_interrupt_handle, Keeps_ack_fault_interrupt,
     Keeps_tx_req_complete, Keeps_tx_req_complete_none,
     Keeps_proc_in_completion, Keeps_set_event, Keeps_isr_acknowledge DEF
     Handler
<1>6. CASE Device
  BY <1>6, Keeps_list_done, Keeps_list_error, Keeps_list_abandoned DEF Device
<1>7. CASE UNCHANGED vars
  BY <1>7 DEF IInv, FlagsOK, DataOK, ThreadInv, IrqInv, RequestInv, HandlerInv,
     EngineInv, NoList, QuietInv, QueueInv, LeaseInv, SuccessInv
<1> QED
  BY <1>1, <1>2, <1>3, <1>4, <1>5, <1>6, <1>7 DEF Next

LEMMA Invariant == Spec => []IInv
  BY InitEstablishes, StepKeeps, PTL DEF Spec

LEMMA InTransferIsWho == ThreadInv => (InTransfer <=> who = "transfer")
  BY DEF ThreadInv, InTransfer

(* Every variable has its type: the list index stays on the two lists, the   *)
(* disable_irq depth stays within two and no lease count falls below zero.   *)
THEOREM TypeCorrect == Spec => []TypeOK
<1>1. IInv => TypeOK
  BY DEF IInv, TypeOK, FlagsOK, DataOK
<1> QED
  BY <1>1, Invariant, PTL

(* No request and no running handler refers to the completion of a transfer  *)
(* that has returned (synchronize_irq, retain_tx_buffer).                    *)
THEOREM CompletionsLive == Spec => []NoDanglingCompletion
<1>1. IInv => NoDanglingCompletion
  BY InTransferIsWho DEF IInv, RequestInv, HandlerInv, NoDanglingCompletion
<1> QED
  BY <1>1, Invariant, PTL

(* Every lease is given back exactly once, whichever of completion, abort,   *)
(* retention and terminal cleanup ends the transfer.                         *)
THEOREM LeasesBalance == Spec => []LeaseAccounted
<1>1. IInv => LeaseAccounted
  BY InTransferIsWho DEF IInv, LeaseInv, LeaseAccounted, Keepers
<1> QED
  BY <1>1, Invariant, PTL

(* In a session every request is on one queue or reserved, and without a     *)
(* fault none stays active once its transfer has returned.                   *)
THEOREM RequestsStay == Spec => []RequestsConserved
<1>1. IInv => RequestsConserved
  <2> SUFFICES ASSUME IInv PROVE RequestsConserved
    OBVIOUS
  <2>1. tx_actq # {} => InTransfer \/ dma_fault
    BY InTransferIsWho DEF IInv, DataOK, RequestInv
  <2> QED
    BY <2>1 DEF IInv, QueueInv, RequestsConserved
<1> QED
  BY <1>1, Invariant, PTL

(* As long as no capture stop has kept the line off, the engine reads only   *)
(* buffers that a transfer or a retained request keeps.                      *)
THEOREM ReadsAreLeased == Spec => []DeviceReadsLeased
<1>1. IInv => DeviceReadsLeased
  <2> SUFFICES ASSUME IInv, rx_stops = 0, NEW l \in Lists, list[l] # None
               PROVE  lease[list[l]] > 0
    BY DEF DeviceReadsLeased
  <2>1. PICK p \in tx_actq : list[l] \in {pkt[p].ctx, pkt[p].retained}
    BY DEF IInv, QuietInv
  <2>2. list[l] \in Transfers /\ p \in Pkts
    BY DEF IInv, DataOK, Owner
  <2>3. lease[list[l]] = (IF who = "transfer" /\ list[l] = cur THEN 1 ELSE 0)
                         + Cardinality(Keepers(pkt, list[l]))
        /\ Cardinality(Keepers(pkt, list[l])) \in Nat
    BY <2>2, KeepersCount DEF IInv, LeaseInv
  <2>4. CASE list[l] = pkt[p].ctx
    BY <2>2, <2>3, <2>4 DEF IInv, RequestInv
  <2>5. CASE list[l] = pkt[p].retained
    BY <2>2, <2>3, <2>5, SomeKeeper
  <2> QED
    BY <2>1, <2>4, <2>5
<1> QED
  BY <1>1, Invariant, PTL

(* As long as no capture stop has kept the line off, a transfer is told      *)
(* SUCCESS only for data that the device has read, however often transfers   *)
(* were cancelled before it on the same two list tags.                       *)
THEOREM SuccessMeansRead == Spec => []SuccessIsConsumedAlone
<1>1. IInv => SuccessIsConsumedAlone
  BY InTransferIsWho DEF IInv, SuccessInv, SuccessIsConsumed, SuccessIsConsumedAlone
<1> QED
  BY <1>1, Invariant, PTL
=============================================================================
