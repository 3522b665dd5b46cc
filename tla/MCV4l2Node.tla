---------------------------- MODULE MCV4l2Node ----------------------------
(* Instance: a change of range with a ledger that one access unit fills,   *)
(* and a change of geometry that the first allocation does not, or does,   *)
(* have room for, one of them with two access units in flight.             *)
EXTENDS V4l2Node

AU(fmt, range) == [fmt |-> fmt, range |-> range]

MCClips ==
    {[hint |-> 0, ledger |-> 1, aus |-> <<AU(0, "lim"), AU(0, "full")>>],
     [hint |-> 0, ledger |-> 2, aus |-> <<AU(0, "none"), AU(1, "none")>>],
     [hint |-> 1, ledger |-> 1, aus |-> <<AU(0, "none"), AU(1, "none")>>]}
=============================================================================
