----------------------------- MODULE MCRxCapture -----------------------------
(***************************************************************************)
(* RxCapture for TLC.  Packets and fetchers are interchangeable.           *)
(***************************************************************************)
EXTENDS RxCapture, TLC

Symmetry == Permutations(Pkts) \cup Permutations(Fetchers)
=============================================================================
