---------------------------- MODULE MCRetainedRx ----------------------------
(* RetainedRx for TLC. *)
EXTENDS RetainedRx, TLC

Symmetry == Permutations(Bufs) \cup Permutations(Threads)
=============================================================================
