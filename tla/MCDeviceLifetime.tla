-------------------------- MODULE MCDeviceLifetime --------------------------
(* Finite instances of DeviceLifetime; files are interchangeable. *)
EXTENDS DeviceLifetime, TLC

Symmetry == Permutations(Files)
=============================================================================
