--------------------------- MODULE MCFwMailbox ---------------------------
(* Model-checking instance of FwMailbox. *)
EXTENDS FwMailbox
=============================================================================
