--------------------------- MODULE CommandChannel ---------------------------
(***************************************************************************)
(* What the firmware mailbox promises to the layers above and to the power *)
(* code: one command at a time, and no new command while an answer to an   *)
(* earlier one is owed.  A channel whose command was given up is           *)
(* quarantined until a recovery after which nothing is owed.               *)
(***************************************************************************)
VARIABLES
    chan,   \* "free", "busy" (one caller runs a command) or "quarantined"
    owed    \* the firmware may still answer

vars == <<chan, owed>>

Init == chan = "free" /\ owed = FALSE

Claim == chan = "free" /\ ~owed /\ chan' = "busy" /\ UNCHANGED owed

Post == chan = "busy" /\ ~owed /\ owed' = TRUE /\ UNCHANGED chan

\* The answer is consumed, or the device that owed it is stopped.
Settle == owed /\ owed' = FALSE /\ UNCHANGED chan

Release == chan = "busy" /\ ~owed /\ chan' = "free" /\ UNCHANGED owed

\* Given up: the answer may or may not still be owed.
Quarantine == chan = "busy" /\ chan' = "quarantined" /\ UNCHANGED owed

Recover == chan = "quarantined" /\ chan' = "free" /\ owed' = FALSE

Next == Claim \/ Post \/ Settle \/ Release \/ Quarantine \/ Recover

Spec == Init /\ [][Next]_vars
=============================================================================
