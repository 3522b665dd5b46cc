---------------------------- MODULE DecoderStream ----------------------------
(***************************************************************************)
(* What a V4L2 decoder node promises its client, with nothing said of      *)
(* workers, firmware or buffers: every access unit is answered at most     *)
(* once, and the LAST of a drain comes once, after every access unit that  *)
(* was queued before the STOP command has been answered.                   *)
(***************************************************************************)
EXTENDS Naturals

CONSTANT AccessUnits

VARIABLES
    owed,    \* access units queued by the client and not answered
    shown,   \* access units answered with a picture or an explicit error
    mode,    \* decoding, draining, drained or dead
    due,     \* while draining: the answers that must come before LAST
    flushes  \* times the client has flushed the decoder

stream == <<owed, shown, mode, due, flushes>>

Init ==
    /\ owed = {} /\ shown = {} /\ mode = "decode" /\ due = {}
    /\ flushes = 0

Queue(a) ==
    /\ a \notin owed \cup shown /\ mode # "dead"
    /\ owed' = owed \cup {a}
    /\ UNCHANGED <<shown, mode, due, flushes>>

Answer(a) ==
    /\ a \in owed /\ mode \in {"decode", "drain"}
    /\ mode = "drain" => a \in due
    /\ owed' = owed \ {a} /\ shown' = shown \cup {a} /\ due' = due \ {a}
    /\ UNCHANGED <<mode, flushes>>

Stop ==
    /\ mode = "decode"
    /\ mode' = "drain" /\ due' = owed
    /\ UNCHANGED <<owed, shown, flushes>>

Last ==
    /\ mode = "drain" /\ due = {}
    /\ mode' = "drained"
    /\ UNCHANGED <<owed, shown, due, flushes>>

\* START after a drain before which the decoder had seen no input at all.
Restart ==
    /\ mode = "drained"
    /\ mode' = "decode"
    /\ UNCHANGED <<owed, shown, due, flushes>>

\* STREAMOFF before the decoder was opened: only the drain is forgotten.
Cancel ==
    /\ mode = "drain"
    /\ mode' = "decode" /\ due' = {}
    /\ UNCHANGED <<owed, shown, flushes>>

\* STREAMOFF: answers still owed may be cancelled, a drain is forgotten.
Flush ==
    /\ owed' \in SUBSET owed
    /\ flushes' = flushes + 1
    /\ mode' = IF mode = "dead" THEN "dead" ELSE "decode"
    /\ due' = {}
    /\ UNCHANGED shown

\* The stream fails; an input or a picture in hand may be returned in error.
Fail ==
    /\ mode' = "dead"
    /\ owed' \in SUBSET owed
    /\ shown' \in {shown \cup S : S \in SUBSET (owed \ owed')}
    /\ due' = {}
    /\ UNCHANGED flushes

Next ==
    \/ \E a \in AccessUnits : Queue(a) \/ Answer(a)
    \/ Stop \/ Last \/ Restart \/ Cancel \/ Flush \/ Fail

Spec == Init /\ [][Next]_stream
=============================================================================
