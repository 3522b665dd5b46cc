SPECIFICATION Spec
CONSTANTS
    Callers = {c1, c2}
    NoCaller = none
    MaxCmds = 2
    MaxSpurious = 1
INVARIANTS
    ReplyIsOwn
CHECK_DEADLOCK FALSE
