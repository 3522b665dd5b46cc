SPECIFICATION Spec
CONSTANTS
    Callers = {c1, c2}
    NoCaller = none
    MaxCmds = 3
    MaxSpurious = 2
INVARIANTS
    TypeOK
    CountIsAccounted
CHECK_DEADLOCK FALSE
