SPECIFICATION Spec
CONSTANTS
    Callers = {c1, c2}
    NoCaller = none
    MaxCmds = 3
    MaxSpurious = 0
INVARIANTS
    OutstandingIsCounted
    ReplyIsOwn
PROPERTIES
    CallersReturn
    InterruptRetiresCount
    ImplementsChannel
CHECK_DEADLOCK FALSE
