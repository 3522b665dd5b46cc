CONSTANTS
    Files = {f1, f2}
    Leases = {}
    MaxOpens = 2
    MaxGen = 1
    MaxFail = 0
    SessionGuard = FALSE
    NONE = NONE
SPECIFICATION Spec
PROPERTY ReceiveProgress
CHECK_DEADLOCK FALSE
