CONSTANTS
    Files = {f1}
    Leases = {l1}
    MaxOpens = 1
    MaxGen = 1
    MaxFail = 1
    SessionGuard = TRUE
    NONE = NONE
SPECIFICATION Spec
PROPERTIES ReleaseCompletes RemoveCompletes LeaseCleanup
CHECK_DEADLOCK FALSE
