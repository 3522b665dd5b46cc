CONSTANTS
    Files = {f1, f2}
    Leases = {l1}
    MaxOpens = 2
    MaxGen = 2
    MaxFail = 1
    SessionGuard = TRUE
    NONE = NONE
SPECIFICATION Spec
INVARIANTS TypeOK NoFreeUnderDma ResourcesPinned SlotsAccounted LeaseNotUsedAfterFree
CHECK_DEADLOCK FALSE
SYMMETRY Symmetry
