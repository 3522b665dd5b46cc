SPECIFICATION Spec
CONSTANTS
    Pkts = {p1, p2}
    NoPkt = NoPkt
    MaxTransfers = 3
    MaxSessions = 1
    MaxRxStops = 1
SYMMETRY Symmetry
INVARIANTS
    SuccessIsConsumed
CHECK_DEADLOCK FALSE
