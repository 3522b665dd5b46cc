SPECIFICATION FairSpec
CONSTANTS
    Pkts = {p1, p2}
    NoPkt = NoPkt
    MaxTransfers = 3
    MaxSessions = 2
    MaxRxStops = 1
INVARIANTS
    TypeOK
    NoDanglingCompletion
    LeaseAccounted
    RequestsConserved
    DeviceReadsLeased
    SuccessIsConsumedAlone
PROPERTIES
    TransferReturns
CHECK_DEADLOCK FALSE
