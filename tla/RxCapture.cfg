CONSTANTS
    Pkts = {p1, p2}
    NoPkt = NoPkt
    Fetchers = {f1}
    Planes = {Y}
    PauseThreshold = 2
    ResumeThreshold = 1
    MaxEpoch = 1
    MaxHard = 1
    MaxFail = 1
SPECIFICATION Spec
SYMMETRY Symmetry
INVARIANTS SingleOwner DeviceWritesOwned QueuedAreCurrent NotStranded
PROPERTIES FaultRetains
CHECK_DEADLOCK FALSE
