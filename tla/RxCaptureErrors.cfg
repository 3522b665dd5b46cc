CONSTANTS
    Pkts = {p1}
    NoPkt = NoPkt
    Fetchers = {f1}
    Planes = {Y, UV}
    PauseThreshold = 1
    ResumeThreshold = 0
    MaxEpoch = 1
    MaxHard = 0
    MaxFail = 1
SPECIFICATION Spec
INVARIANTS TypeOK DeviceWritesOwned
PROPERTIES HoldersFinish
CHECK_DEADLOCK FALSE
