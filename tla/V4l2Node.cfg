CONSTANTS
    NONE = NONE
    Clips <- MCClips
    NBufs = 2
    FwCap = 1
    MaxEpoch = 1
    MaxFault = 1
SPECIFICATION Spec
INVARIANTS TypeOK BuffersConserved HealthyStreamSurvives NoWorkOnStoppedQueue
PROPERTIES ImplementsStream DrainEnds
CHECK_DEADLOCK FALSE
