SPECIFICATION Spec
CONSTANTS
    Bufs = {b1, b2, b3}
    Threads = {t1, t2}
    Slots = 2
    MaxSerial = 4
    MaxSeq = 2
    MaxEpoch = 2
    NONE = NONE
SYMMETRY Symmetry
INVARIANTS
    TypeOK
    RegistryMatchesCore
    ModesExclusive
    RetiredMeansUnowned
CHECK_DEADLOCK FALSE
