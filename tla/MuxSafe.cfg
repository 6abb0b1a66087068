CONSTANTS
    Device = {0, 1, 2}
    AbortFaults = TRUE
    Depth = 1
    IdMax = 3
    Overlap = TRUE
SPECIFICATION FairSpec
INVARIANTS
    WiredToItsDevice
    NoneStranded
PROPERTIES
    PromiseSafe
    PromiseKept
CHECK_DEADLOCK FALSE
