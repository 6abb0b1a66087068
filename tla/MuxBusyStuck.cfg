CONSTANTS
    Device = {0, 1, 2}
    AbortFaults = FALSE
    Depth = 4
    IdMax = 3
    Overlap = TRUE
SPECIFICATION Spec
INVARIANTS
    BusyOnlyWhileOpen
CHECK_DEADLOCK FALSE
