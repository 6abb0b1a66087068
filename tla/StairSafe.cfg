CONSTANTS
    QueueDepth = 8
    IdMax = 65535
    CommandDepth = 4
    StopBudget = 1
    DeviceFaults = TRUE
    Expiry = TRUE
    EndHighN = 2
    SensorFaults = TRUE
    Side = "BLUE"
    BallLimit = 2
    FirstId = 65534
SPECIFICATION Spec
INVARIANTS
    ArmMovesOnlyWhenParked
    NoBlindSweep
    GraspFitsLayer
    BallLimitKept
    MailboxSafe
PROPERTIES
    NoReleaseAfterStop
