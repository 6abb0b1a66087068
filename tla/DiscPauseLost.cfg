CONSTANTS
    QueueDepth = 8
    IdMax = 65535
    CommandDepth = 4
    StopBudget = 0
    DeviceFaults = FALSE
    Expiry = FALSE
    ArcTicks = 3
    HaltTicks = 2
    SensorFaults = FALSE
    BallLimit = 2
    FirstId = 65534
SPECIFICATION Spec
INVARIANTS
    PauseKeepsTheRound
