CONSTANTS
    QueueDepth = 8
    IdMax = 65535
    CommandDepth = 4
    StopBudget = 1
    DeviceFaults = TRUE
    Expiry = TRUE
    ArcTicks = 3
    HaltTicks = 2
    SensorFaults = TRUE
    BallLimit = 2
    FirstId = 65534
SPECIFICATION FairSpec
INVARIANTS
    TypeOK
    ArmMovesOnlyWhenParked
    NoBlindRound
PROPERTIES
    RoundEnds
