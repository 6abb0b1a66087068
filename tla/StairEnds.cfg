CONSTANTS
    QueueDepth = 8
    IdMax = 65535
    CommandDepth = 4
    StopBudget = 1
    DeviceFaults = FALSE
    Expiry = TRUE
    EndHighN = 2
    SensorFaults = FALSE
    Side = "RED"
    BallLimit = 2
    FirstId = 65534
SPECIFICATION FairSpec
PROPERTIES
    StairsCompleted
    RestParksBase
