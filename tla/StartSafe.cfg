CONSTANTS
    QueueDepth = 2
    IdMax = 65535
    CommandDepth = 4
    StopBudget = 1
    DeviceFaults = TRUE
    Settings <- MCSettings
    Expiry = TRUE
    SensorFaults = TRUE
SPECIFICATION FairSpec
INVARIANTS
    TypeOK
    PressIsFresh
    ChoiceHolds
PROPERTIES
    DepartsOnlyReady
    StartLeadsOn
VIEW View
