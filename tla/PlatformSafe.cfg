CONSTANTS
    QueueDepth = 8
    IdMax = 65535
    CommandDepth = 4
    StopBudget = 1
    DeviceFaults = TRUE
    Expiry = TRUE
    IcAttempts = 2
    FineMax = 1
    RegionLimit = 2
    Cards <- MCCards
    LateAnswers = TRUE
    SensorFaults = TRUE
    BallCount = 1
    MaxAttempts = 2
    FirstId = 65534
SPECIFICATION FairSpec
INVARIANTS
    TypeOK
    TurnClearOfArm
    SlotsAgree
    RecordNamesItsBall
    LeavesTidy
PROPERTIES
    NoReleaseAfterStop
    PlatformEnds
VIEW View
