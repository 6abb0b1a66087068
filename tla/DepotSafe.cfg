CONSTANTS
    QueueDepth = 8
    IdMax = 3
    CommandDepth = 4
    StopBudget = 1
    DeviceFaults = TRUE
    Expiry = TRUE
    SensorFaults = TRUE
    Sides = {"RED", "BLUE"}
    Loads <- MCLoads
    Signs <- MCSigns
    Lookalikes <- MCLookalikes
    Misreads = 1
    FirstId = 2
SPECIFICATION Spec
INVARIANTS
    ArmMovesOnlyWhenParked
    TurnClearOfArm
    LooksAtTheRightPlace
    RightCell
    PlacesOnlyWhatItHolds
    AllPlacedAtComplete
PROPERTIES
    NoReleaseAfterStop
VIEW View
