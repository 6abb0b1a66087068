CONSTANTS
    FailMax = 2
    MaxNav = 2
    OdomFaults = TRUE
    SendFaults = FALSE
    Backup = TRUE
SPECIFICATION FairSpec
INVARIANTS
    ParkedAfterFault
    NavNotLost
    ArrivalIsReal
    FollowsOwnPath
PROPERTIES
    InFlightEnds
