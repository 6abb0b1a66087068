CONSTANTS
    FailMax = 2
    MaxNav = 3
    OdomFaults = TRUE
    SendFaults = FALSE
    Backup = FALSE
SPECIFICATION FairSpec
PROPERTIES
    WaiterWakes
