CONSTANTS
    None = None
    AutoRetryLimit = 1
    MaxPlugs = 2
    MaxClicks = 2
    Starts <- Launches
SPECIFICATION FairSpec
INVARIANTS
    RetriesAreBounded
    NewestTransform
PROPERTIES
    SessionIsALifecycle
    DisconnectHolds
    StopEnds
CHECK_DEADLOCK FALSE
