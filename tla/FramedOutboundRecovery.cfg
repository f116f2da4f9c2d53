CONSTANTS
    VideoCapacity = 2
    MaxControlFrames = 2
    MaxCaptures = 1
    MaxUnits = 4
    MaxRequests = 0
    MaxControls = 1
SPECIFICATION FairSpec
INVARIANTS
    TypeOK
    GapsAreMarked
    KeyframeIsRequested
PROPERTIES
    QueuesDrain
CHECK_DEADLOCK FALSE
