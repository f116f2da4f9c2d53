CONSTANTS
    VideoCapacity = 1
    MaxControlFrames = 2
    MaxCaptures = 2
    MaxUnits = 1
    MaxRequests = 1
    MaxControls = 1
SPECIFICATION Spec
INVARIANTS
    NoVideoAfterItsFence
    OwnMetadata
    NoStrandedFrame
    QuietAfterClose
CHECK_DEADLOCK FALSE
