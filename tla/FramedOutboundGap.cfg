CONSTANTS
    VideoCapacity = 1
    MaxControlFrames = 2
    MaxCaptures = 2
    MaxUnits = 2
    MaxRequests = 0
    MaxControls = 0
SPECIFICATION Spec
INVARIANTS
    DependentsAreNotForwarded
CHECK_DEADLOCK FALSE
