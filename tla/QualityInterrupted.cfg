CONSTANTS
    Modes = {hd, fhd}
    AutoMode = fhd
    NoMode = NoMode
    Granted = {TRUE}
    MaxEvents = 2
    MaxRequests = 1
    MaxPresses = 1
    MaxPauses = 1
    MaxRepeats = 0
SPECIFICATION Spec
INVARIANTS
    NoCaptureWhilePrepared
CHECK_DEADLOCK FALSE
