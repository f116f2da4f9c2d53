CONSTANTS
    Modes = {hd, fhd}
    AutoMode = fhd
    NoMode = NoMode
    Granted = {TRUE}
    MaxEvents = 1
    MaxRequests = 1
    MaxPresses = 1
    MaxPauses = 0
    MaxRepeats = 1
SPECIFICATION FairSpec
PROPERTIES
    SwitchEnds
CHECK_DEADLOCK FALSE
