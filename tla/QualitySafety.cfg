CONSTANTS
    Modes = {hd, fhd}
    AutoMode = fhd
    NoMode = NoMode
    Granted = {TRUE, FALSE}
    MaxEvents = 1
    MaxRequests = 1
    MaxPresses = 2
    MaxPauses = 1
    MaxRepeats = 0
SPECIFICATION Spec
INVARIANTS
    TypeOK
    AppliedIsReal
    EpochsAgree
    MatchingCapture
    AppliedIsShown
PROPERTIES
    WishIsKept
    StopWins
CHECK_DEADLOCK FALSE
