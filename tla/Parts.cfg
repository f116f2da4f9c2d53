\* Two connections and two presses; three sessions of the phone, two processes, four pictures; small bytes.
SPECIFICATION FairSpec
CONSTANTS
    None = None
    MaxConnections = 2
    MaxPresses = 2
    Frames = 2
    MaxSeams = 1
    MaxSessions = 3
    Procs = {p1, p2}
    Names = {0, 1}
    NoFile = NoFile
    MaxFiles = 2
    MaxHarm = 2
    NoPicture = NoPicture
    MaxShots = 4
    NoQuality = NoQuality
    Qualities = {hd}
    MaxLines = 3
    PREVIEW_WIDTH = 4
    ByteValues = 8
    MAX_PAYLOAD = 512
    MAX_CONTROL_PAYLOAD = 64
    MAX_QUALITY_MODES = 2
    NONCE_BYTES = 2
    PHONE_BINDING_BYTES = 2
    CLIENT_PUBLIC_KEY_BYTES = 3
    SIGNATURE_BYTES = 2
    MAX_CLIENT_LABEL = 3
    MAX_ADDRESSES = 2
    FINGERPRINT_BYTES = 2
    KEY_BYTES = 1
INVARIANTS
    EndsTruly
    ExitIsTrue
    FilesSurvive
    DataSurvive
    OneSessionAtATime
    TeardownIsUnderWay
PROPERTIES
    LinkEnds
    ResumesWhatWasStarted
    WholeWithinAWorker
CHECK_DEADLOCK FALSE
