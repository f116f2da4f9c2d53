\* Until a capture is continued that nobody started.
SPECIFICATION ConnectionSpec
CONSTANTS
    MaxConnections = 2
    MaxPresses = 2
PROPERTY OnlyAStartResumes
CHECK_DEADLOCK FALSE
