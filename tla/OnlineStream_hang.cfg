SPECIFICATION FairSpec
CONSTANTS
    QueueMax = 2
    DecodeMayFail = FALSE
    PeerMayLeave = TRUE
    MaxStarts = 1
    MaxChunks = 2
PROPERTIES
    StopEnds
CHECK_DEADLOCK FALSE
