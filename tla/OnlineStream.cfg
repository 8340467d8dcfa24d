SPECIFICATION FairSpec
CONSTANTS
    QueueMax = 2
    DecodeMayFail = TRUE
    PeerMayLeave = TRUE
    MaxStarts = 3
    MaxChunks = 5
INVARIANTS
    TypeOK
    JoinExact
    AudioInItsSession
    ResultInItsSession
    FinalCoversAccepted
PROPERTIES
    StopEndsConnected
    QueueDrains
CHECK_DEADLOCK FALSE
