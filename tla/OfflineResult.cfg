SPECIFICATION Spec
CONSTANTS
    ShortToken = 2
    Duration = 5
    Padding = 1
    Slack = 1
    MaxUnits = 2
    MaxPieces = 3
    VadOutputs <- MCVad
    Diarizations <- MCDiarizations
INVARIANTS
    MergeExact
    SpeakerHeard
    ResultWhole
    TimesTrue
