SPECIFICATION Spec
CONSTANTS
    ShortToken = 2
    Duration = 3
    Padding = 1
    Slack = 1
    MaxUnits = 1
    MaxPieces = 1
    VadOutputs <- MCVad
    Diarizations <- MCDiarizations
INVARIANTS
    SpeakerFailureDegrades
