SPECIFICATION Spec
CONSTANTS
    k1 = k1
    k2 = k2
    k3 = k3
    w1 = w1
    w2 = w2
    c1 = c1
    c2 = c2
    Keys = {k1, k3}
    Offline = {k1}
    Vip = {k1}
    Notified = {k1, k3}
    Content <- MCSame
    Workers = {w1, w2}
    Batches = {}
    NoKey = NoKey
    Faults = {"db", "archive", "text", "model"}
    QuickRestart = TRUE
    PendingLimit = 1
    MaxCrashes = 1
SYMMETRY MCSymmetry
INVARIANTS
    TypeOK
    UncompletedHasAudio
    CompletedIsWhole
PROPERTIES
    FinishedIsFinal
CHECK_DEADLOCK FALSE
