SPECIFICATION FairSpec
CONSTANTS
    k1 = k1
    k2 = k2
    k3 = k3
    w1 = w1
    w2 = w2
    c1 = c1
    c2 = c2
    Keys = {k1, k2}
    Offline = {k1, k2}
    Vip = {k1}
    Notified = {k1}
    Content <- MCSame
    Workers = {w1, w2}
    Batches = {}
    NoKey = NoKey
    Faults = {"archive", "text", "model"}
    QuickRestart = FALSE
    PendingLimit = 2
    MaxCrashes = 1
INVARIANTS
    UnfinishedTracked
PROPERTIES
    AcceptedEnds
CHECK_DEADLOCK FALSE
