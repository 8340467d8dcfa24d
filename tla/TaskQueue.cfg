SPECIFICATION FairSpec
CONSTANTS
    k1 = k1
    k2 = k2
    k3 = k3
    w1 = w1
    w2 = w2
    b1 = b1
    b2 = b2
    Keys <- MCKeys
    Offline <- MCOffline
    Vip <- MCVip
    Workers = {w1, w2}
    Batches = {b1, b2}
    NoKey = NoKey
    Stop = Stop
    MaxOrder = 6
INVARIANTS
    RegistryExact
    OneExecutor
PROPERTIES
    NoStartAfterStop
    DispatchOrder
    ImplementsContract
    StopTerminates
    QueuedServed
CHECK_DEADLOCK FALSE
