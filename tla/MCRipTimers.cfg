SPECIFICATION Spec
CONSTANTS
    Infinity = 16  None = None
    RouteKey = {k1, k2}
    Address = {zero, n1}
    Unspecified = zero
    Attr = {inet}
    LocalAttr = inet
    Device = {eth0}
    TimeoutInterval = 2
    TimeoutLimit = 3
    GarbageLifetime = 3
    Metric = {2, 16}
    Seed = {0, 1, 2, 3}
    WarmupMin = 1
    WarmupMax = 1
    UpdateMin = 3
    UpdateMax = 4
    LockMin = 1
    LockMax = 2
    CollectionInterval = 2
INVARIANTS
    ChangeToldInTime
    SilentRouteTimesOut
    CollectedInTime
PROPERTIES
    TriggeredUpdatesApart
    NoEarlyTimeout
