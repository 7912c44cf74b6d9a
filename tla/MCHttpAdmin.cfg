SPECIFICATION AdminFairSpec
CONSTANTS
    k1 = k1  n1 = n1  zero = zero  eth0 = eth0  lan = lan
    c1 = c1  c2 = c2
    Infinity = 16  None = None  InvalidNetwork = InvalidNetwork
    RouteKey = {k1}
    ValidKey = {k1}
    Address = {zero, n1}
    Unspecified = zero
    Attr = {inet}
    LocalAttr = inet
    Device = {eth0, lan}
    RipDevice = {eth0}
    Neighbour = {}
    Metric = {1}
    MaxEntries = 1
    TimeoutInterval = 1
    TimeoutLimit = 1
    GarbageLifetime = 0
    Configurations <- NoConfiguration
    HttpNetwork <- SomeNetworks
    InitialKernel = {}
    MaxRestarts = 0
    Client = {c1, c2}
    QueueSize = 1
    LogFile = FALSE
INVARIANTS
    FailureLeavesNoTrace
    ReadsWhatWasWritten
PROPERTY
    EveryRequestEnds
