SPECIFICATION FairSpec
CONSTANTS
    k1 = k1  n1 = n1  n2 = n2  zero = zero
    eth0 = eth0  eth1 = eth1  lan = lan
    Infinity = 16  None = None  InvalidNetwork = InvalidNetwork
    RouteKey = {k1}
    ValidKey = {k1}
    Address = {zero, n1, n2}
    Unspecified = zero
    Attr = {inet}
    LocalAttr = inet
    Device = {eth0, eth1, lan}
    RipDevice = {eth0, eth1}
    Neighbour <- TwoNeighbours
    Metric = {1, 16}
    MaxEntries = 1
    TimeoutInterval = 1
    TimeoutLimit = 2
    GarbageLifetime = 1
    Configurations <- NoConfiguration
    HttpNetwork <- SomeHttpNetworks
    InitialKernel = {}
    MaxRestarts = 0
PROPERTIES
    GarbageCollected
