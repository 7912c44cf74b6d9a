SPECIFICATION FairSpec
CONSTANTS
    k1 = k1  r1 = r1  r2 = r2  r3 = r3  zero = zero
    l12 = l12  l23 = l23  m12 = m12  n12 = n12  lan = lan
    Infinity = 5  None = None
    RouteKey = {k1}
    Address <- SomeAddress
    Unspecified = zero
    Attr = {inet}
    LocalAttr = inet
    Device = {l12, l23, m12, n12, lan}
    TimeoutInterval = 1
    TimeoutLimit = 1
    GarbageLifetime = 0
    Router = {r1, r2, r3}
    Interface <- AllInterfaces
    Topologies <- LineAndLoop
    Lan = lan
    MayOwn <- OwnedByR1
    Distance <- HopsToR1
    Uplink <- TowardsR1
    MaxInFlight <- SomeInFlight
    MaxFaults = 1
INVARIANTS
    NeverTooShort
    RoutesLeadUp
PROPERTIES
    Converges
