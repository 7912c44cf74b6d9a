---------------------------- MODULE MCRipDaemon ----------------------------
(* Instances of RipDaemon for TLC.                                         *)
EXTENDS RipLifecycle

CONSTANTS k1, n1, n2, zero, eth0, eth1, lan

Neighbour1 == [source |-> n1, dev |-> eth0]
Neighbour2 == [source |-> n2, dev |-> eth1]
Neighbour1Moved == [source |-> n1, dev |-> eth1]
Anonymous == [source |-> zero, dev |-> eth0]

TwoNeighbours == {Neighbour1, Neighbour2}
NeighbourAndAnonymous == {Neighbour2, Anonymous}
MovingAndAnonymous == {Neighbour1, Neighbour1Moved, Anonymous}

NetworkOnLan == [key |-> k1, dev |-> lan]
NetworkOnEth0 == [key |-> k1, dev |-> eth0]

NoConfiguration == {<<>>}
SmallConfigurations ==
    {<<>>, <<NetworkOnLan>>, <<NetworkOnLan, NetworkOnEth0>>, <<InvalidNetwork>>}

SomeHttpNetworks == {NetworkOnLan, InvalidNetwork}

KernelRouteTo(k, n, metric, proto) ==
    [destination |-> k, gateway |-> n.source, output_interface |-> n.dev,
     priority |-> RIP_ROUTE_PRIORITY_BASE + metric, protocol |-> proto]

LeftoverAndForeign ==
    {KernelRouteTo(k1, Neighbour1, 2, "rip"),
     KernelRouteTo(k1, Neighbour2, 3, "other")}

=============================================================================
