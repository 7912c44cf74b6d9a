---------------------------- MODULE MCHttpAdmin ----------------------------
(* Instances of HttpAdmin for TLC.                                         *)
EXTENDS HttpAdmin

CONSTANTS k1, n1, zero, eth0, lan, c1, c2

NetworkOnLan == [key |-> k1, dev |-> lan]
SomeNetworks == {NetworkOnLan, InvalidNetwork}

NoConfiguration == {<<>>}

=============================================================================
