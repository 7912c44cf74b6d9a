--------------------------- MODULE MCReceiveTasks ---------------------------
(* Instances of ReceiveTasks for TLC.                                      *)
EXTENDS ReceiveTasks

CONSTANTS eth0, eth1

(* No interface, two of them, and one that is configured twice.            *)
SomeConfigurations == {<<>>, <<eth0, eth1>>, <<eth0, eth0>>}

=============================================================================
