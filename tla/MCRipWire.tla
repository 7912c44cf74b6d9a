------------------------------ MODULE MCRipWire ------------------------------
(***************************************************************************)
(* RipWire on networks at the edges of what address.rs tells apart.        *)
(***************************************************************************)
EXTENDS RipWire

net(a, b, c, d, prefix, dev) ==
    [address |-> <<a, b, c, d>>, prefix |-> prefix, dev |-> dev]

(* One interface to the receiver, and another one.                         *)
MCIfIndex == [eth0 |-> 1, eth1 |-> 2]

(* Ordinary networks, also written with host bits, twice the same and one  *)
(* within another, of the link and of the other interface; the shortest    *)
(* prefix, the longest that is believed and one that is impossible; an     *)
(* interface that does not exist.                                          *)
MCNetwork ==
    {net(10, 1, 2, 0, 24, "eth0"), net(10, 1, 2, 77, 24, "eth1"),
     net(10, 1, 2, 77, 31, "eth1"), net(10, 9, 9, 9, 0, "eth1"),
     net(10, 0, 0, 0, 33, "eth1"), net(10, 0, 0, 0, 8, "eth2")}

(* Masks with and without holes, and addresses around those of unicast.    *)
MCForeignEntry ==
    [address : {<<10, 0, 0, 1>>},
     mask : {<<0, 0, 0, 0>>, <<255, 255, 255, 255>>, <<255, 0, 0, 255>>,
             <<255, 254, 0, 0>>, <<254, 255, 0, 0>>}]
    \cup [address : {<<127, 0, 0, 0>>, <<223, 0, 0, 0>>, <<224, 0, 0, 0>>},
          mask : {<<255, 255, 255, 0>>}]

=============================================================================
