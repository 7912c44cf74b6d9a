---------------------------- MODULE MCRipNetwork ----------------------------
(* Instances of RipNetwork for TLC.                                        *)
EXTENDS RipNetwork

CONSTANTS k1, r1, r2, r3, zero, l12, l23, m12, n12, lan

(* lan -- r1 -- r2 -- r3, the topology of tests/integration/01_basic.sh.   *)
Line == {<<r1, l12>>, <<r2, l12>>, <<r2, l23>>, <<r3, l23>>}
HopsToR1 ==
    [r \in Router |-> [k \in RouteKey |->
        IF r = r1 THEN 0 ELSE IF r = r2 THEN 1 ELSE 2]]
TowardsR1 ==
    [r \in Router |-> [k \in RouteKey |->
        IF r = r1 THEN lan ELSE IF r = r2 THEN l12 ELSE l23]]

(* Two routers with two links between them: the smallest loop.             *)
Loop == {<<r1, m12>>, <<r2, m12>>, <<r1, n12>>, <<r2, n12>>}

AllInterfaces == Line \cup Loop
SomeAddress == AllInterfaces \cup {zero}
LineAndLoop == {Line, Loop}

(* On the line packets can overtake each other.  In the loop they can do   *)
(* so over the other link.                                                 *)
SomeInFlight == [l \in Device |-> IF l \in {l12, l23} THEN 2 ELSE 1]

(* The network k1 is attached to r1.                                       *)
OwnedByR1 == [r \in Router |-> IF r = r1 THEN {k1} ELSE {}]

=============================================================================
