---------------------------- MODULE RipLifecycle ----------------------------
(***************************************************************************)
(* The daemon implements RouteLifecycle: the refinement mapping.           *)
(***************************************************************************)
EXTENDS RipDaemon

Up == pc # "exited"

(* What the rest of the world may know of a route in the database.         *)
Chosen ==
    [k \in {x \in DOMAIN database.ok_routes : Up} |->
        [local |-> database.ok_routes[k].is_local,
         via |-> database.ok_routes[k].next_hop,
         metric |-> database.ok_routes[k].metric]]

Told == {k \in DOMAIN database.garbage_routes : Up}

Phase ==
    IF ~Up THEN "down"
    ELSE IF pc \in {"farewell", "cleanup"} THEN "leaving"
    ELSE "running"

Lifecycle == INSTANCE RouteLifecycle WITH
    Destination <- RouteKey,
    NextHop <- {n.source : n \in Neighbour},
    NoHop <- Unspecified,
    phase <- Phase,
    route <- Chosen,
    withdrawn <- Told

(* The daemon keeps what RouteLifecycle promises: seen through the choice  *)
(* of next hops and metrics, every handler of run() is a step of the life  *)
(* of one destination, or no step at all.                                  *)
ImplementsLifecycle == Lifecycle!Spec

=============================================================================
