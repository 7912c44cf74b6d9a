---------------------------- MODULE RoutingTable ----------------------------
(***************************************************************************)
(* The kernel's routing table as the rtnetlink driver changes it           *)
(* (routing_table.rs, routing_table_rtnetlink.rs).  The table is a set of  *)
(* routes; add_route and delete_route return the new table.                *)
(*                                                                         *)
(* The two errors the driver forgives, EEXIST and ESRCH, leave the table   *)
(* as it is.  Every other error is an outcome the daemon gets instead of   *)
(* the operation (module RipDaemon).                                       *)
(***************************************************************************)
EXTENDS RipDatabase

RIP_ROUTE_PRIORITY_BASE == 20

build_route_message(k, route) ==
    [destination |-> k, gateway |-> route.next_hop,
     output_interface |-> route.dev,
     priority |-> RIP_ROUTE_PRIORITY_BASE + route.metric,
     protocol |-> "rip"]

(* The kernel refuses a second route with the same destination and         *)
(* priority, whatever its gateway.                                         *)
Occupied(kernel, message) ==
    \E other \in kernel : /\ other.destination = message.destination
                          /\ other.priority = message.priority

add_route_to_kernel(kernel, k, route) ==
    LET message == build_route_message(k, route)
    IN  IF Occupied(kernel, message) THEN kernel ELSE kernel \cup {message}

OneRoutePerPlace(kernel) ==
    \A route \in kernel : ~Occupied(kernel \ {route}, route)

(* A delete takes the one route that agrees with the message in every      *)
(* attribute, and is forgiven when there is none.  The gateway 0.0.0.0     *)
(* stands for no gateway, and agrees with all of them.                     *)
Agrees(other, message) ==
    \/ other = message
    \/ /\ message.gateway = Unspecified
       /\ message = [other EXCEPT !.gateway = Unspecified]

delete_route_from_kernel(kernel, k, route) ==
    {other \in kernel : ~Agrees(other, build_route_message(k, route))}

=============================================================================
