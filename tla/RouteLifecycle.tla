--------------------------- MODULE RouteLifecycle ---------------------------
(***************************************************************************)
(* What the daemon promises of its routes, destination by destination,     *)
(* with no word on packets, timers, the kernel or the two maps of the      *)
(* database.  Module RipLifecycle shows that RipDaemon keeps the promise.  *)
(*                                                                         *)
(* A destination has no route, a local route, or a remote route through a  *)
(* next hop.  A remote route may get worse only through that same next     *)
(* hop; another next hop takes over with a better metric or none at all.   *)
(* A local route ends with the process, unless NoHop is among the next     *)
(* hops: who sends from there is taken for its owner.  A route that is     *)
(* withdrawn stays withdrawn, so that the poison can be told, until a next *)
(* hop offers it anew or it is forgotten.                                  *)
(***************************************************************************)
EXTENDS Integers

CONSTANTS
    Destination,
    NextHop,    \* where offers and withdrawals come from
    NoHop,      \* 0.0.0.0, the next hop of a local route
    Infinity    \* the metric of a destination that cannot be reached

VARIABLES
    phase,      \* "running", "leaving" or "down"
    route,      \* the routes, by destination
    withdrawn   \* destinations whose poisoned route is still told

lifecycle == <<phase, route, withdrawn>>

LocalRoute == [local |-> TRUE, via |-> NoHop, metric |-> 1]

RemoteRoute(n, metric) == [local |-> FALSE, via |-> n, metric |-> metric]

Remote(k) == k \in DOMAIN route /\ ~route[k].local

(* A local route within reach of a sender that has no address.             *)
Exposed(k) == k \in DOMAIN route /\ route[k].local /\ NoHop \in NextHop

With(k, chosen) ==
    [x \in DOMAIN route \cup {k} |-> IF x = k THEN chosen ELSE route[x]]

Without(k) == [x \in DOMAIN route \ {k} |-> route[x]]

NoRoutes == [k \in {} |-> LocalRoute]

Reachable == 2 .. Infinity - 1

Init ==
    /\ phase = "running"
    /\ route = NoRoutes
    /\ withdrawn = {}

AddLocal(k) ==
    /\ phase = "running" /\ k \notin DOMAIN route
    /\ route' = With(k, LocalRoute)
    /\ UNCHANGED <<phase, withdrawn>>

(* The first offer wins, even right after a withdrawal.                    *)
Learn(k, n, metric) ==
    /\ phase = "running" /\ k \notin DOMAIN route
    /\ route' = With(k, RemoteRoute(n, metric))
    /\ withdrawn' = withdrawn \ {k}
    /\ UNCHANGED phase

(* The next hop has a new metric, or another next hop a better one.        *)
Follow(k, metric) ==
    /\ phase = "running" /\ (Remote(k) \/ Exposed(k))
    /\ route' = With(k, RemoteRoute(route[k].via, metric))
    /\ UNCHANGED <<phase, withdrawn>>

Improve(k, n, metric) ==
    /\ phase = "running" /\ Remote(k)
    /\ metric < route[k].metric
    /\ route' = With(k, RemoteRoute(n, metric))
    /\ UNCHANGED <<phase, withdrawn>>

Withdraw(k) ==
    /\ phase = "running" /\ (Remote(k) \/ Exposed(k)) /\ k \notin withdrawn
    /\ route' = Without(k)
    /\ withdrawn' = withdrawn \cup {k}
    /\ UNCHANGED phase

Forget ==
    /\ phase = "running"
    /\ withdrawn' \in SUBSET withdrawn
    /\ UNCHANGED <<phase, route>>

(* Every route is poisoned at once.                                        *)
Leave ==
    /\ phase = "running"
    /\ phase' = "leaving"
    /\ route' = [k \in DOMAIN route |->
                   [route[k] EXCEPT !.metric = Infinity]]
    /\ UNCHANGED withdrawn

(* No route outlives the process.                                          *)
GoDown ==
    /\ phase # "down"
    /\ phase' = "down"
    /\ route' = NoRoutes
    /\ withdrawn' = {}

Restart ==
    /\ phase = "down"
    /\ phase' = "running"
    /\ UNCHANGED <<route, withdrawn>>

Next ==
    \/ \E k \in Destination : AddLocal(k) \/ Withdraw(k)
    \/ \E k \in Destination, metric \in Reachable : Follow(k, metric)
    \/ \E k \in Destination, n \in NextHop, metric \in Reachable :
           Learn(k, n, metric) \/ Improve(k, n, metric)
    \/ Forget
    \/ Leave
    \/ GoDown
    \/ Restart

Spec == Init /\ [][Next]_lifecycle

=============================================================================
