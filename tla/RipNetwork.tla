----------------------------- MODULE RipNetwork -----------------------------
(***************************************************************************)
(* Several daemons on links that lose, delay, reorder and repeat packets.  *)
(*                                                                         *)
(* Each router has the database of module RipDatabase and treats an entry  *)
(* as module RouteSelection says; the kernel and the details of the        *)
(* event loop, which RipDaemon models, are left out: a handler is a step.  *)
(* Routers are started, killed, asked to leave and started again, perhaps  *)
(* with another configuration.  Local routes come from the configuration.  *)
(*                                                                         *)
(* An interface is a pair of router and link, and stands for its address.  *)
(* Which interfaces there are is chosen at the beginning.                  *)
(* Destinations do not meet in a database, so every entry of a packet      *)
(* travels as a message of its own.                                        *)
(***************************************************************************)
EXTENDS RouteSelection

CONSTANTS
    Router,
    Interface,     \* pairs <<router, link>>
    Topologies,    \* sets of interfaces, one of which makes the network
    Lan,           \* the device local networks are attached to
    MayOwn,        \* the local networks each router may be configured with
    Distance,      \* for each destination, a lower bound on the hops to it
    Uplink,        \* for each destination, the link towards it, in a tree
    MaxInFlight,   \* bound on the messages between two interfaces, by link
    MaxFaults      \* bound on crashes, departures, repetitions, false timeouts

ASSUME NetworkAssumption ==
    /\ Interface \subseteq Router \X Device
    /\ Topologies \subseteq SUBSET Interface
    /\ Address = Interface \cup {Unspecified}
    /\ Unspecified \notin Interface
    /\ Lan \in Device
    /\ \A i \in Interface : i[2] # Lan
    /\ MayOwn \in [Router -> SUBSET RouteKey]
    /\ Uplink \in [Router -> [RouteKey -> Device]]
    /\ MaxInFlight \in [Device -> Nat] /\ MaxFaults \in Nat

(* Nothing more is asked of Distance: it is 0 at an owner, and neighbours  *)
(* differ by one hop at most.                                              *)
ASSUME DistanceAssumption ==
    /\ Distance \in [Router -> [RouteKey -> Nat]]
    /\ \A r \in Router : \A k \in MayOwn[r] : Distance[r][k] = 0
    /\ \A i, j \in Interface : \A k \in RouteKey :
           i[2] = j[2] => Distance[i[1]][k] <= Distance[j[1]][k] + 1

VARIABLES
    topology,   \* the interfaces of the network
    up,         \* routers whose daemon runs
    database,   \* the database of each router
    wire,       \* messages in flight
    faults      \* faults that have happened

vars == <<topology, up, database, wire, faults>>

(* The response packets.                                                   *)
Message == [from : Interface, to : Interface, key : RouteKey, metric : Nat]

-----------------------------------------------------------------------------
(* Sending.                                                                *)

(* A multicast on a link reaches the other interfaces there: the sockets   *)
(* are bound to a device, and multicast_loop is off.                       *)
Hearers(i) == {j \in topology : j[2] = i[2] /\ j # i}

(* build_response_buffers, for the listener j.                             *)
advertisement(db, i, j, changed_only) ==
    {[from |-> i, to |-> j, key |-> k,
      metric |-> last_metric(db, k, i[2], changed_only, Infinity)] :
        k \in get_routes_for_advertisement(db, i[2], changed_only)}

(* rip_send_advertisement_multicast, on every interface of the router.     *)
multicast(r, db, changed_only) ==
    UNION {UNION {advertisement(db, i, j, changed_only) : j \in Hearers(i)} :
               i \in {x \in topology : x[1] = r}}

InFlight(m) == {x \in wire : x.from = m.from /\ x.to = m.to /\ x.key = m.key}

(* A message that finds no room is lost.                                   *)
Carried(msgs) ==
    wire \cup {m \in msgs : Cardinality(InFlight(m)) < MaxInFlight[m.to[2]]}

-----------------------------------------------------------------------------
(* Receiving.                                                              *)

(* handle_response_packet for one entry.                                   *)
handle_response(db, m) ==
    IF is_metric_valid(m.metric)
    THEN update_route_from_response(
             db, m.key,
             [next_hop |-> m.from, metric |-> update_metric(m.metric),
              attr |-> LocalAttr],
             m.to[2])
    ELSE db

-----------------------------------------------------------------------------
(* The routers.                                                            *)

(* The timeout loop of a router runs to its end before anything else.      *)
Idle(r) ==
    /\ r \in up
    /\ \A k \in DOMAIN database[r].ok_routes :
           ~is_timed_out(database[r].ok_routes[k])

Changes(r, db) == database' = [database EXCEPT ![r] = db]

local_entry == [next_hop |-> Unspecified, metric |-> 1, attr |-> LocalAttr]

(* The database after setup with the local networks in own.                *)
configured(own) ==
    [ok_routes |-> [k \in own |-> db_entry(local_entry, Lan, TRUE, FALSE)],
     garbage_routes |-> EmptyMap,
     any_route_changed |-> own # {}]

Init ==
    /\ topology \in Topologies
    /\ up = {}
    /\ database = [r \in Router |-> new]
    /\ wire = {}
    /\ faults = 0

(* A daemon without interfaces ends at once.                               *)
Boot(r) ==
    /\ r \notin up /\ \E i \in topology : i[1] = r
    /\ up' = up \cup {r}
    /\ \E own \in SUBSET MayOwn[r] : Changes(r, configured(own))
    /\ UNCHANGED <<topology, wire, faults>>

Advertise(r, changed_only) ==
    /\ Idle(r)
    /\ changed_only => database[r].any_route_changed
    /\ wire' = Carried(multicast(r, database[r], changed_only))
    /\ Changes(r, mark_all_routes_as_unchanged(database[r]))
    /\ UNCHANGED <<topology, up, faults>>

(* The multicast request of one router and the unicast response of another *)
(* are one step: the answer is what may be late or lost.                   *)
AnswerRequest(i, j) ==
    /\ j[1] \in up /\ j \in Hearers(i)
    /\ Idle(i[1])
    /\ wire' = Carried(advertisement(database[i[1]], i, j, FALSE))
    /\ UNCHANGED <<topology, up, database, faults>>

Receive(m) ==
    /\ m \in wire /\ Idle(m.to[1])
    /\ \/ wire' = wire \ {m} /\ UNCHANGED faults
       \/ wire' = wire /\ faults < MaxFaults /\ faults' = faults + 1
    /\ Changes(m.to[1], handle_response(database[m.to[1]], m))
    /\ UNCHANGED <<topology, up>>

Lose(m) ==
    /\ m \in wire
    /\ wire' = wire \ {m}
    /\ UNCHANGED <<topology, up, database, faults>>

(* A route of r whose next hop lives and still offers it.                  *)
Offered(r, k) ==
    LET hop == database[r].ok_routes[k].next_hop
    IN  /\ hop \in Interface /\ hop[1] \in up
        /\ k \in DOMAIN database[hop[1]].ok_routes
        /\ is_advertised(database[hop[1]].ok_routes[k], hop[2], FALSE)

(* Routes that time out although they are offered: every update of three   *)
(* minutes was lost.                                                       *)
FalseTimeouts(r) ==
    {p.key : p \in {x \in collect_timed_out_routes(database[r]) :
                        Offered(r, x.key)}}

TimeoutTick(r) ==
    /\ Idle(r)
    /\ faults' = faults + Cardinality(FalseTimeouts(r))
    /\ faults' <= MaxFaults
    /\ Changes(r, count_silence(database[r]))
    /\ UNCHANGED <<topology, up, wire>>

TimeOutRoute(r, k) ==
    /\ r \in up /\ k \in DOMAIN database[r].ok_routes
    /\ is_timed_out(database[r].ok_routes[k])
    /\ Changes(r, move_route_to_garbage(database[r], k))
    /\ UNCHANGED <<topology, up, wire, faults>>

(* The collection is not bound to its timer here: garbage that is old      *)
(* enough is removed at some time or never.                                *)
CollectGarbage(r) ==
    /\ Idle(r)
    /\ Changes(r, remove_expired_garbage_routes(grow_older(database[r])))
    /\ UNCHANGED <<topology, up, wire, faults>>

Crash(r) ==
    /\ r \in up /\ faults < MaxFaults
    /\ up' = up \ {r}
    /\ Changes(r, new)
    /\ faults' = faults + 1
    /\ UNCHANGED <<topology, wire>>

(* handle_shutdown: the poisoned routes are told before the daemon goes.   *)
Shutdown(r) ==
    /\ Idle(r) /\ faults < MaxFaults
    /\ wire' = Carried(multicast(r, poison_all_routes(database[r]), FALSE))
    /\ up' = up \ {r}
    /\ Changes(r, new)
    /\ faults' = faults + 1
    /\ UNCHANGED topology

Next ==
    \/ \E r \in Router :
           \/ Boot(r)
           \/ \E changed_only \in BOOLEAN : Advertise(r, changed_only)
           \/ TimeoutTick(r)
           \/ \E k \in RouteKey : TimeOutRoute(r, k)
           \/ CollectGarbage(r)
           \/ Crash(r)
           \/ Shutdown(r)
    \/ \E i, j \in topology : AnswerRequest(i, j)
    \/ \E m \in wire : Receive(m) \/ Lose(m)

Spec == Init /\ [][Next]_vars

(* Every daemon that runs sends its periodic update and looks at its       *)
(* timeouts again and again.  A link may lose any message, but not all     *)
(* messages from one interface to another for ever.                        *)
Fairness ==
    /\ \A r \in Router :
           /\ WF_vars(Advertise(r, FALSE))
           /\ WF_vars(TimeoutTick(r))
           /\ WF_vars(\E k \in RouteKey : TimeOutRoute(r, k))
    /\ \A i \in Interface : \A j \in {x \in Interface \ {i} : x[2] = i[2]} :
           SF_vars(\E m \in wire : m.from = i /\ m.to = j /\ Receive(m))

FairSpec == Spec /\ Fairness

-----------------------------------------------------------------------------
(* Properties.                                                             *)

Active(r, k) == k \in DOMAIN database[r].ok_routes

Metric(r, k) == database[r].ok_routes[k].metric

(* No router ever believes to be closer to a destination than the network  *)
(* allows, whatever is lost, repeated or reordered and whoever restarts:   *)
(* the metrics of update_metric count every hop.                           *)
NeverTooShort ==
    \A r \in Router, k \in RouteKey :
        Active(r, k) => Metric(r, k) > Distance[r][k]

(* The links form a tree and each destination has one place in it: on a    *)
(* link only one router is nearer to the destination than the link.        *)
TreeTopology ==
    \A k \in RouteKey :
        /\ \A r \in Router : k \in MayOwn[r] => Uplink[r][k] = Lan
        /\ \A i, j \in topology :
               (i[2] = j[2] /\ Uplink[i[1]][k] # i[2] /\ Uplink[j[1]][k] # j[2])
                   => i = j

(* In a tree every learned route leads to the destination's side: split    *)
(* horizon keeps a router from hearing its own route back, so no two       *)
(* routers ever point at each other and no metric counts to infinity.      *)
RoutesLeadUp ==
    TreeTopology =>
        \A r \in Router, k \in RouteKey :
            (Active(r, k) /\ ~database[r].ok_routes[k].is_local) =>
                LET route == database[r].ok_routes[k]
                IN  /\ route.dev = Uplink[r][k]
                    /\ route.next_hop[2] = Uplink[r][k]
                    /\ Uplink[route.next_hop[1]][k] # Uplink[r][k]

(* Routers that reach an owner of k in at most n hops, now.                *)
Within(k) ==
    LET within[n \in 0 .. Cardinality(Router)] ==
            IF n = 0
            THEN {r \in up : Active(r, k) /\ database[r].ok_routes[k].is_local}
            ELSE within[n - 1] \cup
                 {r \in up : \E i, j \in topology :
                     i[1] = r /\ i[2] = j[2] /\ j[1] \in within[n - 1]}
    IN  within

Converged ==
    \A k \in RouteKey :
        LET within == Within(k)
        IN  \A r \in up :
                \/ /\ r \notin within[Cardinality(Router)]
                   /\ ~Active(r, k)
                \/ \E n \in DOMAIN within :
                       /\ r \in within[n]
                       /\ n > 0 => r \notin within[n - 1]
                       /\ Active(r, k) /\ Metric(r, k) = n + 1

(* Once no more faults happen, every router settles on a shortest route to *)
(* each destination that some router still owns and has dropped the routes *)
(* to all others: counting to infinity comes to an end.                    *)
Converges == <>[]Converged

=============================================================================
