---------------------------- MODULE RipDatabase ----------------------------
(***************************************************************************)
(* The RIP database of the daemon (rip_database.rs): the active routes,    *)
(* the poisoned routes waiting for garbage collection, and the flag that   *)
(* says a change still has to be advertised.                               *)
(*                                                                         *)
(* The database is a value.  Each method of RipDatabase is an operator     *)
(* that returns the new value; a method that can return Err has a second   *)
(* operator, ..._fails, that says when it does.  Both are used by the      *)
(* daemon (module RipDaemon), which owns the database.                     *)
(***************************************************************************)
EXTENDS Integers, FiniteSets

CONSTANTS
    RouteKey,         \* destinations: pairs of address and mask
    Address,          \* next hops: source addresses of RIP packets, and 0.0.0.0
    Unspecified,      \* 0.0.0.0, the next hop of a local route
    Attr,             \* address family and route tag of an entry
    LocalAttr,        \* AF_INET and tag 0, carried by a local route
    Device,           \* interfaces: index and name
    None,             \* Option::None
    Infinity,         \* RIP_INFINITY_METRIC, 16
    TimeoutInterval,  \* seconds between two timeout checks
    TimeoutLimit,     \* seconds of silence after which a route times out
    GarbageLifetime   \* time a poisoned route is kept

ASSUME AddressAssumption == Unspecified \in Address /\ LocalAttr \in Attr

ASSUME TimeAssumption ==
    /\ TimeoutInterval \in Nat
    /\ TimeoutLimit \in Nat \ {0}
    /\ GarbageLifetime \in Nat

ASSUME NoneAssumption == None \notin Nat

ASSUME InfinityAssumption == Infinity \in Nat /\ Infinity > 1

-----------------------------------------------------------------------------
(* The state of the database.                                              *)

(* What a packet says of a destination, its key apart (rip_packet.rs).     *)
RipEntry == [next_hop : Address, metric : Nat, attr : Attr]

(* The instant at which a route became garbage is kept as its age, which   *)
(* stops counting at GarbageLifetime: nothing tells later ages apart.      *)
GarbageAge == {None} \cup 0 .. GarbageLifetime

RipDbEntry ==
    [next_hop : Address, metric : Nat, attr : Attr, dev : Device,
     changed : BOOLEAN, is_local : BOOLEAN, in_routing_table : BOOLEAN,
     timeout_cnt : Nat, garbage_age : GarbageAge]

IsRouteMap(map) == \E D \in SUBSET RouteKey : map \in [D -> RipDbEntry]

IsDatabase(db) ==
    /\ db = [ok_routes |-> db.ok_routes, garbage_routes |-> db.garbage_routes,
             any_route_changed |-> db.any_route_changed]
    /\ IsRouteMap(db.ok_routes)
    /\ IsRouteMap(db.garbage_routes)
    /\ db.any_route_changed \in BOOLEAN

EmptyMap == [k \in {} |-> None]

new == [ok_routes |-> EmptyMap, garbage_routes |-> EmptyMap,
        any_route_changed |-> FALSE]

(* HashMap::insert and HashMap::remove.                                    *)
insert(map, k, route) ==
    [x \in DOMAIN map \cup {k} |-> IF x = k THEN route ELSE map[x]]

remove(map, k) == [x \in DOMAIN map \ {k} |-> map[x]]

has_route(db, k) == k \in DOMAIN db.ok_routes

has_garbage_route(db, k) == k \in DOMAIN db.garbage_routes

has_garbage_routes(db) == DOMAIN db.garbage_routes # {}

-----------------------------------------------------------------------------
(* Adding and removing routes.                                             *)

db_entry(entry, dev, is_local, in_routing_table) ==
    [next_hop |-> entry.next_hop, metric |-> entry.metric,
     attr |-> entry.attr, dev |-> dev,
     changed |-> TRUE, is_local |-> is_local,
     in_routing_table |-> in_routing_table,
     timeout_cnt |-> 0, garbage_age |-> None]

add_route_fails(db, k) == has_route(db, k)

add_route(db, k, route) ==
    IF add_route_fails(db, k)
    THEN db
    ELSE [db EXCEPT !.ok_routes = insert(db.ok_routes, k, route),
                    !.any_route_changed = db.any_route_changed \/ route.changed]

add_local_route(db, k, entry, dev) ==
    add_route(db, k, db_entry(entry, dev, TRUE, FALSE))

add_remote_route(db, k, entry, dev) ==
    add_route(db, k, db_entry(entry, dev, FALSE, TRUE))

remove_route_fails(db, k) == ~has_route(db, k) /\ ~has_garbage_route(db, k)

remove_route(db, k) ==
    IF has_route(db, k)
    THEN [db EXCEPT !.ok_routes = remove(db.ok_routes, k)]
    ELSE [db EXCEPT !.garbage_routes = remove(db.garbage_routes, k)]

(* Mutant: the garbage is left in place.                                   *)
remove_garbage_route_forgotten(db, k) == db

remove_garbage_route(db, k) ==
    [db EXCEPT !.garbage_routes = remove(db.garbage_routes, k)]

-----------------------------------------------------------------------------
(* Timeouts and garbage collection.                                        *)

(* Mutant: the count goes on.                                              *)
refresh_route_timeout_forgotten(db, k) == db

refresh_route_timeout(db, k) ==
    [db EXCEPT !.ok_routes =
        [x \in DOMAIN db.ok_routes |->
            IF x = k THEN [db.ok_routes[x] EXCEPT !.timeout_cnt = 0]
                     ELSE db.ok_routes[x]]]

(* Mutant: the count starts afresh at each tick.                           *)
count_silence_not_added(db) ==
    [db EXCEPT !.ok_routes =
        [x \in DOMAIN db.ok_routes |->
            [db.ok_routes[x] EXCEPT !.timeout_cnt = TimeoutInterval]]]

(* collect_timed_out_routes counts the silence of every remote route, and  *)
(* returns the ones whose silence reached the limit.                       *)
count_silence(db) ==
    [db EXCEPT !.ok_routes =
        [x \in DOMAIN db.ok_routes |->
            IF db.ok_routes[x].is_local
            THEN db.ok_routes[x]
            ELSE [db.ok_routes[x] EXCEPT
                    !.timeout_cnt = db.ok_routes[x].timeout_cnt
                                    + TimeoutInterval]]]

is_timed_out(route) == ~route.is_local /\ route.timeout_cnt >= TimeoutLimit

collect_timed_out_routes(db) ==
    LET ok == count_silence(db).ok_routes
    IN  {[key |-> k, route |-> ok[k]] :
            k \in {x \in DOMAIN ok : is_timed_out(ok[x])}}

(* Mutant: the poisoned route is not marked as changed.                    *)
poisoned_silently(route) ==
    [route EXCEPT !.metric = Infinity, !.in_routing_table = FALSE,
                  !.garbage_age = 0]

poisoned(route) ==
    [route EXCEPT !.changed = TRUE, !.metric = Infinity,
                  !.in_routing_table = FALSE, !.garbage_age = 0]

move_route_to_garbage_fails(db, k) ==
    ~has_route(db, k) \/ has_garbage_route(db, k)

(* Mutant: the flag of the database is not raised.                         *)
move_route_to_garbage_unflagged(db, k) ==
    IF ~has_route(db, k)
    THEN db
    ELSE [db EXCEPT
            !.ok_routes = remove(db.ok_routes, k),
            !.garbage_routes =
                insert(db.garbage_routes, k, poisoned(db.ok_routes[k]))]

(* The active route is gone even when the garbage entry is occupied.       *)
move_route_to_garbage(db, k) ==
    IF ~has_route(db, k)
    THEN db
    ELSE [ok_routes |-> remove(db.ok_routes, k),
          garbage_routes |->
              IF has_garbage_route(db, k)
              THEN db.garbage_routes
              ELSE insert(db.garbage_routes, k, poisoned(db.ok_routes[k])),
          any_route_changed |-> TRUE]

is_expired(route) ==
    route.garbage_age # None /\ route.garbage_age >= GarbageLifetime

remove_expired_garbage_routes(db) ==
    [db EXCEPT !.garbage_routes =
        [x \in {y \in DOMAIN db.garbage_routes :
                    ~is_expired(db.garbage_routes[y])}
            |-> db.garbage_routes[x]]]

(* One unit of time passes.                                                *)
older(route) ==
    IF route.garbage_age = None \/ route.garbage_age = GarbageLifetime
    THEN route
    ELSE [route EXCEPT !.garbage_age = route.garbage_age + 1]

grow_older(db) ==
    [db EXCEPT !.garbage_routes =
        [x \in DOMAIN db.garbage_routes |-> older(db.garbage_routes[x])]]

-----------------------------------------------------------------------------
(* Advertising.                                                            *)

poison_map(map) ==
    [x \in DOMAIN map |-> [map[x] EXCEPT !.metric = Infinity, !.changed = TRUE]]

(* Mutant: local routes are not poisoned.                                  *)
poison_all_remote_routes(db) ==
    [ok_routes |-> [x \in DOMAIN db.ok_routes |->
                       IF db.ok_routes[x].is_local
                       THEN db.ok_routes[x]
                       ELSE [db.ok_routes[x] EXCEPT !.metric = Infinity]],
     garbage_routes |-> poison_map(db.garbage_routes),
     any_route_changed |-> TRUE]

poison_all_routes(db) ==
    IF DOMAIN db.ok_routes = {} /\ DOMAIN db.garbage_routes = {}
    THEN db
    ELSE [ok_routes |-> poison_map(db.ok_routes),
          garbage_routes |-> poison_map(db.garbage_routes),
          any_route_changed |-> TRUE]

get_routes_in_routing_table(db) ==
    LET installed(map) ==
            {[key |-> k, route |-> map[k]] :
                k \in {x \in DOMAIN map : map[x].in_routing_table}}
    IN  installed(db.ok_routes) \cup installed(db.garbage_routes)

(* Mutant: without split horizon.                                          *)
is_advertised_everywhere(route, dev, changed_only) ==
    changed_only => route.changed

(* Split horizon, and the changed routes only in a triggered update.       *)
is_advertised(route, dev, changed_only) ==
    /\ changed_only => route.changed
    /\ route.dev # dev

get_routes_for_advertisement(db, dev, changed_only) ==
    LET selected(map) ==
            {k \in DOMAIN map : is_advertised(map[k], dev, changed_only)}
    IN  selected(db.ok_routes) \cup selected(db.garbage_routes)

(* The metric a listener on dev has last heard for k once an advertisement *)
(* was sent there; heard is what it knew before.  The active routes are    *)
(* sent ahead of the garbage, so of two entries for k the garbage one is   *)
(* the last.                                                               *)
last_metric(db, k, dev, changed_only, heard) ==
    LET sends(map) == k \in DOMAIN map
                      /\ is_advertised(map[k], dev, changed_only)
    IN  IF sends(db.garbage_routes) THEN db.garbage_routes[k].metric
        ELSE IF sends(db.ok_routes) THEN db.ok_routes[k].metric
        ELSE heard

unchanged_map(map) == [x \in DOMAIN map |-> [map[x] EXCEPT !.changed = FALSE]]

mark_all_routes_as_unchanged(db) ==
    IF ~db.any_route_changed
    THEN db
    ELSE [ok_routes |-> unchanged_map(db.ok_routes),
          garbage_routes |-> unchanged_map(db.garbage_routes),
          any_route_changed |-> FALSE]

-----------------------------------------------------------------------------
(* The tests on a received entry (rip_deamon.rs).                          *)

is_metric_valid(metric) == metric \in 1 .. Infinity

(* Mutant: the hop to the neighbour is not counted.                        *)
update_metric_by_nothing(metric) == metric

update_metric(metric) == IF metric + 1 > Infinity THEN Infinity ELSE metric + 1

(* Mutant: every neighbour is taken for the next hop.                      *)
route_is_from_any_neighbour(old_route, route_entry) == TRUE

route_is_from_current_next_hop(old_route, route_entry) ==
    old_route.next_hop = route_entry.next_hop

=============================================================================
