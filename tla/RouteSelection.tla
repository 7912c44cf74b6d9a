--------------------------- MODULE RouteSelection ---------------------------
(***************************************************************************)
(* What an entry of a response does to the database: the four cases of     *)
(* update_route_from_response and the poisoned one, run to their end and   *)
(* without the kernel's table.  RipDaemon takes the same cases apart into  *)
(* steps at the awaits; the models of a network and of the timers use them *)
(* whole.                                                                  *)
(***************************************************************************)
EXTENDS RipDatabase

replaced(db, k, entry, dev) ==
    add_remote_route(remove_route(db, k), k, entry, dev)

same_route(db, k, entry, dev) ==
    /\ db.ok_routes[k].metric = entry.metric
    /\ db.ok_routes[k].attr = entry.attr
    /\ db.ok_routes[k].dev = dev

poison_from_response(db, k, entry) ==
    IF has_route(db, k) /\ route_is_from_current_next_hop(db.ok_routes[k], entry)
    THEN move_route_to_garbage(db, k)
    ELSE db

reachable_from_response(db, k, entry, dev) ==
    IF ~has_route(db, k)
    THEN add_remote_route(remove_garbage_route(db, k), k, entry, dev)
    ELSE IF route_is_from_current_next_hop(db.ok_routes[k], entry)
    THEN IF same_route(db, k, entry, dev)
         THEN refresh_route_timeout(db, k)
         ELSE replaced(refresh_route_timeout(db, k), k, entry, dev)
    ELSE IF db.ok_routes[k].metric > entry.metric
    THEN replaced(db, k, entry, dev)
    ELSE db

(* Mutant: a worse metric of the next hop is not believed.                 *)
update_route_when_better(db, k, entry, dev) ==
    IF has_route(db, k) /\ db.ok_routes[k].metric <= entry.metric
    THEN refresh_route_timeout(db, k)
    ELSE reachable_from_response(db, k, entry, dev)

update_route_from_response(db, k, entry, dev) ==
    IF entry.metric >= Infinity
    THEN poison_from_response(db, k, entry)
    ELSE reachable_from_response(db, k, entry, dev)

=============================================================================
