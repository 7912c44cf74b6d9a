------------------------- MODULE RipDatabaseProofs -------------------------
(***************************************************************************)
(* What the operations of the RIP database do and what they preserve: its  *)
(* type, the way to every destination when only counters, ages and marks   *)
(* change, and everything else when a route comes or goes.                 *)
(***************************************************************************)
EXTENDS RipDatabase, TLAPS

-----------------------------------------------------------------------------
(* Route maps.                                                             *)

(* A route map is a function from some destinations to entries.            *)
LEMMA RouteMapElim ==
    ASSUME NEW map, IsRouteMap(map)
    PROVE  /\ DOMAIN map \subseteq RouteKey
           /\ \A k \in DOMAIN map : map[k] \in RipDbEntry
           /\ map \in [DOMAIN map -> RipDbEntry]
BY DEF IsRouteMap

(* Every such function is a route map.                                     *)
LEMMA RouteMapIntro ==
    ASSUME NEW D, D \subseteq RouteKey, NEW map, map \in [D -> RipDbEntry]
    PROVE  IsRouteMap(map) /\ DOMAIN map = D
BY DEF IsRouteMap

(* HashMap::insert sets one entry and leaves the others alone.             *)
LEMMA InsertProperties ==
    ASSUME NEW map, IsRouteMap(map), NEW k \in RouteKey,
           NEW route \in RipDbEntry
    PROVE  /\ IsRouteMap(insert(map, k, route))
           /\ insert(map, k, route)[k] = route
           /\ DOMAIN insert(map, k, route) = DOMAIN map \cup {k}
           /\ \A x \in DOMAIN map \ {k} : insert(map, k, route)[x] = map[x]
<1> DEFINE D == DOMAIN map \cup {k}
<1>1. D \subseteq RouteKey
  BY RouteMapElim
<1>2. insert(map, k, route) \in [D -> RipDbEntry]
  BY RouteMapElim DEF insert
<1>3. QED
  BY <1>1, <1>2, RouteMapIntro DEF insert

(* HashMap::remove drops one entry and leaves the others alone.            *)
LEMMA RemoveProperties ==
    ASSUME NEW map, IsRouteMap(map), NEW k
    PROVE  /\ IsRouteMap(remove(map, k))
           /\ DOMAIN remove(map, k) = DOMAIN map \ {k}
           /\ \A x \in DOMAIN map \ {k} : remove(map, k)[x] = map[x]
<1> DEFINE D == DOMAIN map \ {k}
<1>1. D \subseteq RouteKey
  BY RouteMapElim
<1>2. remove(map, k) \in [D -> RipDbEntry]
  BY RouteMapElim DEF remove
<1>3. QED
  BY <1>1, <1>2, RouteMapIntro DEF remove

(* A map over some of the keys of another one.                             *)
LEMMA RestrictedMap ==
    ASSUME NEW map, IsRouteMap(map), NEW D \in SUBSET DOMAIN map,
           NEW value, value \in [D -> RipDbEntry]
    PROVE  IsRouteMap(value)
<1>1. D \subseteq RouteKey
  BY RouteMapElim
<1>2. QED
  BY <1>1, RouteMapIntro

-----------------------------------------------------------------------------
(* Databases.                                                              *)

(* What the fields of a database are.                                      *)
LEMMA DatabaseElim ==
    ASSUME NEW db, IsDatabase(db)
    PROVE  /\ IsRouteMap(db.ok_routes) /\ IsRouteMap(db.garbage_routes)
           /\ db.any_route_changed \in BOOLEAN
           /\ DOMAIN db.ok_routes \subseteq RouteKey
           /\ DOMAIN db.garbage_routes \subseteq RouteKey
           /\ \A k \in DOMAIN db.ok_routes : db.ok_routes[k] \in RipDbEntry
           /\ \A k \in DOMAIN db.garbage_routes :
                  db.garbage_routes[k] \in RipDbEntry
BY RouteMapElim DEF IsDatabase

(* Two route maps and a flag make a database.                              *)
LEMMA DatabaseIntro ==
    ASSUME NEW ok, IsRouteMap(ok), NEW garbage, IsRouteMap(garbage),
           NEW flag \in BOOLEAN
    PROVE  IsDatabase([ok_routes |-> ok, garbage_routes |-> garbage,
                       any_route_changed |-> flag])
BY DEF IsDatabase

(* An EXCEPT on one map of the database.                                   *)
LEMMA WithOkRoutes ==
    ASSUME NEW db, IsDatabase(db), NEW ok, IsRouteMap(ok)
    PROVE  LET db2 == [db EXCEPT !.ok_routes = ok]
           IN  /\ IsDatabase(db2)
               /\ db2.ok_routes = ok
               /\ db2.garbage_routes = db.garbage_routes
               /\ db2.any_route_changed = db.any_route_changed
BY DEF IsDatabase

(* The same for the map of garbage routes.                                 *)
LEMMA WithGarbageRoutes ==
    ASSUME NEW db, IsDatabase(db), NEW garbage, IsRouteMap(garbage)
    PROVE  LET db2 == [db EXCEPT !.garbage_routes = garbage]
           IN  /\ IsDatabase(db2)
               /\ db2.ok_routes = db.ok_routes
               /\ db2.garbage_routes = garbage
               /\ db2.any_route_changed = db.any_route_changed
BY DEF IsDatabase

(* RipDatabase::new is an empty database with nothing to advertise.        *)
LEMMA NewProperties ==
    /\ IsDatabase(new)
    /\ DOMAIN new.ok_routes = {} /\ DOMAIN new.garbage_routes = {}
    /\ ~new.any_route_changed
<1>1. IsRouteMap(EmptyMap) /\ DOMAIN EmptyMap = {}
  BY DEF IsRouteMap, EmptyMap
<1>2. QED
  BY <1>1, DatabaseIntro DEF new

-----------------------------------------------------------------------------
(* Adding and removing routes.                                             *)

(* The entry that add_route builds is typed and marked as changed.         *)
LEMMA DbEntryType ==
    ASSUME NEW entry \in RipEntry, NEW dev \in Device,
           NEW is_local \in BOOLEAN, NEW in_routing_table \in BOOLEAN
    PROVE  /\ db_entry(entry, dev, is_local, in_routing_table) \in RipDbEntry
           /\ db_entry(entry, dev, is_local, in_routing_table).changed
BY TimeAssumption DEF RipEntry, db_entry, RipDbEntry, GarbageAge

(* add_route inserts one active route and raises the flag of the database. *)
LEMMA AddRouteProperties ==
    ASSUME NEW db, IsDatabase(db), NEW k \in RouteKey,
           NEW route \in RipDbEntry, route.changed, ~add_route_fails(db, k)
    PROVE  LET db2 == add_route(db, k, route)
           IN  /\ IsDatabase(db2)
               /\ db2.ok_routes[k] = route
               /\ DOMAIN db2.ok_routes = DOMAIN db.ok_routes \cup {k}
               /\ \A x \in DOMAIN db.ok_routes :
                      db2.ok_routes[x] = db.ok_routes[x]
               /\ db2.garbage_routes = db.garbage_routes
               /\ db2.any_route_changed
<1> DEFINE ok == insert(db.ok_routes, k, route)
<1>1. /\ IsRouteMap(ok)
      /\ ok[k] = route
      /\ DOMAIN ok = DOMAIN db.ok_routes \cup {k}
      /\ \A x \in DOMAIN db.ok_routes \ {k} : ok[x] = db.ok_routes[x]
  <2>1. IsRouteMap(db.ok_routes)
    BY DatabaseElim
  <2>2. QED
    BY <2>1, InsertProperties
<1>2. k \notin DOMAIN db.ok_routes
  BY DEF add_route_fails, has_route
<1>3. add_route(db, k, route) =
          [db EXCEPT !.ok_routes = ok,
                     !.any_route_changed = db.any_route_changed \/ route.changed]
  BY DEF add_route
<1>4. (db.any_route_changed \/ route.changed) = TRUE
  BY DatabaseElim
<1>5. add_route(db, k, route) =
          [ok_routes |-> ok, garbage_routes |-> db.garbage_routes,
           any_route_changed |-> TRUE]
  BY <1>3, <1>4 DEF IsDatabase
<1>6. IsDatabase(add_route(db, k, route))
  <2>1. IsRouteMap(ok) /\ IsRouteMap(db.garbage_routes)
    BY <1>1, DatabaseElim
  <2>2. QED
    BY <2>1, <1>5, DatabaseIntro
<1> HIDE DEF ok
<1>7. QED
  BY <1>1, <1>2, <1>5, <1>6

(* remove_route of an active route drops that route alone.                 *)
LEMMA RemoveRouteProperties ==
    ASSUME NEW db, IsDatabase(db), NEW k \in RouteKey, has_route(db, k)
    PROVE  LET db2 == remove_route(db, k)
           IN  /\ IsDatabase(db2)
               /\ DOMAIN db2.ok_routes = DOMAIN db.ok_routes \ {k}
               /\ \A x \in DOMAIN db.ok_routes \ {k} :
                      db2.ok_routes[x] = db.ok_routes[x]
               /\ db2.garbage_routes = db.garbage_routes
               /\ db2.any_route_changed = db.any_route_changed
<1>1. IsRouteMap(db.ok_routes)
  BY DatabaseElim
<1>2. /\ IsRouteMap(remove(db.ok_routes, k))
      /\ DOMAIN remove(db.ok_routes, k) = DOMAIN db.ok_routes \ {k}
      /\ \A x \in DOMAIN db.ok_routes \ {k} :
             remove(db.ok_routes, k)[x] = db.ok_routes[x]
  BY <1>1, RemoveProperties
<1>3. QED
  BY <1>2, WithOkRoutes DEF remove_route

(* remove_garbage_route drops one garbage route alone.                     *)
LEMMA RemoveGarbageRouteProperties ==
    ASSUME NEW db, IsDatabase(db), NEW k \in RouteKey
    PROVE  LET db2 == remove_garbage_route(db, k)
           IN  /\ IsDatabase(db2)
               /\ db2.ok_routes = db.ok_routes
               /\ DOMAIN db2.garbage_routes = DOMAIN db.garbage_routes \ {k}
               /\ \A x \in DOMAIN db.garbage_routes \ {k} :
                      db2.garbage_routes[x] = db.garbage_routes[x]
               /\ db2.any_route_changed = db.any_route_changed
<1>1. IsRouteMap(db.garbage_routes)
  BY DatabaseElim
<1>2. /\ IsRouteMap(remove(db.garbage_routes, k))
      /\ DOMAIN remove(db.garbage_routes, k) = DOMAIN db.garbage_routes \ {k}
      /\ \A x \in DOMAIN db.garbage_routes \ {k} :
             remove(db.garbage_routes, k)[x] = db.garbage_routes[x]
  BY <1>1, RemoveProperties
<1>3. QED
  BY <1>2, WithGarbageRoutes DEF remove_garbage_route

(* An add or a remove that fails leaves a database, too.                   *)
LEMMA AddRouteType ==
    ASSUME NEW db, IsDatabase(db), NEW k \in RouteKey,
           NEW route \in RipDbEntry, route.changed
    PROVE  /\ IsDatabase(add_route(db, k, route))
           /\ has_route(add_route(db, k, route), k)
<1>1. CASE add_route_fails(db, k)
  BY <1>1 DEF add_route, add_route_fails
<1>2. CASE ~add_route_fails(db, k)
  <2>1. /\ IsDatabase(add_route(db, k, route))
        /\ DOMAIN add_route(db, k, route).ok_routes = DOMAIN db.ok_routes \cup {k}
    BY <1>2, AddRouteProperties
  <2>2. QED
    BY <2>1 DEF has_route
<1>3. QED
  BY <1>1, <1>2

(* add_local_route returns a database, whether it succeeds or not.         *)
LEMMA AddLocalRouteType ==
    ASSUME NEW db, IsDatabase(db), NEW k \in RouteKey,
           NEW entry \in RipEntry, NEW dev \in Device
    PROVE  IsDatabase(add_local_route(db, k, entry, dev))
BY DbEntryType, AddRouteType DEF add_local_route

(* After add_remote_route the destination has an active route.             *)
LEMMA AddRemoteRouteType ==
    ASSUME NEW db, IsDatabase(db), NEW k \in RouteKey,
           NEW entry \in RipEntry, NEW dev \in Device
    PROVE  /\ IsDatabase(add_remote_route(db, k, entry, dev))
           /\ has_route(add_remote_route(db, k, entry, dev), k)
BY DbEntryType, AddRouteType DEF add_remote_route

(* remove_route returns a database, whether it succeeds or not.            *)
LEMMA RemoveRouteType ==
    ASSUME NEW db, IsDatabase(db), NEW k \in RouteKey
    PROVE  IsDatabase(remove_route(db, k))
<1>1. CASE has_route(db, k)
  BY <1>1, RemoveRouteProperties
<1>2. CASE ~has_route(db, k)
  BY <1>2, RemoveGarbageRouteProperties DEF remove_route, remove_garbage_route
<1>3. QED
  BY <1>1, <1>2

-----------------------------------------------------------------------------
(* Timeouts and garbage collection.                                        *)

(* refresh_route_timeout resets the count of one active route alone.       *)
LEMMA RefreshProperties ==
    ASSUME NEW db, IsDatabase(db), NEW k \in RouteKey
    PROVE  LET db2 == refresh_route_timeout(db, k)
           IN  /\ IsDatabase(db2)
               /\ DOMAIN db2.ok_routes = DOMAIN db.ok_routes
               /\ \A x \in DOMAIN db.ok_routes :
                      db2.ok_routes[x] =
                          IF x = k
                          THEN [db.ok_routes[x] EXCEPT !.timeout_cnt = 0]
                          ELSE db.ok_routes[x]
               /\ db2.garbage_routes = db.garbage_routes
               /\ db2.any_route_changed = db.any_route_changed
<1> DEFINE ok == [x \in DOMAIN db.ok_routes |->
                     IF x = k
                     THEN [db.ok_routes[x] EXCEPT !.timeout_cnt = 0]
                     ELSE db.ok_routes[x]]
<1>1. /\ IsRouteMap(db.ok_routes)
      /\ \A x \in DOMAIN db.ok_routes : db.ok_routes[x] \in RipDbEntry
  BY DatabaseElim
<1>2. ok \in [DOMAIN db.ok_routes -> RipDbEntry]
  BY <1>1 DEF RipDbEntry
<1>3. IsRouteMap(ok)
  BY <1>1, <1>2, RestrictedMap
<1>4. refresh_route_timeout(db, k) = [db EXCEPT !.ok_routes = ok]
  BY DEF refresh_route_timeout
<1>5. /\ DOMAIN ok = DOMAIN db.ok_routes
      /\ \A x \in DOMAIN db.ok_routes :
             ok[x] = IF x = k
                     THEN [db.ok_routes[x] EXCEPT !.timeout_cnt = 0]
                     ELSE db.ok_routes[x]
  OBVIOUS
<1> HIDE DEF ok
<1>6. QED
  BY <1>3, <1>4, <1>5, WithOkRoutes

(* collect_timed_out_routes counts the silence of remote routes alone.     *)
LEMMA CountSilenceProperties ==
    ASSUME NEW db, IsDatabase(db)
    PROVE  LET db2 == count_silence(db)
           IN  /\ IsDatabase(db2)
               /\ DOMAIN db2.ok_routes = DOMAIN db.ok_routes
               /\ \A x \in DOMAIN db.ok_routes :
                      db2.ok_routes[x] =
                          IF db.ok_routes[x].is_local
                          THEN db.ok_routes[x]
                          ELSE [db.ok_routes[x] EXCEPT
                                   !.timeout_cnt = db.ok_routes[x].timeout_cnt
                                                   + TimeoutInterval]
               /\ db2.garbage_routes = db.garbage_routes
               /\ db2.any_route_changed = db.any_route_changed
<1> DEFINE ok == [x \in DOMAIN db.ok_routes |->
                     IF db.ok_routes[x].is_local
                     THEN db.ok_routes[x]
                     ELSE [db.ok_routes[x] EXCEPT
                              !.timeout_cnt = db.ok_routes[x].timeout_cnt
                                              + TimeoutInterval]]
<1>1. /\ IsRouteMap(db.ok_routes)
      /\ \A x \in DOMAIN db.ok_routes : db.ok_routes[x] \in RipDbEntry
  BY DatabaseElim
<1>2. ok \in [DOMAIN db.ok_routes -> RipDbEntry]
  BY <1>1, TimeAssumption DEF RipDbEntry
<1>3. IsRouteMap(ok)
  BY <1>1, <1>2, RestrictedMap
<1>4. count_silence(db) = [db EXCEPT !.ok_routes = ok]
  BY DEF count_silence
<1>5. /\ DOMAIN ok = DOMAIN db.ok_routes
      /\ \A x \in DOMAIN db.ok_routes :
             ok[x] = IF db.ok_routes[x].is_local
                     THEN db.ok_routes[x]
                     ELSE [db.ok_routes[x] EXCEPT
                              !.timeout_cnt = db.ok_routes[x].timeout_cnt
                                              + TimeoutInterval]
  OBVIOUS
<1> HIDE DEF ok
<1>6. QED
  BY <1>3, <1>4, <1>5, WithOkRoutes

(* collect_timed_out_routes returns the active routes that timed out, as   *)
(* they are after the count, and all of them.                              *)
LEMMA CollectProperties ==
    ASSUME NEW db, IsDatabase(db)
    PROVE  /\ collect_timed_out_routes(db)
                  \subseteq [key : RouteKey, route : RipDbEntry]
           /\ \A p \in collect_timed_out_routes(db) :
                  /\ p.key \in DOMAIN count_silence(db).ok_routes
                  /\ p.route = count_silence(db).ok_routes[p.key]
                  /\ is_timed_out(p.route)
           /\ \A k \in DOMAIN count_silence(db).ok_routes :
                  is_timed_out(count_silence(db).ok_routes[k])
                      => [key |-> k, route |-> count_silence(db).ok_routes[k]]
                             \in collect_timed_out_routes(db)
<1> DEFINE ok == count_silence(db).ok_routes
<1>1. IsDatabase(count_silence(db))
  BY CountSilenceProperties
<1>2. /\ DOMAIN ok \subseteq RouteKey
      /\ \A x \in DOMAIN ok : ok[x] \in RipDbEntry
  BY <1>1, DatabaseElim
<1>3. collect_timed_out_routes(db) =
          {[key |-> k, route |-> ok[k]] :
              k \in {x \in DOMAIN ok : is_timed_out(ok[x])}}
  BY DEF collect_timed_out_routes
<1> HIDE DEF ok
<1>4. QED
  BY <1>2, <1>3 DEF ok

(* A move_route_to_garbage that succeeds poisons one active route, touches *)
(* no other, and raises the flag of the database.                          *)
LEMMA MoveToGarbageProperties ==
    ASSUME NEW db, IsDatabase(db), NEW k \in RouteKey,
           ~move_route_to_garbage_fails(db, k)
    PROVE  LET db2 == move_route_to_garbage(db, k)
           IN  /\ IsDatabase(db2)
               /\ DOMAIN db2.ok_routes = DOMAIN db.ok_routes \ {k}
               /\ \A x \in DOMAIN db.ok_routes \ {k} :
                      db2.ok_routes[x] = db.ok_routes[x]
               /\ db2.garbage_routes[k] = poisoned(db.ok_routes[k])
               /\ DOMAIN db2.garbage_routes = DOMAIN db.garbage_routes \cup {k}
               /\ \A x \in DOMAIN db.garbage_routes :
                      db2.garbage_routes[x] = db.garbage_routes[x]
               /\ db2.any_route_changed
<1> DEFINE ok == remove(db.ok_routes, k)
           route == poisoned(db.ok_routes[k])
           garbage == insert(db.garbage_routes, k, route)
<1>1. /\ IsRouteMap(db.ok_routes) /\ IsRouteMap(db.garbage_routes)
      /\ \A x \in DOMAIN db.ok_routes : db.ok_routes[x] \in RipDbEntry
  BY DatabaseElim
<1>2. k \in DOMAIN db.ok_routes /\ k \notin DOMAIN db.garbage_routes
  BY DEF move_route_to_garbage_fails, has_route, has_garbage_route
<1>3. route \in RipDbEntry
  <2>1. db.ok_routes[k] \in RipDbEntry
    BY <1>1, <1>2
  <2>2. 0 \in GarbageAge
    BY TimeAssumption DEF GarbageAge
  <2>3. \A r \in RipDbEntry : poisoned(r) \in RipDbEntry
    BY <2>2, InfinityAssumption DEF poisoned, RipDbEntry
  <2>4. QED
    BY <2>1, <2>3
<1>4. /\ IsRouteMap(ok) /\ DOMAIN ok = DOMAIN db.ok_routes \ {k}
      /\ \A x \in DOMAIN db.ok_routes \ {k} : ok[x] = db.ok_routes[x]
  BY <1>1, RemoveProperties
<1> HIDE DEF route
<1>5. /\ IsRouteMap(garbage)
      /\ garbage[k] = route
      /\ DOMAIN garbage = DOMAIN db.garbage_routes \cup {k}
      /\ \A x \in DOMAIN db.garbage_routes \ {k} :
             garbage[x] = db.garbage_routes[x]
  BY <1>1, <1>3, InsertProperties
<1>6. move_route_to_garbage(db, k) =
          [ok_routes |-> ok, garbage_routes |-> garbage,
           any_route_changed |-> TRUE]
  BY <1>2 DEF move_route_to_garbage, has_route, has_garbage_route, route
<1> HIDE DEF ok, garbage
<1>7. IsDatabase(move_route_to_garbage(db, k))
  <2>1. IsRouteMap(ok) /\ IsRouteMap(garbage)
    BY <1>4, <1>5
  <2>2. QED
    BY <2>1, <1>6, DatabaseIntro
<1>8. QED
  BY <1>2, <1>4, <1>5, <1>6, <1>7 DEF route

(* move_route_to_garbage returns a database, whether it succeeds or not.   *)
LEMMA MoveToGarbageType ==
    ASSUME NEW db, IsDatabase(db), NEW k \in RouteKey
    PROVE  IsDatabase(move_route_to_garbage(db, k))
<1>1. CASE ~has_route(db, k)
  BY <1>1 DEF move_route_to_garbage
<1>2. CASE has_route(db, k) /\ ~has_garbage_route(db, k)
  BY <1>2, MoveToGarbageProperties DEF move_route_to_garbage_fails
<1>3. CASE has_route(db, k) /\ has_garbage_route(db, k)
  <2>1. IsRouteMap(db.ok_routes) /\ IsRouteMap(db.garbage_routes)
    BY DatabaseElim
  <2>2. IsRouteMap(remove(db.ok_routes, k))
    BY <2>1, RemoveProperties
  <2>3. move_route_to_garbage(db, k) =
            [ok_routes |-> remove(db.ok_routes, k),
             garbage_routes |-> db.garbage_routes, any_route_changed |-> TRUE]
    BY <1>3 DEF move_route_to_garbage
  <2>4. QED
    BY <2>1, <2>2, <2>3, DatabaseIntro
<1>4. QED
  BY <1>1, <1>2, <1>3

(* remove_expired_garbage_routes changes no route it keeps.                *)
LEMMA RemoveExpiredProperties ==
    ASSUME NEW db, IsDatabase(db)
    PROVE  LET db2 == remove_expired_garbage_routes(db)
           IN  /\ IsDatabase(db2)
               /\ db2.ok_routes = db.ok_routes
               /\ DOMAIN db2.garbage_routes \subseteq DOMAIN db.garbage_routes
               /\ \A x \in DOMAIN db2.garbage_routes :
                      db2.garbage_routes[x] = db.garbage_routes[x]
               /\ db2.any_route_changed = db.any_route_changed
<1> DEFINE D == {y \in DOMAIN db.garbage_routes :
                    ~is_expired(db.garbage_routes[y])}
           garbage == [x \in D |-> db.garbage_routes[x]]
<1>1. /\ IsRouteMap(db.garbage_routes)
      /\ \A x \in DOMAIN db.garbage_routes :
             db.garbage_routes[x] \in RipDbEntry
  BY DatabaseElim
<1>2. D \in SUBSET DOMAIN db.garbage_routes /\ garbage \in [D -> RipDbEntry]
  BY <1>1
<1> HIDE DEF D
<1>3. IsRouteMap(garbage)
  BY <1>1, <1>2, RestrictedMap
<1>4. remove_expired_garbage_routes(db) = [db EXCEPT !.garbage_routes = garbage]
  BY DEF remove_expired_garbage_routes, D
<1>5. DOMAIN garbage = D /\ \A x \in D : garbage[x] = db.garbage_routes[x]
  OBVIOUS
<1> HIDE DEF garbage
<1>6. QED
  BY <1>2, <1>3, <1>4, <1>5, WithGarbageRoutes

(* Time that passes changes only the age of garbage.                       *)
LEMMA GrowOlderProperties ==
    ASSUME NEW db, IsDatabase(db)
    PROVE  LET db2 == grow_older(db)
           IN  /\ IsDatabase(db2)
               /\ db2.ok_routes = db.ok_routes
               /\ DOMAIN db2.garbage_routes = DOMAIN db.garbage_routes
               /\ \A x \in DOMAIN db.garbage_routes :
                      db2.garbage_routes[x] = older(db.garbage_routes[x])
               /\ db2.any_route_changed = db.any_route_changed
<1> DEFINE garbage == [x \in DOMAIN db.garbage_routes |->
                          older(db.garbage_routes[x])]
<1>1. /\ IsRouteMap(db.garbage_routes)
      /\ \A x \in DOMAIN db.garbage_routes :
             db.garbage_routes[x] \in RipDbEntry
  BY DatabaseElim
<1>2. \A route \in RipDbEntry : older(route) \in RipDbEntry
  BY TimeAssumption, NoneAssumption DEF older, RipDbEntry, GarbageAge
<1>3. garbage \in [DOMAIN db.garbage_routes -> RipDbEntry]
  BY <1>1, <1>2
<1>4. IsRouteMap(garbage)
  BY <1>1, <1>3, RestrictedMap
<1>5. grow_older(db) = [db EXCEPT !.garbage_routes = garbage]
  BY DEF grow_older
<1>6. /\ DOMAIN garbage = DOMAIN db.garbage_routes
      /\ \A x \in DOMAIN db.garbage_routes :
             garbage[x] = older(db.garbage_routes[x])
  OBVIOUS
<1> HIDE DEF garbage
<1>7. QED
  BY <1>4, <1>5, <1>6, WithGarbageRoutes

-----------------------------------------------------------------------------
(* Advertising.                                                            *)

(* poison_map keeps the destinations and changes metric and mark.          *)
LEMMA PoisonMapProperties ==
    ASSUME NEW map, IsRouteMap(map)
    PROVE  /\ IsRouteMap(poison_map(map))
           /\ DOMAIN poison_map(map) = DOMAIN map
           /\ \A x \in DOMAIN map :
                  poison_map(map)[x] =
                      [map[x] EXCEPT !.metric = Infinity, !.changed = TRUE]
<1>1. \A x \in DOMAIN map : map[x] \in RipDbEntry
  BY RouteMapElim
<1>2. poison_map(map) \in [DOMAIN map -> RipDbEntry]
  BY <1>1, InfinityAssumption DEF poison_map, RipDbEntry
<1>3. QED
  BY <1>2, RestrictedMap DEF poison_map

(* poison_all_routes poisons every route, and raises the flag unless there *)
(* is none.                                                                *)
LEMMA PoisonAllProperties ==
    ASSUME NEW db, IsDatabase(db)
    PROVE  LET db2 == poison_all_routes(db)
           IN  /\ IsDatabase(db2)
               /\ DOMAIN db2.ok_routes = DOMAIN db.ok_routes
               /\ DOMAIN db2.garbage_routes = DOMAIN db.garbage_routes
               /\ \A x \in DOMAIN db.ok_routes :
                      db2.ok_routes[x] =
                          [db.ok_routes[x] EXCEPT !.metric = Infinity,
                                                  !.changed = TRUE]
               /\ \A x \in DOMAIN db.garbage_routes :
                      db2.garbage_routes[x] =
                          [db.garbage_routes[x] EXCEPT !.metric = Infinity,
                                                       !.changed = TRUE]
               /\ ~db2.any_route_changed =>
                      /\ DOMAIN db.ok_routes = {}
                      /\ DOMAIN db.garbage_routes = {}
<1>1. IsRouteMap(db.ok_routes) /\ IsRouteMap(db.garbage_routes)
  BY DatabaseElim
<1>2. CASE DOMAIN db.ok_routes = {} /\ DOMAIN db.garbage_routes = {}
  BY <1>2 DEF poison_all_routes
<1>3. CASE ~(DOMAIN db.ok_routes = {} /\ DOMAIN db.garbage_routes = {})
  <2> DEFINE ok == poison_map(db.ok_routes)
             garbage == poison_map(db.garbage_routes)
  <2>1. /\ IsRouteMap(ok) /\ IsRouteMap(garbage)
        /\ DOMAIN ok = DOMAIN db.ok_routes
        /\ DOMAIN garbage = DOMAIN db.garbage_routes
        /\ \A x \in DOMAIN db.ok_routes :
               ok[x] = [db.ok_routes[x] EXCEPT !.metric = Infinity,
                                               !.changed = TRUE]
        /\ \A x \in DOMAIN db.garbage_routes :
               garbage[x] = [db.garbage_routes[x] EXCEPT !.metric = Infinity,
                                                         !.changed = TRUE]
    BY <1>1, PoisonMapProperties
  <2>2. poison_all_routes(db) =
            [ok_routes |-> ok, garbage_routes |-> garbage,
             any_route_changed |-> TRUE]
    BY <1>3 DEF poison_all_routes
  <2> HIDE DEF ok, garbage
  <2>3. IsDatabase(poison_all_routes(db))
    <3>1. IsRouteMap(ok) /\ IsRouteMap(garbage)
      BY <2>1
    <3>2. QED
      BY <3>1, <2>2, DatabaseIntro
  <2>4. /\ poison_all_routes(db).ok_routes = ok
        /\ poison_all_routes(db).garbage_routes = garbage
        /\ poison_all_routes(db).any_route_changed
    BY <2>2
  <2>5. QED
    BY <2>1, <2>3, <2>4, Zenon
<1>4. QED
  BY <1>2, <1>3

(* get_routes_in_routing_table returns the routes that are marked as       *)
(* installed, of either map.                                               *)
LEMMA InstalledProperties ==
    ASSUME NEW db, IsDatabase(db)
    PROVE  /\ get_routes_in_routing_table(db)
                  \subseteq [key : RouteKey, route : RipDbEntry]
           /\ \A p : p \in get_routes_in_routing_table(db) <=>
                  \/ \E k \in DOMAIN db.ok_routes :
                         /\ db.ok_routes[k].in_routing_table
                         /\ p = [key |-> k, route |-> db.ok_routes[k]]
                  \/ \E k \in DOMAIN db.garbage_routes :
                         /\ db.garbage_routes[k].in_routing_table
                         /\ p = [key |-> k, route |-> db.garbage_routes[k]]
<1>1. /\ DOMAIN db.ok_routes \subseteq RouteKey
      /\ DOMAIN db.garbage_routes \subseteq RouteKey
      /\ \A k \in DOMAIN db.ok_routes : db.ok_routes[k] \in RipDbEntry
      /\ \A k \in DOMAIN db.garbage_routes : db.garbage_routes[k] \in RipDbEntry
  BY DatabaseElim
<1>2. QED
  BY <1>1 DEF get_routes_in_routing_table

(* unchanged_map keeps the destinations and clears the marks.              *)
LEMMA UnchangedMapProperties ==
    ASSUME NEW map, IsRouteMap(map)
    PROVE  /\ IsRouteMap(unchanged_map(map))
           /\ DOMAIN unchanged_map(map) = DOMAIN map
           /\ \A x \in DOMAIN map :
                  unchanged_map(map)[x] = [map[x] EXCEPT !.changed = FALSE]
<1>1. \A x \in DOMAIN map : map[x] \in RipDbEntry
  BY RouteMapElim
<1>2. unchanged_map(map) \in [DOMAIN map -> RipDbEntry]
  BY <1>1 DEF unchanged_map, RipDbEntry
<1>3. QED
  BY <1>2, RestrictedMap DEF unchanged_map

(* mark_all_routes_as_unchanged clears every mark and the flag.            *)
LEMMA MarkUnchangedProperties ==
    ASSUME NEW db, IsDatabase(db), db.any_route_changed
    PROVE  LET db2 == mark_all_routes_as_unchanged(db)
           IN  /\ IsDatabase(db2)
               /\ DOMAIN db2.ok_routes = DOMAIN db.ok_routes
               /\ DOMAIN db2.garbage_routes = DOMAIN db.garbage_routes
               /\ \A x \in DOMAIN db.ok_routes :
                      db2.ok_routes[x] =
                          [db.ok_routes[x] EXCEPT !.changed = FALSE]
               /\ \A x \in DOMAIN db.garbage_routes :
                      db2.garbage_routes[x] =
                          [db.garbage_routes[x] EXCEPT !.changed = FALSE]
               /\ ~db2.any_route_changed
<1> DEFINE ok == unchanged_map(db.ok_routes)
           garbage == unchanged_map(db.garbage_routes)
<1>1. IsRouteMap(db.ok_routes) /\ IsRouteMap(db.garbage_routes)
  BY DatabaseElim
<1>2. /\ IsRouteMap(ok) /\ IsRouteMap(garbage)
      /\ DOMAIN ok = DOMAIN db.ok_routes
      /\ DOMAIN garbage = DOMAIN db.garbage_routes
      /\ \A x \in DOMAIN db.ok_routes :
             ok[x] = [db.ok_routes[x] EXCEPT !.changed = FALSE]
      /\ \A x \in DOMAIN db.garbage_routes :
             garbage[x] = [db.garbage_routes[x] EXCEPT !.changed = FALSE]
  BY <1>1, UnchangedMapProperties
<1>3. mark_all_routes_as_unchanged(db) =
          [ok_routes |-> ok, garbage_routes |-> garbage,
           any_route_changed |-> FALSE]
  BY DEF mark_all_routes_as_unchanged
<1> HIDE DEF ok, garbage
<1>4. IsDatabase(mark_all_routes_as_unchanged(db))
  <2>1. IsRouteMap(ok) /\ IsRouteMap(garbage)
    BY <1>2
  <2>2. QED
    BY <2>1, <1>3, DatabaseIntro
<1>5. QED
  BY <1>2, <1>3, <1>4

(* mark_all_routes_as_unchanged returns a database.                        *)
LEMMA MarkUnchangedType ==
    ASSUME NEW db, IsDatabase(db)
    PROVE  IsDatabase(mark_all_routes_as_unchanged(db))
<1>1. CASE db.any_route_changed
  BY <1>1, MarkUnchangedProperties
<1>2. CASE ~db.any_route_changed
  BY <1>2 DEF mark_all_routes_as_unchanged
<1>3. QED
  BY <1>1, <1>2

(* What a listener hears is a metric.                                      *)
LEMMA LastMetricType ==
    ASSUME NEW db, IsDatabase(db), NEW k, NEW dev,
           NEW changed_only \in BOOLEAN, NEW heard \in Nat
    PROVE  last_metric(db, k, dev, changed_only, heard) \in Nat
<1>1. /\ \A x \in DOMAIN db.ok_routes : db.ok_routes[x].metric \in Nat
      /\ \A x \in DOMAIN db.garbage_routes : db.garbage_routes[x].metric \in Nat
  BY DatabaseElim DEF RipDbEntry
<1>2. QED
  BY <1>1 DEF last_metric

-----------------------------------------------------------------------------
(* Methods that leave the way to every destination alone.                  *)

SameForwarding(route, route2) ==
    /\ route2.next_hop = route.next_hop
    /\ route2.metric = route.metric
    /\ route2.dev = route.dev
    /\ route2.is_local = route.is_local
    /\ route2.in_routing_table = route.in_routing_table

(* Counters, ages and marks change; garbage may go.                        *)
Quiet(db, db2) ==
    /\ DOMAIN db2.ok_routes = DOMAIN db.ok_routes
    /\ DOMAIN db2.garbage_routes \subseteq DOMAIN db.garbage_routes
    /\ \A k \in DOMAIN db.ok_routes :
           SameForwarding(db.ok_routes[k], db2.ok_routes[k])

(* An unchanged database is quiet.                                         *)
LEMMA QuietSame == ASSUME NEW db PROVE Quiet(db, db)
BY DEF Quiet, SameForwarding

(* Silence is counted in timeout_cnt alone.                                *)
LEMMA QuietCountSilence ==
    ASSUME NEW db, IsDatabase(db) PROVE Quiet(db, count_silence(db))
<1> DEFINE db2 == count_silence(db)
<1>1. /\ DOMAIN db2.ok_routes = DOMAIN db.ok_routes
      /\ \A x \in DOMAIN db.ok_routes :
             db2.ok_routes[x] =
                 IF db.ok_routes[x].is_local
                 THEN db.ok_routes[x]
                 ELSE [db.ok_routes[x] EXCEPT
                          !.timeout_cnt = db.ok_routes[x].timeout_cnt
                                          + TimeoutInterval]
      /\ db2.garbage_routes = db.garbage_routes
  BY CountSilenceProperties
<1>2. \A x \in DOMAIN db.ok_routes : db.ok_routes[x] \in RipDbEntry
  BY DatabaseElim
<1> HIDE DEF db2
<1>3. \A x \in DOMAIN db.ok_routes :
          SameForwarding(db.ok_routes[x], db2.ok_routes[x])
  BY <1>1, <1>2 DEF SameForwarding, RipDbEntry
<1>4. Quiet(db, db2)
  BY <1>1, <1>3 DEF Quiet
<1>5. QED
  BY <1>4 DEF db2

(* A refresh resets timeout_cnt alone.                                     *)
LEMMA QuietRefresh ==
    ASSUME NEW db, IsDatabase(db), NEW k \in RouteKey
    PROVE  Quiet(db, refresh_route_timeout(db, k))
<1> DEFINE db2 == refresh_route_timeout(db, k)
<1>1. /\ DOMAIN db2.ok_routes = DOMAIN db.ok_routes
      /\ \A x \in DOMAIN db.ok_routes :
             db2.ok_routes[x] =
                 IF x = k THEN [db.ok_routes[x] EXCEPT !.timeout_cnt = 0]
                          ELSE db.ok_routes[x]
      /\ db2.garbage_routes = db.garbage_routes
  BY RefreshProperties
<1>2. \A x \in DOMAIN db.ok_routes : db.ok_routes[x] \in RipDbEntry
  BY DatabaseElim
<1> HIDE DEF db2
<1>3. \A x \in DOMAIN db.ok_routes :
          SameForwarding(db.ok_routes[x], db2.ok_routes[x])
  BY <1>1, <1>2 DEF SameForwarding, RipDbEntry
<1>4. Quiet(db, db2)
  BY <1>1, <1>3 DEF Quiet
<1>5. QED
  BY <1>4 DEF db2

(* Garbage collection and the passing of time leave active routes alone.   *)
LEMMA QuietGarbage ==
    ASSUME NEW db, IsDatabase(db)
    PROVE  /\ Quiet(db, remove_expired_garbage_routes(db))
           /\ Quiet(db, grow_older(db))
BY RemoveExpiredProperties, GrowOlderProperties DEF Quiet, SameForwarding

(* Marking routes as unchanged clears their marks alone.                   *)
LEMMA QuietMark ==
    ASSUME NEW db, IsDatabase(db)
    PROVE  Quiet(db, mark_all_routes_as_unchanged(db))
<1>1. CASE ~db.any_route_changed
  BY <1>1, QuietSame DEF mark_all_routes_as_unchanged
<1>2. CASE db.any_route_changed
  <2> DEFINE db2 == mark_all_routes_as_unchanged(db)
  <2>1. /\ DOMAIN db2.ok_routes = DOMAIN db.ok_routes
        /\ DOMAIN db2.garbage_routes = DOMAIN db.garbage_routes
        /\ \A x \in DOMAIN db.ok_routes :
               db2.ok_routes[x] = [db.ok_routes[x] EXCEPT !.changed = FALSE]
    BY <1>2, MarkUnchangedProperties
  <2>2. \A x \in DOMAIN db.ok_routes : db.ok_routes[x] \in RipDbEntry
    BY DatabaseElim
  <2> HIDE DEF db2
  <2>3. \A x \in DOMAIN db.ok_routes :
            SameForwarding(db.ok_routes[x], db2.ok_routes[x])
    BY <2>1, <2>2 DEF SameForwarding, RipDbEntry
  <2>4. Quiet(db, db2)
    BY <2>1, <2>3 DEF Quiet
  <2>5. QED
    BY <2>4 DEF db2
<1>3. QED
  BY <1>1, <1>2

(* Two routes that differ at most in their silence and their age.          *)
Alike(route, route2) ==
    SameForwarding(route, route2) /\ route2.changed = route.changed

(* Silence and age apart, only garbage goes.                               *)
Aged(db, db2) ==
    /\ DOMAIN db2.ok_routes = DOMAIN db.ok_routes
    /\ \A k \in DOMAIN db.ok_routes : Alike(db.ok_routes[k], db2.ok_routes[k])
    /\ DOMAIN db2.garbage_routes \subseteq DOMAIN db.garbage_routes
    /\ \A k \in DOMAIN db2.garbage_routes :
           Alike(db.garbage_routes[k], db2.garbage_routes[k])
    /\ db2.any_route_changed = db.any_route_changed

(* No route is silent for longer.                                          *)
NotLonger(db, db2) ==
    /\ \A k \in DOMAIN db2.ok_routes :
           is_timed_out(db2.ok_routes[k]) => is_timed_out(db.ok_routes[k])
    /\ \A k \in DOMAIN db2.garbage_routes :
           is_timed_out(db2.garbage_routes[k])
               => is_timed_out(db.garbage_routes[k])

(* An unchanged database.                                                  *)
LEMMA AgedSame == ASSUME NEW db PROVE Aged(db, db) /\ NotLonger(db, db)
BY DEF Aged, NotLonger, Alike, SameForwarding

(* Counting silence.                                                       *)
LEMMA AgedCountSilence ==
    ASSUME NEW db, IsDatabase(db)
    PROVE  /\ Aged(db, count_silence(db))
           /\ count_silence(db).garbage_routes = db.garbage_routes
<1> DEFINE db2 == count_silence(db)
<1>1. /\ DOMAIN db2.ok_routes = DOMAIN db.ok_routes
      /\ \A x \in DOMAIN db.ok_routes :
             db2.ok_routes[x] =
                 IF db.ok_routes[x].is_local
                 THEN db.ok_routes[x]
                 ELSE [db.ok_routes[x] EXCEPT
                          !.timeout_cnt = db.ok_routes[x].timeout_cnt
                                          + TimeoutInterval]
      /\ db2.garbage_routes = db.garbage_routes
      /\ db2.any_route_changed = db.any_route_changed
  BY CountSilenceProperties
<1>2. \A x \in DOMAIN db.ok_routes : db.ok_routes[x] \in RipDbEntry
  BY DatabaseElim
<1> HIDE DEF db2
<1>3. \A x \in DOMAIN db.ok_routes : Alike(db.ok_routes[x], db2.ok_routes[x])
  BY <1>1, <1>2 DEF Alike, SameForwarding, RipDbEntry
<1>4. Aged(db, db2)
  BY <1>1, <1>3 DEF Aged, Alike, SameForwarding
<1>5. QED
  BY <1>1, <1>4 DEF db2

(* A refresh.                                                              *)
LEMMA AgedRefresh ==
    ASSUME NEW db, IsDatabase(db), NEW k \in RouteKey
    PROVE  /\ Aged(db, refresh_route_timeout(db, k))
           /\ NotLonger(db, refresh_route_timeout(db, k))
           /\ refresh_route_timeout(db, k).garbage_routes = db.garbage_routes
<1> DEFINE db2 == refresh_route_timeout(db, k)
<1>1. /\ DOMAIN db2.ok_routes = DOMAIN db.ok_routes
      /\ \A x \in DOMAIN db.ok_routes :
             db2.ok_routes[x] =
                 IF x = k THEN [db.ok_routes[x] EXCEPT !.timeout_cnt = 0]
                          ELSE db.ok_routes[x]
      /\ db2.garbage_routes = db.garbage_routes
      /\ db2.any_route_changed = db.any_route_changed
  BY RefreshProperties
<1>2. \A x \in DOMAIN db.ok_routes : db.ok_routes[x] \in RipDbEntry
  BY DatabaseElim
<1> HIDE DEF db2
<1>3. \A x \in DOMAIN db.ok_routes :
          /\ Alike(db.ok_routes[x], db2.ok_routes[x])
          /\ db2.ok_routes[x].timeout_cnt \in {0, db.ok_routes[x].timeout_cnt}
          /\ db2.ok_routes[x].is_local = db.ok_routes[x].is_local
  BY <1>1, <1>2 DEF Alike, SameForwarding, RipDbEntry
<1>4. Aged(db, db2)
  BY <1>1, <1>3 DEF Aged, Alike, SameForwarding
<1>5. NotLonger(db, db2)
  BY <1>1, <1>3, TimeAssumption DEF NotLonger, is_timed_out
<1>6. QED
  BY <1>1, <1>4, <1>5 DEF db2

(* Garbage collection.                                                     *)
LEMMA AgedRemoveExpired ==
    ASSUME NEW db, IsDatabase(db)
    PROVE  /\ Aged(db, remove_expired_garbage_routes(db))
           /\ NotLonger(db, remove_expired_garbage_routes(db))
BY RemoveExpiredProperties DEF Aged, NotLonger, Alike, SameForwarding

(* The passing of time.                                                    *)
LEMMA AgedGrowOlder ==
    ASSUME NEW db, IsDatabase(db)
    PROVE  /\ Aged(db, grow_older(db))
           /\ NotLonger(db, grow_older(db))
           /\ DOMAIN grow_older(db).garbage_routes = DOMAIN db.garbage_routes
<1> DEFINE db2 == grow_older(db)
<1>1. /\ db2.ok_routes = db.ok_routes
      /\ DOMAIN db2.garbage_routes = DOMAIN db.garbage_routes
      /\ \A x \in DOMAIN db.garbage_routes :
             db2.garbage_routes[x] = older(db.garbage_routes[x])
      /\ db2.any_route_changed = db.any_route_changed
  BY GrowOlderProperties
<1>2. \A x \in DOMAIN db.garbage_routes : db.garbage_routes[x] \in RipDbEntry
  BY DatabaseElim
<1>3. \A route \in RipDbEntry :
          /\ Alike(route, older(route))
          /\ older(route).timeout_cnt = route.timeout_cnt
  BY DEF Alike, SameForwarding, older, RipDbEntry
<1> HIDE DEF db2
<1>4. \A x \in DOMAIN db.garbage_routes :
          /\ Alike(db.garbage_routes[x], db2.garbage_routes[x])
          /\ db2.garbage_routes[x].timeout_cnt = db.garbage_routes[x].timeout_cnt
  BY <1>1, <1>2, <1>3
<1>5. Aged(db, db2)
  BY <1>1, <1>4 DEF Aged, Alike, SameForwarding
<1>6. NotLonger(db, db2)
  BY <1>1, <1>4 DEF NotLonger, is_timed_out, Alike, SameForwarding
<1>7. QED
  BY <1>1, <1>5, <1>6 DEF db2

-----------------------------------------------------------------------------
(* The two ways in which a route comes and goes.                           *)

(* The active route of k is now route, which is new and still to be told.  *)
Put(db, db2, k, route) ==
    /\ DOMAIN db2.ok_routes = DOMAIN db.ok_routes \cup {k}
    /\ db2.ok_routes[k] = route
    /\ \A x \in DOMAIN db.ok_routes \ {k} : db2.ok_routes[x] = db.ok_routes[x]
    /\ DOMAIN db2.garbage_routes \subseteq DOMAIN db.garbage_routes
    /\ \A x \in DOMAIN db2.garbage_routes :
           db2.garbage_routes[x] = db.garbage_routes[x]
    /\ db2.any_route_changed

(* The active route of k is now garbage.                                   *)
Moved(db, db2, k) ==
    /\ k \in DOMAIN db.ok_routes /\ k \notin DOMAIN db.garbage_routes
    /\ DOMAIN db2.ok_routes = DOMAIN db.ok_routes \ {k}
    /\ \A x \in DOMAIN db2.ok_routes : db2.ok_routes[x] = db.ok_routes[x]
    /\ DOMAIN db2.garbage_routes = DOMAIN db.garbage_routes \cup {k}
    /\ db2.garbage_routes[k] = poisoned(db.ok_routes[k])
    /\ \A x \in DOMAIN db.garbage_routes :
           db2.garbage_routes[x] = db.garbage_routes[x]
    /\ db2.any_route_changed

(* A new route is marked as changed and has not been silent yet.           *)
IsNew(route) == route.changed /\ route.timeout_cnt = 0

NewRemote(entry, dev) == db_entry(entry, dev, FALSE, TRUE)

(* add_remote_route, where there is no route.                              *)
LEMMA PutRemote ==
    ASSUME NEW db, IsDatabase(db), NEW k \in RouteKey, ~has_route(db, k),
           NEW entry \in RipEntry, NEW dev \in Device
    PROVE  LET db2 == add_remote_route(db, k, entry, dev)
           IN  /\ Put(db, db2, k, NewRemote(entry, dev))
               /\ db2.garbage_routes = db.garbage_routes
<1>1. NewRemote(entry, dev) \in RipDbEntry /\ NewRemote(entry, dev).changed
  BY DbEntryType DEF NewRemote
<1>2. ~add_route_fails(db, k)
  BY DEF add_route_fails
<1> DEFINE route == NewRemote(entry, dev)
           db2 == add_route(db, k, route)
<1>3. add_remote_route(db, k, entry, dev) = db2
  BY DEF add_remote_route, NewRemote
<1> HIDE DEF route
<1>4. /\ db2.ok_routes[k] = route
      /\ DOMAIN db2.ok_routes = DOMAIN db.ok_routes \cup {k}
      /\ \A x \in DOMAIN db.ok_routes : db2.ok_routes[x] = db.ok_routes[x]
      /\ db2.garbage_routes = db.garbage_routes
      /\ db2.any_route_changed
  BY <1>1, <1>2, AddRouteProperties DEF route
<1> HIDE DEF db2
<1>5. Put(db, db2, k, route) /\ db2.garbage_routes = db.garbage_routes
  BY <1>4 DEF Put
<1>6. QED
  BY <1>3, <1>5 DEF route

(* remove_route and then add_remote_route, as a replacement does.          *)
LEMMA PutReplaced ==
    ASSUME NEW db, IsDatabase(db), NEW k \in RouteKey, has_route(db, k),
           NEW entry \in RipEntry, NEW dev \in Device
    PROVE  LET db2 == add_remote_route(remove_route(db, k), k, entry, dev)
           IN  /\ Put(db, db2, k, NewRemote(entry, dev))
               /\ db2.garbage_routes = db.garbage_routes
<1> DEFINE removed == remove_route(db, k)
           db2 == add_remote_route(removed, k, entry, dev)
<1>1. /\ IsDatabase(removed)
      /\ DOMAIN removed.ok_routes = DOMAIN db.ok_routes \ {k}
      /\ \A x \in DOMAIN db.ok_routes \ {k} :
             removed.ok_routes[x] = db.ok_routes[x]
      /\ removed.garbage_routes = db.garbage_routes
  BY RemoveRouteProperties
<1> HIDE DEF removed
<1>2. ~has_route(removed, k)
  BY <1>1 DEF has_route
<1>3. /\ Put(removed, db2, k, NewRemote(entry, dev))
      /\ db2.garbage_routes = removed.garbage_routes
  BY <1>1, <1>2, PutRemote
<1> HIDE DEF db2
<1>4. Put(db, db2, k, NewRemote(entry, dev))
  BY <1>1, <1>3 DEF Put, has_route
<1>5. QED
  BY <1>1, <1>3, <1>4 DEF removed, db2

(* move_route_to_garbage, when it succeeds.                                *)
LEMMA MovedToGarbage ==
    ASSUME NEW db, IsDatabase(db), NEW k \in RouteKey,
           ~move_route_to_garbage_fails(db, k)
    PROVE  Moved(db, move_route_to_garbage(db, k), k)
<1>1. k \in DOMAIN db.ok_routes /\ k \notin DOMAIN db.garbage_routes
  BY DEF move_route_to_garbage_fails, has_route, has_garbage_route
<1>2. QED
  BY <1>1, MoveToGarbageProperties DEF Moved

-----------------------------------------------------------------------------
(* Leaving.                                                                *)

(* poison_all_routes poisons and marks everything, and changes nothing     *)
(* else.                                                                   *)
Marked(route, route2) ==
    /\ route2.metric = Infinity /\ route2.changed
    /\ route2.next_hop = route.next_hop
    /\ route2.dev = route.dev

Withered(route) == [route EXCEPT !.metric = Infinity, !.changed = TRUE]

(* One route.                                                              *)
LEMMA WitheredMarked ==
    ASSUME NEW route \in RipDbEntry PROVE Marked(route, Withered(route))
BY DEF Marked, Withered, RipDbEntry

(* One of the two maps.                                                    *)
LEMMA PoisonMarks ==
    ASSUME NEW map, IsRouteMap(map)
    PROVE  /\ DOMAIN poison_map(map) = DOMAIN map
           /\ \A k \in DOMAIN map : Marked(map[k], poison_map(map)[k])
<1>1. poison_map(map) = [k \in DOMAIN map |-> Withered(map[k])]
  BY DEF poison_map, Withered
<1>2. \A k \in DOMAIN map : map[k] \in RipDbEntry
  BY RouteMapElim
<1>3. QED
  BY <1>1, <1>2, WitheredMarked

(* The database.                                                           *)
LEMMA PoisonAll ==
    ASSUME NEW db, IsDatabase(db)
    PROVE  LET db2 == poison_all_routes(db)
           IN  /\ DOMAIN db2.ok_routes = DOMAIN db.ok_routes
               /\ DOMAIN db2.garbage_routes = DOMAIN db.garbage_routes
               /\ \A k \in DOMAIN db.ok_routes :
                      Marked(db.ok_routes[k], db2.ok_routes[k])
               /\ \A k \in DOMAIN db.garbage_routes :
                      Marked(db.garbage_routes[k], db2.garbage_routes[k])
<1>1. CASE DOMAIN db.ok_routes = {} /\ DOMAIN db.garbage_routes = {}
  BY <1>1 DEF poison_all_routes
<1>2. CASE ~(DOMAIN db.ok_routes = {} /\ DOMAIN db.garbage_routes = {})
  <2>1. /\ poison_all_routes(db).ok_routes = poison_map(db.ok_routes)
        /\ poison_all_routes(db).garbage_routes = poison_map(db.garbage_routes)
    BY <1>2 DEF poison_all_routes
  <2>2. IsRouteMap(db.ok_routes) /\ IsRouteMap(db.garbage_routes)
    BY DatabaseElim
  <2>3. QED
    BY <2>1, <2>2, PoisonMarks
<1>3. QED
  BY <1>1, <1>2

=============================================================================
