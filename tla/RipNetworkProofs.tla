-------------------------- MODULE RipNetworkProofs --------------------------
(***************************************************************************)
(* Safety of the network for all values of the constants: any number of    *)
(* routers, any topology, any number of faults and of messages in flight.  *)
(* No router thinks a destination nearer than it can be, and in a tree     *)
(* every learned route leads towards its destination.                      *)
(***************************************************************************)
EXTENDS RipNetwork, RipDatabaseProofs

-----------------------------------------------------------------------------
(* The inductive invariant.  What a router believes is only as good as     *)
(* what it is told, so the messages in flight are part of it: a metric     *)
(* below infinity is more than the distance of the sender, and in a tree   *)
(* it is told on no link that leads to the destination.                    *)

LeadsUp(r, k, route) ==
    /\ route.dev = Uplink[r][k]
    /\ ~route.is_local =>
           /\ route.next_hop[2] = Uplink[r][k]
           /\ Uplink[route.next_hop[1]][k] # Uplink[r][k]

Proper(r, k, route) ==
    /\ route.metric > Distance[r][k]
    /\ TreeTopology => LeadsUp(r, k, route)

(* Garbage is told with metric infinity, whatever its route was.           *)
SoundDatabase(r, db) ==
    /\ IsDatabase(db)
    /\ \A k \in DOMAIN db.ok_routes : Proper(r, k, db.ok_routes[k])
    /\ \A k \in DOMAIN db.garbage_routes :
           db.garbage_routes[k].metric = Infinity

SoundMessage(m) ==
    /\ m \in Message
    /\ m.from \in topology /\ m.to \in topology
    /\ m.from # m.to /\ m.from[2] = m.to[2]
    /\ m.metric < Infinity =>
           /\ m.metric > Distance[m.from[1]][m.key]
           /\ TreeTopology => Uplink[m.from[1]][m.key] # m.from[2]

NetworkInv ==
    /\ topology \subseteq Interface
    /\ DOMAIN database = Router
    /\ \A r \in Router : SoundDatabase(r, database[r])
    /\ \A m \in wire : SoundMessage(m)

-----------------------------------------------------------------------------
(* Databases.                                                              *)

(* Routes that agree in next hop, metric, device and kind are as proper.   *)
LEMMA ProperAlike ==
    ASSUME NEW r, NEW k, NEW route, NEW route2,
           Proper(r, k, route), SameForwarding(route, route2)
    PROVE  Proper(r, k, route2)
BY DEF Proper, LeadsUp, SameForwarding

(* A database without routes is sound.                                     *)
LEMMA SoundNew == ASSUME NEW r PROVE SoundDatabase(r, new)
BY NewProperties DEF SoundDatabase

(* Counters, ages and marks do not matter.                                 *)
LEMMA SoundAged ==
    ASSUME NEW r, NEW db, NEW db2, SoundDatabase(r, db), IsDatabase(db2),
           Aged(db, db2)
    PROVE  SoundDatabase(r, db2)
<1>1. \A k \in DOMAIN db2.ok_routes : Proper(r, k, db2.ok_routes[k])
  BY ProperAlike DEF SoundDatabase, Aged, Alike
<1>2. \A k \in DOMAIN db2.garbage_routes :
          db2.garbage_routes[k].metric = Infinity
  BY DEF SoundDatabase, Aged, Alike, SameForwarding
<1>3. QED
  BY <1>1, <1>2 DEF SoundDatabase

(* mark_all_routes_as_unchanged.                                           *)
LEMMA SoundMark ==
    ASSUME NEW r, NEW db, SoundDatabase(r, db)
    PROVE  SoundDatabase(r, mark_all_routes_as_unchanged(db))
<1> DEFINE db2 == mark_all_routes_as_unchanged(db)
<1>1. CASE ~db.any_route_changed
  BY <1>1 DEF mark_all_routes_as_unchanged
<1>2. CASE db.any_route_changed
  <2>1. IsDatabase(db) /\ Quiet(db, db2)
    BY QuietMark DEF SoundDatabase
  <2>2. /\ IsDatabase(db2)
        /\ DOMAIN db2.garbage_routes = DOMAIN db.garbage_routes
        /\ \A x \in DOMAIN db.garbage_routes :
               db2.garbage_routes[x] =
                   [db.garbage_routes[x] EXCEPT !.changed = FALSE]
    BY <1>2, <2>1, MarkUnchangedProperties
  <2> HIDE DEF db2
  <2>3. \A x \in DOMAIN db.garbage_routes :
            /\ db.garbage_routes[x] \in RipDbEntry
            /\ db.garbage_routes[x].metric = Infinity
    BY <2>1, DatabaseElim DEF SoundDatabase
  <2>4. \A x \in DOMAIN db2.garbage_routes :
            db2.garbage_routes[x].metric = Infinity
    <3>1. \A route \in RipDbEntry :
              [route EXCEPT !.changed = FALSE].metric = route.metric
      BY DEF RipDbEntry
    <3>2. QED
      BY <2>2, <2>3, <3>1
  <2>5. \A k \in DOMAIN db2.ok_routes : Proper(r, k, db2.ok_routes[k])
    BY <2>1, ProperAlike DEF SoundDatabase, Quiet
  <2>6. SoundDatabase(r, db2)
    BY <2>2, <2>4, <2>5 DEF SoundDatabase
  <2>7. QED
    BY <2>6 DEF db2
<1>3. QED
  BY <1>1, <1>2

(* A new remote route that is proper.                                      *)
LEMMA SoundPut ==
    ASSUME NEW r, NEW db, NEW db2, NEW k, NEW route,
           SoundDatabase(r, db), IsDatabase(db2), Put(db, db2, k, route),
           Proper(r, k, route)
    PROVE  SoundDatabase(r, db2)
BY DEF SoundDatabase, Put

(* A poisoned route has metric infinity.                                   *)
LEMMA PoisonedMetric ==
    ASSUME NEW route \in RipDbEntry PROVE poisoned(route).metric = Infinity
BY DEF poisoned, RipDbEntry

(* move_route_to_garbage, even when it fails.                              *)
LEMMA SoundMove ==
    ASSUME NEW r, NEW db, NEW k \in RouteKey, SoundDatabase(r, db)
    PROVE  SoundDatabase(r, move_route_to_garbage(db, k))
<1> DEFINE db2 == move_route_to_garbage(db, k)
<1>1. IsDatabase(db) /\ IsDatabase(db2)
  BY MoveToGarbageType DEF SoundDatabase
<1>2. CASE ~move_route_to_garbage_fails(db, k)
  <2>1. Moved(db, db2, k)
    BY <1>1, <1>2, MovedToGarbage
  <2> HIDE DEF db2
  <2>2. poisoned(db.ok_routes[k]).metric = Infinity
    BY <1>1, <2>1, DatabaseElim, PoisonedMetric DEF Moved
  <2>3. SoundDatabase(r, db2)
    BY <1>1, <2>1, <2>2 DEF SoundDatabase, Moved
  <2>4. QED
    BY <2>3 DEF db2
<1>3. CASE ~has_route(db, k)
  BY <1>3 DEF move_route_to_garbage
<1>4. CASE has_route(db, k) /\ has_garbage_route(db, k)
  <2>1. /\ db2.ok_routes = remove(db.ok_routes, k)
        /\ db2.garbage_routes = db.garbage_routes
    BY <1>4 DEF move_route_to_garbage
  <2> HIDE DEF db2
  <2>2. SoundDatabase(r, db2)
    BY <1>1, <2>1 DEF SoundDatabase, remove
  <2>3. QED
    BY <2>2 DEF db2
<1>5. QED
  BY <1>2, <1>3, <1>4 DEF move_route_to_garbage_fails

(* Timeouts, refreshes and the collection of garbage.                      *)
LEMMA SoundTimers ==
    ASSUME NEW r, NEW db, SoundDatabase(r, db)
    PROVE  /\ SoundDatabase(r, count_silence(db))
           /\ SoundDatabase(r, remove_expired_garbage_routes(grow_older(db)))
           /\ \A k \in RouteKey : SoundDatabase(r, refresh_route_timeout(db, k))
<1>1. IsDatabase(db)
  BY DEF SoundDatabase
<1>2. SoundDatabase(r, count_silence(db))
  BY <1>1, AgedCountSilence, CountSilenceProperties, SoundAged
<1>3. SoundDatabase(r, grow_older(db)) /\ IsDatabase(grow_older(db))
  BY <1>1, AgedGrowOlder, GrowOlderProperties, SoundAged
<1>4. SoundDatabase(r, remove_expired_garbage_routes(grow_older(db)))
  BY <1>3, AgedRemoveExpired, RemoveExpiredProperties, SoundAged
<1>5. ASSUME NEW k \in RouteKey
      PROVE  SoundDatabase(r, refresh_route_timeout(db, k))
  BY <1>1, AgedRefresh, RefreshProperties, SoundAged
<1>6. QED
  BY <1>2, <1>4, <1>5

(* add_remote_route, in the place of a route or where there is none.       *)
LEMMA SoundReplaced ==
    ASSUME NEW r, NEW db, NEW k \in RouteKey, NEW entry \in RipEntry,
           NEW dev \in Device, SoundDatabase(r, db), has_route(db, k),
           Proper(r, k, NewRemote(entry, dev))
    PROVE  SoundDatabase(r, replaced(db, k, entry, dev))
<1>1. IsDatabase(db)
  BY DEF SoundDatabase
<1>2. IsDatabase(replaced(db, k, entry, dev))
  BY <1>1, RemoveRouteType, AddRemoteRouteType DEF replaced
<1>3. Put(db, replaced(db, k, entry, dev), k, NewRemote(entry, dev))
  BY <1>1, PutReplaced DEF replaced
<1>4. QED
  BY <1>2, <1>3, SoundPut

(* The four cases of update_route_from_response and the poisoned one.      *)
LEMMA SoundSelection ==
    ASSUME NEW r, NEW db, NEW k \in RouteKey, NEW entry \in RipEntry,
           NEW dev \in Device, SoundDatabase(r, db),
           entry.metric < Infinity => Proper(r, k, NewRemote(entry, dev))
    PROVE  SoundDatabase(r, update_route_from_response(db, k, entry, dev))
<1>1. IsDatabase(db)
  BY DEF SoundDatabase
<1>2. CASE entry.metric >= Infinity
  <2>1. \/ update_route_from_response(db, k, entry, dev) = db
        \/ update_route_from_response(db, k, entry, dev) =
               move_route_to_garbage(db, k)
    BY <1>2 DEF update_route_from_response, poison_from_response
  <2>2. QED
    BY <2>1, SoundMove
<1>3. CASE ~(entry.metric >= Infinity)
  <2>1. Proper(r, k, NewRemote(entry, dev))
    BY <1>3, InfinityAssumption DEF RipEntry
  <2>2. CASE ~has_route(db, k)
    <3> DEFINE db1 == remove_garbage_route(db, k)
               db2 == add_remote_route(db1, k, entry, dev)
    <3>1. /\ IsDatabase(db1)
          /\ db1.ok_routes = db.ok_routes
          /\ DOMAIN db1.garbage_routes = DOMAIN db.garbage_routes \ {k}
          /\ \A x \in DOMAIN db.garbage_routes \ {k} :
                 db1.garbage_routes[x] = db.garbage_routes[x]
      BY <1>1, RemoveGarbageRouteProperties
    <3>2. update_route_from_response(db, k, entry, dev) = db2
      BY <1>3, <2>2 DEF update_route_from_response, reachable_from_response
    <3> HIDE DEF db1
    <3>3. SoundDatabase(r, db1) /\ ~has_route(db1, k)
      BY <2>2, <3>1 DEF SoundDatabase, has_route
    <3>4. IsDatabase(db2)
      BY <3>1, AddRemoteRouteType
    <3>5. Put(db1, db2, k, NewRemote(entry, dev))
      BY <3>1, <3>3, PutRemote
    <3>6. QED
      BY <2>1, <3>2, <3>3, <3>4, <3>5, SoundPut
  <2>3. CASE has_route(db, k)
    <3> DEFINE refreshed == refresh_route_timeout(db, k)
    <3>1. SoundDatabase(r, refreshed)
      BY SoundTimers
    <3>2. has_route(refreshed, k)
      BY <1>1, <2>3, RefreshProperties DEF has_route
    <3>3. update_route_from_response(db, k, entry, dev) \in
              {db, refreshed, replaced(db, k, entry, dev),
               replaced(refreshed, k, entry, dev)}
      BY <1>3, <2>3 DEF update_route_from_response, reachable_from_response
    <3> HIDE DEF refreshed
    <3>4. /\ SoundDatabase(r, replaced(db, k, entry, dev))
          /\ SoundDatabase(r, replaced(refreshed, k, entry, dev))
      BY <2>1, <2>3, <3>1, <3>2, SoundReplaced
    <3>5. QED
      BY <3>1, <3>3, <3>4
  <2>4. QED
    BY <2>2, <2>3
<1>4. QED
  BY <1>2, <1>3

(* The local networks of a configuration are at distance 0, and in a tree  *)
(* they are where their uplink is.                                         *)
LEMMA SoundConfigured ==
    ASSUME NEW r \in Router, NEW own \in SUBSET MayOwn[r]
    PROVE  SoundDatabase(r, configured(own))
<1> DEFINE route == db_entry(local_entry, Lan, TRUE, FALSE)
           db == configured(own)
<1>1. own \subseteq RouteKey /\ Lan \in Device
  BY NetworkAssumption
<1>2. local_entry \in RipEntry
  BY AddressAssumption DEF local_entry, RipEntry
<1>3. route \in RipDbEntry
  BY <1>1, <1>2, DbEntryType
<1>4. route.dev = Lan /\ route.metric = 1 /\ route.is_local
  BY DEF db_entry, local_entry
<1> DEFINE ok == [k \in own |-> route]
           flag == own # {}
<1>5. db = [ok_routes |-> ok, garbage_routes |-> EmptyMap,
            any_route_changed |-> flag]
  BY DEF configured
<1>6. flag \in BOOLEAN
  OBVIOUS
<1> HIDE DEF route, db, flag
<1>7. /\ IsRouteMap(ok) /\ DOMAIN ok = own /\ \A k \in own : ok[k] = route
      /\ IsRouteMap(EmptyMap) /\ DOMAIN EmptyMap = {}
  BY <1>1, <1>3, RouteMapIntro DEF EmptyMap, IsRouteMap
<1> HIDE DEF ok
<1>8. ASSUME NEW k \in own PROVE Proper(r, k, route)
  <2>1. Distance[r][k] = 0
    BY DistanceAssumption
  <2>2. TreeTopology => Uplink[r][k] = Lan
    BY <1>1 DEF TreeTopology
  <2>3. QED
    BY <1>4, <2>1, <2>2 DEF Proper, LeadsUp
<1>9. IsDatabase(db)
  BY <1>5, <1>6, <1>7, DatabaseIntro
<1>10. db.ok_routes = ok /\ db.garbage_routes = EmptyMap
  BY <1>5
<1>11. SoundDatabase(r, db)
  BY <1>7, <1>8, <1>9, <1>10 DEF SoundDatabase
<1>12. QED
  BY <1>11 DEF db

-----------------------------------------------------------------------------
(* Messages.                                                               *)

(* A listener hears metric infinity, or the metric of an active route that *)
(* split horizon lets through.                                             *)
LEMMA HeardMetric ==
    ASSUME NEW db, NEW k, NEW dev, NEW changed_only,
           \A x \in DOMAIN db.garbage_routes :
               db.garbage_routes[x].metric = Infinity
    PROVE  LET metric == last_metric(db, k, dev, changed_only, Infinity)
           IN  \/ metric = Infinity
               \/ /\ k \in DOMAIN db.ok_routes
                  /\ metric = db.ok_routes[k].metric
                  /\ db.ok_routes[k].dev # dev
BY DEF last_metric, is_advertised

(* What every message of an advertisement has in common.                   *)
LEMMA AdvertisedMessage ==
    ASSUME topology \subseteq Interface, NEW db, IsDatabase(db),
           NEW i \in topology, NEW j \in Hearers(i),
           NEW changed_only \in BOOLEAN,
           NEW m \in advertisement(db, i, j, changed_only)
    PROVE  /\ m \in Message
           /\ m.from = i /\ m.to = j
           /\ i # j /\ i[2] = j[2] /\ j \in topology
           /\ m.metric = last_metric(db, m.key, i[2], changed_only, Infinity)
<1>1. PICK k \in get_routes_for_advertisement(db, i[2], changed_only) :
          m = [from |-> i, to |-> j, key |-> k,
               metric |-> last_metric(db, k, i[2], changed_only, Infinity)]
  BY DEF advertisement
<1>2. k \in RouteKey
  BY DatabaseElim DEF get_routes_for_advertisement
<1>3. last_metric(db, k, i[2], changed_only, Infinity) \in Nat
  BY LastMetricType, InfinityAssumption
<1>4. j \in topology /\ i # j /\ i[2] = j[2]
  BY DEF Hearers
<1>5. m \in Message
  BY <1>1, <1>2, <1>3, <1>4 DEF Message
<1>6. QED
  BY <1>1, <1>4, <1>5

(* A sound database has only sound messages to send.                       *)
LEMMA SoundAdvertisement ==
    ASSUME topology \subseteq Interface, NEW i \in topology, NEW db,
           SoundDatabase(i[1], db),
           NEW j \in Hearers(i), NEW changed_only \in BOOLEAN,
           NEW m \in advertisement(db, i, j, changed_only)
    PROVE  SoundMessage(m)
<1>1. /\ m \in Message /\ m.from = i /\ m.to = j
      /\ i # j /\ i[2] = j[2] /\ j \in topology
      /\ m.metric = last_metric(db, m.key, i[2], changed_only, Infinity)
  BY AdvertisedMessage DEF SoundDatabase
<1>2. CASE m.metric = Infinity
  BY <1>1, <1>2, InfinityAssumption DEF SoundMessage
<1>3. CASE /\ m.key \in DOMAIN db.ok_routes
           /\ m.metric = db.ok_routes[m.key].metric
           /\ db.ok_routes[m.key].dev # i[2]
  <2>1. Proper(i[1], m.key, db.ok_routes[m.key])
    BY <1>3 DEF SoundDatabase
  <2>2. QED
    BY <1>1, <1>3, <2>1 DEF SoundMessage, Proper, LeadsUp
<1>4. QED
  BY <1>1, <1>2, <1>3, HeardMetric DEF SoundDatabase

(* The farewell of a router says infinity and nothing else.                *)
LEMMA FarewellAdvertisement ==
    ASSUME topology \subseteq Interface, NEW i \in topology, NEW db,
           IsDatabase(db), NEW j \in Hearers(i),
           NEW changed_only \in BOOLEAN,
           NEW m \in advertisement(poison_all_routes(db), i, j, changed_only)
    PROVE  SoundMessage(m)
<1> DEFINE db2 == poison_all_routes(db)
<1>1. IsDatabase(db2)
  BY PoisonAllProperties, Zenon
<1>2. /\ \A k \in DOMAIN db2.ok_routes : db2.ok_routes[k].metric = Infinity
      /\ \A k \in DOMAIN db2.garbage_routes :
             db2.garbage_routes[k].metric = Infinity
  BY PoisonAll DEF Marked
<1> HIDE DEF db2
<1>3. m \in advertisement(db2, i, j, changed_only)
  BY DEF db2
<1>4. /\ m \in Message /\ m.from = i /\ m.to = j
      /\ i # j /\ i[2] = j[2] /\ j \in topology
      /\ m.metric = last_metric(db2, m.key, i[2], changed_only, Infinity)
  BY <1>1, <1>3, AdvertisedMessage
<1>5. m.metric = Infinity
  BY <1>2, <1>4, HeardMetric
<1>6. QED
  BY <1>4, <1>5, InfinityAssumption DEF SoundMessage

(* The messages of a multicast are advertisements of the router's own      *)
(* interfaces.                                                             *)
LEMMA MulticastMessage ==
    ASSUME NEW r, NEW db, NEW changed_only,
           NEW m \in multicast(r, db, changed_only)
    PROVE  \E i \in topology : /\ i[1] = r
                               /\ \E j \in Hearers(i) :
                                      m \in advertisement(db, i, j, changed_only)
BY DEF multicast

(* A message below infinity gives its receiver a proper route: it is one   *)
(* hop further away than the sender, and in a tree it can only come down.  *)
LEMMA ProperFromMessage ==
    ASSUME topology \subseteq Interface, NEW m, SoundMessage(m),
           m.metric + 1 < Infinity,
           NEW route, route.metric = m.metric + 1, route.dev = m.to[2],
           route.next_hop = m.from
    PROVE  Proper(m.to[1], m.key, route)
<1>1. /\ m.from \in Interface /\ m.to \in Interface /\ m.key \in RouteKey
      /\ m.metric \in Nat
      /\ m.from[1] \in Router /\ m.to[1] \in Router
  BY NetworkAssumption DEF SoundMessage, Message
<1>2. m.metric > Distance[m.from[1]][m.key]
  BY <1>1, InfinityAssumption DEF SoundMessage
<1>3. /\ Distance[m.from[1]][m.key] \in Nat /\ Distance[m.to[1]][m.key] \in Nat
      /\ Distance[m.to[1]][m.key] <= Distance[m.from[1]][m.key] + 1
  BY <1>1, DistanceAssumption DEF SoundMessage
<1>4. route.metric > Distance[m.to[1]][m.key]
  BY <1>1, <1>2, <1>3
<1>5. ASSUME TreeTopology PROVE LeadsUp(m.to[1], m.key, route)
  <2>1. /\ Uplink[m.from[1]][m.key] # m.from[2]
        /\ m.from \in topology /\ m.to \in topology
        /\ m.from # m.to /\ m.from[2] = m.to[2]
    BY <1>1, <1>5, InfinityAssumption DEF SoundMessage
  <2>2. Uplink[m.to[1]][m.key] = m.to[2]
    BY <1>1, <1>5, <2>1 DEF TreeTopology
  <2>3. QED
    BY <2>1, <2>2 DEF LeadsUp
<1>6. QED
  BY <1>4, <1>5 DEF Proper

(* A router stays sound when it handles a message.                         *)
LEMMA SoundReceive ==
    ASSUME NetworkInv, NEW m \in wire
    PROVE  /\ m.to[1] \in Router
           /\ SoundDatabase(m.to[1], handle_response(database[m.to[1]], m))
<1> DEFINE r == m.to[1]
           db == database[r]
           entry == [next_hop |-> m.from, metric |-> update_metric(m.metric),
                     attr |-> LocalAttr]
           dev == m.to[2]
<1>1. /\ SoundMessage(m) /\ topology \subseteq Interface
      /\ m.from \in Interface /\ m.to \in Interface /\ m.key \in RouteKey
      /\ m.metric \in Nat
      /\ r \in Router /\ dev \in Device /\ m.from \in Address
  BY NetworkAssumption DEF NetworkInv, SoundMessage, Message
<1>2. SoundDatabase(r, db)
  BY <1>1 DEF NetworkInv
<1>3. update_metric(m.metric) \in Nat
  BY <1>1, InfinityAssumption DEF update_metric
<1>4. entry \in RipEntry
  BY <1>1, <1>3, AddressAssumption DEF RipEntry
<1>5. entry.metric < Infinity => Proper(r, m.key, NewRemote(entry, dev))
  <2> SUFFICES ASSUME update_metric(m.metric) < Infinity
               PROVE  Proper(r, m.key, NewRemote(entry, dev))
    OBVIOUS
  <2>1. update_metric(m.metric) = m.metric + 1 /\ m.metric + 1 < Infinity
    BY <1>1, InfinityAssumption DEF update_metric
  <2>2. /\ NewRemote(entry, dev).metric = m.metric + 1
        /\ NewRemote(entry, dev).dev = m.to[2]
        /\ NewRemote(entry, dev).next_hop = m.from
    BY <2>1 DEF NewRemote, db_entry
  <2> HIDE DEF entry, dev
  <2>3. QED
    BY <1>1, <2>1, <2>2, ProperFromMessage
<1>6. \/ handle_response(db, m) = db
      \/ handle_response(db, m) =
             update_route_from_response(db, m.key, entry, dev)
  BY DEF handle_response
<1> HIDE DEF r, db, entry, dev
<1>7. SoundDatabase(r, handle_response(db, m))
  BY <1>1, <1>2, <1>4, <1>5, <1>6, SoundSelection
<1>8. QED
  BY <1>1, <1>7 DEF r, db

-----------------------------------------------------------------------------
(* The steps.                                                              *)

(* The topology is chosen once.                                            *)
LEMMA TreeStays ==
    ASSUME UNCHANGED topology PROVE TreeTopology' <=> TreeTopology
BY DEF TreeTopology

(* A sound database is still sound in the next state.                      *)
LEMMA SoundDatabaseAfter ==
    ASSUME UNCHANGED topology, NEW r, SoundDatabase(r, database'[r])
    PROVE  SoundDatabase(r, database[r])'
BY TreeStays DEF SoundDatabase, Proper, LeadsUp

(* And so is a sound message.                                              *)
LEMMA SoundMessageAfter ==
    ASSUME UNCHANGED topology, NEW m, SoundMessage(m)
    PROVE  SoundMessage(m)'
BY TreeStays DEF SoundMessage

(* A step that leaves sound databases and messages behind.                 *)
LEMMA NetworkInvAfter ==
    ASSUME NetworkInv, UNCHANGED topology,
           \/ database' = database
           \/ \E r \in Router : \E db : Changes(r, db) /\ SoundDatabase(r, db),
           \A m \in wire' : m \in wire \/ SoundMessage(m)
    PROVE  NetworkInv'
<1>1. /\ DOMAIN database' = Router
      /\ \A r \in Router : SoundDatabase(r, database'[r])
  BY DEF NetworkInv, Changes
<1>2. \A r \in Router : SoundDatabase(r, database[r])'
  BY <1>1, SoundDatabaseAfter
<1>3. \A m \in wire' : SoundMessage(m)'
  BY SoundMessageAfter DEF NetworkInv
<1>4. QED
  BY <1>1, <1>2, <1>3 DEF NetworkInv

(* What is carried is old or was just sent.                                *)
LEMMA CarriedMessages ==
    ASSUME NEW msgs, NEW m \in Carried(msgs)
    PROVE  m \in wire \/ m \in msgs
BY DEF Carried

(* Every step keeps the invariant.                                         *)
LEMMA NetworkNext ==
    ASSUME NetworkInv, [Next]_vars
    PROVE  NetworkInv'
<1> USE DEF NetworkInv
<1>1. ASSUME NEW r \in Router, Boot(r)
      PROVE  NetworkInv'
  BY <1>1, SoundConfigured, NetworkInvAfter DEF Boot
<1>2. ASSUME NEW r \in Router, NEW changed_only \in BOOLEAN,
             Advertise(r, changed_only)
      PROVE  NetworkInv'
  <2>1. ASSUME NEW m \in wire', m \notin wire PROVE SoundMessage(m)
    <3>1. m \in multicast(r, database[r], changed_only)
      BY <1>2, <2>1, CarriedMessages DEF Advertise
    <3>2. PICK i \in topology :
              /\ i[1] = r
              /\ \E j \in Hearers(i) :
                     m \in advertisement(database[r], i, j, changed_only)
      BY <3>1, MulticastMessage
    <3>3. QED
      BY <3>2, SoundAdvertisement
  <2>2. SoundDatabase(r, mark_all_routes_as_unchanged(database[r]))
    BY SoundMark
  <2>3. QED
    BY <1>2, <2>1, <2>2, NetworkInvAfter DEF Advertise
<1>3. ASSUME NEW r \in Router, TimeoutTick(r)
      PROVE  NetworkInv'
  BY <1>3, SoundTimers, NetworkInvAfter DEF TimeoutTick
<1>4. ASSUME NEW r \in Router, NEW k \in RouteKey, TimeOutRoute(r, k)
      PROVE  NetworkInv'
  BY <1>4, SoundMove, NetworkInvAfter DEF TimeOutRoute
<1>5. ASSUME NEW r \in Router, CollectGarbage(r)
      PROVE  NetworkInv'
  BY <1>5, SoundTimers, NetworkInvAfter DEF CollectGarbage
<1>6. ASSUME NEW r \in Router, Crash(r)
      PROVE  NetworkInv'
  BY <1>6, SoundNew, NetworkInvAfter DEF Crash
<1>7. ASSUME NEW r \in Router, Shutdown(r)
      PROVE  NetworkInv'
  <2>1. ASSUME NEW m \in wire', m \notin wire PROVE SoundMessage(m)
    <3>1. m \in multicast(r, poison_all_routes(database[r]), FALSE)
      BY <1>7, <2>1, CarriedMessages DEF Shutdown
    <3>2. PICK i \in topology, j \in topology :
              /\ j \in Hearers(i)
              /\ m \in advertisement(poison_all_routes(database[r]), i, j, FALSE)
      BY <3>1, MulticastMessage DEF Hearers
    <3>3. QED
      BY <3>2, FarewellAdvertisement DEF SoundDatabase
  <2>2. QED
    BY <1>7, <2>1, SoundNew, NetworkInvAfter DEF Shutdown
<1>8. ASSUME NEW i \in topology, NEW j \in topology, AnswerRequest(i, j)
      PROVE  NetworkInv'
  <2>1. SoundDatabase(i[1], database[i[1]])
    BY NetworkAssumption
  <2>2. ASSUME NEW m \in wire', m \notin wire PROVE SoundMessage(m)
    <3>1. /\ m \in advertisement(database[i[1]], i, j, FALSE)
          /\ j \in Hearers(i)
      BY <1>8, <2>2, CarriedMessages DEF AnswerRequest
    <3>2. QED
      BY <2>1, <3>1, SoundAdvertisement
  <2>3. QED
    BY <1>8, <2>2, NetworkInvAfter DEF AnswerRequest
<1>9. ASSUME NEW m \in wire, Receive(m)
      PROVE  NetworkInv'
  BY <1>9, SoundReceive, NetworkInvAfter DEF Receive
<1>10. ASSUME NEW m \in wire, Lose(m)
       PROVE  NetworkInv'
  BY <1>10, NetworkInvAfter DEF Lose
<1>11. CASE UNCHANGED vars
  BY <1>11, NetworkInvAfter DEF vars
<1>12. QED
  BY <1>1, <1>2, <1>3, <1>4, <1>5, <1>6, <1>7, <1>8, <1>9, <1>10, <1>11
  DEF Next

(* Routers and messages stay sound.                                        *)
THEOREM NetworkInvariant == Spec => []NetworkInv
<1>1. Init => NetworkInv
  BY NetworkAssumption, SoundNew DEF Init, NetworkInv
<1>2. NetworkInv /\ [Next]_vars => NetworkInv'
  BY NetworkNext
<1>3. QED
  BY <1>1, <1>2, PTL DEF Spec

(* No router believes to be closer to a destination than the network       *)
(* allows, in any topology and after any number of losses, repetitions,    *)
(* crashes and restarts: update_metric counts every hop.                   *)
THEOREM NeverTooShortHolds == Spec => []NeverTooShort
<1>1. NetworkInv => NeverTooShort
  BY DEF NetworkInv, SoundDatabase, Proper, NeverTooShort, Active, Metric
<1>2. QED
  BY <1>1, NetworkInvariant, PTL

(* In a tree every learned route leads to the destination's side of its    *)
(* link: split horizon rules out routes that point at each other.          *)
THEOREM RoutesLeadUpHolds == Spec => []RoutesLeadUp
<1>1. NetworkInv => RoutesLeadUp
  BY DEF NetworkInv, SoundDatabase, Proper, LeadsUp, RoutesLeadUp, Active
<1>2. QED
  BY <1>1, NetworkInvariant, PTL

=============================================================================
