------------------------- MODULE RipLifecycleProofs -------------------------
(***************************************************************************)
(* What happens to the routes and what is told of them, for all values of  *)
(* the constants.  First what neighbours and the kernel are told: no       *)
(* change is forgotten, no timeout is missed, what was announced is what   *)
(* the database holds, and the kernel forwards what the database promises. *)
(* Then what may happen to a route from one step to the next: the daemon   *)
(* implements RouteLifecycle, leaves its local routes alone and believes   *)
(* no one but the next hop of a route that it got worse.                   *)
(***************************************************************************)
EXTENDS RipLifecycle, RipSafetyProofs

-----------------------------------------------------------------------------
(* A local network as setup and the administration server add it.          *)

NewLocal(dev) == db_entry(local_entry, dev, TRUE, FALSE)

(* add_local_route, where there is no route.                               *)
LEMMA PutLocal ==
    ASSUME NEW db, IsDatabase(db), NEW k \in RouteKey, ~has_route(db, k),
           NEW dev \in Device
    PROVE  LET db2 == add_local_route(db, k, local_entry, dev)
           IN  /\ Put(db, db2, k, NewLocal(dev))
               /\ db2.garbage_routes = db.garbage_routes
<1>1. NewLocal(dev) \in RipDbEntry /\ NewLocal(dev).changed
  BY DbEntryType, LocalEntryType DEF NewLocal
<1>2. ~add_route_fails(db, k)
  BY DEF add_route_fails
<1> DEFINE route == NewLocal(dev)
           db2 == add_route(db, k, route)
<1>3. add_local_route(db, k, local_entry, dev) = db2
  BY DEF add_local_route, NewLocal
<1> HIDE DEF route
<1>4. /\ db2.ok_routes[k] = route
      /\ DOMAIN db2.ok_routes = DOMAIN db.ok_routes \cup {k}
      /\ \A x \in DOMAIN db.ok_routes : db2.ok_routes[x] = db.ok_routes[x]
      /\ db2.garbage_routes = db.garbage_routes
      /\ db2.any_route_changed
  BY <1>1, <1>2, AddRouteProperties DEF route
<1> HIDE DEF db2
<1>5. Put(db, db2, k, route) /\ db2.garbage_routes = db.garbage_routes
  BY <1>4 DEF Put
<1>6. QED
  BY <1>3, <1>5 DEF route

(* The routes that are put are new.                                        *)
LEMMA NewIsNew ==
    ASSUME NEW entry, NEW dev
    PROVE  IsNew(NewRemote(entry, dev)) /\ IsNew(NewLocal(dev))
BY DEF IsNew, NewRemote, NewLocal, db_entry

-----------------------------------------------------------------------------
(* What the steps of an entry and of the timeout loop do, when neither the *)
(* kernel nor the database fails them.                                     *)

(* A poisoned entry moves the route of its sender to the garbage.  Only    *)
(* where the sender has no address may that be a local one.                *)
LEMMA PoisonStep ==
    ASSUME TypeOK, DatabaseInv, HandlePoison, exit' = exit
    PROVE  /\ Key \in RouteKey
           /\ AtEntry /\ has_route(database, Key)
           /\ OldRoute.is_local => packet.source = Unspecified
           /\ OldRoute.next_hop = packet.source
           /\ Moved(database, database', Key)
           /\ kernel' = delete_route_from_kernel(kernel, Key, OldRoute)
           /\ pc = "response" /\ Step("response") /\ NextEntry
<1>1. /\ AtEntry /\ has_route(database, Key)
      /\ route_is_from_current_next_hop(OldRoute, RouteEntry)
  BY DEF HandlePoison, AtPoison
<1>2. /\ OldRoute.is_local => packet.source = Unspecified
      /\ Key \in RouteKey
  BY <1>1, OldRouteOwned, EntryKnown
<1>4. pc = "response" /\ exit = "running"
  BY <1>1 DEF AtEntry, TypeOK, TypeControl
<1>3. ~move_route_to_garbage_fails(database, Key)
  BY <1>4 DEF HandlePoison, StepUnless, Exit
<1>5. /\ kernel' = delete_route_from_kernel(kernel, Key, OldRoute)
      /\ database' = move_route_to_garbage(database, Key)
      /\ Step("response") /\ NextEntry
  BY <1>3, <1>4 DEF HandlePoison, StepUnless, Exit
<1>6. Moved(database, database', Key)
  BY <1>2, <1>3, <1>5, MovedToGarbage DEF TypeOK
<1>7. OldRoute.next_hop = packet.source
  BY <1>1 DEF route_is_from_current_next_hop, RouteEntry, response_entry_to_route
<1>8. QED
  BY <1>1, <1>2, <1>4, <1>5, <1>6, <1>7

(* The route made of a reachable entry.                                    *)
LEMMA ReachableEntry ==
    ASSUME TypeOK, DatabaseInv, AtReachable
    PROVE  /\ pc = "response" /\ exit = "running"
           /\ Key \in RouteKey /\ RouteEntry \in RipEntry
           /\ packet.dev \in Device /\ packet \in Packet
           /\ RouteEntry.next_hop = packet.source
           /\ \E n \in Neighbour : n.source = packet.source
           /\ RouteEntry.metric \in 2 .. Infinity - 1
<1>1. AtEntry /\ is_entry_valid(Current) /\ RouteEntry.metric < Infinity
  BY DEF AtReachable
<1>2. /\ Key \in RouteKey /\ RouteEntry \in RipEntry
      /\ packet.dev \in Device /\ packet \in Packet
      /\ RouteEntry.next_hop = packet.source
      /\ RouteEntry.metric > 1
  BY <1>1, EntryKnown
<1>3. pc = "response" /\ exit = "running"
  BY <1>1 DEF AtEntry, TypeOK, TypeControl
<1>4. \E n \in Neighbour : n.source = packet.source
  BY <1>3 DEF DatabaseInv, PacketSource
<1>5. RouteEntry.metric \in Nat
  BY <1>2 DEF RipEntry
<1>6. QED
  BY <1>1, <1>2, <1>3, <1>4, <1>5, InfinityAssumption

(* Case 1 puts a remote route where there is none, and clears its garbage. *)
LEMMA LearnStep ==
    ASSUME TypeOK, DatabaseInv, LearnRoute
    PROVE  /\ Put(database, database', Key, NewRemote(RouteEntry, packet.dev))
           /\ DOMAIN database'.garbage_routes =
                  DOMAIN database.garbage_routes \ {Key}
           /\ ~has_route(database, Key)
           /\ Step("install") /\ packet' = packet /\ Key' = Key
<1>1. AtReachable /\ ~has_route(database, Key)
  BY DEF LearnRoute
<1>2. Key \in RouteKey /\ RouteEntry \in RipEntry /\ packet.dev \in Device
  BY <1>1, ReachableEntry
<1> DEFINE db == remove_garbage_route(database, Key)
           db2 == add_remote_route(db, Key, RouteEntry, packet.dev)
           route == NewRemote(RouteEntry, packet.dev)
<1>3. /\ IsDatabase(db)
      /\ db.ok_routes = database.ok_routes
      /\ DOMAIN db.garbage_routes = DOMAIN database.garbage_routes \ {Key}
      /\ \A x \in DOMAIN database.garbage_routes \ {Key} :
             db.garbage_routes[x] = database.garbage_routes[x]
  BY <1>2, RemoveGarbageRouteProperties DEF TypeOK
<1>4. database' = db2 /\ StepUnless(add_route_fails(db, Key), "install")
  BY DEF LearnRoute
<1> HIDE DEF db
<1>5. ~has_route(db, Key)
  BY <1>1, <1>3 DEF has_route
<1>6. Put(db, db2, Key, route) /\ db2.garbage_routes = db.garbage_routes
  BY <1>2, <1>3, <1>5, PutRemote
<1> HIDE DEF db2, route
<1>7. Put(database, db2, Key, route)
  BY <1>3, <1>6 DEF Put
<1>8. packet' = packet /\ Key' = Key
  BY DEF LearnRoute, work, Key, Current
<1>9. QED
  BY <1>1, <1>3, <1>4, <1>5, <1>6, <1>7, <1>8
  DEF StepUnless, add_route_fails, route

(* Cases 2 and 3 put a remote route in the place of another, on the word   *)
(* of the same next hop or with a better metric.  A local route is in that *)
(* place only where the sender has no address.                             *)
LEMMA ReplaceStep ==
    ASSUME TypeOK, DatabaseInv, UpdateRoute \/ SwitchRoute, exit' = exit
    PROVE  /\ Put(database, database', Key, NewRemote(RouteEntry, packet.dev))
           /\ database'.garbage_routes = database.garbage_routes
           /\ has_route(database, Key)
           /\ OldRoute.is_local => packet.source = Unspecified
           /\ \/ OldRoute.next_hop = RouteEntry.next_hop
              \/ RouteEntry.metric < OldRoute.metric /\ ~OldRoute.is_local
           /\ kernel' = delete_route_from_kernel(kernel, Key, OldRoute)
           /\ Step("install") /\ packet' = packet /\ Key' = Key
<1>1. AtReachable /\ has_route(database, Key)
  BY DEF UpdateRoute, SwitchRoute, FromCurrentNextHop, FromAnotherNextHop
<1>2. /\ Key \in RouteKey /\ RouteEntry \in RipEntry /\ packet.dev \in Device
      /\ exit = "running" /\ AtEntry /\ is_entry_valid(Current)
  BY <1>1, ReachableEntry DEF AtReachable
<1>3. \/ route_is_from_current_next_hop(OldRoute, RouteEntry)
      \/ OldRoute.metric > RouteEntry.metric
  BY DEF UpdateRoute, SwitchRoute, FromCurrentNextHop
<1>4. OldRoute.metric \in Nat /\ RouteEntry.metric \in Nat
  BY <1>1, <1>2, DatabaseElim
  DEF TypeOK, OldRoute, has_route, RipDbEntry, RipEntry
<1>5. /\ OldRoute.is_local => packet.source = Unspecified
      /\ \/ OldRoute.next_hop = RouteEntry.next_hop
         \/ RouteEntry.metric < OldRoute.metric /\ ~OldRoute.is_local
  BY <1>1, <1>2, <1>3, <1>4, OldRouteOwned DEF route_is_from_current_next_hop
<1>6. PICK db : /\ db \in {database, refresh_route_timeout(database, Key)}
                /\ replace_route_from_response(db)
  BY DEF UpdateRoute, SwitchRoute
<1>7. /\ IsDatabase(db)
      /\ DOMAIN db.ok_routes = DOMAIN database.ok_routes
      /\ \A x \in DOMAIN database.ok_routes \ {Key} :
             db.ok_routes[x] = database.ok_routes[x]
      /\ db.garbage_routes = database.garbage_routes
  <2>1. CASE db = database
    BY <2>1 DEF TypeOK
  <2>2. CASE db = refresh_route_timeout(database, Key)
    <3> DEFINE db3 == refresh_route_timeout(database, Key)
    <3>1. /\ IsDatabase(db3)
          /\ DOMAIN db3.ok_routes = DOMAIN database.ok_routes
          /\ \A x \in DOMAIN database.ok_routes :
                 db3.ok_routes[x] =
                     IF x = Key
                     THEN [database.ok_routes[x] EXCEPT !.timeout_cnt = 0]
                     ELSE database.ok_routes[x]
          /\ db3.garbage_routes = database.garbage_routes
      BY <1>2, RefreshProperties DEF TypeOK
    <3> HIDE DEF db3
    <3>2. db = db3
      BY <2>2 DEF db3
    <3>3. QED
      BY <3>1, <3>2
  <2>3. QED
    BY <1>6, <2>1, <2>2
<1>8. has_route(db, Key)
  BY <1>1, <1>7 DEF has_route
<1> DEFINE removed == remove_route(db, Key)
           db2 == add_remote_route(removed, Key, RouteEntry, packet.dev)
           route == NewRemote(RouteEntry, packet.dev)
<1>9. ~remove_route_fails(db, Key) /\ ~add_route_fails(removed, Key)
  <2>1. DOMAIN removed.ok_routes = DOMAIN db.ok_routes \ {Key}
    BY <1>2, <1>7, <1>8, RemoveRouteProperties
  <2>2. QED
    BY <1>8, <2>1 DEF remove_route_fails, add_route_fails, has_route
<1>10. Put(db, db2, Key, route) /\ db2.garbage_routes = db.garbage_routes
  BY <1>2, <1>7, <1>8, PutReplaced
<1>11. /\ database' = db2
       /\ kernel' = delete_route_from_kernel(kernel, Key, OldRoute)
       /\ Step("install") /\ packet' = packet
  BY <1>2, <1>6, <1>9 DEF replace_route_from_response, StepUnless, Exit, work
<1> HIDE DEF removed, db2, route
<1>12. Put(database, db2, Key, route)
  BY <1>7, <1>10 DEF Put
<1>13. Key' = Key
  BY <1>11 DEF Key, Current
<1>14. QED
  BY <1>1, <1>5, <1>7, <1>10, <1>11, <1>12, <1>13 DEF route

(* The timeout loop moves a remote route that timed out to the garbage.    *)
LEMMA TimeOutStep ==
    ASSUME TypeOK, DatabaseInv, NEW p \in pending, TimeOutRoute(p), exit' = exit
    PROVE  /\ p.key \in RouteKey
           /\ p.key \in DOMAIN database.ok_routes
           /\ p.route = database.ok_routes[p.key] /\ ~p.route.is_local
           /\ Moved(database, database', p.key)
           /\ kernel' = delete_route_from_kernel(kernel, p.key, p.route)
           /\ pc = "timeout" /\ pending' = pending \ {p}
           /\ Step(IF pending' = {} THEN "trigger" ELSE "timeout")
           /\ garbage_collection_timer' =
                  (garbage_collection_timer \/ pc' = "trigger")
<1>1. /\ pc = "timeout" /\ exit = "running" /\ p.key \in RouteKey
      /\ p.key \in DOMAIN database.ok_routes
      /\ p.route = database.ok_routes[p.key] /\ ~p.route.is_local
  BY DEF TimeOutRoute, TypeOK, TypeControl, TypeWork, DatabaseInv, TimeoutWork
<1>2. ~move_route_to_garbage_fails(database, p.key)
  BY <1>1 DEF TimeOutRoute, StepUnless, Exit
<1>3. /\ database' = move_route_to_garbage(database, p.key)
      /\ kernel' = delete_route_from_kernel(kernel, p.key, p.route)
      /\ pending' = pending \ {p}
      /\ Step(IF pending' = {} THEN "trigger" ELSE "timeout")
      /\ garbage_collection_timer' =
             (garbage_collection_timer \/ pc' = "trigger")
  BY <1>1, <1>2 DEF TimeOutRoute, StepUnless, Exit
<1>4. Moved(database, database', p.key)
  BY <1>1, <1>2, <1>3, MovedToGarbage DEF TypeOK
<1>5. QED
  BY <1>1, <1>3, <1>4

(* A local network set up by the configuration or over HTTP.               *)
LEMMA AddLocalStep ==
    ASSUME TypeOK, NEW network \in Network \cup {InvalidNetwork},
           ~setup_advertised_network_fails(database, network),
           database' = setup_advertised_network(database, network)
    PROVE  /\ network.key \in RouteKey /\ network.dev \in Device
           /\ ~has_route(database, network.key)
           /\ Put(database, database', network.key, NewLocal(network.dev))
           /\ database'.garbage_routes = database.garbage_routes
<1>1. network \in Network /\ ~has_route(database, network.key)
  BY DEF setup_advertised_network_fails, add_route_fails
<1>2. network.key \in RouteKey /\ network.dev \in Device
  BY <1>1 DEF Network
<1>3. QED
  BY <1>1, <1>2, PutLocal DEF setup_advertised_network, TypeOK

-----------------------------------------------------------------------------
(* The kinds of steps of the daemon.                                       *)

(* The garbage collection timer is left alone, is armed whenever there is  *)
(* garbage, or is reset at the start of run().                             *)
CollectionGoesOn ==
    \/ garbage_collection_timer' = garbage_collection_timer
    \/ has_garbage_routes(database') => garbage_collection_timer'
    \/ pc = "setup"

(* Nothing is learned, lost or told.                                       *)
Idling ==
    /\ pc \notin Leaving \cup {"timeout", "install"}
    /\ pc' \notin Leaving \cup {"timeout", "install", "setup"}
    /\ Aged(database, database') /\ NotLonger(database, database')
    /\ \/ DOMAIN database'.garbage_routes = DOMAIN database.garbage_routes
       \/ pc = "select"
    /\ CollectionGoesOn
    /\ UNCHANGED <<exit, kernel, preexisting, advertised>>

(* A local network is added where there is no route.                       *)
AddingLocal(k, dev) ==
    /\ \/ pc = "setup" /\ pc' = "setup"
       \/ pc = "select" /\ pc' = "trigger"
    /\ ~has_route(database, k)
    /\ Put(database, database', k, NewLocal(dev))
    /\ database'.garbage_routes = database.garbage_routes
    /\ UNCHANGED <<exit, kernel, preexisting, advertised,
                   garbage_collection_timer>>

(* The current entry gives a route to its destination ...                  *)
Learning ==
    /\ AtReachable /\ pc' = "install" /\ Key' = Key
    /\ ~has_route(database, Key)
    /\ Put(database, database', Key, NewRemote(RouteEntry, packet.dev))
    /\ DOMAIN database'.garbage_routes = DOMAIN database.garbage_routes \ {Key}
    /\ UNCHANGED <<exit, kernel, preexisting, advertised,
                   garbage_collection_timer>>

(* ... or a new one, from the same next hop or with a better metric.       *)
Replacing ==
    /\ AtReachable /\ pc' = "install" /\ Key' = Key
    /\ has_route(database, Key)
    /\ OldRoute.is_local => packet.source = Unspecified
    /\ \/ OldRoute.next_hop = RouteEntry.next_hop
       \/ RouteEntry.metric < OldRoute.metric /\ ~OldRoute.is_local
    /\ Put(database, database', Key, NewRemote(RouteEntry, packet.dev))
    /\ database'.garbage_routes = database.garbage_routes
    /\ kernel' = delete_route_from_kernel(kernel, Key, OldRoute)
    /\ UNCHANGED <<exit, preexisting, advertised, garbage_collection_timer>>

(* The netlink add for it.                                                 *)
Installing ==
    /\ pc = "install" /\ pc' = "response"
    /\ kernel' = add_route_to_kernel(kernel, Key, OldRoute)
    /\ UNCHANGED <<database, exit, preexisting, advertised,
                   garbage_collection_timer>>

(* A route is poisoned by its next hop, or a remote one timed out.         *)
Withdrawing(k) ==
    /\ Moved(database, database', k)
    /\ kernel' = delete_route_from_kernel(kernel, k, database.ok_routes[k])
    /\ \/ /\ pc = "response" /\ pc' = "response"
          /\ AtEntry /\ Key = k
          /\ database.ok_routes[k].is_local => packet.source = Unspecified
          /\ database.ok_routes[k].next_hop = packet.source
          /\ garbage_collection_timer' = garbage_collection_timer
       \/ /\ pc = "timeout" /\ pc' \in {"timeout", "trigger"}
          /\ ~database.ok_routes[k].is_local
          /\ pending' = pending \ {[key |-> k, route |-> database.ok_routes[k]]}
          /\ [key |-> k, route |-> database.ok_routes[k]] \in pending
          /\ pc' = "trigger" => pending' = {} /\ garbage_collection_timer'
    /\ UNCHANGED <<exit, preexisting, advertised>>

(* A periodic or a triggered update goes out.                              *)
Updating(changed_only) ==
    /\ \/ pc = "select" /\ pc' = "trigger"
       \/ pc = "trigger" /\ pc' = "select"
    /\ send_multicast_advertisement(changed_only)
    /\ UNCHANGED <<exit, kernel, preexisting, taken, garbage_collection_timer>>

(* The routes that the shutdown deletes, and its end.                      *)
CleaningUp ==
    /\ pc = "cleanup"
    /\ \/ pc' = "cleanup" /\ exit' = exit
       \/ pc' = "exited" /\ exit' = "ok"
    /\ UNCHANGED <<database, preexisting, wire>>

(* The daemon ends on an error or is killed.                               *)
Stopping ==
    /\ pc # "exited" /\ pc' = "exited" /\ exit' \notin {"running", "ok"}
    /\ Aged(database, database')
    /\ DOMAIN database'.garbage_routes = DOMAIN database.garbage_routes

(* A route is lost: there was garbage in the place it was to be moved to.  *)
Failing ==
    /\ pc # "exited" /\ pc' = "exited" /\ exit' = "database"
    /\ database'.garbage_routes = database.garbage_routes
    /\ database'.any_route_changed

(* Every step is of one of these kinds, if the invariants hold.            *)
Kinds ==
    \/ Idling
    \/ \E k \in RouteKey, dev \in Device : AddingLocal(k, dev)
    \/ Learning \/ Replacing \/ Installing
    \/ TimeoutTimer
    \/ \E k \in RouteKey : Withdrawing(k)
    \/ \E changed_only \in BOOLEAN : Updating(changed_only)
    \/ Shutdown \/ Farewell \/ CleaningUp
    \/ Stopping \/ Failing \/ Restart
    \/ UNCHANGED vars

(* An idle step.                                                           *)
LEMMA IdlingStep ==
    ASSUME pc \in {"setup", "select", "response", "trigger"},
           \E next \in {"select", "response", "trigger"} : Step(next),
           Aged(database, database'), NotLonger(database, database'),
           \/ DOMAIN database'.garbage_routes = DOMAIN database.garbage_routes
           \/ pc = "select",
           CollectionGoesOn,
           UNCHANGED <<kernel, preexisting, advertised>>
    PROVE  Kinds
BY DEF Kinds, Idling, Step, Leaving

(* One that leaves the database alone.                                     *)
LEMMA IdlingSame ==
    ASSUME pc \in {"setup", "select", "response", "trigger"},
           \E next \in {"select", "response", "trigger"} : Step(next),
           CollectionGoesOn,
           UNCHANGED <<database, kernel, preexisting, advertised>>
    PROVE  Kinds
BY AgedSame, IdlingStep

(* The end of the process on an error.                                     *)
LEMMA StoppingStep ==
    ASSUME pc # "exited",
           \E reason \in {"io", "packet", "setup", "killed"} : Exit(reason),
           \/ database' = database
           \/ /\ Aged(database, database')
              /\ database'.garbage_routes = database.garbage_routes
    PROVE  Kinds
<1>1. Aged(database, database') 
  BY AgedSame
<1>2. Stopping
  BY <1>1 DEF Stopping, Exit
<1>3. QED
  BY <1>2 DEF Kinds

(* The end of the process on an error of its database.                     *)
LEMMA FailingStep ==
    ASSUME NEW k, pc # "exited", Exit("database"), has_route(database, k),
           move_route_to_garbage_fails(database, k),
           database' = move_route_to_garbage(database, k)
    PROVE  Kinds
<1>1. Failing
  BY DEF Failing, Exit, move_route_to_garbage_fails, move_route_to_garbage
<1>2. QED
  BY <1>1 DEF Kinds

(* An advertisement that fails changes nothing in the database.            *)
LEMMA FailedSend ==
    ASSUME NEW changed_only, send_multicast_advertisement_fails(changed_only)
    PROVE  database' = database
BY DEF send_multicast_advertisement_fails

(* Starting.                                                               *)
LEMMA KindsStart ==
    ASSUME TypeOK, DatabaseInv, Start
    PROVE  Kinds
<1>1. CASE SetupNetwork
  <2>1. Head(networks) \in Network \cup {InvalidNetwork}
    BY <1>1, HeadTailProperties DEF SetupNetwork, TypeOK, TypeWork
  <2>2. PICK network \in Network \cup {InvalidNetwork} :
            /\ ~setup_advertised_network_fails(database, network)
            /\ database' = setup_advertised_network(database, network)
    BY <1>1, <2>1 DEF SetupNetwork
  <2>3. /\ network.key \in RouteKey /\ network.dev \in Device
        /\ AddingLocal(network.key, network.dev)
    BY <1>1, <2>2, AddLocalStep
    DEF SetupNetwork, AddingLocal, Step, rib, wire, timers
  <2>4. QED
    BY <2>3 DEF Kinds
<1>2. CASE SetupNetworkFails \/ StartFails
  BY <1>2, StoppingStep DEF SetupNetworkFails, StartFails
<1>3. CASE Run
  BY <1>3, IdlingSame DEF Run, CollectionGoesOn, rib, wire
<1>4. QED
  BY <1>1, <1>2, <1>3 DEF Start

(* The timers.                                                             *)
LEMMA KindsTimer ==
    ASSUME TypeOK, DatabaseInv, Timer
    PROVE  Kinds
<1>1. CASE RequestWarmupTimer \/ TriggeredUpdateLockTimer
  BY <1>1, IdlingSame, StoppingStep
  DEF RequestWarmupTimer, TriggeredUpdateLockTimer, CollectionGoesOn, rib, wire
<1>2. CASE UpdateTimer
  <2>1. CASE send_multicast_advertisement(FALSE) /\ Step("trigger")
    BY <1>2, <2>1 DEF UpdateTimer, Kinds, Updating, Step, rib, timers
  <2>2. CASE send_multicast_advertisement_fails(FALSE) /\ Exit("io")
    BY <1>2, <2>2, FailedSend, StoppingStep DEF UpdateTimer
  <2>3. QED
    BY <1>2, <2>1, <2>2
    DEF UpdateTimer, send_multicast_advertisement,
        send_multicast_advertisement_fails
<1>3. CASE TimeoutTimer
  BY <1>3 DEF Kinds
<1>4. CASE GarbageCollectionTimer
  <2>1. Aged(database, database') /\ NotLonger(database, database')
    BY <1>4, AgedRemoveExpired DEF GarbageCollectionTimer, TypeOK
  <2>2. CollectionGoesOn
    BY <1>4, Zenon DEF GarbageCollectionTimer, CollectionGoesOn
  <2>3. QED
    BY <1>4, <2>1, <2>2, IdlingStep DEF GarbageCollectionTimer, rib, wire
<1>5. QED
  BY <1>1, <1>2, <1>3, <1>4 DEF Timer

(* Receiving, and what HTTP clients ask.                                   *)
LEMMA KindsReceive ==
    ASSUME TypeOK, DatabaseInv, Receive \/ Http
    PROVE  Kinds
<1>1. CASE Receive
  <2>1. UNCHANGED <<database, kernel, preexisting, advertised>>
        /\ CollectionGoesOn /\ pc = "select"
    BY <1>1 DEF Receive, ReceiveResponse, ReceiveRequest, ReceiveMalformed,
                ReceiveForeignResponse, ReceiveTasksStopped, timers, rib, wire,
                CollectionGoesOn
  <2>2. Step("response") \/ Step("trigger") \/ Exit("io") \/ Exit("packet")
    BY <1>1 DEF Receive, ReceiveResponse, ReceiveRequest, ReceiveMalformed,
                ReceiveForeignResponse, ReceiveTasksStopped
  <2>3. QED
    BY <2>1, <2>2, IdlingSame, StoppingStep
<1>2. CASE Http
  <2>1. /\ UNCHANGED <<kernel, preexisting, advertised, exit,
                       garbage_collection_timer>>
        /\ CollectionGoesOn /\ pc = "select" /\ Step("trigger")
    BY <1>2 DEF Http, HttpGetRoutes, HttpAddLocalRoute, timers, rib, wire,
                CollectionGoesOn, Step
  <2>2. CASE database' = database
    BY <2>1, <2>2, IdlingSame
  <2>3. CASE database' # database
    <3>1. PICK network \in HttpNetwork :
              /\ ~setup_advertised_network_fails(database, network)
              /\ database' = setup_advertised_network(database, network)
      BY <1>2, <2>3 DEF Http, HttpGetRoutes, HttpAddLocalRoute
    <3>2. network \in Network \cup {InvalidNetwork}
      BY InputAssumption
    <3>3. /\ network.key \in RouteKey /\ network.dev \in Device
          /\ AddingLocal(network.key, network.dev)
      BY <2>1, <3>1, <3>2, AddLocalStep DEF AddingLocal, Step
    <3>4. QED
      BY <3>3 DEF Kinds
  <2>4. QED
    BY <2>2, <2>3
<1>3. QED
  BY <1>1, <1>2

(* The entries of a packet.                                                *)
LEMMA KindsHandleEntry ==
    ASSUME TypeOK, DatabaseInv, DatabaseInv', HandleEntry
    PROVE  Kinds
<1>1. CASE SkipInvalidEntry \/ IgnorePoison \/ KeepRoute \/ PacketDone
  BY <1>1, IdlingSame
  DEF SkipInvalidEntry, IgnorePoison, KeepRoute, FromAnotherNextHop, AtPoison,
      AtReachable, AtEntry, PacketDone, CollectionGoesOn, timers, rib, wire
<1>2. CASE RefreshRoute
  <2>1. AtEntry
    BY <1>2 DEF RefreshRoute, FromCurrentNextHop, AtReachable
  <2>2. /\ Aged(database, database') /\ NotLonger(database, database')
        /\ database'.garbage_routes = database.garbage_routes
    BY <1>2, <2>1, EntryKnown, AgedRefresh DEF RefreshRoute, TypeOK
  <2>3. QED
    BY <1>2, <2>1, <2>2, IdlingStep
    DEF RefreshRoute, AtEntry, CollectionGoesOn, timers, rib, wire
<1>3. CASE HandlePoison
  <2>1. pc = "response" /\ exit = "running"
    BY <1>3 DEF HandlePoison, AtPoison, AtEntry, TypeOK, TypeControl
  <2>2. CASE exit' = exit
    <3>1. /\ Key \in RouteKey /\ AtEntry
          /\ OldRoute.is_local => packet.source = Unspecified
          /\ OldRoute.next_hop = packet.source
          /\ Moved(database, database', Key)
          /\ kernel' = delete_route_from_kernel(kernel, Key, OldRoute)
          /\ Step("response")
      BY <1>3, <2>2, PoisonStep
    <3>3. Withdrawing(Key)
      BY <1>3, <2>1, <3>1
      DEF HandlePoison, Withdrawing, OldRoute, Step, timers, wire
    <3>4. QED
      BY <3>1, <3>3 DEF Kinds
  <2>3. CASE exit' # exit
    <3>1. \/ Exit("io") /\ database' = database
          \/ /\ Exit("database") /\ has_route(database, Key)
             /\ move_route_to_garbage_fails(database, Key)
             /\ database' = move_route_to_garbage(database, Key)
      BY <1>3, <2>1, <2>3 DEF HandlePoison, StepUnless, Step
    <3>2. QED
      BY <2>1, <3>1, StoppingStep, FailingStep
  <2>4. QED
    BY <2>2, <2>3
<1>4. CASE LearnRoute
  <2>1. Learning
    BY <1>4, LearnStep DEF LearnRoute, Learning, Step, timers, rib, wire
  <2>2. QED
    BY <2>1 DEF Kinds
<1>5. CASE UpdateRoute \/ SwitchRoute
  <2>1. AtReachable
    BY <1>5 DEF UpdateRoute, SwitchRoute, FromCurrentNextHop, FromAnotherNextHop
  <2>2. Key \in RouteKey /\ pc = "response" /\ exit = "running"
    BY <2>1, ReachableEntry
  <2>3. CASE exit' = exit
    <3>1. UNCHANGED <<preexisting, advertised, garbage_collection_timer>>
      BY <1>5 DEF UpdateRoute, SwitchRoute, replace_route_from_response, timers,
                  wire
    <3>2. Replacing
      BY <1>5, <2>1, <2>3, <3>1, ReplaceStep DEF Replacing, Step
    <3>3. QED
      BY <3>2 DEF Kinds
  <2>4. CASE exit' # exit
    <3>1. PICK db : /\ db \in {database, refresh_route_timeout(database, Key)}
                    /\ replace_route_from_response(db)
      BY <1>5 DEF UpdateRoute, SwitchRoute
    <3>2. /\ IsDatabase(db) /\ has_route(db, Key)
          /\ \/ db = database
             \/ /\ Aged(database, db)
                /\ db.garbage_routes = database.garbage_routes
      <4>1. has_route(database, Key)
        BY <1>5 DEF UpdateRoute, SwitchRoute, FromCurrentNextHop,
                    FromAnotherNextHop
      <4>2. QED
        BY <2>2, <3>1, <4>1, RefreshProperties, AgedRefresh
        DEF TypeOK, has_route
    <3>3. RouteEntry \in RipEntry /\ packet.dev \in Device
      BY <2>1, ReachableEntry
    <3>4. /\ ~remove_route_fails(db, Key)
          /\ ~add_route_fails(remove_route(db, Key), Key)
      BY <2>2, <3>2, <3>3, OnlyAtReplace
    <3>5. Exit("io") /\ database' = db
      BY <2>4, <3>1, <3>4 DEF replace_route_from_response, StepUnless, Step
    <3>6. QED
      BY <2>2, <3>2, <3>5, StoppingStep
  <2>5. QED
    BY <2>3, <2>4
<1>6. CASE InstallRoute
  <2>1. CASE Exit("io")
    BY <1>6, <2>1, StoppingStep DEF InstallRoute
  <2>2. CASE ~Exit("io")
    BY <1>6, <2>2 DEF InstallRoute, Installing, Kinds, Step, timers, wire
  <2>3. QED
    BY <2>1, <2>2
<1>7. QED
  BY <1>1, <1>2, <1>3, <1>4, <1>5, <1>6 DEF HandleEntry

(* The timeout loop.                                                       *)
LEMMA KindsTimeOutRoute ==
    ASSUME TypeOK, DatabaseInv, DatabaseInv', NEW p \in pending, TimeOutRoute(p)
    PROVE  Kinds
<1>1. pc = "timeout" /\ exit = "running"
  BY DEF TimeOutRoute, TypeOK, TypeControl
<1>2. CASE exit' = exit
  <2>1. /\ p.key \in RouteKey
        /\ p.route = database.ok_routes[p.key] /\ ~p.route.is_local
        /\ Moved(database, database', p.key)
        /\ kernel' = delete_route_from_kernel(kernel, p.key, p.route)
        /\ pending' = pending \ {p}
        /\ Step(IF pending' = {} THEN "trigger" ELSE "timeout")
        /\ garbage_collection_timer' =
               (garbage_collection_timer \/ pc' = "trigger")
    BY <1>2, TimeOutStep
  <2>2. p = [key |-> p.key, route |-> p.route]
    BY DEF TypeOK, TypeWork
  <2>3. UNCHANGED <<preexisting, advertised>>
    BY DEF TimeOutRoute, wire
  <2>4. /\ pc' \in {"timeout", "trigger"}
        /\ pc' = "trigger" => pending' = {} /\ garbage_collection_timer'
    BY <2>1 DEF Step
  <2>5. Withdrawing(p.key)
    BY <1>1, <1>2, <2>1, <2>2, <2>3, <2>4 DEF Withdrawing
  <2>6. QED
    BY <2>1, <2>5 DEF Kinds
<1>3. CASE exit' # exit
  <2>1. \/ Exit("io") /\ database' = database
        \/ /\ Exit("database")
           /\ move_route_to_garbage_fails(database, p.key)
           /\ database' = move_route_to_garbage(database, p.key)
    BY <1>1, <1>3 DEF TimeOutRoute, StepUnless, Step
  <2>2. has_route(database, p.key)
    BY <1>1 DEF DatabaseInv, TimeoutWork, has_route
  <2>3. QED
    BY <1>1, <2>1, <2>2, StoppingStep, FailingStep
<1>4. QED
  BY <1>2, <1>3

(* Every step is of one of the kinds.                                      *)
LEMMA NextKinds ==
    ASSUME TypeOK, DatabaseInv, DatabaseInv', [Next]_vars
    PROVE  Kinds
<1>1. CASE MaybeSendTriggeredUpdate
  <2>1. CASE UNCHANGED <<database, advertised>> /\ Step("select")
    BY <1>1, <2>1, IdlingSame
    DEF MaybeSendTriggeredUpdate, CollectionGoesOn, rib
  <2>2. CASE send_multicast_advertisement(TRUE) /\ Step("select")
    BY <1>1, <2>2 DEF MaybeSendTriggeredUpdate, Kinds, Updating, Step, rib
  <2>3. CASE send_multicast_advertisement_fails(TRUE) /\ Exit("io")
    BY <1>1, <2>3, FailedSend, StoppingStep DEF MaybeSendTriggeredUpdate
  <2>4. QED
    BY <1>1, <2>1, <2>2, <2>3 DEF MaybeSendTriggeredUpdate
<1>2. CASE Shutdown \/ Farewell \/ Restart \/ UNCHANGED vars
  BY <1>2 DEF Kinds
<1>3. CASE \E p \in pending : CleanUpRoute(p)
  BY <1>3 DEF CleanUpRoute, Kinds, CleaningUp, Step
<1>4. CASE CleanedUp
  BY <1>4 DEF CleanedUp, Kinds, CleaningUp, Exit, rib
<1>5. CASE Elapse
  <2>1. /\ Aged(database, database') /\ NotLonger(database, database')
        /\ DOMAIN database'.garbage_routes = DOMAIN database.garbage_routes
    BY <1>5, AgedGrowOlder DEF Elapse, TypeOK
  <2>2. pc = "select" /\ Step("select")
    BY <1>5 DEF Elapse, Step
  <2>3. QED
    BY <1>5, <2>1, <2>2, IdlingStep
    DEF Elapse, CollectionGoesOn, timers, rib, wire
<1>6. CASE Kill
  BY <1>6, StoppingStep DEF Kill
<1>7. QED
  BY <1>1, <1>2, <1>3, <1>4, <1>5, <1>6, KindsStart, KindsTimer, KindsReceive,
     KindsHandleEntry, KindsTimeOutRoute
  DEF Next, Handle, Leave, Terminated

-----------------------------------------------------------------------------
(* The inductive invariants.                                               *)

(* A change that is still to be told is never without its flag.            *)
Flagged(db) ==
    ~db.any_route_changed =>
        /\ \A k \in DOMAIN db.ok_routes : ~db.ok_routes[k].changed
        /\ \A k \in DOMAIN db.garbage_routes : ~db.garbage_routes[k].changed

(* A route that timed out waits in the timeout loop; its garbage is left   *)
(* with an armed timer when that loop is over.                             *)
TimeoutInv ==
    /\ pc = "setup" => DOMAIN database.garbage_routes = {}
    /\ pc \notin Leaving =>
           \A k \in DOMAIN database.ok_routes :
               is_timed_out(database.ok_routes[k]) =>
                   /\ pc = "timeout"
                   /\ [key |-> k, route |-> database.ok_routes[k]] \in pending
    /\ pc \notin Leaving \cup {"timeout"} =>
           \A k \in DOMAIN database.garbage_routes :
               is_timed_out(database.garbage_routes[k])
                   => garbage_collection_timer

(* What heard says of k on d agrees with a route that is not kept from d   *)
(* by split horizon.                                                       *)
Matches(route, k, d, heard) == route.dev # d => heard[d][k] = route.metric

(* What was heard agrees with every remote route, active or garbage, that  *)
(* is not marked as changed, save the active ones in lost.                 *)
Informed(db, heard, lost) ==
    \A d \in RipDevice, k \in RouteKey :
        /\ (/\ k \in DOMAIN db.ok_routes \ lost
            /\ ~db.ok_routes[k].is_local /\ ~db.ok_routes[k].changed)
               => Matches(db.ok_routes[k], k, d, heard)
        /\ (/\ k \in DOMAIN db.garbage_routes \ DOMAIN db.ok_routes
            /\ ~db.garbage_routes[k].changed)
               => Matches(db.garbage_routes[k], k, d, heard)

Poisoned(map) == \A k \in DOMAIN map : map[k].metric = Infinity

InformedInv ==
    /\ Poisoned(database.garbage_routes)
    /\ exit = "running" => Informed(database, advertised, taken)

(* The farewell poisons every route, and is all that is said afterwards.   *)
FarewellInv ==
    /\ pc \in {"farewell", "cleanup"} \/ exit = "ok" =>
           Poisoned(database.ok_routes) /\ Poisoned(database.garbage_routes)
    /\ pc = "cleanup" \/ exit = "ok" =>
           (farewell_sent =>
               \A d \in RipDevice, k \in RouteKey :
                   k \in get_routes_for_advertisement(database, d, FALSE) =>
                       advertised[d][k] = Infinity)

-----------------------------------------------------------------------------
(* Changes are flagged, and come out of select! again.                     *)

(* The methods keep the flag.                                              *)
LEMMA FlaggedRelations ==
    ASSUME NEW db, NEW db2, Flagged(db),
           \/ Aged(db, db2)
           \/ \E k, route : Put(db, db2, k, route)
           \/ \E k : Moved(db, db2, k)
    PROVE  Flagged(db2)
BY DEF Flagged, Aged, Alike, Put, Moved

(* The routes are told: their marks are cleared, and nothing else changes. *)
Unmarked(route, route2) ==
    /\ SameForwarding(route, route2)
    /\ route2.timeout_cnt = route.timeout_cnt
    /\ ~route2.changed

Cleared(db, db2) ==
    /\ DOMAIN db2.ok_routes = DOMAIN db.ok_routes
    /\ DOMAIN db2.garbage_routes = DOMAIN db.garbage_routes
    /\ \A k \in DOMAIN db.ok_routes :
           Unmarked(db.ok_routes[k], db2.ok_routes[k])
    /\ \A k \in DOMAIN db.garbage_routes :
           Unmarked(db.garbage_routes[k], db2.garbage_routes[k])

(* mark_all_routes_as_unchanged, which returns early without the flag.     *)
LEMMA MarkCleared ==
    ASSUME NEW db, IsDatabase(db), Flagged(db)
    PROVE  Cleared(db, mark_all_routes_as_unchanged(db))
<1>1. CASE ~db.any_route_changed
  <2>1. mark_all_routes_as_unchanged(db) = db
    BY <1>1 DEF mark_all_routes_as_unchanged
  <2>2. Cleared(db, db)
    BY <1>1 DEF Flagged, Cleared, Unmarked, SameForwarding
  <2>3. QED
    BY <2>1, <2>2
<1>2. CASE db.any_route_changed
  <2> DEFINE db2 == mark_all_routes_as_unchanged(db)
  <2>1. /\ DOMAIN db2.ok_routes = DOMAIN db.ok_routes
        /\ DOMAIN db2.garbage_routes = DOMAIN db.garbage_routes
        /\ \A x \in DOMAIN db.ok_routes :
               db2.ok_routes[x] = [db.ok_routes[x] EXCEPT !.changed = FALSE]
        /\ \A x \in DOMAIN db.garbage_routes :
               db2.garbage_routes[x] =
                   [db.garbage_routes[x] EXCEPT !.changed = FALSE]
    BY <1>2, MarkUnchangedProperties
  <2>2. /\ \A x \in DOMAIN db.ok_routes : db.ok_routes[x] \in RipDbEntry
        /\ \A x \in DOMAIN db.garbage_routes : db.garbage_routes[x] \in RipDbEntry
    BY DatabaseElim
  <2>3. \A route \in RipDbEntry :
            Unmarked(route, [route EXCEPT !.changed = FALSE])
    BY DEF Unmarked, SameForwarding, RipDbEntry
  <2> HIDE DEF db2
  <2>4. Cleared(db, db2)
    BY <2>1, <2>2, <2>3 DEF Cleared
  <2>5. QED
    BY <2>4 DEF db2
<1>3. QED
  BY <1>1, <1>2

(* The database after an advertisement that was sent or not.               *)
LEMMA SendMarks ==
    ASSUME NEW changed_only \in BOOLEAN,
           Updating(changed_only) \/ Farewell
    PROVE  database' \in {database, mark_all_routes_as_unchanged(database)}
BY DEF Updating, Farewell, send_multicast_advertisement,
       send_multicast_advertisement_fails

(* poison_all_routes raises the flag, unless there is no route at all.     *)
LEMMA FlaggedPoison == ASSUME NEW db PROVE Flagged(poison_all_routes(db))
<1>1. CASE DOMAIN db.ok_routes = {} /\ DOMAIN db.garbage_routes = {}
  BY <1>1 DEF poison_all_routes, Flagged
<1>2. CASE ~(DOMAIN db.ok_routes = {} /\ DOMAIN db.garbage_routes = {})
  BY <1>2 DEF poison_all_routes, Flagged
<1>3. QED
  BY <1>1, <1>2

(* Every step keeps changes flagged.                                       *)
LEMMA FlaggedNext ==
    ASSUME TypeOK, Flagged(database), Kinds
    PROVE  Flagged(database')
<1>1. CASE Idling \/ Stopping
  BY <1>1, FlaggedRelations DEF Idling, Stopping
<1>2. CASE \E k \in RouteKey, dev \in Device : AddingLocal(k, dev)
  BY <1>2, FlaggedRelations DEF AddingLocal
<1>3. CASE Learning \/ Replacing
  BY <1>3, FlaggedRelations DEF Learning, Replacing
<1>4. CASE Installing \/ CleaningUp \/ UNCHANGED vars
  BY <1>4 DEF Installing, CleaningUp, vars
<1>5. CASE TimeoutTimer
  BY <1>5, AgedCountSilence, FlaggedRelations DEF TimeoutTimer, TypeOK
<1>6. CASE \E k \in RouteKey : Withdrawing(k)
  BY <1>6, FlaggedRelations DEF Withdrawing
<1>7. CASE \E changed_only \in BOOLEAN : Updating(changed_only) \/ Farewell
  <2>1. Cleared(database, mark_all_routes_as_unchanged(database))
    BY MarkCleared DEF TypeOK
  <2>2. Flagged(mark_all_routes_as_unchanged(database))
    BY <2>1 DEF Cleared, Unmarked, Flagged
  <2>3. QED
    BY <1>7, <2>2, SendMarks
<1>8. CASE Farewell
  BY <1>7, <1>8
<1>9. CASE Shutdown
  BY <1>9, FlaggedPoison DEF Shutdown
<1>10. CASE Restart
  BY <1>10, NewProperties DEF Restart, Flagged
<1>11. CASE Failing
  BY <1>11 DEF Failing, Flagged
<1>12. QED
  BY <1>1, <1>2, <1>3, <1>4, <1>5, <1>6, <1>7, <1>8, <1>9, <1>10, <1>11
  DEF Kinds

(* No interleaving leaves a route marked as changed in a database whose    *)
(* flag says that there is nothing to advertise: maybe_send_triggered_     *)
(* update, which looks at the flag alone, overlooks no change.             *)
THEOREM ChangedIsFlaggedHolds == Spec => []ChangedIsFlagged
<1>1. Init => Flagged(database)
  BY NewProperties DEF Init, Flagged
<1>2. TypeOK /\ DatabaseInv /\ DatabaseInv' /\ Flagged(database) /\ [Next]_vars
          => Flagged(database)'
  BY NextKinds, FlaggedNext
<1>3. Flagged(database) => ChangedIsFlagged
  BY DEF Flagged, ChangedIsFlagged
<1>4. QED
  BY <1>1, <1>2, <1>3, TypeCorrect, DatabaseInvariant, PTL DEF Spec

(* Whoever goes back to select! has looked at the flag: the tail of the    *)
(* loop, the start of run(), or nothing changed while select! waited.      *)
LEMMA BackToSelect ==
    ASSUME TypeOK, [Next]_vars, pc' = "select"
    PROVE  \/ Run \/ MaybeSendTriggeredUpdate
           \/ Elapse \/ UNCHANGED vars
<1>1. ~(SetupNetwork \/ SetupNetworkFails \/ StartFails)
  BY DEF SetupNetwork, SetupNetworkFails, StartFails, Step, Exit
<1>2. ~Timer
  BY DEF Timer, RequestWarmupTimer, UpdateTimer, TriggeredUpdateLockTimer,
         TimeoutTimer, GarbageCollectionTimer, Step, Exit
<1>3. ~Receive /\ ~Http
  BY DEF Receive, ReceiveResponse, ReceiveRequest, ReceiveMalformed,
         ReceiveForeignResponse, ReceiveTasksStopped, Http, HttpGetRoutes,
         HttpAddLocalRoute, Step, Exit
<1>4. ~HandleEntry
  BY DEF HandleEntry, SkipInvalidEntry, IgnorePoison, HandlePoison, LearnRoute,
         RefreshRoute, UpdateRoute, SwitchRoute, KeepRoute, InstallRoute,
         PacketDone, replace_route_from_response, StepUnless, Step, Exit
<1>5. ~(\E p \in pending : TimeOutRoute(p)) /\ ~Leave
  BY DEF TimeOutRoute, Leave, Farewell, CleanUpRoute, CleanedUp, StepUnless,
         Step, Exit
<1>6. ~Shutdown /\ ~Kill /\ ~Restart
  BY DEF Shutdown, Kill, Restart, Step, Exit
<1>7. QED
  BY <1>1, <1>2, <1>3, <1>4, <1>5, <1>6 DEF Next, Start, Handle, Terminated

(* Every step keeps a change from being stranded.                          *)
LEMMA NotStrandedNext ==
    ASSUME TypeOK, ChangeNotStranded, [Next]_vars
    PROVE  ChangeNotStranded'
<1> SUFFICES ASSUME pc' = "select"
             PROVE  ChangeNotStranded'
  BY DEF ChangeNotStranded
<1>1. CASE Run
  BY <1>1 DEF Run, ChangeNotStranded
<1>2. CASE MaybeSendTriggeredUpdate
  BY <1>2 DEF MaybeSendTriggeredUpdate, Exit, ChangeNotStranded
<1>3. CASE Elapse
  <2>1. database'.any_route_changed = database.any_route_changed
    BY <1>3, AgedGrowOlder DEF Elapse, TypeOK, Aged
  <2>2. QED
    BY <1>3, <2>1 DEF Elapse, timers, ChangeNotStranded
<1>4. CASE UNCHANGED vars
  BY <1>4 DEF vars, timers, ChangeNotStranded
<1>5. QED
  BY <1>1, <1>2, <1>3, <1>4, BackToSelect

(* The daemon never waits in select! on a change that no timer will bring  *)
(* out: the lock of triggered updates is armed, or the request warmup.     *)
THEOREM ChangeNotStrandedHolds == Spec => []ChangeNotStranded
<1>1. Init => ChangeNotStranded
  BY DEF Init, ChangeNotStranded
<1>2. TypeOK /\ ChangeNotStranded /\ [Next]_vars => ChangeNotStranded'
  BY NotStrandedNext
<1>3. QED
  BY <1>1, <1>2, TypeCorrect, PTL DEF Spec

-----------------------------------------------------------------------------
(* No timeout is missed.                                                   *)

(* A new route has not timed out ...                                       *)
LEMMA NewNotTimedOut ==
    ASSUME NEW entry, NEW dev
    PROVE  ~is_timed_out(NewRemote(entry, dev))
BY TimeAssumption DEF is_timed_out, NewRemote, db_entry

(* ... and a local one never does.                                         *)
LEMMA LocalNotTimedOut == ASSUME NEW dev PROVE ~is_timed_out(NewLocal(dev))
BY DEF is_timed_out, NewLocal, db_entry

(* A poisoned route keeps its count.                                       *)
LEMMA PoisonedTimedOut ==
    ASSUME NEW route \in RipDbEntry
    PROVE  is_timed_out(poisoned(route)) <=> is_timed_out(route)
BY DEF is_timed_out, poisoned, RipDbEntry

(* Before the shutdown and out of the timeout loop TimeoutInv needs only   *)
(* this.                                                                   *)
LEMMA TimeoutInvElse ==
    ASSUME pc' # "timeout",
           pc' = "setup" => DOMAIN database'.garbage_routes = {},
           \A k \in DOMAIN database'.ok_routes :
               ~is_timed_out(database'.ok_routes[k]),
           \A k \in DOMAIN database'.garbage_routes :
               is_timed_out(database'.garbage_routes[k])
                   => garbage_collection_timer'
    PROVE  TimeoutInv'
BY DEF TimeoutInv

(* Every step keeps the timeouts served.                                   *)
LEMMA TimeoutNext ==
    ASSUME TypeOK, Flagged(database), TimeoutInv, Kinds
    PROVE  TimeoutInv'
<1> USE DEF Leaving
<1>1. CASE Idling
  <2>1. \A k \in DOMAIN database'.ok_routes :
            ~is_timed_out(database'.ok_routes[k])
    BY <1>1 DEF Idling, Aged, NotLonger, TimeoutInv
  <2>2. \A k \in DOMAIN database'.garbage_routes :
            is_timed_out(database'.garbage_routes[k])
                => garbage_collection_timer'
    BY <1>1 DEF Idling, Aged, NotLonger, CollectionGoesOn, has_garbage_routes,
                TimeoutInv
  <2>3. QED
    BY <1>1, <2>1, <2>2, TimeoutInvElse DEF Idling
<1>2. ASSUME NEW k \in RouteKey, NEW dev \in Device, AddingLocal(k, dev)
      PROVE  TimeoutInv'
  <2>1. \A x \in DOMAIN database.ok_routes : ~is_timed_out(database.ok_routes[x])
    BY <1>2 DEF AddingLocal, TimeoutInv
  <2>2. ~is_timed_out(NewLocal(dev))
    BY LocalNotTimedOut
  <2>3. \A x \in DOMAIN database'.ok_routes :
            ~is_timed_out(database'.ok_routes[x])
    BY <1>2, <2>1, <2>2 DEF AddingLocal, Put
  <2>4. QED
    BY <1>2, <2>3, TimeoutInvElse DEF AddingLocal, TimeoutInv
<1>3. CASE Learning \/ Replacing
  <2>1. pc = "response" /\ pc' = "install"
    BY <1>3 DEF Learning, Replacing, AtReachable, AtEntry
  <2>2. \A x \in DOMAIN database'.ok_routes :
            ~is_timed_out(database'.ok_routes[x])
    BY <1>3, <2>1, NewNotTimedOut DEF Learning, Replacing, Put, TimeoutInv
  <2>3. \A x \in DOMAIN database'.garbage_routes :
            is_timed_out(database'.garbage_routes[x])
                => garbage_collection_timer'
    BY <1>3, <2>1 DEF Learning, Replacing, Put, TimeoutInv
  <2>4. QED
    BY <2>1, <2>2, <2>3, TimeoutInvElse
<1>4. CASE Installing
  BY <1>4 DEF Installing, TimeoutInv
<1>5. CASE TimeoutTimer
  <2>1. \A k \in DOMAIN database'.ok_routes :
            is_timed_out(database'.ok_routes[k]) =>
                [key |-> k, route |-> database'.ok_routes[k]] \in pending'
    BY <1>5, CollectProperties DEF TimeoutTimer, TypeOK
  <2>2. database'.garbage_routes = database.garbage_routes
    BY <1>5, AgedCountSilence DEF TimeoutTimer, TypeOK
  <2>3. QED
    BY <1>5, <2>1, <2>2 DEF TimeoutTimer, Step, timers, TimeoutInv
<1>6. ASSUME NEW k \in RouteKey, Withdrawing(k)
      PROVE  TimeoutInv'
  <2>1. database.ok_routes[k] \in RipDbEntry
    BY <1>6, DatabaseElim DEF Withdrawing, Moved, TypeOK
  <2>2. CASE pc = "response"
    <3>1. ~is_timed_out(poisoned(database.ok_routes[k]))
      BY <1>6, <2>1, <2>2, PoisonedTimedOut DEF Withdrawing, Moved, TimeoutInv
    <3>2. \A x \in DOMAIN database'.ok_routes :
              ~is_timed_out(database'.ok_routes[x])
      BY <1>6, <2>2 DEF Withdrawing, Moved, TimeoutInv
    <3>3. \A x \in DOMAIN database'.garbage_routes :
              is_timed_out(database'.garbage_routes[x])
                  => garbage_collection_timer'
      BY <1>6, <2>2, <3>1 DEF Withdrawing, Moved, TimeoutInv
    <3>4. QED
      BY <1>6, <2>2, <3>2, <3>3, TimeoutInvElse DEF Withdrawing
  <2>3. CASE pc = "timeout"
    <3>1. \A x \in DOMAIN database'.ok_routes :
              is_timed_out(database'.ok_routes[x]) =>
                  [key |-> x, route |-> database'.ok_routes[x]] \in pending'
      BY <1>6, <2>3 DEF Withdrawing, Moved, TimeoutInv
    <3>2. /\ pc' \in {"timeout", "trigger"}
          /\ pc' = "trigger" => pending' = {} /\ garbage_collection_timer'
      BY <1>6, <2>3 DEF Withdrawing
    <3>3. QED
      BY <3>1, <3>2 DEF TimeoutInv
  <2>4. QED
    BY <1>6, <2>2, <2>3 DEF Withdrawing
<1>7. ASSUME NEW changed_only \in BOOLEAN, Updating(changed_only)
      PROVE  TimeoutInv'
  <2>1. database' = mark_all_routes_as_unchanged(database)
    BY <1>7 DEF Updating, send_multicast_advertisement
  <2>2. Cleared(database, database')
    BY <2>1, MarkCleared DEF TypeOK
  <2>3. \A k \in DOMAIN database'.ok_routes :
            ~is_timed_out(database'.ok_routes[k])
    BY <1>7, <2>2 DEF Updating, Cleared, Unmarked, SameForwarding, is_timed_out,
                      TimeoutInv
  <2>4. \A k \in DOMAIN database'.garbage_routes :
            is_timed_out(database'.garbage_routes[k])
                => garbage_collection_timer'
    BY <1>7, <2>2 DEF Updating, Cleared, Unmarked, SameForwarding, is_timed_out,
                      TimeoutInv
  <2>5. QED
    BY <1>7, <2>3, <2>4, TimeoutInvElse DEF Updating
<1>8. CASE Shutdown \/ Farewell \/ CleaningUp \/ Stopping \/ Failing
  BY <1>8 DEF Shutdown, Farewell, CleaningUp, Stopping, Failing, Step,
              TimeoutInv
<1>9. CASE Restart
  BY <1>9, NewProperties DEF Restart, TimeoutInv
<1>10. CASE UNCHANGED vars
  BY <1>10 DEF vars, timers, work, TimeoutInv
<1>11. QED
  BY <1>1, <1>2, <1>3, <1>4, <1>5, <1>6, <1>7, <1>8, <1>9, <1>10 DEF Kinds

(* Whenever the daemon is back in select!, every remote route that reached *)
(* the limit of silence is out of the active routes, and the garbage that  *)
(* timeouts left has its collection timer armed.                           *)
THEOREM TimeoutsServedHolds == Spec => []TimeoutsServed
<1>1. Init => Flagged(database) /\ TimeoutInv
  BY NewProperties DEF Init, Flagged, TimeoutInv
<1>2. TypeOK /\ DatabaseInv /\ DatabaseInv' /\ Flagged(database) /\ TimeoutInv
          /\ [Next]_vars => Flagged(database)' /\ TimeoutInv'
  BY NextKinds, FlaggedNext, TimeoutNext
<1>3. TimeoutInv => TimeoutsServed
  BY DEF TimeoutInv, TimeoutsServed, Leaving
<1>4. QED
  BY <1>1, <1>2, <1>3, TypeCorrect, DatabaseInvariant, PTL DEF Spec

-----------------------------------------------------------------------------
(* What listeners heard is what the database holds.                        *)

(* What one listener has heard after an advertisement.                     *)
LEMMA HeardBy ==
    ASSUME NEW sent, NEW changed_only, NEW d \in RipDevice, NEW k \in RouteKey
    PROVE  heard_after(sent, changed_only)[d][k] =
               IF d \in sent
               THEN last_metric(database, k, d, changed_only, advertised[d][k])
               ELSE advertised[d][k]
BY DEF heard_after

(* An advertisement never makes a listener wrong about a route that it was *)
(* right about, and one that reaches everybody makes it right about every  *)
(* route: those it leaves out are not marked as changed.                   *)
LEMMA HeardInformed ==
    ASSUME NoOverlap(database, taken), Informed(database, advertised, taken),
           NEW sent, NEW changed_only \in BOOLEAN,
           NEW d \in RipDevice, NEW k \in RouteKey
    PROVE  LET heard == heard_after(sent, changed_only)
           IN  /\ (/\ k \in DOMAIN database.ok_routes \ taken
                   /\ ~database.ok_routes[k].is_local
                   /\ d \in sent \/ ~database.ok_routes[k].changed)
                      => Matches(database.ok_routes[k], k, d, heard)
               /\ (/\ k \in DOMAIN database.garbage_routes
                                \ DOMAIN database.ok_routes
                   /\ d \in sent \/ ~database.garbage_routes[k].changed)
                      => Matches(database.garbage_routes[k], k, d, heard)
<1> DEFINE heard == heard_after(sent, changed_only)
<1>1. heard[d][k] =
          IF d \in sent
          THEN last_metric(database, k, d, changed_only, advertised[d][k])
          ELSE advertised[d][k]
  BY HeardBy
<1> HIDE DEF heard
<1>2. ASSUME k \in DOMAIN database.ok_routes \ taken, ~database.ok_routes[k].is_local,
             d \in sent \/ ~database.ok_routes[k].changed,
             database.ok_routes[k].dev # d
      PROVE  heard[d][k] = database.ok_routes[k].metric
  <2>1. k \notin DOMAIN database.garbage_routes
    BY <1>2 DEF NoOverlap
  <2>2. ~database.ok_routes[k].changed =>
            advertised[d][k] = database.ok_routes[k].metric
    BY <1>2 DEF Informed, Matches
  <2>3. QED
    BY <1>1, <1>2, <2>1, <2>2 DEF last_metric, is_advertised
<1>3. ASSUME k \in DOMAIN database.garbage_routes \ DOMAIN database.ok_routes,
             d \in sent \/ ~database.garbage_routes[k].changed,
             database.garbage_routes[k].dev # d
      PROVE  heard[d][k] = database.garbage_routes[k].metric
  <2>1. ~database.garbage_routes[k].changed =>
            advertised[d][k] = database.garbage_routes[k].metric
    BY <1>3 DEF Informed, Matches
  <2>2. QED
    BY <1>1, <1>3, <2>1 DEF last_metric, is_advertised
<1>4. QED
  BY <1>2, <1>3 DEF Matches, heard

(* An advertisement that was sent.                                         *)
LEMMA InformedSend ==
    ASSUME IsDatabase(database), Flagged(database),
           NoOverlap(database, taken), Informed(database, advertised, taken),
           taken' = taken,
           NEW changed_only \in BOOLEAN,
           advertised' = heard_after(RipDevice, changed_only),
           database' = mark_all_routes_as_unchanged(database)
    PROVE  Informed(database', advertised', taken')
<1>1. Cleared(database, database')
  BY MarkCleared
<1>2. SUFFICES ASSUME NEW d \in RipDevice, NEW k \in RouteKey
      PROVE  /\ (/\ k \in DOMAIN database'.ok_routes \ taken
                 /\ ~database'.ok_routes[k].is_local)
                    => Matches(database'.ok_routes[k], k, d, advertised')
             /\ k \in DOMAIN database'.garbage_routes \ DOMAIN database'.ok_routes
                    => Matches(database'.garbage_routes[k], k, d, advertised')
  BY DEF Informed
<1>3. /\ (/\ k \in DOMAIN database.ok_routes \ taken
          /\ ~database.ok_routes[k].is_local)
             => Matches(database.ok_routes[k], k, d, advertised')
      /\ k \in DOMAIN database.garbage_routes \ DOMAIN database.ok_routes
             => Matches(database.garbage_routes[k], k, d, advertised')
  BY HeardInformed
<1>4. QED
  BY <1>1, <1>3 DEF Cleared, Unmarked, SameForwarding, Matches

(* An advertisement that was sent in part.                                 *)
LEMMA InformedSendFails ==
    ASSUME NoOverlap(database, taken), Informed(database, advertised, taken),
           NEW sent, NEW changed_only \in BOOLEAN, taken' = taken,
           advertised' = heard_after(sent, changed_only),
           database' = database
    PROVE  Informed(database', advertised', taken')
<1>1. SUFFICES ASSUME NEW d \in RipDevice, NEW k \in RouteKey
      PROVE  /\ (/\ k \in DOMAIN database.ok_routes \ taken
                 /\ ~database.ok_routes[k].is_local
                 /\ ~database.ok_routes[k].changed)
                    => Matches(database.ok_routes[k], k, d, advertised')
             /\ (/\ k \in DOMAIN database.garbage_routes
                              \ DOMAIN database.ok_routes
                 /\ ~database.garbage_routes[k].changed)
                    => Matches(database.garbage_routes[k], k, d, advertised')
  BY DEF Informed
<1>2. QED
  BY HeardInformed

(* What changes without an advertisement is marked.                        *)
LEMMA InformedRelations ==
    ASSUME NEW db, NEW db2, NEW heard, NEW lost, NEW lost2,
           Informed(db, heard, lost), lost \subseteq lost2,
           \/ Aged(db, db2)
           \/ \E k, route : Put(db, db2, k, route)
                            /\ (route.changed \/ route.is_local)
           \/ \E k : Moved(db, db2, k) /\ db.ok_routes[k] \in RipDbEntry
    PROVE  Informed(db2, heard, lost2)
<1>1. CASE Aged(db, db2)
  BY <1>1 DEF Aged, Alike, SameForwarding, Informed, Matches
<1>2. ASSUME NEW k, NEW route, Put(db, db2, k, route),
             route.changed \/ route.is_local
      PROVE  Informed(db2, heard, lost2)
  BY <1>2 DEF Put, Informed
<1>3. ASSUME NEW k, Moved(db, db2, k), db.ok_routes[k] \in RipDbEntry
      PROVE  Informed(db2, heard, lost2)
  <2>1. poisoned(db.ok_routes[k]).changed
    BY <1>3 DEF poisoned, RipDbEntry
  <2>2. QED
    BY <1>3, <2>1 DEF Moved, Informed
<1>4. QED
  BY <1>1, <1>2, <1>3

(* Garbage is poisoned.                                                    *)
LEMMA PoisonedRelations ==
    ASSUME NEW db, NEW db2, Poisoned(db.garbage_routes),
           \/ Aged(db, db2)
           \/ Cleared(db, db2)
           \/ \E k, route : Put(db, db2, k, route)
           \/ \E k : Moved(db, db2, k) /\ db.ok_routes[k] \in RipDbEntry
    PROVE  Poisoned(db2.garbage_routes)
<1>1. CASE Aged(db, db2) \/ Cleared(db, db2)
  BY <1>1 DEF Aged, Cleared, Alike, Unmarked, SameForwarding, Poisoned
<1>2. CASE \E k, route : Put(db, db2, k, route)
  BY <1>2 DEF Put, Poisoned
<1>3. ASSUME NEW k, Moved(db, db2, k), db.ok_routes[k] \in RipDbEntry
      PROVE  Poisoned(db2.garbage_routes)
  <2>1. poisoned(db.ok_routes[k]).metric = Infinity
    BY <1>3 DEF poisoned, RipDbEntry
  <2>2. QED
    BY <1>3, <2>1 DEF Moved, Poisoned
<1>4. QED
  BY <1>1, <1>2, <1>3

(* Every step keeps listeners informed.                                    *)
LEMMA InformedNext ==
    ASSUME TypeOK, DatabaseInv, Flagged(database), InformedInv, Kinds,
           taken \subseteq taken' \/ Restart
    PROVE  InformedInv'
<1>1. CASE Idling
  BY <1>1, InformedRelations, PoisonedRelations
  DEF Idling, InformedInv, Restart, Leaving
<1>2. ASSUME NEW k \in RouteKey, NEW dev \in Device, AddingLocal(k, dev)
      PROVE  InformedInv'
  <2>1. NewLocal(dev).is_local
    BY DEF NewLocal, db_entry
  <2>2. QED
    BY <1>2, <2>1, InformedRelations, PoisonedRelations
    DEF AddingLocal, InformedInv, Restart
<1>3. CASE Learning \/ Replacing
  <2>1. NewRemote(RouteEntry, packet.dev).changed
    BY DEF NewRemote, db_entry
  <2>2. /\ Put(database, database', Key, NewRemote(RouteEntry, packet.dev))
        /\ UNCHANGED <<exit, advertised>> /\ taken \subseteq taken'
    BY <1>3 DEF Learning, Replacing, AtReachable, AtEntry, Restart
  <2>3. QED
    BY <2>1, <2>2, InformedRelations, PoisonedRelations DEF InformedInv
<1>4. CASE Installing \/ UNCHANGED vars
  <2>1. /\ UNCHANGED <<database, exit, advertised>>
        /\ taken \subseteq taken' \/ exit' # "running"
    BY <1>4 DEF Installing, vars, wire, rib, Restart
  <2>2. QED
    BY <2>1, AgedSame, InformedRelations DEF InformedInv
<1>5. CASE TimeoutTimer
  <2>1. Aged(database, database')
    BY <1>5, AgedCountSilence DEF TimeoutTimer, TypeOK
  <2>2. UNCHANGED <<exit, advertised, taken>>
    BY <1>5 DEF TimeoutTimer, Step, wire, rib
  <2>3. QED
    BY <2>1, <2>2, InformedRelations, PoisonedRelations DEF InformedInv
<1>6. ASSUME NEW k \in RouteKey, Withdrawing(k)
      PROVE  InformedInv'
  <2>1. /\ Moved(database, database', k) /\ UNCHANGED <<exit, advertised>>
        /\ database.ok_routes[k] \in RipDbEntry /\ taken \subseteq taken'
    BY <1>6, DatabaseElim DEF Withdrawing, Moved, TypeOK, Restart
  <2>2. QED
    BY <2>1, InformedRelations, PoisonedRelations DEF InformedInv
<1>7. ASSUME NEW changed_only \in BOOLEAN, exit' = exit, taken' = taken,
             advertised' = heard_after(RipDevice, changed_only),
             database' = mark_all_routes_as_unchanged(database)
      PROVE  InformedInv'
  <2>1. Cleared(database, database')
    BY <1>7, MarkCleared DEF TypeOK
  <2>2. exit' = "running" => Informed(database', advertised', taken')
    BY <1>7, InformedSend DEF InformedInv, TypeOK, DatabaseInv
  <2>3. QED
    BY <2>1, <2>2, PoisonedRelations DEF InformedInv
<1>8. CASE \E changed_only \in BOOLEAN : Updating(changed_only)
  BY <1>7, <1>8 DEF Updating, send_multicast_advertisement
<1>9. CASE Farewell
  <2>1. CASE /\ advertised' = heard_after(RipDevice, FALSE)
             /\ database' = mark_all_routes_as_unchanged(database)
    BY <1>7, <1>9, <2>1 DEF Farewell, Step, rib
  <2>2. ASSUME NEW sent, advertised' = heard_after(sent, FALSE),
               database' = database
        PROVE  InformedInv'
    <3>1. exit' = "running" => Informed(database', advertised', taken')
      BY <1>9, <2>2, InformedSendFails DEF Farewell, Step, rib,
                                           InformedInv, DatabaseInv
    <3>2. QED
      BY <2>2, <3>1 DEF InformedInv
  <2>3. QED
    BY <1>9, <2>1, <2>2 DEF Farewell, send_multicast_advertisement,
                            send_multicast_advertisement_fails
<1>10. CASE Shutdown
  <2>1. /\ Poisoned(database'.garbage_routes)
        /\ \A k \in DOMAIN database'.ok_routes : database'.ok_routes[k].changed
        /\ \A k \in DOMAIN database'.garbage_routes :
               database'.garbage_routes[k].changed
    BY <1>10, PoisonAll DEF Shutdown, TypeOK, Marked, Poisoned
  <2>2. QED
    BY <2>1 DEF InformedInv, Informed
<1>11. CASE CleaningUp
  <2>1. /\ UNCHANGED <<database, advertised>> /\ taken \subseteq taken'
        /\ exit' = exit \/ exit' # "running"
    BY <1>11 DEF CleaningUp, wire, Restart
  <2>2. QED
    BY <2>1, AgedSame, InformedRelations DEF InformedInv
<1>12. CASE Stopping \/ Failing
  BY <1>12, PoisonedRelations DEF Stopping, Failing, InformedInv
<1>13. CASE Restart
  BY <1>13, NewProperties DEF Restart, InformedInv, Informed, Poisoned
<1>14. QED
  BY <1>1, <1>2, <1>3, <1>4, <1>5, <1>6, <1>8, <1>9, <1>10, <1>11, <1>12, <1>13
  DEF Kinds

(* Listeners were last told the current metric of every remote or poisoned *)
(* route that is not marked as changed and not kept from them by split     *)
(* horizon; an active route that took the place of a local one may have    *)
(* its garbage told after it.                                              *)
THEOREM NeighboursInformedHolds == Spec => []NeighboursInformed
<1>1. Init => Flagged(database) /\ InformedInv
  BY NewProperties DEF Init, Flagged, InformedInv, Informed, Poisoned
<1>2. TypeOK /\ DatabaseInv /\ DatabaseInv' /\ Flagged(database) /\ InformedInv
          /\ [Next]_vars => Flagged(database)' /\ InformedInv'
  BY NextKinds, FlaggedNext, InformedNext, TakenGrows
<1>3. InformedInv => NeighboursInformed
  BY DEF InformedInv, Informed, Matches, Poisoned, NeighboursInformed,
         ActiveRemote, has_route, has_garbage_route
<1>4. QED
  BY <1>1, <1>2, <1>3, TypeCorrect, DatabaseInvariant, PTL DEF Spec

-----------------------------------------------------------------------------
(* The farewell.                                                           *)

(* What an advertisement of poisoned routes says, and who gets it.         *)
LEMMA PoisonHeard ==
    ASSUME NEW db, Poisoned(db.ok_routes), Poisoned(db.garbage_routes),
           NEW k, NEW d, NEW heard,
           k \in get_routes_for_advertisement(db, d, FALSE)
    PROVE  last_metric(db, k, d, FALSE, heard) = Infinity
BY DEF get_routes_for_advertisement, last_metric, is_advertised, Poisoned

(* Marks and ages apart, the same routes are advertised.                   *)
LEMMA SameAdvertisement ==
    ASSUME NEW db, NEW db2, Cleared(db, db2), NEW d
    PROVE  /\ get_routes_for_advertisement(db2, d, FALSE) =
                  get_routes_for_advertisement(db, d, FALSE)
           /\ Poisoned(db.ok_routes) => Poisoned(db2.ok_routes)
           /\ Poisoned(db.garbage_routes) => Poisoned(db2.garbage_routes)
<1>1. get_routes_for_advertisement(db2, d, FALSE) =
          get_routes_for_advertisement(db, d, FALSE)
  BY DEF Cleared, Unmarked, SameForwarding, get_routes_for_advertisement,
         is_advertised
<1>2. QED
  BY <1>1 DEF Cleared, Unmarked, SameForwarding, Poisoned

(* Every step keeps the farewell the last word.                            *)
LEMMA FarewellNext ==
    ASSUME TypeOK, TypeOK', Flagged(database), FarewellInv, Kinds
    PROVE  FarewellInv'
<1>1. CASE Shutdown
  <2>1. Poisoned(database'.ok_routes) /\ Poisoned(database'.garbage_routes)
    BY <1>1, PoisonAll DEF Shutdown, TypeOK, Marked, Poisoned
  <2>2. pc' = "farewell" /\ exit' # "ok"
    BY <1>1 DEF Shutdown, Step, TypeOK, TypeControl
  <2>3. QED
    BY <2>1, <2>2 DEF FarewellInv
<1>2. CASE Farewell
  <2>1. /\ pc = "farewell" /\ pc' = "cleanup" /\ exit' # "ok"
        /\ Poisoned(database.ok_routes) /\ Poisoned(database.garbage_routes)
    BY <1>2 DEF Farewell, Step, TypeOK, TypeControl, FarewellInv
  <2>2. CASE ~farewell_sent'
    <3>1. database' = database
      BY <1>2, <2>2 DEF Farewell, send_multicast_advertisement_fails
    <3>2. QED
      BY <2>1, <2>2, <3>1 DEF FarewellInv
  <2>3. CASE farewell_sent'
    <3>1. /\ advertised' = heard_after(RipDevice, FALSE)
          /\ database' = mark_all_routes_as_unchanged(database)
      BY <1>2, <2>3 DEF Farewell, send_multicast_advertisement
    <3>2. Cleared(database, database')
      BY <3>1, MarkCleared DEF TypeOK
    <3>3. Poisoned(database'.ok_routes) /\ Poisoned(database'.garbage_routes)
      BY <2>1, <3>2, SameAdvertisement
    <3>4. ASSUME NEW d \in RipDevice, NEW k \in RouteKey,
                 k \in get_routes_for_advertisement(database', d, FALSE)
          PROVE  advertised'[d][k] = Infinity
      <4>1. k \in get_routes_for_advertisement(database, d, FALSE)
        BY <3>2, <3>4, SameAdvertisement
      <4>2. last_metric(database, k, d, FALSE, advertised[d][k]) = Infinity
        BY <2>1, <4>1, PoisonHeard
      <4>3. QED
        BY <3>1, <4>2 DEF heard_after
    <3>5. QED
      BY <2>1, <3>3, <3>4 DEF FarewellInv
  <2>4. QED
    BY <2>2, <2>3
<1>3. CASE CleaningUp
  BY <1>3 DEF CleaningUp, wire, FarewellInv
<1>4. CASE UNCHANGED vars
  BY <1>4 DEF vars, wire, FarewellInv
<1>5. CASE Stopping \/ Failing
  BY <1>5 DEF Stopping, Failing, FarewellInv
<1>6. CASE pc' \notin Leaving
  BY <1>6 DEF FarewellInv, Leaving, TypeOK, TypeControl
<1>7. pc' \notin Leaving \/ Shutdown \/ Farewell \/ CleaningUp \/ Stopping
          \/ Failing \/ UNCHANGED vars
  BY DEF Kinds, Idling, AddingLocal, Learning, Replacing, Installing,
         TimeoutTimer, Withdrawing, Updating, Restart, Step, Leaving
<1>8. QED
  BY <1>1, <1>2, <1>3, <1>4, <1>5, <1>6, <1>7

(* A shutdown whose advertisement went out leaves every listener with an   *)
(* infinite metric for every route that split horizon does not keep from   *)
(* it: nothing the shutdown does afterwards changes the database or says   *)
(* anything else.                                                          *)
THEOREM FarewellHeardHolds == Spec => []FarewellHeard
<1>1. Init => Flagged(database) /\ FarewellInv
  BY NewProperties DEF Init, Flagged, FarewellInv
<1>2. TypeOK /\ TypeOK' /\ DatabaseInv /\ DatabaseInv' /\ Flagged(database)
          /\ FarewellInv /\ [Next]_vars => Flagged(database)' /\ FarewellInv'
  BY NextKinds, FlaggedNext, FarewellNext
<1>3. FarewellInv => FarewellHeard
  BY DEF FarewellInv, FarewellHeard
<1>4. QED
  BY <1>1, <1>2, <1>3, TypeCorrect, DatabaseInvariant, PTL DEF Spec

-----------------------------------------------------------------------------
(* The kernel forwards what the database promises.                         *)

(* The kernel has the route, or had another in its place from the start.   *)
Served(k, route, table, old) ==
    LET message == build_route_message(k, route)
    IN  message \in table \/ Occupied(table \cap old, message)

(* The destination whose netlink add is still awaited.                     *)
Awaited(k) == pc = "install" /\ k = Key

ServedInv ==
    pc \notin Leaving =>
        \A k \in DOMAIN database.ok_routes :
            (~database.ok_routes[k].is_local /\ ~Awaited(k)) =>
                Served(k, database.ok_routes[k], kernel, preexisting)

(* Routes that are alike are served alike.                                 *)
LEMMA ServedAlike ==
    ASSUME NEW k, NEW route, NEW route2, NEW table, NEW old,
           SameForwarding(route, route2), Served(k, route, table, old)
    PROVE  Served(k, route2, table, old)
<1>1. build_route_message(k, route2) = build_route_message(k, route)
  BY DEF SameForwarding, build_route_message
<1>2. QED
  BY <1>1 DEF Served

(* Deleting the route of one destination serves the others as before.      *)
LEMMA ServedDelete ==
    ASSUME NEW k, NEW route, NEW table \in SUBSET KernelRoute, NEW old,
           NEW x, x # k, NEW gone, Served(k, route, table, old)
    PROVE  Served(k, route, delete_route_from_kernel(table, x, gone), old)
<1>1. build_route_message(k, route).destination = k
  BY DEF build_route_message
<1>2. \A other \in table : other.destination = k =>
          other \in delete_route_from_kernel(table, x, gone)
  BY DeleteProperties
<1>3. QED
  BY <1>1, <1>2 DEF Served, Occupied

(* Adding a route serves it, unless another route of the daemon for the    *)
(* same destination were left in the kernel: there is none but itself.     *)
LEMMA ServedAdd ==
    ASSUME NEW db, NEW k \in DOMAIN db.ok_routes, NEW table, NEW old,
           table \subseteq old \cup RouteMessages(db)
    PROVE  Served(k, db.ok_routes[k],
                  add_route_to_kernel(table, k, db.ok_routes[k]), old)
<1> DEFINE message == build_route_message(k, db.ok_routes[k])
<1>1. CASE ~Occupied(table, message)
  BY <1>1 DEF Served, add_route_to_kernel
<1>2. CASE Occupied(table, message)
  <2>1. PICK other \in table : /\ other.destination = message.destination
                               /\ other.priority = message.priority
    BY <1>2 DEF Occupied
  <2>2. CASE other \in old
    BY <1>2, <2>1, <2>2 DEF Served, Occupied, add_route_to_kernel
  <2>3. CASE other \in RouteMessages(db)
    <3>1. PICK x \in DOMAIN db.ok_routes :
              other = build_route_message(x, db.ok_routes[x])
      BY <2>3 DEF RouteMessages
    <3>2. x = k
      BY <2>1, <3>1 DEF build_route_message
    <3>3. QED
      BY <1>2, <2>1, <3>1, <3>2 DEF Served, add_route_to_kernel
  <2>4. QED
    BY <2>1, <2>2, <2>3
<1>3. QED
  BY <1>1, <1>2

(* Adding any route serves the others as before.                           *)
LEMMA ServedMore ==
    ASSUME NEW k, NEW route, NEW table, NEW old, NEW x, NEW route2,
           Served(k, route, table, old)
    PROVE  Served(k, route, add_route_to_kernel(table, x, route2), old)
BY DEF Served, Occupied, add_route_to_kernel

(* Every step keeps the active routes served.                              *)
LEMMA ServedNext ==
    ASSUME TypeOK, DatabaseInv, KernelInv, Flagged(database), ServedInv, Kinds
    PROVE  ServedInv'
<1>1. ASSUME pc \notin Leaving \cup {"install"}, pc' # "install",
             UNCHANGED <<kernel, preexisting>>, Quiet(database, database')
      PROVE  ServedInv'
  BY <1>1, ServedAlike DEF ServedInv, Awaited, Quiet, SameForwarding
<1>2. CASE Idling
  <2>1. Quiet(database, database')
    BY <1>2 DEF Idling, Aged, Alike, Quiet
  <2>2. QED
    BY <1>1, <1>2, <2>1 DEF Idling
<1>3. ASSUME NEW k \in RouteKey, NEW dev \in Device, AddingLocal(k, dev)
      PROVE  ServedInv'
  <2>1. NewLocal(dev).is_local
    BY DEF NewLocal, db_entry
  <2>2. QED
    BY <1>3, <2>1 DEF AddingLocal, Put, ServedInv, Awaited, Leaving
<1>4. CASE Learning
  BY <1>4 DEF Learning, Put, ServedInv, Awaited, Leaving, AtReachable, AtEntry
<1>5. CASE Replacing
  <2>1. /\ pc = "response" /\ pc' = "install" /\ Key' = Key
        /\ Put(database, database', Key, NewRemote(RouteEntry, packet.dev))
        /\ kernel' = delete_route_from_kernel(kernel, Key, OldRoute)
        /\ preexisting' = preexisting
    BY <1>5 DEF Replacing, AtReachable, AtEntry
  <2>2. ASSUME NEW k \in DOMAIN database'.ok_routes,
               ~database'.ok_routes[k].is_local, k # Key
        PROVE  Served(k, database'.ok_routes[k], kernel', preexisting')
    <3>1. /\ k \in DOMAIN database.ok_routes
          /\ database'.ok_routes[k] = database.ok_routes[k]
      BY <2>1, <2>2 DEF Put
    <3>2. Served(k, database.ok_routes[k], kernel, preexisting)
      BY <2>1, <2>2, <3>1 DEF ServedInv, Awaited, Leaving
    <3>3. QED
      BY <2>1, <2>2, <3>1, <3>2, ServedDelete DEF TypeOK, TypeRib
  <2>3. QED
    BY <2>1, <2>2 DEF ServedInv, Awaited
<1>6. CASE Installing
  <2>1. /\ pc = "install" /\ pc' = "response"
        /\ kernel' = add_route_to_kernel(kernel, Key, OldRoute)
        /\ UNCHANGED <<database, preexisting>>
    BY <1>6 DEF Installing
  <2>2. /\ Key \in DOMAIN database.ok_routes
        /\ kernel \subseteq preexisting \cup RouteMessages(database)
    BY <2>1 DEF TypeOK, TypeWork, has_route, KernelInv, Leaving
  <2>3. Served(Key, OldRoute, kernel', preexisting)
    BY <2>1, <2>2, ServedAdd DEF OldRoute
  <2>4. ASSUME NEW k \in DOMAIN database.ok_routes,
               ~database.ok_routes[k].is_local, k # Key
        PROVE  Served(k, database.ok_routes[k], kernel', preexisting)
    <3>1. Served(k, database.ok_routes[k], kernel, preexisting)
      BY <2>1, <2>4 DEF ServedInv, Awaited, Leaving
    <3>2. QED
      BY <2>1, <3>1, ServedMore
  <2>5. QED
    BY <2>1, <2>3, <2>4 DEF ServedInv, OldRoute
<1>7. CASE TimeoutTimer
  <2>1. Quiet(database, database')
    BY <1>7, QuietCountSilence DEF TimeoutTimer, TypeOK
  <2>2. QED
    BY <1>1, <1>7, <2>1 DEF TimeoutTimer, Step, rib, Leaving
<1>8. ASSUME NEW x \in RouteKey, Withdrawing(x)
      PROVE  ServedInv'
  <2>1. /\ pc \in {"response", "timeout"} /\ pc' # "install"
        /\ Moved(database, database', x)
        /\ kernel' = delete_route_from_kernel(kernel, x, database.ok_routes[x])
        /\ preexisting' = preexisting
    BY <1>8 DEF Withdrawing
  <2>2. ASSUME NEW k \in DOMAIN database'.ok_routes,
               ~database'.ok_routes[k].is_local
        PROVE  Served(k, database'.ok_routes[k], kernel', preexisting')
    <3>1. /\ k \in DOMAIN database.ok_routes /\ k # x
          /\ database'.ok_routes[k] = database.ok_routes[k]
      BY <2>1, <2>2 DEF Moved
    <3>2. Served(k, database.ok_routes[k], kernel, preexisting)
      BY <2>1, <2>2, <3>1 DEF ServedInv, Awaited, Leaving
    <3>3. QED
      BY <2>1, <3>1, <3>2, ServedDelete DEF TypeOK, TypeRib
  <2>3. QED
    BY <2>2 DEF ServedInv
<1>9. ASSUME NEW changed_only \in BOOLEAN, Updating(changed_only)
      PROVE  ServedInv'
  <2>1. Quiet(database, database')
    BY <1>9, QuietMark DEF Updating, send_multicast_advertisement, TypeOK
  <2>2. QED
    BY <1>1, <1>9, <2>1 DEF Updating, Leaving
<1>10. CASE Shutdown \/ Farewell \/ CleaningUp \/ Stopping \/ Failing
  BY <1>10 DEF Shutdown, Farewell, CleaningUp, Stopping, Failing, Step,
               ServedInv, Leaving
<1>11. CASE Restart
  BY <1>11, NewProperties DEF Restart, ServedInv
<1>12. CASE UNCHANGED vars
  BY <1>12 DEF vars, work, rib, ServedInv, Awaited, Key, Current
<1>13. QED
  BY <1>2, <1>3, <1>4, <1>5, <1>6, <1>7, <1>8, <1>9, <1>10, <1>11, <1>12
  DEF Kinds

(* Traffic for every active remote route is forwarded while the daemon     *)
(* runs: its deletes and adds never take a route from another destination, *)
(* and an add is refused only because of a route that was there before.    *)
THEOREM KernelServesRoutesHolds == Spec => []KernelServesRoutes
<1>1. Init => Flagged(database) /\ ServedInv
  BY NewProperties DEF Init, Flagged, ServedInv
<1>2. TypeOK /\ DatabaseInv /\ DatabaseInv' /\ KernelInv /\ Flagged(database)
          /\ ServedInv /\ [Next]_vars => Flagged(database)' /\ ServedInv'
  BY NextKinds, FlaggedNext, ServedNext
<1>3. TypeOK /\ ServedInv => KernelServesRoutes
  BY DEF ServedInv, Served, Awaited, KernelServesRoutes, ActiveRemote, has_route,
         Leaving, TypeOK, TypeControl
<1>4. QED
  BY <1>1, <1>2, <1>3, TypeCorrect, DatabaseInvariant, KernelInvariant, PTL
  DEF Spec

-----------------------------------------------------------------------------
(* Local routes.                                                           *)

LocalStays ==
    \A k \in RouteKey :
        (Running /\ Running' /\ ActiveLocal(k)) =>
            \/ /\ ActiveLocal(k)'
               /\ database'.ok_routes[k].metric = 1
               /\ database'.ok_routes[k].dev = database.ok_routes[k].dev
            \/ AtEntry /\ Key = k /\ packet.source = Unspecified

(* A route that is not touched, or only counted or marked.                 *)
LEMMA LocalStaysAt ==
    ASSUME DatabaseInv, NEW k \in RouteKey, Running, ActiveLocal(k),
           k \in DOMAIN database'.ok_routes,
           SameForwarding(database.ok_routes[k], database'.ok_routes[k])
    PROVE  /\ ActiveLocal(k)'
           /\ database'.ok_routes[k].metric = 1
           /\ database'.ok_routes[k].dev = database.ok_routes[k].dev
BY DEF DatabaseInv, LocalMetric, ActiveLocal, has_route, SameForwarding, Running,
       Leaving

(* Every step but those of an entry from 0.0.0.0 leaves local routes alone.*)
LEMMA LocalStaysNext ==
    ASSUME TypeOK, DatabaseInv, Kinds
    PROVE  LocalStays
<1> SUFFICES ASSUME NEW k \in RouteKey, Running, Running', ActiveLocal(k)
             PROVE  \/ /\ ActiveLocal(k)'
                       /\ database'.ok_routes[k].metric = 1
                       /\ database'.ok_routes[k].dev = database.ok_routes[k].dev
                    \/ AtEntry /\ Key = k /\ packet.source = Unspecified
  BY DEF LocalStays
<1> USE DEF ActiveLocal, has_route
<1>1. ASSUME Quiet(database, database')
      PROVE  /\ k \in DOMAIN database'.ok_routes
             /\ SameForwarding(database.ok_routes[k], database'.ok_routes[k])
  BY <1>1 DEF Quiet
<1>2. ASSUME k \in DOMAIN database'.ok_routes,
             database'.ok_routes[k] = database.ok_routes[k]
      PROVE  SameForwarding(database.ok_routes[k], database'.ok_routes[k])
  BY <1>2 DEF SameForwarding
<1>3. CASE Idling
  BY <1>1, <1>3, LocalStaysAt DEF Idling, Aged, Alike, Quiet
<1>4. ASSUME NEW x \in RouteKey, NEW dev \in Device, AddingLocal(x, dev)
      PROVE  /\ k \in DOMAIN database'.ok_routes
             /\ database'.ok_routes[k] = database.ok_routes[k]
  BY <1>4 DEF AddingLocal, Put
<1>5. ASSUME Learning \/ Replacing
      PROVE  \/ /\ k \in DOMAIN database'.ok_routes
                /\ database'.ok_routes[k] = database.ok_routes[k]
             \/ AtEntry /\ Key = k /\ packet.source = Unspecified
  BY <1>5 DEF Learning, Replacing, AtReachable, Put, OldRoute
<1>6. ASSUME NEW x \in RouteKey, Withdrawing(x)
      PROVE  \/ /\ k \in DOMAIN database'.ok_routes
                /\ database'.ok_routes[k] = database.ok_routes[k]
             \/ AtEntry /\ Key = k /\ packet.source = Unspecified
  BY <1>6 DEF Withdrawing, Moved
<1>7. CASE TimeoutTimer
  BY <1>1, <1>7, QuietCountSilence, LocalStaysAt DEF TimeoutTimer, TypeOK
<1>8. CASE \E changed_only \in BOOLEAN : Updating(changed_only)
  BY <1>1, <1>8, QuietMark, LocalStaysAt
  DEF Updating, send_multicast_advertisement, TypeOK
<1>9. CASE Installing \/ UNCHANGED vars
  BY <1>2, <1>9, LocalStaysAt DEF Installing, vars
<1>10. CASE Shutdown \/ Farewell \/ CleaningUp \/ Stopping \/ Failing
               \/ Restart
  BY <1>10 DEF Shutdown, Farewell, CleaningUp, Stopping, Failing, Restart, Step,
               Running
<1>11. QED
  BY <1>2, <1>3, <1>4, <1>5, <1>6, <1>7, <1>8, <1>9, <1>10, LocalStaysAt
  DEF Kinds

(* No timeout, collection or request changes a local route or takes it     *)
(* away while the daemon runs, nor does any packet, but for an entry of    *)
(* its destination in a response from 0.0.0.0.                             *)
THEOREM LocalRoutesStayHolds == Spec => LocalRoutesStay
<1>1. TypeOK /\ DatabaseInv /\ DatabaseInv' /\ [Next]_vars => [LocalStays]_vars
  BY NextKinds, LocalStaysNext
<1>2. Spec => [][LocalStays]_vars
  BY <1>1, TypeCorrect, DatabaseInvariant, PTL DEF Spec
<1>3. QED
  BY <1>2 DEF LocalRoutesStay, LocalStays

-----------------------------------------------------------------------------
(* Remote routes.                                                          *)

(* What is left in the timeout loop has timed out.                         *)
LoopWork == pc = "timeout" => \A p \in pending : is_timed_out(p.route)

Worsens ==
    \A k \in RouteKey :
        (Running /\ Running' /\ ActiveRemote(k)) =>
            \/ /\ ActiveRemote(k)'
               /\ database'.ok_routes[k].metric <= database.ok_routes[k].metric
            \/ /\ pc = "response"
               /\ packet.source = database.ok_routes[k].next_hop
            \/ is_timed_out(database.ok_routes[k])

(* The loop is filled by collect_timed_out_routes and only emptied.        *)
LEMMA LoopWorkNext ==
    ASSUME TypeOK, LoopWork, Kinds
    PROVE  LoopWork'
<1> SUFFICES ASSUME pc' = "timeout"
             PROVE  \A p \in pending' : is_timed_out(p.route)
  BY DEF LoopWork
<1>1. CASE TimeoutTimer
  BY <1>1, CollectProperties DEF TimeoutTimer, TypeOK
<1>2. CASE \E k \in RouteKey : Withdrawing(k)
  BY <1>2 DEF Withdrawing, LoopWork
<1>3. CASE UNCHANGED vars
  BY <1>3 DEF vars, work, LoopWork
<1>4. QED
  BY <1>1, <1>2, <1>3
  DEF Kinds, Idling, AddingLocal, Learning, Replacing, Installing, Updating,
      Shutdown, Farewell, CleaningUp, Stopping, Failing, Restart, Step

(* Every step asks the next hop.                                           *)
LEMMA WorsensNext ==
    ASSUME TypeOK, DatabaseInv, LoopWork, Kinds
    PROVE  Worsens
<1> SUFFICES ASSUME NEW k \in RouteKey, Running, Running', ActiveRemote(k)
             PROVE  \/ /\ ActiveRemote(k)'
                       /\ database'.ok_routes[k].metric
                              <= database.ok_routes[k].metric
                    \/ /\ pc = "response"
                       /\ packet.source = database.ok_routes[k].next_hop
                    \/ is_timed_out(database.ok_routes[k])
  BY DEF Worsens
<1> USE DEF ActiveRemote, has_route
<1>1. k \in DOMAIN database.ok_routes /\ database.ok_routes[k].metric \in Nat
  BY DatabaseElim DEF TypeOK, RipDbEntry
<1>2. ASSUME k \in DOMAIN database'.ok_routes,
             SameForwarding(database.ok_routes[k], database'.ok_routes[k])
      PROVE  /\ ActiveRemote(k)'
             /\ database'.ok_routes[k].metric <= database.ok_routes[k].metric
  BY <1>1, <1>2 DEF SameForwarding
<1>3. CASE Quiet(database, database')
  BY <1>1, <1>2, <1>3 DEF Quiet
<1>4. CASE /\ k \in DOMAIN database'.ok_routes
           /\ database'.ok_routes[k] = database.ok_routes[k]
  BY <1>2, <1>4 DEF SameForwarding
<1>5. CASE Idling
  BY <1>3, <1>5 DEF Idling, Aged, Alike, Quiet
<1>6. CASE \E x \in RouteKey, dev \in Device : AddingLocal(x, dev)
  BY <1>1, <1>4, <1>6 DEF AddingLocal, Put
<1>7. CASE Learning
  BY <1>1, <1>4, <1>7 DEF Learning, Put
<1>8. CASE Replacing
  <2>1. CASE k # Key
    BY <1>1, <1>4, <1>8, <2>1 DEF Replacing, Put
  <2>2. CASE k = Key
    <3>1. pc = "response" /\ RouteEntry.next_hop = packet.source
          /\ RouteEntry.metric \in Nat
      BY <1>8, ReachableEntry DEF Replacing, RipEntry
    <3>2. /\ k \in DOMAIN database'.ok_routes
          /\ ~database'.ok_routes[k].is_local
          /\ database'.ok_routes[k].metric = RouteEntry.metric
      BY <1>8, <2>2 DEF Replacing, Put, NewRemote, db_entry
    <3>3. \/ database.ok_routes[k].next_hop = RouteEntry.next_hop
          \/ RouteEntry.metric < database.ok_routes[k].metric
      BY <1>8, <2>2 DEF Replacing, OldRoute
    <3>4. QED
      BY <1>1, <3>1, <3>2, <3>3
  <2>3. QED
    BY <2>1, <2>2
<1>9. ASSUME NEW x \in RouteKey, Withdrawing(x), k = x
      PROVE  \/ /\ pc = "response"
                /\ packet.source = database.ok_routes[k].next_hop
             \/ is_timed_out(database.ok_routes[k])
  BY <1>9 DEF Withdrawing, LoopWork
<1>10. CASE \E x \in RouteKey : Withdrawing(x)
  BY <1>1, <1>4, <1>9, <1>10 DEF Withdrawing, Moved
<1>11. CASE TimeoutTimer
  BY <1>3, <1>11, QuietCountSilence DEF TimeoutTimer, TypeOK
<1>12. CASE \E changed_only \in BOOLEAN : Updating(changed_only)
  BY <1>3, <1>12, QuietMark DEF Updating, send_multicast_advertisement, TypeOK
<1>13. CASE Installing \/ UNCHANGED vars
  BY <1>1, <1>4, <1>13 DEF Installing, vars
<1>14. CASE Shutdown \/ Farewell \/ CleaningUp \/ Stopping \/ Failing
               \/ Restart
  BY <1>14 DEF Shutdown, Farewell, CleaningUp, Stopping, Failing, Restart, Step,
               Running
<1>15. QED
  BY <1>5, <1>6, <1>7, <1>8, <1>10, <1>11, <1>12, <1>13, <1>14 DEF Kinds

(* A remote route gets worse or goes away only while a response of its own *)
(* next hop is handled, or after the full time of silence.                 *)
THEOREM OnlyNextHopWorsensHolds == Spec => OnlyNextHopWorsens
<1>1. Init => LoopWork
  BY DEF Init, LoopWork
<1>2. TypeOK /\ DatabaseInv /\ DatabaseInv' /\ LoopWork /\ [Next]_vars
          => LoopWork' /\ [Worsens]_vars
  BY NextKinds, LoopWorkNext, WorsensNext
<1>3. Spec => [][Worsens]_vars
  BY <1>1, <1>2, TypeCorrect, DatabaseInvariant, PTL DEF Spec
<1>4. QED
  BY <1>3 DEF OnlyNextHopWorsens, Worsens

-----------------------------------------------------------------------------
(* The refinement of RouteLifecycle.                                       *)

(* The choice of a route, and of a database.                               *)
ChoiceOf(route) == [local |-> route.is_local, via |-> route.next_hop,
                    metric |-> route.metric]

ChosenIn(db) == [k \in DOMAIN db.ok_routes |-> ChoiceOf(db.ok_routes[k])]

(* The mapping, in these terms.                                            *)
LEMMA MappedBefore ==
    ASSUME Up
    PROVE  Chosen = ChosenIn(database) /\ Told = DOMAIN database.garbage_routes
BY DEF Chosen, Told, ChosenIn, ChoiceOf

(* After a step.                                                           *)
LEMMA MappedAfter ==
    ASSUME Up'
    PROVE  /\ Chosen' = ChosenIn(database')
           /\ Told' = DOMAIN database'.garbage_routes
BY DEF Chosen, Told, ChosenIn, ChoiceOf

(* When the process is gone.                                               *)
LEMMA MappedDown ==
    /\ ~Up => Chosen = Lifecycle!NoRoutes /\ Told = {}
    /\ ~Up' => Chosen' = Lifecycle!NoRoutes /\ Told' = {}
BY DEF Chosen, Told, Lifecycle!NoRoutes

(* Neither silence, age nor marks can be seen.                             *)
LEMMA ChosenSame ==
    ASSUME NEW db, NEW db2,
           DOMAIN db2.ok_routes = DOMAIN db.ok_routes,
           \A k \in DOMAIN db.ok_routes :
               SameForwarding(db.ok_routes[k], db2.ok_routes[k])
    PROVE  ChosenIn(db2) = ChosenIn(db)
<1>1. \A k \in DOMAIN db.ok_routes :
          ChoiceOf(db2.ok_routes[k]) = ChoiceOf(db.ok_routes[k])
  BY DEF SameForwarding, ChoiceOf
<1>2. QED
  BY <1>1 DEF ChosenIn

(* A route that is put is one choice more, or another.                     *)
LEMMA ChosenPut ==
    ASSUME Up, Up', NEW k, NEW route, Put(database, database', k, route)
    PROVE  Chosen' = Lifecycle!With(k, ChoiceOf(route))
<1>1. ChosenIn(database') =
          [x \in DOMAIN ChosenIn(database) \cup {k} |->
              IF x = k THEN ChoiceOf(route) ELSE ChosenIn(database)[x]]
  BY DEF Put, ChosenIn
<1>2. QED
  BY <1>1, MappedBefore, MappedAfter, Zenon DEF Lifecycle!With

(* A route that is moved is one choice less.                               *)
LEMMA ChosenMoved ==
    ASSUME Up, Up', NEW k, Moved(database, database', k)
    PROVE  Chosen' = Lifecycle!Without(k)
<1>1. ChosenIn(database') =
          [x \in DOMAIN ChosenIn(database) \ {k} |-> ChosenIn(database)[x]]
  BY DEF Moved, ChosenIn
<1>2. QED
  BY <1>1, MappedBefore, MappedAfter, Zenon DEF Lifecycle!Without

(* poison_all_routes changes every metric and no next hop.                 *)
LEMMA ChosenPoison ==
    ASSUME NEW db, IsDatabase(db)
    PROVE  ChosenIn(poison_all_routes(db)) =
               [k \in DOMAIN ChosenIn(db) |->
                   [ChosenIn(db)[k] EXCEPT !.metric = Infinity]]
<1> DEFINE db2 == poison_all_routes(db)
<1>1. /\ DOMAIN db2.ok_routes = DOMAIN db.ok_routes
      /\ \A k \in DOMAIN db.ok_routes :
             db2.ok_routes[k] =
                 [db.ok_routes[k] EXCEPT !.metric = Infinity, !.changed = TRUE]
      /\ \A k \in DOMAIN db.ok_routes : db.ok_routes[k] \in RipDbEntry
  BY PoisonAllProperties, DatabaseElim
<1> HIDE DEF db2
<1>2. \A k \in DOMAIN db.ok_routes :
          ChoiceOf(db2.ok_routes[k]) =
              [ChoiceOf(db.ok_routes[k]) EXCEPT !.metric = Infinity]
  <2>1. \A route \in RipDbEntry :
            ChoiceOf([route EXCEPT !.metric = Infinity, !.changed = TRUE]) =
                [ChoiceOf(route) EXCEPT !.metric = Infinity]
    BY DEF ChoiceOf, RipDbEntry
  <2>2. QED
    BY <1>1, <2>1
<1>3. ChosenIn(db2) = [k \in DOMAIN ChosenIn(db) |->
                          [ChosenIn(db)[k] EXCEPT !.metric = Infinity]]
  BY <1>1, <1>2 DEF ChosenIn
<1>4. QED
  BY <1>3 DEF db2

(* A new database has no choices.                                          *)
LEMMA ChosenNew == ChosenIn(new) = Lifecycle!NoRoutes
BY NewProperties DEF ChosenIn, Lifecycle!NoRoutes

(* A route as the mapping shows it.                                        *)
LEMMA RouteBefore ==
    ASSUME Up, NEW k \in DOMAIN database.ok_routes
    PROVE  /\ k \in DOMAIN Chosen
           /\ Chosen[k].local = database.ok_routes[k].is_local
           /\ Chosen[k].via = database.ok_routes[k].next_hop
           /\ Chosen[k].metric = database.ok_routes[k].metric
           /\ ~database.ok_routes[k].is_local => Lifecycle!Remote(k)
<1>1. /\ k \in DOMAIN Chosen
      /\ Chosen[k].local = database.ok_routes[k].is_local
      /\ Chosen[k].via = database.ok_routes[k].next_hop
      /\ Chosen[k].metric = database.ok_routes[k].metric
  BY MappedBefore DEF ChosenIn, ChoiceOf
<1>2. QED
  BY <1>1 DEF Lifecycle!Remote

(* A route that a neighbour's packet changes is remote, or a local one in  *)
(* reach of a neighbour that has no address.                               *)
LEMMA ExposedBefore ==
    ASSUME Up, NEW k \in DOMAIN database.ok_routes,
           database.ok_routes[k].is_local => packet.source = Unspecified,
           \E n \in Neighbour : n.source = packet.source
    PROVE  Lifecycle!Remote(k) \/ Lifecycle!Exposed(k)
<1>1. CASE ~database.ok_routes[k].is_local
  BY <1>1, RouteBefore
<1>2. CASE database.ok_routes[k].is_local
  BY <1>2, RouteBefore DEF Lifecycle!Exposed
<1>3. QED
  BY <1>1, <1>2

(* The phases of the control states.                                       *)
LEMMA PhaseOf ==
    /\ pc = "exited" => Phase = "down"
    /\ pc \in {"farewell", "cleanup"} => Phase = "leaving"
    /\ pc \notin Leaving => Phase = "running"
BY DEF Phase, Up, Leaving

(* After a step.                                                           *)
LEMMA PhaseAfter ==
    /\ pc' = "exited" => Phase' = "down"
    /\ pc' \in {"farewell", "cleanup"} => Phase' = "leaving"
    /\ pc' \notin Leaving => Phase' = "running"
BY DEF Phase, Up, Leaving

(* The steps that no one sees, but for garbage that is collected.          *)
LEMMA LifecycleForget ==
    ASSUME Quiet(database, database'), pc \notin Leaving, pc' \notin Leaving
    PROVE  Lifecycle!Next
<1>1. Up /\ Up'
  BY DEF Up, Leaving
<1>2. Chosen' = Chosen /\ Told' \in SUBSET Told
  BY <1>1, MappedBefore, MappedAfter, ChosenSame DEF Quiet
<1>3. Phase = "running" /\ Phase' = "running"
  BY PhaseOf, PhaseAfter
<1>4. Lifecycle!Forget
  BY <1>2, <1>3 DEF Lifecycle!Forget
<1>5. QED
  BY <1>4 DEF Lifecycle!Next

(* A local network.                                                        *)
LEMMA LifecycleAddLocal ==
    ASSUME NEW k \in RouteKey, NEW dev \in Device, AddingLocal(k, dev)
    PROVE  Lifecycle!Next
<1>1. Phase = "running" /\ Phase' = "running" /\ Up /\ Up'
  BY PhaseOf, PhaseAfter DEF AddingLocal, Leaving, Up
<1>2. k \notin DOMAIN Chosen
  BY <1>1, MappedBefore DEF AddingLocal, has_route, ChosenIn
<1>3. ChoiceOf(NewLocal(dev)) = Lifecycle!LocalRoute
  BY DEF ChoiceOf, NewLocal, db_entry, local_entry, Lifecycle!LocalRoute
<1>4. Chosen' = Lifecycle!With(k, Lifecycle!LocalRoute)
  BY <1>1, <1>3, ChosenPut DEF AddingLocal
<1>5. Told' = Told
  BY <1>1, MappedBefore, MappedAfter DEF AddingLocal
<1>6. Lifecycle!AddLocal(k)
  BY <1>1, <1>2, <1>4, <1>5 DEF Lifecycle!AddLocal
<1>7. QED
  BY <1>6 DEF Lifecycle!Next

(* The choice that an entry offers.                                        *)
LEMMA OfferedChoice ==
    ASSUME TypeOK, DatabaseInv, AtReachable
    PROVE  /\ ChoiceOf(NewRemote(RouteEntry, packet.dev)) =
                  Lifecycle!RemoteRoute(packet.source, RouteEntry.metric)
           /\ packet.source \in {n.source : n \in Neighbour}
           /\ RouteEntry.metric \in Lifecycle!Reachable
           /\ RouteEntry.next_hop = packet.source
           /\ Key \in RouteKey
<1>1. /\ RouteEntry.next_hop = packet.source
      /\ \E n \in Neighbour : n.source = packet.source
      /\ RouteEntry.metric \in 2 .. Infinity - 1
      /\ Key \in RouteKey
  BY ReachableEntry
<1>2. ChoiceOf(NewRemote(RouteEntry, packet.dev)) =
          Lifecycle!RemoteRoute(packet.source, RouteEntry.metric)
  BY <1>1 DEF ChoiceOf, NewRemote, db_entry, Lifecycle!RemoteRoute
<1>3. QED
  BY <1>1, <1>2 DEF Lifecycle!Reachable

(* Case 1 of an entry.                                                     *)
LEMMA LifecycleLearn ==
    ASSUME TypeOK, DatabaseInv, Learning
    PROVE  Lifecycle!Next
<1>1. Phase = "running" /\ Phase' = "running" /\ Up /\ Up'
  BY PhaseOf, PhaseAfter, ReachableEntry DEF Learning, Leaving, Up
<1>2. Key \notin DOMAIN Chosen
  BY <1>1, MappedBefore DEF Learning, has_route, ChosenIn
<1>3. Chosen' = Lifecycle!With(
          Key, Lifecycle!RemoteRoute(packet.source, RouteEntry.metric))
  BY <1>1, ChosenPut, OfferedChoice DEF Learning
<1>4. Told' = Told \ {Key}
  BY <1>1, MappedBefore, MappedAfter DEF Learning
<1>5. Lifecycle!Learn(Key, packet.source, RouteEntry.metric)
  BY <1>1, <1>2, <1>3, <1>4 DEF Lifecycle!Learn
<1>6. QED
  BY <1>5, OfferedChoice DEF Learning, Lifecycle!Next

(* Cases 2 and 3.                                                          *)
LEMMA LifecycleReplace ==
    ASSUME TypeOK, DatabaseInv, Replacing
    PROVE  Lifecycle!Next
<1>1. Phase = "running" /\ Phase' = "running" /\ Up /\ Up'
  BY PhaseOf, PhaseAfter, ReachableEntry DEF Replacing, Leaving, Up
<1>2. /\ Lifecycle!Remote(Key) \/ Lifecycle!Exposed(Key)
      /\ ~OldRoute.is_local => Lifecycle!Remote(Key)
      /\ Chosen[Key].via = OldRoute.next_hop
      /\ Chosen[Key].metric = OldRoute.metric
  BY <1>1, RouteBefore, ExposedBefore, ReachableEntry
  DEF Replacing, OldRoute, has_route
<1>3. Chosen' = Lifecycle!With(
          Key, Lifecycle!RemoteRoute(packet.source, RouteEntry.metric))
  BY <1>1, ChosenPut, OfferedChoice DEF Replacing
<1>4. Told' = Told
  BY <1>1, MappedBefore, MappedAfter DEF Replacing
<1>5. CASE OldRoute.next_hop = RouteEntry.next_hop
  <2>1. Chosen[Key].via = packet.source
    BY <1>2, <1>5, OfferedChoice DEF Replacing
  <2>2. Lifecycle!Follow(Key, RouteEntry.metric)
    BY <1>1, <1>2, <1>3, <1>4, <2>1 DEF Lifecycle!Follow
  <2>3. QED
    BY <2>2, OfferedChoice DEF Replacing, Lifecycle!Next
<1>6. CASE RouteEntry.metric < OldRoute.metric /\ ~OldRoute.is_local
  <2>1. Lifecycle!Improve(Key, packet.source, RouteEntry.metric)
    BY <1>1, <1>2, <1>3, <1>4, <1>6 DEF Lifecycle!Improve
  <2>2. QED
    BY <2>1, OfferedChoice DEF Replacing, Lifecycle!Next
<1>7. QED
  BY <1>5, <1>6 DEF Replacing

(* A poisoned entry or a timeout.                                          *)
LEMMA LifecycleWithdraw ==
    ASSUME DatabaseInv, NEW k \in RouteKey, Withdrawing(k)
    PROVE  Lifecycle!Next
<1>1. Phase = "running" /\ Phase' = "running" /\ Up /\ Up'
  BY PhaseOf, PhaseAfter DEF Withdrawing, Leaving, Up
<1>2. Lifecycle!Remote(k) \/ Lifecycle!Exposed(k)
  <2>1. k \in DOMAIN database.ok_routes
    BY DEF Withdrawing, Moved
  <2>2. CASE pc = "response"
    BY <1>1, <2>1, <2>2, ExposedBefore DEF Withdrawing, DatabaseInv, PacketSource
  <2>3. CASE pc # "response"
    BY <1>1, <2>1, <2>3, RouteBefore DEF Withdrawing
  <2>4. QED
    BY <2>2, <2>3
<1>3. Chosen' = Lifecycle!Without(k)
  BY <1>1, ChosenMoved DEF Withdrawing
<1>4. k \notin Told /\ Told' = Told \cup {k}
  BY <1>1, MappedBefore, MappedAfter DEF Withdrawing, Moved
<1>5. Lifecycle!Withdraw(k)
  BY <1>1, <1>2, <1>3, <1>4 DEF Lifecycle!Withdraw
<1>6. QED
  BY <1>5 DEF Lifecycle!Next

(* A shutdown poisons all routes and forgets none.                         *)
LEMMA LifecycleLeave ==
    ASSUME TypeOK, Shutdown
    PROVE  Lifecycle!Next
<1>1. Phase = "running" /\ Phase' = "leaving" /\ Up /\ Up'
  BY PhaseOf, PhaseAfter DEF Shutdown, Step, Leaving, Up
<1>2. Chosen' = [k \in DOMAIN Chosen |->
                    [Chosen[k] EXCEPT !.metric = Infinity]]
  BY <1>1, MappedBefore, MappedAfter, ChosenPoison DEF Shutdown, TypeOK
<1>3. Told' = Told
  BY <1>1, MappedBefore, MappedAfter, PoisonAll DEF Shutdown, TypeOK
<1>4. Lifecycle!Leave
  BY <1>1, <1>2, <1>3 DEF Lifecycle!Leave
<1>5. QED
  BY <1>4 DEF Lifecycle!Next

(* The farewell changes marks alone.                                       *)
LEMMA LifecycleFarewell ==
    ASSUME TypeOK, Farewell
    PROVE  UNCHANGED Lifecycle!lifecycle
<1>1. \/ database' = database
      \/ database' = mark_all_routes_as_unchanged(database)
  BY DEF Farewell, send_multicast_advertisement,
         send_multicast_advertisement_fails
<1>2. Up /\ Up' /\ Phase' = Phase
  BY PhaseOf, PhaseAfter DEF Farewell, Step, Up
<1>3. Chosen' = Chosen
  BY <1>1, <1>2, QuietMark, QuietSame, MappedBefore, MappedAfter, ChosenSame
  DEF Quiet, TypeOK
<1>4. DOMAIN database'.garbage_routes = DOMAIN database.garbage_routes
  <2>1. CASE database' = database
    BY <2>1
  <2>2. CASE /\ database' = mark_all_routes_as_unchanged(database)
             /\ database.any_route_changed
    BY <2>2, MarkUnchangedProperties DEF TypeOK
  <2>3. CASE /\ database' = mark_all_routes_as_unchanged(database)
             /\ ~database.any_route_changed
    BY <2>3 DEF mark_all_routes_as_unchanged
  <2>4. QED
    BY <1>1, <2>1, <2>2, <2>3
<1>5. Told' = Told
  BY <1>2, <1>4, MappedBefore, MappedAfter
<1>6. QED
  BY <1>2, <1>3, <1>5 DEF Lifecycle!lifecycle

(* The end, from wherever it comes, even on an error of the database.      *)
LEMMA LifecycleGoDown ==
    ASSUME pc # "exited", pc' = "exited"
    PROVE  Lifecycle!Next
<1>1. Phase # "down" /\ Phase' = "down" /\ ~Up'
  BY PhaseAfter DEF Phase, Up
<1>2. Lifecycle!GoDown
  BY <1>1, MappedDown DEF Lifecycle!GoDown
<1>3. QED
  BY <1>2 DEF Lifecycle!Next

(* The next process starts with nothing.                                   *)
LEMMA LifecycleRestart ==
    ASSUME Restart
    PROVE  Lifecycle!Next
<1>1. Phase = "down" /\ Phase' = "running" /\ ~Up /\ Up'
  BY PhaseOf, PhaseAfter DEF Restart, Leaving, Up
<1>2. Chosen' = Lifecycle!NoRoutes /\ Told' = {}
  BY <1>1, MappedAfter, ChosenNew, NewProperties DEF Restart
<1>3. Lifecycle!Restart
  BY <1>1, <1>2, MappedDown DEF Lifecycle!Restart
<1>4. QED
  BY <1>3 DEF Lifecycle!Next

(* Every step is a step of RouteLifecycle or a stutter.                    *)
LEMMA LifecycleNext ==
    ASSUME TypeOK, DatabaseInv, Kinds
    PROVE  [Lifecycle!Next]_(Lifecycle!lifecycle)
<1>1. CASE Idling
  BY <1>1, LifecycleForget DEF Idling, Aged, Alike, Quiet
<1>2. CASE TimeoutTimer
  BY <1>2, QuietCountSilence, LifecycleForget
  DEF TimeoutTimer, TypeOK, Step, Leaving
<1>3. CASE \E changed_only \in BOOLEAN : Updating(changed_only)
  BY <1>3, QuietMark, LifecycleForget
  DEF Updating, send_multicast_advertisement, TypeOK, Leaving
<1>4. CASE Installing
  BY <1>4, QuietSame, LifecycleForget DEF Installing, Leaving
<1>5. CASE UNCHANGED vars
  BY <1>5 DEF vars, Lifecycle!lifecycle, Chosen, Told, Phase, Up
<1>6. CASE CleaningUp
  <2>1. CASE pc' = "cleanup"
    BY <1>6, <2>1, PhaseOf, PhaseAfter
    DEF CleaningUp, Lifecycle!lifecycle, Chosen, Told, Up
  <2>2. CASE pc' = "exited"
    BY <1>6, <2>2, LifecycleGoDown DEF CleaningUp
  <2>3. QED
    BY <1>6, <2>1, <2>2 DEF CleaningUp
<1>7. CASE Stopping \/ Failing
  BY <1>7, LifecycleGoDown DEF Stopping, Failing
<1>8. QED
  BY <1>1, <1>2, <1>3, <1>4, <1>5, <1>6, <1>7, LifecycleAddLocal,
     LifecycleLearn, LifecycleReplace, LifecycleWithdraw, LifecycleLeave,
     LifecycleFarewell, LifecycleRestart
  DEF Kinds

(* The daemon implements RouteLifecycle: each handler of run() is a step   *)
(* in the life of one destination, or none, whatever the constants are.    *)
THEOREM LifecycleRefined == Spec => ImplementsLifecycle
<1>1. Init => Lifecycle!Init
  <2> SUFFICES ASSUME Init PROVE Lifecycle!Init
    OBVIOUS
  <2>1. Phase = "running"
    BY PhaseOf DEF Init, Leaving
  <2>2. Chosen = Lifecycle!NoRoutes /\ Told = {}
    BY MappedBefore, ChosenNew, NewProperties DEF Init, Up
  <2>3. QED
    BY <2>1, <2>2 DEF Lifecycle!Init
<1>2. TypeOK /\ DatabaseInv /\ DatabaseInv' /\ [Next]_vars
          => [Lifecycle!Next]_(Lifecycle!lifecycle)
  BY NextKinds, LifecycleNext
<1>3. QED
  BY <1>1, <1>2, TypeCorrect, DatabaseInvariant, PTL
  DEF Spec, ImplementsLifecycle, Lifecycle!Spec

=============================================================================
