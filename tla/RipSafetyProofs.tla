-------------------------- MODULE RipSafetyProofs --------------------------
(***************************************************************************)
(* Safety of the daemon for all destinations, neighbours, devices,         *)
(* packets, timeouts and numbers of restarts: its variables keep their     *)
(* types, its own database never fails it, and the kernel's routing table  *)
(* keeps no route that the daemon gave up.                                 *)
(***************************************************************************)
EXTENDS RipDaemon, RipDatabaseProofs, SequenceTheorems

-----------------------------------------------------------------------------
(* Types of what the actions compute.                                      *)

(* The entry at the head of a packet, and the route made of it.            *)
LEMMA CurrentEntryType ==
    ASSUME packet \in Packet, packet.entries # <<>>
    PROVE  /\ packet.source \in Address
           /\ packet.dev \in RipDevice
           /\ packet.dev \in Device
           /\ Key \in RouteKey
           /\ RouteEntry \in RipEntry
           /\ [packet EXCEPT !.entries = Tail(packet.entries)] \in Packet
<1> DEFINE E == [key : RouteKey, metric : Nat, attr : Attr]
<1>1. /\ packet.entries \in Seq(E)
      /\ packet.source \in Address /\ packet.dev \in RipDevice
      /\ packet.dev \in Device
  BY NeighbourAssumption DEF Packet
<1>2. Head(packet.entries) \in E /\ Tail(packet.entries) \in Seq(E)
  BY <1>1, HeadTailProperties
<1>3. Key \in RouteKey
  BY <1>2 DEF Key, Current
<1>4. RouteEntry \in RipEntry
  BY <1>1, <1>2, InfinityAssumption
  DEF RouteEntry, response_entry_to_route, Current, RipEntry, update_metric
<1>5. [packet EXCEPT !.entries = Tail(packet.entries)] \in Packet
  BY <1>2 DEF Packet
<1>6. QED
  BY <1>1, <1>3, <1>4, <1>5

(* A netlink message describes a kernel route.                             *)
LEMMA MessageType ==
    ASSUME NEW k \in RouteKey, NEW route \in RipDbEntry
    PROVE  build_route_message(k, route) \in KernelRoute
BY DEF build_route_message, KernelRoute, RipDbEntry, RIP_ROUTE_PRIORITY_BASE

(* Adding and deleting routes keeps the kernel a set of routes.            *)
LEMMA KernelType ==
    ASSUME NEW table \in SUBSET KernelRoute,
           NEW k \in RouteKey, NEW route \in RipDbEntry
    PROVE  /\ add_route_to_kernel(table, k, route) \subseteq KernelRoute
           /\ delete_route_from_kernel(table, k, route) \subseteq KernelRoute
BY MessageType DEF add_route_to_kernel, delete_route_from_kernel

(* A delete takes at least the route it names, and no route to another     *)
(* destination.                                                            *)
LEMMA DeleteProperties ==
    ASSUME NEW table, NEW k, NEW route
    PROVE  /\ delete_route_from_kernel(table, k, route)
                  \subseteq table \ {build_route_message(k, route)}
           /\ \A other \in table \cap KernelRoute :
                  other.destination # k =>
                      other \in delete_route_from_kernel(table, k, route)
<1> DEFINE m == build_route_message(k, route)
<1>1. m.destination = k
  BY DEF build_route_message
<1>2. \A other \in KernelRoute : Agrees(other, m) => other.destination = k
  BY <1>1 DEF Agrees, KernelRoute
<1>3. QED
  BY <1>2 DEF delete_route_from_kernel, Agrees

(* The destinations marked as taken are destinations.                      *)
LEMMA TakenType ==
    ASSUME TypeOK, AtEntry
    PROVE  TakenNow \subseteq RouteKey
BY CurrentEntryType DEF AtEntry, TypeOK, TypeWork, TypeRib, TakenNow

(* What listeners have heard after an advertisement is typed.              *)
LEMMA HeardType ==
    ASSUME IsDatabase(database), TypeWire,
           NEW sent, NEW changed_only \in BOOLEAN
    PROVE  heard_after(sent, changed_only) \in [RipDevice -> [RouteKey -> Nat]]
<1>1. \A d \in RipDevice, k \in RouteKey :
          /\ advertised[d][k] \in Nat
          /\ last_metric(database, k, d, changed_only, advertised[d][k]) \in Nat
  BY LastMetricType DEF TypeWire
<1>2. QED
  BY <1>1 DEF heard_after

(* An advertisement, sent or failed, keeps the types.                      *)
LEMMA SendType ==
    ASSUME IsDatabase(database), TypeWire, NEW changed_only \in BOOLEAN,
           \/ send_multicast_advertisement(changed_only)
           \/ send_multicast_advertisement_fails(changed_only)
    PROVE  /\ IsDatabase(database)'
           /\ advertised' \in [RipDevice -> [RouteKey -> Nat]]
BY HeardType, MarkUnchangedType
DEF send_multicast_advertisement, send_multicast_advertisement_fails

(* The entry of a local network is typed.                                  *)
LEMMA LocalEntryType == local_entry \in RipEntry
BY AddressAssumption DEF local_entry, RipEntry

(* The bounded lists of entries are lists of entries.                      *)
LEMMA EntriesType ==
    Entries \subseteq Seq([key : RouteKey, metric : Nat, attr : Attr])
<1> DEFINE E == [key : RouteKey, metric : Metric, attr : Attr]
           F == [key : RouteKey, metric : Nat, attr : Attr]
<1>1. E \subseteq F
  BY InputAssumption
<1>2. \A n \in 0 .. MaxEntries : [1 .. n -> E] \subseteq Seq(F)
  <2> SUFFICES ASSUME NEW n \in 0 .. MaxEntries, NEW s \in [1 .. n -> E]
               PROVE  s \in Seq(F)
    OBVIOUS
  <2>1. n \in Nat
    BY InputAssumption
  <2>2. s \in [1 .. n -> F]
    BY <1>1
  <2> HIDE DEF E, F
  <2>3. QED
    BY <2>1, <2>2, SeqDef
<1>3. QED
  BY <1>2 DEF Entries

-----------------------------------------------------------------------------
(* Type correctness.                                                       *)

(* The initial states are typed.                                           *)
LEMMA TypeInit == Init => TypeOK
<1> SUFFICES ASSUME Init PROVE TypeOK
  OBVIOUS
<1> MaxRestarts \in Nat
  BY InputAssumption
<1>1. TypeControl
  BY DEF Init, TypeControl
<1> TypeTimers
  BY Zenon DEF Init, TypeTimers
<1>2. IsDatabase(database)
  BY NewProperties DEF Init
<1>3. TypeWork
  <2>1. networks \in Configurations
    BY DEF Init
  <2>2. Configurations \subseteq Seq(Network \cup {InvalidNetwork})
    BY InputAssumption
  <2>3. networks \in Seq(Network \cup {InvalidNetwork})
    BY <2>1, <2>2, Zenon
  <2>4. QED
    BY <2>3 DEF Init, TypeWork
<1>4. TypeRib
  BY InputAssumption DEF Init, TypeRib
<1>5. TypeWire
  BY DEF Init, TypeWire, NothingHeard
<1>6. QED
  BY <1>1, <1>2, <1>3, <1>4, <1>5 DEF TypeOK

(* The actions that change neither the database nor the work at hand.      *)
LEMMA TypeIdle ==
    ASSUME TypeOK, UNCHANGED <<database, work, rib, wire, restarts>>,
           TypeTimers',
           \/ Step("trigger") /\ pc # "exited"
           \/ Step("select") /\ pc # "exited"
           \/ \E reason \in {"ok", "io", "packet", "setup", "killed"} :
                  Exit(reason)
    PROVE  TypeOK'
<1>1. TypeControl'
  BY DEF TypeOK, TypeControl, Step, Exit
<1>2. TypeWork'
  BY DEF TypeOK, TypeWork, work, Step, Exit
<1>3. IsDatabase(database)' /\ TypeRib' /\ TypeWire'
  BY DEF TypeOK, TypeRib, TypeWire, rib, wire
<1>4. QED
  BY <1>1, <1>2, <1>3 DEF TypeOK

(* Setup and the start of run().                                           *)
LEMMA TypeStart ==
    ASSUME TypeOK, Start
    PROVE  TypeOK'
<1>1. CASE SetupNetwork
  <2> DEFINE N == Network \cup {InvalidNetwork}
  <2>1. networks \in Seq(N) /\ networks # <<>>
    BY <1>1 DEF SetupNetwork, TypeOK, TypeWork
  <2>2. Head(networks) \in N /\ Tail(networks) \in Seq(N)
    BY <2>1, HeadTailProperties
  <2>3. /\ Head(networks) # InvalidNetwork
        /\ database' = setup_advertised_network(database, Head(networks))
    BY <1>1 DEF SetupNetwork, setup_advertised_network_fails
  <2>4. Head(networks).key \in RouteKey /\ Head(networks).dev \in Device
    BY <2>2, <2>3 DEF Network
  <2>5. IsDatabase(database)'
    BY <2>3, <2>4, LocalEntryType, AddLocalRouteType
    DEF setup_advertised_network, TypeOK
  <2>6. TypeControl' /\ TypeTimers'
    BY <1>1 DEF SetupNetwork, TypeOK, TypeControl, TypeTimers, timers, Step
  <2>7. TypeWork'
    BY <1>1, <2>2 DEF SetupNetwork, TypeOK, TypeWork, Step
  <2>8. TypeRib' /\ TypeWire'
    BY <1>1 DEF SetupNetwork, TypeOK, TypeRib, TypeWire, rib, wire
  <2>9. QED
    BY <2>5, <2>6, <2>7, <2>8 DEF TypeOK
<1>2. CASE SetupNetworkFails \/ StartFails
  BY <1>2, TypeIdle
  DEF SetupNetworkFails, StartFails, TypeOK, TypeTimers, timers
<1>3. CASE Run
  BY <1>3, TypeIdle DEF Run, TypeTimers
<1>4. QED
  BY <1>1, <1>2, <1>3 DEF Start

(* The timer branches of select!.                                          *)
LEMMA TypeTimer ==
    ASSUME TypeOK, Timer
    PROVE  TypeOK'
<1>1. CASE RequestWarmupTimer
  BY <1>1, TypeIdle DEF RequestWarmupTimer, TypeOK, TypeTimers
<1>2. CASE UpdateTimer
  <2>1. /\ IsDatabase(database)'
        /\ advertised' \in [RipDevice -> [RouteKey -> Nat]]
    BY <1>2, SendType DEF UpdateTimer, TypeOK
  <2>2. TypeControl' /\ TypeTimers'
    BY <1>2 DEF UpdateTimer, TypeOK, TypeControl, TypeTimers, timers, Step, Exit
  <2>3. TypeWork'
    BY <1>2 DEF UpdateTimer, TypeOK, TypeWork, work, Step, Exit
  <2>4. TypeRib' /\ TypeWire'
    BY <1>2, <2>1 DEF UpdateTimer, TypeOK, TypeRib, TypeWire, rib
  <2>5. QED
    BY <2>1, <2>2, <2>3, <2>4 DEF TypeOK
<1>3. CASE TriggeredUpdateLockTimer
  BY <1>3, TypeIdle DEF TriggeredUpdateLockTimer, TypeOK, TypeTimers
<1>4. CASE TimeoutTimer
  <2>1. /\ IsDatabase(database)'
        /\ pending' \subseteq [key : RouteKey, route : RipDbEntry]
    BY <1>4, CountSilenceProperties, CollectProperties DEF TimeoutTimer, TypeOK
  <2>2. TypeControl' /\ TypeTimers'
    BY <1>4 DEF TimeoutTimer, TypeOK, TypeControl, TypeTimers, timers, Step
  <2>3. TypeWork'
    BY <1>4, <2>1 DEF TimeoutTimer, TypeOK, TypeWork, Step
  <2>4. TypeRib' /\ TypeWire'
    BY <1>4 DEF TimeoutTimer, TypeOK, TypeRib, TypeWire, rib, wire
  <2>5. QED
    BY <2>1, <2>2, <2>3, <2>4 DEF TypeOK
<1>5. CASE GarbageCollectionTimer
  <2>1. IsDatabase(database)'
    BY <1>5, RemoveExpiredProperties DEF GarbageCollectionTimer, TypeOK
  <2>2. TypeControl' /\ TypeTimers'
    BY <1>5 DEF GarbageCollectionTimer, TypeOK, TypeControl, TypeTimers, Step,
                has_garbage_routes
  <2>3. TypeWork'
    BY <1>5 DEF GarbageCollectionTimer, TypeOK, TypeWork, work, Step
  <2>4. TypeRib' /\ TypeWire'
    BY <1>5 DEF GarbageCollectionTimer, TypeOK, TypeRib, TypeWire, rib, wire
  <2>5. QED
    BY <2>1, <2>2, <2>3, <2>4 DEF TypeOK
<1>6. QED
  BY <1>1, <1>2, <1>3, <1>4, <1>5 DEF Timer

(* The loop of handle_route_timeout_tick.                                  *)
LEMMA TypeTimeOutRoute ==
    ASSUME TypeOK, NEW p \in pending, TimeOutRoute(p)
    PROVE  TypeOK'
<1>1. p.key \in RouteKey /\ p.route \in RipDbEntry
  BY DEF TypeOK, TypeWork
<1>2. IsDatabase(database)'
  BY <1>1, MoveToGarbageType DEF TimeOutRoute, TypeOK
<1>3. TypeRib'
  BY <1>1, KernelType DEF TimeOutRoute, TypeOK, TypeRib
<1>4. TypeControl' /\ TypeTimers'
  BY DEF TimeOutRoute, TypeOK, TypeControl, TypeTimers, Step, Exit, StepUnless
<1>5. TypeWork'
  BY DEF TimeOutRoute, TypeOK, TypeWork, Step, Exit, StepUnless
<1>6. TypeWire'
  BY DEF TimeOutRoute, TypeOK, TypeWire, wire
<1>7. QED
  BY <1>2, <1>3, <1>4, <1>5, <1>6 DEF TypeOK

(* maybe_send_triggered_update.                                            *)
LEMMA TypeTriggeredUpdate ==
    ASSUME TypeOK, MaybeSendTriggeredUpdate
    PROVE  TypeOK'
<1>1. /\ IsDatabase(database)'
      /\ advertised' \in [RipDevice -> [RouteKey -> Nat]]
  BY SendType DEF MaybeSendTriggeredUpdate, TypeOK, TypeWire
<1>2. TypeControl' /\ TypeTimers'
  BY DEF MaybeSendTriggeredUpdate, TypeOK, TypeControl, TypeTimers, Step, Exit
<1>3. TypeWork'
  BY DEF MaybeSendTriggeredUpdate, TypeOK, TypeWork, work, Step, Exit
<1>4. TypeRib' /\ TypeWire'
  BY <1>1 DEF MaybeSendTriggeredUpdate, TypeOK, TypeRib, TypeWire, rib
<1>5. QED
  BY <1>1, <1>2, <1>3, <1>4 DEF TypeOK

(* The arrival of a packet.                                                *)
LEMMA TypeReceive ==
    ASSUME TypeOK, Receive
    PROVE  TypeOK'
<1>1. ASSUME NEW n \in Neighbour, NEW entries \in Entries,
             ReceiveResponse(n, entries)
      PROVE  TypeOK'
  <2>1. packet' \in Packet
    BY <1>1, EntriesType, NeighbourAssumption DEF ReceiveResponse, Packet
  <2>2. packet'.entries = entries /\ pc' = "response"
    BY <1>1 DEF ReceiveResponse, Step
  <2>4. TypeControl' /\ TypeTimers'
    BY <1>1 DEF ReceiveResponse, TypeOK, TypeControl, TypeTimers, timers, Step
  <2>5. TypeWork'
    BY <1>1, <2>1, <2>2 DEF ReceiveResponse, TypeOK, TypeWork
  <2>6. IsDatabase(database)' /\ TypeRib' /\ TypeWire'
    BY <1>1 DEF ReceiveResponse, TypeOK, TypeRib, TypeWire, rib, wire
  <2>7. QED
    BY <2>4, <2>5, <2>6 DEF TypeOK
<1>2. ASSUME NEW n \in Neighbour, ReceiveRequest(n)
      PROVE  TypeOK'
  BY <1>2, TypeIdle DEF ReceiveRequest, TypeOK, TypeTimers, timers
<1>3. CASE ReceiveForeignResponse
  BY <1>3, TypeIdle DEF ReceiveForeignResponse, TypeOK, TypeTimers, timers
<1>4. CASE ReceiveMalformed \/ ReceiveTasksStopped
  BY <1>4, TypeIdle
  DEF ReceiveMalformed, ReceiveTasksStopped, TypeOK, TypeTimers, timers
<1>5. QED
  BY <1>1, <1>2, <1>3, <1>4 DEF Receive

(* The entries of a packet that leave the database alone.                  *)
LEMMA TypeSkip ==
    ASSUME TypeOK, AtEntry, NextEntry, Step("response"), IsDatabase(database)',
           UNCHANGED <<timers, networks, pending, wire, restarts>>, TypeRib'
    PROVE  TypeOK'
<1>1. packet \in Packet /\ packet.entries # <<>>
  BY DEF AtEntry, TypeOK, TypeWork
<1>2. packet' \in Packet
  BY <1>1, CurrentEntryType DEF NextEntry
<1>3. TypeWork'
  BY <1>2 DEF TypeOK, TypeWork, Step
<1>4. TypeControl' /\ TypeTimers' /\ TypeWire'
  BY DEF AtEntry, TypeOK, TypeControl, TypeTimers, TypeWire, timers, wire, Step
<1>5. QED
  BY <1>3, <1>4 DEF TypeOK

(* Leaving an entry for the netlink add of its route, or with an error.    *)
LEMMA TypeInstall ==
    ASSUME TypeOK, AtEntry, IsDatabase(database)', has_route(database', Key),
           NEW failed \in BOOLEAN, StepUnless(failed, "install"),
           UNCHANGED <<timers, work, rib, wire, restarts>>
    PROVE  TypeOK'
<1>1. packet' = packet /\ Key' = Key
  BY DEF work, Key, Current
<1>2. TypeControl'
  BY DEF AtEntry, TypeOK, TypeControl, Step, Exit, StepUnless
<1>3. TypeWork'
  BY <1>1 DEF AtEntry, TypeOK, TypeWork, work, Step, Exit, StepUnless
<1>4. TypeTimers' /\ TypeRib' /\ TypeWire'
  BY DEF TypeOK, TypeTimers, TypeRib, TypeWire, timers, rib, wire
<1>5. QED
  BY <1>2, <1>3, <1>4 DEF TypeOK

(* replace_route_from_response.                                            *)
LEMMA TypeReplace ==
    ASSUME TypeOK, AtEntry, has_route(database, Key), NEW db, IsDatabase(db),
           replace_route_from_response(db), taken' \subseteq RouteKey
    PROVE  TypeOK'
<1>1. /\ packet \in Packet /\ packet.dev \in Device
      /\ Key \in RouteKey /\ RouteEntry \in RipEntry
  BY CurrentEntryType DEF AtEntry, TypeOK, TypeWork
<1>2. OldRoute \in RipDbEntry
  BY DatabaseElim DEF TypeOK, has_route, OldRoute
<1>3. TypeRib'
  BY <1>1, <1>2, KernelType DEF replace_route_from_response, TypeOK, TypeRib
<1>4. packet' = packet /\ Key' = Key
  BY DEF replace_route_from_response, work, Key, Current
<1>5. IsDatabase(remove_route(db, Key))
  BY <1>1, RemoveRouteType
<1>6. IsDatabase(database)' /\ (pc' = "install" => has_route(database', Key))
  BY <1>1, <1>5, AddRemoteRouteType DEF replace_route_from_response, Exit
<1>7. TypeControl'
  BY DEF AtEntry, replace_route_from_response, TypeOK, TypeControl,
         Step, Exit, StepUnless
<1>8. TypeWork'
  <2>1. pc' \in {"install", "exited"}
    BY DEF replace_route_from_response, Step, Exit, StepUnless
  <2>2. UNCHANGED <<networks, packet, pending>>
    BY DEF replace_route_from_response, work
  <2>3. QED
    BY <1>1, <1>4, <1>6, <2>1, <2>2 DEF AtEntry, TypeOK, TypeWork
<1>9. TypeTimers' /\ TypeWire'
  BY DEF replace_route_from_response, TypeOK, TypeTimers, TypeWire, timers, wire
<1>10. QED
  BY <1>3, <1>6, <1>7, <1>8, <1>9 DEF TypeOK

(* The handlers of one entry, their netlink calls and the end of a packet. *)
LEMMA TypeHandleEntry ==
    ASSUME TypeOK, HandleEntry
    PROVE  TypeOK'
<1>1. CASE SkipInvalidEntry
  BY <1>1, TypeSkip DEF SkipInvalidEntry, TypeOK, TypeRib, rib
<1>2. CASE IgnorePoison
  BY <1>2, TypeSkip DEF IgnorePoison, AtPoison, TypeOK, TypeRib, rib
<1>3. CASE KeepRoute
  BY <1>3, TypeSkip
  DEF KeepRoute, FromAnotherNextHop, AtReachable, TypeOK, TypeRib, rib
<1>4. CASE RefreshRoute
  <2>1. AtEntry /\ Key \in RouteKey
    BY <1>4, CurrentEntryType
    DEF RefreshRoute, FromCurrentNextHop, AtReachable, AtEntry, TypeOK, TypeWork
  <2>2. IsDatabase(database)'
    BY <1>4, <2>1, RefreshProperties DEF RefreshRoute, TypeOK
  <2>3. QED
    BY <1>4, <2>1, <2>2, TypeSkip DEF RefreshRoute, TypeOK, TypeRib, rib
<1>5. CASE HandlePoison
  <2>1. /\ AtEntry /\ packet \in Packet
        /\ Key \in RouteKey /\ OldRoute \in RipDbEntry
    BY <1>5, CurrentEntryType, DatabaseElim
    DEF HandlePoison, AtPoison, AtEntry, TypeOK, TypeWork, has_route, OldRoute
  <2>2. IsDatabase(database)'
    BY <1>5, <2>1, MoveToGarbageType DEF HandlePoison, TypeOK
  <2>3. TypeRib'
    BY <1>5, <2>1, KernelType, TakenType DEF HandlePoison, TypeOK, TypeRib
  <2>4. packet' \in Packet
    BY <1>5, <2>1, CurrentEntryType DEF HandlePoison, NextEntry, AtEntry
  <2>5. TypeControl'
    BY <1>5, <2>1 DEF HandlePoison, AtEntry, TypeOK, TypeControl, Step, Exit,
                      StepUnless
  <2>6. TypeWork'
    BY <1>5, <2>1, <2>4 DEF HandlePoison, AtEntry, TypeOK, TypeWork, Step, Exit,
                      StepUnless
  <2>7. TypeTimers' /\ TypeWire'
    BY <1>5 DEF HandlePoison, TypeOK, TypeTimers, timers, TypeWire, wire
  <2>8. QED
    BY <2>2, <2>3, <2>5, <2>6, <2>7 DEF TypeOK
<1>6. CASE LearnRoute
  <2>1. /\ AtEntry /\ packet \in Packet
        /\ Key \in RouteKey /\ RouteEntry \in RipEntry /\ packet.dev \in Device
    BY <1>6, CurrentEntryType
    DEF LearnRoute, AtReachable, AtEntry, TypeOK, TypeWork
  <2>2. IsDatabase(remove_garbage_route(database, Key))
    BY <2>1, RemoveGarbageRouteProperties DEF TypeOK
  <2>3. IsDatabase(database)' /\ has_route(database', Key)
    BY <1>6, <2>1, <2>2, AddRemoteRouteType DEF LearnRoute
  <2>4. QED
    <3> DEFINE failed == add_route_fails(remove_garbage_route(database, Key), Key)
    <3>1. /\ failed \in BOOLEAN
          /\ StepUnless(failed, "install")
          /\ UNCHANGED <<timers, work, rib, wire, restarts>>
      BY <1>6 DEF LearnRoute, add_route_fails, has_route
    <3> HIDE DEF failed
    <3>2. QED
      BY <2>1, <2>3, <3>1, TypeInstall
<1>7. CASE UpdateRoute
  <2>1. AtEntry /\ Key \in RouteKey /\ has_route(database, Key)
    BY <1>7, CurrentEntryType
    DEF UpdateRoute, FromCurrentNextHop, AtReachable, AtEntry, TypeOK, TypeWork
  <2>2. IsDatabase(refresh_route_timeout(database, Key))
    BY <2>1, RefreshProperties DEF TypeOK
  <2>3. QED
    BY <1>7, <2>1, <2>2, TakenType, TypeReplace DEF UpdateRoute
<1>8. CASE SwitchRoute
  <2>1. AtEntry /\ has_route(database, Key)
    BY <1>8 DEF SwitchRoute, FromAnotherNextHop, AtReachable
  <2>2. QED
    BY <1>8, <2>1, TypeReplace DEF SwitchRoute, TypeOK, TypeRib
<1>9. CASE InstallRoute
  <2>1. /\ packet \in Packet /\ packet.entries # <<>>
        /\ Key \in RouteKey /\ OldRoute \in RipDbEntry
    BY <1>9, CurrentEntryType, DatabaseElim
    DEF InstallRoute, TypeOK, TypeWork, has_route, OldRoute
  <2>2. packet' \in Packet
    BY <1>9, <2>1, CurrentEntryType DEF InstallRoute, NextEntry
  <2>3. TypeRib'
    BY <1>9, <2>1, KernelType DEF InstallRoute, TypeOK, TypeRib
  <2>4. TypeControl'
    BY <1>9 DEF InstallRoute, TypeOK, TypeControl, Step, Exit
  <2>5. TypeWork'
    BY <1>9, <2>2 DEF InstallRoute, TypeOK, TypeWork, Step, Exit
  <2>6. IsDatabase(database)' /\ TypeTimers' /\ TypeWire'
    BY <1>9 DEF InstallRoute, TypeOK, TypeTimers, timers, TypeWire, wire
  <2>7. QED
    BY <2>3, <2>4, <2>5, <2>6 DEF TypeOK
<1>10. CASE PacketDone
  <2>1. TypeControl' /\ TypeTimers'
    BY <1>10 DEF PacketDone, TypeOK, TypeControl, TypeTimers, timers, Step
  <2>2. TypeWork'
    BY <1>10 DEF PacketDone, TypeOK, TypeWork, Step
  <2>3. IsDatabase(database)' /\ TypeRib' /\ TypeWire'
    BY <1>10 DEF PacketDone, TypeOK, TypeRib, TypeWire, rib, wire
  <2>4. QED
    BY <2>1, <2>2, <2>3 DEF TypeOK
<1>11. QED
  BY <1>1, <1>2, <1>3, <1>4, <1>5, <1>6, <1>7, <1>8, <1>9, <1>10
  DEF HandleEntry

(* handle_http_request.                                                    *)
LEMMA TypeHttp ==
    ASSUME TypeOK, Http
    PROVE  TypeOK'
<1>1. CASE HttpGetRoutes
  BY <1>1, TypeIdle DEF HttpGetRoutes, TypeOK, TypeTimers, timers
<1>2. ASSUME NEW network \in HttpNetwork, HttpAddLocalRoute(network)
      PROVE  TypeOK'
  <2>1. CASE setup_advertised_network_fails(database, network)
    BY <1>2, <2>1, TypeIdle DEF HttpAddLocalRoute, TypeOK, TypeTimers, timers
  <2>2. CASE ~setup_advertised_network_fails(database, network)
    <3>1. network \in Network
      BY <2>2, InputAssumption DEF setup_advertised_network_fails
    <3>2. network.key \in RouteKey /\ network.dev \in Device
      BY <3>1 DEF Network
    <3>3. IsDatabase(database)'
      BY <1>2, <2>2, <3>2, LocalEntryType, AddLocalRouteType
      DEF HttpAddLocalRoute, setup_advertised_network, TypeOK
    <3>4. TypeControl' /\ TypeTimers'
      BY <1>2 DEF HttpAddLocalRoute, TypeOK, TypeControl, TypeTimers, timers, Step
    <3>5. TypeWork'
      BY <1>2 DEF HttpAddLocalRoute, TypeOK, TypeWork, work, Step
    <3>6. TypeRib' /\ TypeWire'
      BY <1>2 DEF HttpAddLocalRoute, TypeOK, TypeRib, TypeWire, rib, wire
    <3>7. QED
      BY <3>3, <3>4, <3>5, <3>6 DEF TypeOK
  <2>3. QED
    BY <2>1, <2>2
<1>3. QED
  BY <1>1, <1>2 DEF Http

(* handle_shutdown, up to its advertisement.                               *)
LEMMA TypeShutdown ==
    ASSUME TypeOK, Shutdown
    PROVE  TypeOK'
<1>1. IsDatabase(database)'
  BY PoisonAllProperties DEF Shutdown, TypeOK
<1>2. pending' \subseteq [key : RouteKey, route : RipDbEntry]
  BY InstalledProperties DEF Shutdown, TypeOK
<1>3. TypeControl' /\ TypeTimers'
  BY DEF Shutdown, TypeOK, TypeControl, TypeTimers, timers, Step
<1>4. TypeWork'
  BY <1>2 DEF Shutdown, TypeOK, TypeWork, Step
<1>5. TypeRib' /\ TypeWire'
  BY DEF Shutdown, TypeOK, TypeRib, TypeWire, rib, wire
<1>6. QED
  BY <1>1, <1>3, <1>4, <1>5 DEF TypeOK

(* The rest of handle_shutdown.                                            *)
LEMMA TypeLeave ==
    ASSUME TypeOK, Leave
    PROVE  TypeOK'
<1>1. CASE Farewell
  <2>1. /\ IsDatabase(database)'
        /\ advertised' \in [RipDevice -> [RouteKey -> Nat]]
    BY <1>1, SendType DEF Farewell, TypeOK
  <2>2. TypeControl' /\ TypeTimers'
    BY <1>1 DEF Farewell, TypeOK, TypeControl, TypeTimers, timers, Step
  <2>3. TypeWork'
    BY <1>1 DEF Farewell, TypeOK, TypeWork, work, Step
  <2>4. TypeRib' /\ TypeWire'
    BY <1>1, <2>1 DEF Farewell, TypeOK, TypeRib, TypeWire, rib
  <2>5. QED
    BY <2>1, <2>2, <2>3, <2>4 DEF TypeOK
<1>2. ASSUME NEW p \in pending, CleanUpRoute(p)
      PROVE  TypeOK'
  <2>1. p.key \in RouteKey /\ p.route \in RipDbEntry
    BY DEF TypeOK, TypeWork
  <2>2. TypeRib'
    BY <1>2, <2>1, KernelType, MessageType DEF CleanUpRoute, TypeOK, TypeRib
  <2>3. TypeControl' /\ TypeTimers'
    BY <1>2 DEF CleanUpRoute, TypeOK, TypeControl, TypeTimers, timers, Step
  <2>4. TypeWork'
    BY <1>2 DEF CleanUpRoute, TypeOK, TypeWork, Step
  <2>5. IsDatabase(database)' /\ TypeWire'
    BY <1>2 DEF CleanUpRoute, TypeOK, TypeWire, wire
  <2>6. QED
    BY <2>2, <2>3, <2>4, <2>5 DEF TypeOK
<1>3. CASE CleanedUp
  BY <1>3, TypeIdle DEF CleanedUp, TypeOK, TypeTimers, timers
<1>4. QED
  BY <1>1, <1>2, <1>3 DEF Leave

(* The passing of time.                                                    *)
LEMMA TypeElapse ==
    ASSUME TypeOK, Elapse
    PROVE  TypeOK'
<1>1. IsDatabase(database)'
  BY GrowOlderProperties DEF Elapse, TypeOK
<1>2. TypeControl' /\ TypeTimers'
  BY DEF Elapse, TypeOK, TypeControl, TypeTimers, timers
<1>3. TypeWork'
  BY DEF Elapse, TypeOK, TypeWork, work
<1>4. TypeRib' /\ TypeWire'
  BY DEF Elapse, TypeOK, TypeRib, TypeWire, rib, wire
<1>5. QED
  BY <1>1, <1>2, <1>3, <1>4 DEF TypeOK

(* A new process.                                                          *)
LEMMA TypeRestart ==
    ASSUME TypeOK, Restart
    PROVE  TypeOK'
<1> MaxRestarts \in Nat
  BY InputAssumption
<1>1. TypeControl'
  BY DEF Restart, TypeOK, TypeControl
<1> TypeTimers'
  BY Zenon DEF Restart, TypeTimers
<1>2. IsDatabase(database)'
  BY NewProperties DEF Restart
<1>3. TypeWork'
  <2>1. networks' \in Configurations
    BY DEF Restart
  <2>2. Configurations \subseteq Seq(Network \cup {InvalidNetwork})
    BY InputAssumption
  <2>3. networks' \in Seq(Network \cup {InvalidNetwork})
    BY <2>1, <2>2, Zenon
  <2>4. QED
    BY <2>3 DEF Restart, TypeWork
<1>4. TypeRib'
  BY DEF Restart, TypeOK, TypeRib
<1>5. TypeWire'
  BY DEF Restart, TypeWire, NothingHeard
<1>6. QED
  BY <1>1, <1>2, <1>3, <1>4, <1>5 DEF TypeOK

(* Every step preserves the types.                                         *)
LEMMA TypeNext ==
    ASSUME TypeOK, [Next]_vars
    PROVE  TypeOK'
<1>1. CASE Start
  BY <1>1, TypeStart
<1>2. CASE Timer
  BY <1>2, TypeTimer
<1>3. CASE Receive
  BY <1>3, TypeReceive
<1>4. CASE Http
  BY <1>4, TypeHttp
<1>5. CASE Shutdown
  BY <1>5, TypeShutdown
<1>6. CASE Handle
  BY <1>6, TypeHandleEntry, TypeTimeOutRoute, TypeTriggeredUpdate, TypeLeave
  DEF Handle
<1>7. CASE Elapse
  BY <1>7, TypeElapse
<1>8. CASE Kill
  BY <1>8, TypeIdle DEF Kill, TypeOK, TypeTimers, timers
<1>9. CASE Restart
  BY <1>9, TypeRestart
<1>10. CASE UNCHANGED vars
  <2>1. TypeControl' /\ TypeTimers'
    BY <1>10 DEF vars, timers, TypeOK, TypeControl, TypeTimers
  <2>2. TypeWork'
    <3>1. UNCHANGED <<pc, networks, packet, pending, database>> /\ Key' = Key
      BY <1>10 DEF vars, work, Key, Current
    <3>2. QED
      BY <3>1 DEF TypeOK, TypeWork
  <2>3. IsDatabase(database)' /\ TypeRib' /\ TypeWire'
    BY <1>10 DEF vars, rib, wire, TypeOK, TypeRib, TypeWire
  <2>4. QED
    BY <2>1, <2>2, <2>3 DEF TypeOK
<1>11. QED
  BY <1>1, <1>2, <1>3, <1>4, <1>5, <1>6, <1>7, <1>8, <1>9, <1>10
  DEF Next, Terminated

(* In every run of the daemon each variable has its type; in particular    *)
(* run() awaits the netlink add of a route only while the database holds   *)
(* that route, and handles entries only while it has a packet.             *)
THEOREM TypeCorrect == Spec => []TypeOK
<1>1. TypeOK /\ [Next]_vars => TypeOK'
  BY TypeNext
<1>2. QED
  BY TypeInit, <1>1, PTL DEF Spec

-----------------------------------------------------------------------------
(* The inductive invariants.                                               *)

(* A local route has no next hop and is not in the kernel; a remote route  *)
(* is, and has the source of a packet as its next hop.                     *)
IsKind(route) ==
    IF route.is_local
    THEN route.next_hop = Unspecified /\ ~route.in_routing_table
    ELSE route.in_routing_table

RouteKinds(db) == \A k \in DOMAIN db.ok_routes : IsKind(db.ok_routes[k])

(* An active route and garbage of one destination, save those in lost.     *)
NoOverlap(db, lost) ==
    \A k \in DOMAIN db.ok_routes \cap DOMAIN db.garbage_routes :
        db.ok_routes[k].is_local \/ k \in lost

(* No valid metric of a packet, which is at least 1 and raised by 1, beats *)
(* the metric of a local route.                                            *)
LocalMetric(db) ==
    \A k \in DOMAIN db.ok_routes :
        db.ok_routes[k].is_local => db.ok_routes[k].metric = 1

Leaving == {"farewell", "cleanup", "exited"}

PacketSource ==
    pc \in {"response", "install"} =>
        \E n \in Neighbour : n.source = packet.source

(* The routes left in the timeout loop are still what they were when they  *)
(* were collected.                                                         *)
TimeoutWork ==
    pc = "timeout" =>
        \A p \in pending : /\ p.key \in DOMAIN database.ok_routes
                           /\ p.route = database.ok_routes[p.key]
                           /\ ~p.route.is_local

InstallWork == pc = "install" => ~OldRoute.is_local

ErrorEnds == exit = "database" => pc = "exited"

DatabaseInv ==
    /\ RouteKinds(database)
    /\ NoOverlap(database, taken)
    /\ pc \notin Leaving => LocalMetric(database)
    /\ PacketSource
    /\ TimeoutWork
    /\ InstallWork
    /\ ErrorEnds
    /\ NoDatabaseError

(* The kernel routes of the active routes.                                 *)
RouteMessages(db) ==
    {build_route_message(k, db.ok_routes[k]) :
        k \in {x \in DOMAIN db.ok_routes : db.ok_routes[x].in_routing_table}}

(* While the daemon runs only the active routes account for the kernel's;  *)
(* once it shuts down only its list of routes to delete does, because the  *)
(* metrics in the database are poisoned.                                   *)
KernelInv ==
    /\ NoKernelLeak
    /\ CleanExit
    /\ pc \notin Leaving =>
           kernel \subseteq preexisting \cup RouteMessages(database)
    /\ pc \in {"farewell", "cleanup"} =>
           kernel \subseteq preexisting \cup Messages(pending) \cup undeleted

-----------------------------------------------------------------------------
(* How the methods of the database change what the invariants look at.     *)

(* Only destination k changes.                                             *)
OnlyAt(db, db2, k) ==
    /\ DOMAIN db2.ok_routes \subseteq DOMAIN db.ok_routes \cup {k}
    /\ DOMAIN db2.garbage_routes \subseteq DOMAIN db.garbage_routes \cup {k}
    /\ \A x \in DOMAIN db.ok_routes \ {k} :
           x \in DOMAIN db2.ok_routes /\ db2.ok_routes[x] = db.ok_routes[x]

(* What quiet changes preserve.                                            *)
LEMMA QuietPreserves ==
    ASSUME NEW db, NEW db2, Quiet(db, db2)
    PROVE  /\ RouteKinds(db) => RouteKinds(db2)
           /\ \A lost : NoOverlap(db, lost) => NoOverlap(db2, lost)
           /\ LocalMetric(db) => LocalMetric(db2)
           /\ RouteMessages(db2) = RouteMessages(db)
<1>1. RouteKinds(db) => RouteKinds(db2)
  BY DEF Quiet, SameForwarding, RouteKinds, IsKind
<1>2. \A lost : NoOverlap(db, lost) => NoOverlap(db2, lost)
  BY DEF Quiet, SameForwarding, NoOverlap
<1>3. LocalMetric(db) => LocalMetric(db2)
  BY DEF Quiet, SameForwarding, LocalMetric
<1>4. \A k \in DOMAIN db.ok_routes :
          build_route_message(k, db2.ok_routes[k]) =
              build_route_message(k, db.ok_routes[k])
  BY DEF Quiet, SameForwarding, build_route_message
<1>5. {x \in DOMAIN db2.ok_routes : db2.ok_routes[x].in_routing_table} =
          {x \in DOMAIN db.ok_routes : db.ok_routes[x].in_routing_table}
  BY DEF Quiet, SameForwarding
<1>6. RouteMessages(db2) = RouteMessages(db)
  BY <1>4, <1>5 DEF RouteMessages
<1>7. QED
  BY <1>1, <1>2, <1>3, <1>6

(* What a change of one destination preserves, if its new active route is  *)
(* as it should be.                                                        *)
LEMMA OnlyAtPreserves ==
    ASSUME NEW db, NEW db2, NEW k, NEW lost, NEW lost2, OnlyAt(db, db2, k),
           RouteKinds(db), NoOverlap(db, lost), LocalMetric(db),
           lost \subseteq lost2,
           k \in DOMAIN db2.ok_routes =>
               /\ IsKind(db2.ok_routes[k])
               /\ db2.ok_routes[k].is_local => db2.ok_routes[k].metric = 1
               /\ k \in DOMAIN db2.garbage_routes =>
                      db2.ok_routes[k].is_local \/ k \in lost2
    PROVE  RouteKinds(db2) /\ NoOverlap(db2, lost2) /\ LocalMetric(db2)
<1>1. RouteKinds(db2)
  BY DEF OnlyAt, RouteKinds
<1>2. NoOverlap(db2, lost2)
  BY DEF OnlyAt, NoOverlap
<1>3. LocalMetric(db2)
  BY DEF OnlyAt, LocalMetric
<1>4. QED
  BY <1>1, <1>2, <1>3

(* Of the kernel routes only the one of that destination is lost.          *)
LEMMA OnlyAtMessages ==
    ASSUME NEW db, NEW db2, NEW k, OnlyAt(db, db2, k)
    PROVE  /\ RouteMessages(db)
                  \subseteq RouteMessages(db2)
                            \cup {build_route_message(k, db.ok_routes[k])}
           /\ k \notin DOMAIN db.ok_routes =>
                  RouteMessages(db) \subseteq RouteMessages(db2)
BY DEF OnlyAt, RouteMessages

(* move_route_to_garbage takes the active route away, even when it fails   *)
(* because there is garbage already.                                       *)
LEMMA OnlyAtMove ==
    ASSUME NEW db, IsDatabase(db), NEW k \in RouteKey, has_route(db, k)
    PROVE  LET db2 == move_route_to_garbage(db, k)
           IN  /\ OnlyAt(db, db2, k)
               /\ k \notin DOMAIN db2.ok_routes
               /\ k \in DOMAIN db2.garbage_routes
<1>1. CASE has_garbage_route(db, k)
  <2>1. /\ move_route_to_garbage(db, k).ok_routes = remove(db.ok_routes, k)
        /\ move_route_to_garbage(db, k).garbage_routes = db.garbage_routes
    BY <1>1 DEF move_route_to_garbage
  <2>2. /\ DOMAIN remove(db.ok_routes, k) = DOMAIN db.ok_routes \ {k}
        /\ \A x \in DOMAIN db.ok_routes \ {k} :
               remove(db.ok_routes, k)[x] = db.ok_routes[x]
    BY DEF remove
  <2>3. QED
    BY <1>1, <2>1, <2>2 DEF OnlyAt, has_garbage_route
<1>2. CASE ~has_garbage_route(db, k)
  BY <1>2, MoveToGarbageProperties DEF OnlyAt, move_route_to_garbage_fails
<1>3. QED
  BY <1>1, <1>2

(* Adding a remote route where there is none.                              *)
LEMMA OnlyAtAddRemote ==
    ASSUME NEW db, IsDatabase(db), NEW k \in RouteKey, ~has_route(db, k),
           NEW entry \in RipEntry, NEW dev \in Device
    PROVE  LET db2 == add_remote_route(db, k, entry, dev)
           IN  /\ OnlyAt(db, db2, k)
               /\ k \in DOMAIN db2.ok_routes
               /\ IsKind(db2.ok_routes[k])
               /\ ~db2.ok_routes[k].is_local
               /\ db2.garbage_routes = db.garbage_routes
<1> DEFINE route == db_entry(entry, dev, FALSE, TRUE)
           db2 == add_route(db, k, route)
<1>1. route \in RipDbEntry /\ route.changed
  BY DbEntryType
<1>2. ~add_route_fails(db, k)
  BY DEF add_route_fails
<1>3. ~route.is_local /\ route.in_routing_table
  BY DEF db_entry
<1> HIDE DEF route
<1>4. /\ db2.ok_routes[k] = route
      /\ DOMAIN db2.ok_routes = DOMAIN db.ok_routes \cup {k}
      /\ \A x \in DOMAIN db.ok_routes : db2.ok_routes[x] = db.ok_routes[x]
      /\ db2.garbage_routes = db.garbage_routes
  BY <1>1, <1>2, AddRouteProperties
<1>5. add_remote_route(db, k, entry, dev) = db2
  BY DEF add_remote_route, route
<1> HIDE DEF db2
<1>6. QED
  BY <1>3, <1>4, <1>5 DEF OnlyAt, IsKind

(* Adding a local route where there is none.                               *)
LEMMA OnlyAtAddLocal ==
    ASSUME NEW db, IsDatabase(db), NEW k \in RouteKey, ~has_route(db, k),
           NEW dev \in Device
    PROVE  LET db2 == add_local_route(db, k, local_entry, dev)
           IN  /\ OnlyAt(db, db2, k)
               /\ k \in DOMAIN db2.ok_routes
               /\ IsKind(db2.ok_routes[k])
               /\ db2.ok_routes[k].is_local
               /\ db2.ok_routes[k].metric = 1
<1> DEFINE route == db_entry(local_entry, dev, TRUE, FALSE)
           db2 == add_route(db, k, route)
<1>1. route \in RipDbEntry /\ route.changed
  BY DbEntryType, LocalEntryType
<1>2. ~add_route_fails(db, k)
  BY DEF add_route_fails
<1>3. /\ route.is_local /\ ~route.in_routing_table
      /\ route.next_hop = Unspecified /\ route.metric = 1
  BY DEF db_entry, local_entry
<1> HIDE DEF route
<1>4. /\ db2.ok_routes[k] = route
      /\ DOMAIN db2.ok_routes = DOMAIN db.ok_routes \cup {k}
      /\ \A x \in DOMAIN db.ok_routes : db2.ok_routes[x] = db.ok_routes[x]
      /\ db2.garbage_routes = db.garbage_routes
  BY <1>1, <1>2, AddRouteProperties
<1>5. add_local_route(db, k, local_entry, dev) = db2
  BY DEF add_local_route, route
<1> HIDE DEF db2
<1>6. QED
  BY <1>3, <1>4, <1>5 DEF OnlyAt, IsKind

(* Replacing an active route.                                              *)
LEMMA OnlyAtReplace ==
    ASSUME NEW db, IsDatabase(db), NEW k \in RouteKey, has_route(db, k),
           NEW entry \in RipEntry, NEW dev \in Device
    PROVE  LET db2 == add_remote_route(remove_route(db, k), k, entry, dev)
           IN  /\ ~remove_route_fails(db, k)
               /\ ~add_route_fails(remove_route(db, k), k)
               /\ OnlyAt(db, db2, k)
               /\ k \in DOMAIN db2.ok_routes
               /\ IsKind(db2.ok_routes[k])
               /\ ~db2.ok_routes[k].is_local
               /\ db2.garbage_routes = db.garbage_routes
<1> DEFINE removed == remove_route(db, k)
           db2 == add_remote_route(removed, k, entry, dev)
<1>1. /\ IsDatabase(removed)
      /\ DOMAIN removed.ok_routes = DOMAIN db.ok_routes \ {k}
      /\ \A x \in DOMAIN db.ok_routes \ {k} :
             removed.ok_routes[x] = db.ok_routes[x]
      /\ removed.garbage_routes = db.garbage_routes
  BY RemoveRouteProperties
<1> HIDE DEF removed
<1>2. ~has_route(removed, k)
  BY <1>1 DEF has_route
<1>3. /\ OnlyAt(removed, db2, k)
      /\ k \in DOMAIN db2.ok_routes
      /\ IsKind(db2.ok_routes[k])
      /\ ~db2.ok_routes[k].is_local
      /\ db2.garbage_routes = removed.garbage_routes
  BY <1>1, <1>2, OnlyAtAddRemote
<1> HIDE DEF db2
<1>4. OnlyAt(db, db2, k)
  BY <1>1, <1>3 DEF OnlyAt
<1>5. ~remove_route_fails(db, k) /\ ~add_route_fails(removed, k)
  BY <1>2 DEF remove_route_fails, add_route_fails
<1>6. QED
  BY <1>1, <1>3, <1>4, <1>5 DEF removed, db2

-----------------------------------------------------------------------------
(* DatabaseInv is inductive.                                               *)

(* A step that changes the database at most quietly.                       *)
LEMMA QuietStep ==
    ASSUME DatabaseInv, Quiet(database, database'), taken \subseteq taken',
           pc' \notin Leaving => pc \notin Leaving,
           PacketSource', TimeoutWork', InstallWork', ErrorEnds',
           NoDatabaseError'
    PROVE  DatabaseInv'
<1>1. RouteKinds(database') /\ NoOverlap(database', taken')
  <2>1. RouteKinds(database') /\ NoOverlap(database', taken)
    BY QuietPreserves DEF DatabaseInv
  <2>2. QED
    BY <2>1 DEF NoOverlap
<1>2. pc' \notin Leaving => LocalMetric(database')
  BY QuietPreserves DEF DatabaseInv
<1>3. QED
  BY <1>1, <1>2 DEF DatabaseInv

(* A quiet step out of or past the loops.                                  *)
LEMMA QuietReturn ==
    ASSUME DatabaseInv, Quiet(database, database'), taken \subseteq taken',
           pc' \notin Leaving => pc \notin Leaving,
           pc' \notin {"response", "install", "timeout"}, exit' # "database"
    PROVE  DatabaseInv'
<1>1. /\ PacketSource' /\ TimeoutWork' /\ InstallWork'
      /\ ErrorEnds' /\ NoDatabaseError'
  BY DEF PacketSource, TimeoutWork, InstallWork, ErrorEnds, NoDatabaseError
<1>2. QED
  BY <1>1, QuietStep

(* The quiet steps of an entry.                                            *)
LEMMA QuietEntry ==
    ASSUME TypeOK, DatabaseInv, Quiet(database, database'),
           taken \subseteq taken',
           pc \in {"response", "install"}, NextEntry, Step("response")
    PROVE  DatabaseInv'
<1>1. packet \in Packet
  BY DEF TypeOK, TypeWork
<1>2. packet'.source = packet.source
  BY <1>1 DEF NextEntry, Packet
<1>3. /\ PacketSource' /\ TimeoutWork' /\ InstallWork'
      /\ ErrorEnds' /\ NoDatabaseError'
  BY <1>2 DEF DatabaseInv, PacketSource, TimeoutWork, InstallWork,
              ErrorEnds, NoDatabaseError, Step
<1>4. pc' \notin Leaving => pc \notin Leaving
  BY DEF Leaving
<1>5. QED
  BY <1>3, <1>4, QuietStep

(* A step that changes one destination.                                    *)
LEMMA OnlyAtStep ==
    ASSUME DatabaseInv, NEW db, RouteKinds(db), NoOverlap(db, taken),
           LocalMetric(db), taken \subseteq taken',
           NEW k, OnlyAt(db, database', k),
           k \in DOMAIN database'.ok_routes =>
               /\ IsKind(database'.ok_routes[k])
               /\ database'.ok_routes[k].is_local =>
                      database'.ok_routes[k].metric = 1
               /\ k \in DOMAIN database'.garbage_routes =>
                      database'.ok_routes[k].is_local \/ k \in taken',
           PacketSource', TimeoutWork', InstallWork', ErrorEnds',
           NoDatabaseError'
    PROVE  DatabaseInv'
<1>1. /\ RouteKinds(database') /\ NoOverlap(database', taken')
      /\ LocalMetric(database')
  BY OnlyAtPreserves
<1>2. QED
  BY <1>1 DEF DatabaseInv

(* An advertisement, sent or not.                                          *)
LEMMA QuietSend ==
    ASSUME IsDatabase(database), NEW changed_only,
           \/ send_multicast_advertisement(changed_only)
           \/ send_multicast_advertisement_fails(changed_only)
    PROVE  Quiet(database, database')
BY QuietMark, QuietSame
DEF send_multicast_advertisement, send_multicast_advertisement_fails

(* A local network set up by the configuration or over HTTP.               *)
LEMMA DatabaseAddLocal ==
    ASSUME TypeOK, DatabaseInv, taken \subseteq taken',
           pc \in {"setup", "select"},
           NEW network \in Network \cup {InvalidNetwork},
           ~setup_advertised_network_fails(database, network),
           database' = setup_advertised_network(database, network),
           Step("setup") \/ Step("trigger")
    PROVE  DatabaseInv'
<1> DEFINE k == network.key
<1>1. network \in Network /\ ~has_route(database, k)
  BY DEF setup_advertised_network_fails, add_route_fails
<1>2. k \in RouteKey /\ network.dev \in Device
  BY <1>1 DEF Network
<1>3. /\ OnlyAt(database, database', k)
      /\ IsKind(database'.ok_routes[k])
      /\ database'.ok_routes[k].is_local
      /\ database'.ok_routes[k].metric = 1
  BY <1>1, <1>2, OnlyAtAddLocal DEF setup_advertised_network, TypeOK
<1>4. /\ PacketSource' /\ TimeoutWork' /\ InstallWork'
      /\ ErrorEnds' /\ NoDatabaseError'
  BY DEF PacketSource, TimeoutWork, InstallWork,
         ErrorEnds, NoDatabaseError, Step,
         DatabaseInv
<1>5. RouteKinds(database) /\ NoOverlap(database, taken) /\ LocalMetric(database)
  BY DEF DatabaseInv, Leaving
<1> HIDE DEF k
<1>6. QED
  BY <1>3, <1>4, <1>5, OnlyAtStep

(* Starting.                                                               *)
LEMMA DatabaseStart ==
    ASSUME TypeOK, DatabaseInv, taken \subseteq taken',
           Start
    PROVE  DatabaseInv'
<1>1. CASE SetupNetwork
  <2>1. Head(networks) \in Network \cup {InvalidNetwork}
    BY <1>1, HeadTailProperties DEF SetupNetwork, TypeOK, TypeWork
  <2>2. QED
    BY <1>1, <2>1, DatabaseAddLocal DEF SetupNetwork
<1>2. CASE SetupNetworkFails \/ StartFails
  BY <1>2, QuietReturn, QuietSame
  DEF SetupNetworkFails, StartFails, Exit, Leaving
<1>3. CASE Run
  BY <1>3, QuietReturn, QuietSame
  DEF Run, Step, Leaving, DatabaseInv, ErrorEnds, NoDatabaseError
<1>4. QED
  BY <1>1, <1>2, <1>3 DEF Start

(* The timers.                                                             *)
LEMMA DatabaseTimer ==
    ASSUME TypeOK, DatabaseInv, taken \subseteq taken',
           Timer
    PROVE  DatabaseInv'
<1>1. CASE RequestWarmupTimer \/ TriggeredUpdateLockTimer
  BY <1>1, QuietReturn, QuietSame
  DEF RequestWarmupTimer, TriggeredUpdateLockTimer, Step, Exit, Leaving,
      DatabaseInv, ErrorEnds, NoDatabaseError
<1>2. CASE UpdateTimer
  <2>1. Quiet(database, database')
    BY <1>2, QuietSend DEF UpdateTimer, TypeOK
  <2>2. QED
    BY <1>2, <2>1, QuietReturn
    DEF UpdateTimer, Step, Exit, Leaving, DatabaseInv,
        ErrorEnds, NoDatabaseError
<1>3. CASE TimeoutTimer
  <2>1. Quiet(database, database')
    BY <1>3, QuietCountSilence DEF TimeoutTimer, TypeOK
  <2>2. \A p \in pending' : /\ p.key \in DOMAIN database'.ok_routes
                            /\ p.route = database'.ok_routes[p.key]
                            /\ is_timed_out(p.route)
    BY <1>3, CollectProperties DEF TimeoutTimer, TypeOK
  <2>3. /\ PacketSource' /\ TimeoutWork' /\ InstallWork'
        /\ ErrorEnds' /\ NoDatabaseError'
    BY <1>3, <2>2 DEF TimeoutTimer, Step, PacketSource, TimeoutWork,
                      InstallWork, ErrorEnds, NoDatabaseError, is_timed_out, DatabaseInv
  <2>4. pc \notin Leaving
    BY <1>3 DEF TimeoutTimer, Leaving
  <2>5. QED
    BY <2>1, <2>3, <2>4, QuietStep
<1>4. CASE GarbageCollectionTimer
  <2>1. Quiet(database, database')
    BY <1>4, QuietGarbage DEF GarbageCollectionTimer, TypeOK
  <2>2. QED
    BY <1>4, <2>1, QuietReturn
    DEF GarbageCollectionTimer, Step, Leaving, DatabaseInv,
        ErrorEnds, NoDatabaseError
<1>5. QED
  BY <1>1, <1>2, <1>3, <1>4 DEF Timer

(* The loop over timed out routes: its routes are distinct destinations,   *)
(* active and remote, and where one has garbage already, so that the move  *)
(* fails, it took the place of a local route.                              *)
LEMMA DatabaseTimeOutRoute ==
    ASSUME TypeOK, DatabaseInv, taken \subseteq taken',
           NEW p \in pending, TimeOutRoute(p)
    PROVE  DatabaseInv'
<1>1. /\ pc = "timeout" /\ p.key \in RouteKey /\ p.route \in RipDbEntry
      /\ has_route(database, p.key)
      /\ ~database.ok_routes[p.key].is_local
      /\ exit # "database"
  BY DEF TimeOutRoute, TypeOK, TypeWork, DatabaseInv, TimeoutWork, has_route,
         ErrorEnds
<1>2. move_route_to_garbage_fails(database, p.key) => p.key \in taken'
  BY <1>1 DEF move_route_to_garbage_fails, has_route, has_garbage_route,
              DatabaseInv, NoOverlap
<1>3. CASE Exit("io") /\ database' = database
  BY <1>1, <1>3, QuietReturn, QuietSame DEF Exit, Leaving
<1>4. CASE /\ database' = move_route_to_garbage(database, p.key)
           /\ pending' = pending \ {p}
           /\ \/ pc' \in {"trigger", "timeout"} /\ exit' = exit
              \/ Exit("database") /\ p.key \in taken'
  <2>1. /\ OnlyAt(database, database', p.key)
        /\ p.key \notin DOMAIN database'.ok_routes
        /\ has_garbage_route(database', p.key)
    BY <1>1, <1>4, OnlyAtMove DEF TypeOK, has_garbage_route
  <2>2. TimeoutWork'
    <3>1. \A q \in pending' : q \in pending /\ q.key # p.key
      BY <1>1, <1>4 DEF TypeOK, TypeWork, DatabaseInv, TimeoutWork
    <3>2. QED
      BY <1>1, <2>1, <3>1 DEF DatabaseInv, TimeoutWork, OnlyAt
  <2>3. /\ PacketSource' /\ InstallWork'
        /\ ErrorEnds' /\ NoDatabaseError'
    BY <1>1, <1>4, <2>1 DEF PacketSource, InstallWork, ErrorEnds,
                            NoDatabaseError, Exit
  <2>4. /\ RouteKinds(database) /\ NoOverlap(database, taken)
        /\ LocalMetric(database)
    BY <1>1 DEF DatabaseInv, Leaving
  <2>5. QED
    BY <2>1, <2>2, <2>3, <2>4, OnlyAtStep
<1>5. QED
  BY <1>2, <1>3, <1>4 DEF TimeOutRoute, StepUnless, Step

(* What is known of an entry while it is handled.                          *)
LEMMA EntryKnown ==
    ASSUME TypeOK, DatabaseInv, AtEntry
    PROVE  /\ packet \in Packet /\ packet.dev \in Device
           /\ Key \in RouteKey /\ RouteEntry \in RipEntry
           /\ RouteEntry.next_hop = packet.source
           /\ is_entry_valid(Current) => RouteEntry.metric > 1
           /\ RouteKinds(database) /\ NoOverlap(database, taken)
           /\ LocalMetric(database)
           /\ exit # "database"
<1>1. /\ packet \in Packet /\ packet.entries # <<>>
  BY DEF AtEntry, TypeOK, TypeWork
<1>2. /\ packet.dev \in Device /\ Key \in RouteKey /\ RouteEntry \in RipEntry
  BY <1>1, CurrentEntryType
<1>3. RouteEntry.next_hop = packet.source
  BY <1>1 DEF RouteEntry, response_entry_to_route
<1>4. is_entry_valid(Current) => RouteEntry.metric > 1
  BY InfinityAssumption
  DEF is_entry_valid, is_metric_valid, RouteEntry, response_entry_to_route,
      update_metric
<1>5. /\ RouteKinds(database) /\ NoOverlap(database, taken)
      /\ LocalMetric(database) /\ exit # "database"
  BY DEF AtEntry, DatabaseInv, Leaving, ErrorEnds
<1>6. QED
  BY <1>1, <1>2, <1>3, <1>4, <1>5

(* replace_route_from_response succeeds, up to the netlink call.  Where it *)
(* replaces a local route, the destination is marked as taken.             *)
LEMMA DatabaseReplace ==
    ASSUME TypeOK, DatabaseInv, taken \subseteq taken', AtEntry,
           has_route(database, Key), OldRoute.is_local => Key \in taken',
           NEW db, IsDatabase(db), Quiet(database, db),
           replace_route_from_response(db)
    PROVE  /\ DatabaseInv'
           /\ exit' # "io" => OnlyAt(db, database', Key)
           /\ \/ Exit("io") /\ kernel' = kernel /\ database' = db
              \/ /\ kernel' = delete_route_from_kernel(kernel, Key, OldRoute)
                 /\ Step("install")
<1>1. /\ packet.dev \in Device /\ exit # "database"
      /\ Key \in RouteKey /\ RouteEntry \in RipEntry
  BY EntryKnown
<1>2. RouteKinds(db) /\ NoOverlap(db, taken) /\ LocalMetric(db)
  BY EntryKnown, QuietPreserves
<1>3. /\ has_route(db, Key)
      /\ Key \in DOMAIN db.garbage_routes => Key \in taken'
  BY EntryKnown DEF Quiet, has_route, NoOverlap, OldRoute
<1>4. CASE Exit("io") /\ kernel' = kernel /\ database' = db
  BY <1>4, QuietReturn DEF Exit, AtEntry, Leaving
<1>5. CASE ~(Exit("io") /\ kernel' = kernel /\ database' = db)
  <2> DEFINE removed == remove_route(db, Key)
             db2 == add_remote_route(removed, Key, RouteEntry, packet.dev)
  <2>1. /\ ~remove_route_fails(db, Key)
        /\ ~add_route_fails(removed, Key)
        /\ OnlyAt(db, db2, Key)
        /\ Key \in DOMAIN db2.ok_routes
        /\ IsKind(db2.ok_routes[Key])
        /\ ~db2.ok_routes[Key].is_local
        /\ db2.garbage_routes = db.garbage_routes
    BY <1>1, <1>3, OnlyAtReplace
  <2>2. /\ database' = db2 /\ Step("install")
        /\ kernel' = delete_route_from_kernel(kernel, Key, OldRoute)
        /\ packet' = packet /\ Key' = Key
    BY <1>5, <2>1 DEF replace_route_from_response, StepUnless, work, Key, Current
  <2> HIDE DEF removed, db2
  <2>3. /\ PacketSource' /\ TimeoutWork'
        /\ ErrorEnds' /\ NoDatabaseError'
    BY <1>1, <2>2 DEF PacketSource, TimeoutWork, ErrorEnds, NoDatabaseError,
                      DatabaseInv, AtEntry, Step
  <2>4. InstallWork'
    BY <2>1, <2>2 DEF InstallWork, OldRoute
  <2>5. DatabaseInv'
    BY <1>2, <1>3, <2>1, <2>2, <2>3, <2>4, OnlyAtStep
  <2>6. QED
    BY <2>1, <2>2, <2>5
<1>6. QED
  BY <1>4, <1>5 DEF Exit

(* An entry takes a local route only when it comes from 0.0.0.0, and then  *)
(* the destination is marked; a better metric never does.                  *)
LEMMA OldRouteOwned ==
    ASSUME TypeOK, DatabaseInv, AtEntry, has_route(database, Key),
           OldRoute.is_local
    PROVE  /\ is_entry_valid(Current) => OldRoute.metric < RouteEntry.metric
           /\ route_is_from_current_next_hop(OldRoute, RouteEntry) =>
                  packet.source = Unspecified /\ Key \in TakenNow
<1>1. /\ RouteEntry.next_hop = packet.source
      /\ is_entry_valid(Current) => RouteEntry.metric > 1
      /\ RouteKinds(database) /\ LocalMetric(database)
      /\ RouteEntry.metric \in Nat
  BY EntryKnown DEF RipEntry
<1>2. OldRoute.next_hop = Unspecified /\ OldRoute.metric = 1
  BY <1>1 DEF RouteKinds, IsKind, LocalMetric, OldRoute, has_route
<1>3. QED
  BY <1>1, <1>2 DEF route_is_from_current_next_hop, TakenNow

(* The entries of a response packet.                                       *)
LEMMA DatabaseHandleEntry ==
    ASSUME TypeOK, DatabaseInv, taken \subseteq taken',
           HandleEntry
    PROVE  DatabaseInv'
<1>1. CASE SkipInvalidEntry \/ IgnorePoison \/ KeepRoute
  BY <1>1, QuietEntry, QuietSame
  DEF SkipInvalidEntry, IgnorePoison, KeepRoute, FromAnotherNextHop, AtPoison,
      AtReachable, AtEntry
<1>2. CASE RefreshRoute
  <2>1. AtEntry /\ NextEntry /\ Step("response")
    BY <1>2 DEF RefreshRoute, FromCurrentNextHop, AtReachable
  <2>2. Quiet(database, database')
    BY <1>2, <2>1, EntryKnown, QuietRefresh DEF RefreshRoute, TypeOK
  <2>3. QED
    BY <2>1, <2>2, QuietEntry DEF AtEntry
<1>3. CASE HandlePoison
  <2>1. /\ AtEntry /\ has_route(database, Key)
        /\ route_is_from_current_next_hop(OldRoute, RouteEntry)
    BY <1>3 DEF HandlePoison, AtPoison
  <2>2. OldRoute.is_local => Key \in taken'
    BY <1>3, <2>1, OldRouteOwned DEF HandlePoison
  <2>3. /\ packet \in Packet /\ Key \in RouteKey /\ exit # "database"
        /\ RouteKinds(database) /\ NoOverlap(database, taken)
        /\ LocalMetric(database)
    BY <2>1, EntryKnown
  <2>4. move_route_to_garbage_fails(database, Key) => Key \in taken'
    BY <2>1, <2>2, <2>3 DEF move_route_to_garbage_fails, has_route,
                            has_garbage_route, NoOverlap, OldRoute
  <2>5. CASE Exit("io") /\ database' = database
    BY <2>1, <2>5, QuietReturn, QuietSame DEF Exit, AtEntry, Leaving
  <2>6. CASE ~(Exit("io") /\ database' = database)
    <3>1. /\ database' = move_route_to_garbage(database, Key) /\ NextEntry
          /\ \/ Step("response")
             \/ Exit("database") /\ Key \in taken'
      BY <1>3, <2>4, <2>6 DEF HandlePoison, StepUnless
    <3>2. /\ OnlyAt(database, database', Key)
          /\ Key \notin DOMAIN database'.ok_routes
          /\ has_garbage_route(database', Key)
      BY <2>1, <2>3, <3>1, OnlyAtMove DEF TypeOK, has_garbage_route
    <3>3. packet'.source = packet.source
      BY <2>3, <3>1 DEF NextEntry, Packet
    <3>4. /\ PacketSource' /\ TimeoutWork' /\ InstallWork'
          /\ ErrorEnds' /\ NoDatabaseError'
      BY <2>1, <2>3, <3>1, <3>2, <3>3
      DEF Step, Exit, PacketSource, TimeoutWork, InstallWork, ErrorEnds,
          NoDatabaseError, DatabaseInv, AtEntry
    <3> DEFINE k == Key
    <3> HIDE DEF k
    <3>5. /\ OnlyAt(database, database', k)
          /\ k \notin DOMAIN database'.ok_routes
      BY <3>2 DEF k
    <3>6. QED
      BY <2>3, <3>4, <3>5, OnlyAtStep
  <2>7. QED
    BY <2>5, <2>6
<1>4. CASE LearnRoute
  <2>1. AtEntry /\ ~has_route(database, Key)
    BY <1>4 DEF LearnRoute, AtReachable
  <2>2. /\ packet.dev \in Device
        /\ Key \in RouteKey /\ RouteEntry \in RipEntry
        /\ RouteKinds(database) /\ NoOverlap(database, taken) /\ LocalMetric(database)
    BY <2>1, EntryKnown
  <2> DEFINE db == remove_garbage_route(database, Key)
             db2 == add_remote_route(db, Key, RouteEntry, packet.dev)
  <2>3. /\ IsDatabase(db)
        /\ db.ok_routes = database.ok_routes
        /\ DOMAIN db.garbage_routes = DOMAIN database.garbage_routes \ {Key}
    BY <2>2, RemoveGarbageRouteProperties DEF TypeOK
  <2>4. /\ database' = db2
        /\ StepUnless(add_route_fails(db, Key), "install")
        /\ packet' = packet /\ Key' = Key
    BY <1>4 DEF LearnRoute, work, Key, Current
  <2> HIDE DEF db
  <2>5. ~has_route(db, Key)
    BY <2>1, <2>3 DEF has_route
  <2>6. /\ OnlyAt(db, db2, Key)
        /\ Key \in DOMAIN db2.ok_routes
        /\ IsKind(db2.ok_routes[Key])
        /\ ~db2.ok_routes[Key].is_local
        /\ db2.garbage_routes = db.garbage_routes
    BY <2>2, <2>3, <2>5, OnlyAtAddRemote
  <2> HIDE DEF db2
  <2>7. RouteKinds(db) /\ NoOverlap(db, taken) /\ LocalMetric(db)
    BY <2>2, <2>3 DEF RouteKinds, NoOverlap, LocalMetric
  <2>8. pc' = "install" /\ exit' = exit /\ exit # "database"
    BY <2>1, <2>4, <2>5, EntryKnown DEF StepUnless, Step, add_route_fails
  <2>9. /\ PacketSource' /\ TimeoutWork'
        /\ ErrorEnds' /\ NoDatabaseError'
    BY <2>1, <2>4, <2>8 DEF PacketSource, TimeoutWork,
                            ErrorEnds, NoDatabaseError,
                            DatabaseInv, AtEntry
  <2>10. InstallWork'
    BY <2>4, <2>6 DEF InstallWork, OldRoute
  <2>11. QED
    BY <2>3, <2>4, <2>6, <2>7, <2>9, <2>10, OnlyAtStep
<1>5. CASE UpdateRoute
  <2>1. /\ AtEntry /\ has_route(database, Key)
        /\ route_is_from_current_next_hop(OldRoute, RouteEntry)
    BY <1>5 DEF UpdateRoute, FromCurrentNextHop, AtReachable
  <2>2. (OldRoute.is_local => Key \in taken') /\ Key \in RouteKey
    BY <1>5, <2>1, OldRouteOwned, EntryKnown DEF UpdateRoute
  <2>3. /\ IsDatabase(refresh_route_timeout(database, Key))
        /\ Quiet(database, refresh_route_timeout(database, Key))
    BY <2>2, RefreshProperties, QuietRefresh DEF TypeOK
  <2>4. QED
    BY <1>5, <2>1, <2>2, <2>3, DatabaseReplace DEF UpdateRoute
<1>6. CASE SwitchRoute
  <2>1. /\ AtEntry /\ has_route(database, Key) /\ is_entry_valid(Current)
        /\ OldRoute.metric > RouteEntry.metric
    BY <1>6 DEF SwitchRoute, FromAnotherNextHop, AtReachable
  <2>2. ~OldRoute.is_local
    <3>1. OldRoute.metric \in Nat /\ RouteEntry.metric \in Nat
      BY <2>1, EntryKnown, DatabaseElim
      DEF TypeOK, has_route, OldRoute, RipDbEntry, RipEntry
    <3>2. QED
      BY <2>1, <3>1, OldRouteOwned
  <2>3. QED
    BY <1>6, <2>1, <2>2, QuietSame, DatabaseReplace DEF SwitchRoute, TypeOK
<1>7. CASE InstallRoute
  <2>1. CASE NextEntry /\ Step("response")
    BY <1>7, <2>1, QuietEntry, QuietSame DEF InstallRoute
  <2>2. CASE Exit("io")
    BY <1>7, <2>2, QuietReturn, QuietSame DEF InstallRoute, Exit, Leaving
  <2>3. QED
    BY <1>7, <2>1, <2>2 DEF InstallRoute
<1>8. CASE PacketDone
  BY <1>8, QuietReturn, QuietSame
  DEF PacketDone, Step, Leaving, DatabaseInv, ErrorEnds, NoDatabaseError
<1>9. QED
  BY <1>1, <1>2, <1>3, <1>4, <1>5, <1>6, <1>7, <1>8 DEF HandleEntry

(* Receiving a packet: it comes from a neighbour.                          *)
LEMMA DatabaseReceive ==
    ASSUME TypeOK, DatabaseInv, taken \subseteq taken',
           Receive
    PROVE  DatabaseInv'
<1>1. ASSUME NEW n \in Neighbour, NEW entries, ReceiveResponse(n, entries)
      PROVE  DatabaseInv'
  <2>1. packet'.source = n.source
    BY <1>1 DEF ReceiveResponse
  <2>2. /\ PacketSource' /\ TimeoutWork' /\ InstallWork'
        /\ ErrorEnds' /\ NoDatabaseError'
    BY <1>1, <2>1 DEF ReceiveResponse, Step, PacketSource, TimeoutWork,
                      InstallWork, ErrorEnds, NoDatabaseError, DatabaseInv
  <2>3. database' = database /\ pc \notin Leaving
    BY <1>1 DEF ReceiveResponse, Leaving
  <2>4. QED
    BY <2>2, <2>3, QuietStep, QuietSame
<1>2. ASSUME NEW n \in Neighbour, ReceiveRequest(n)
      PROVE  DatabaseInv'
  BY <1>2, QuietReturn, QuietSame
  DEF ReceiveRequest, Step, Exit, Leaving, DatabaseInv,
      ErrorEnds, NoDatabaseError
<1>3. CASE ReceiveForeignResponse \/ ReceiveMalformed \/ ReceiveTasksStopped
  BY <1>3, QuietReturn, QuietSame

       DEF ReceiveForeignResponse, ReceiveMalformed, ReceiveTasksStopped, Step, Exit,
      Leaving, DatabaseInv, ErrorEnds, NoDatabaseError
<1>4. QED
  BY <1>1, <1>2, <1>3 DEF Receive

(* HTTP requests.                                                          *)
LEMMA DatabaseHttp ==
    ASSUME TypeOK, DatabaseInv, taken \subseteq taken',
           Http
    PROVE  DatabaseInv'
<1>1. CASE HttpGetRoutes
  BY <1>1, QuietReturn, QuietSame
  DEF HttpGetRoutes, Step, Leaving, DatabaseInv, ErrorEnds, NoDatabaseError
<1>2. ASSUME NEW network \in HttpNetwork, HttpAddLocalRoute(network)
      PROVE  DatabaseInv'
  <2>1. CASE setup_advertised_network_fails(database, network)
    BY <1>2, <2>1, QuietReturn, QuietSame
    DEF HttpAddLocalRoute, Step, Leaving, DatabaseInv,
        ErrorEnds, NoDatabaseError
  <2>2. CASE ~setup_advertised_network_fails(database, network)
    <3>1. network \in Network \cup {InvalidNetwork}
      BY InputAssumption
    <3>2. QED
      BY <1>2, <2>2, <3>1, DatabaseAddLocal DEF HttpAddLocalRoute
  <2>3. QED
    BY <2>1, <2>2
<1>3. QED
  BY <1>1, <1>2 DEF Http

(* Shutting down: metrics are poisoned, the kind of a route is not.        *)
LEMMA DatabaseShutdown ==
    ASSUME TypeOK, DatabaseInv, taken \subseteq taken',
           Shutdown
    PROVE  DatabaseInv'
<1>1. /\ DOMAIN database'.ok_routes = DOMAIN database.ok_routes
      /\ DOMAIN database'.garbage_routes = DOMAIN database.garbage_routes
      /\ \A x \in DOMAIN database.ok_routes :
             database'.ok_routes[x] =
                 [database.ok_routes[x] EXCEPT !.metric = Infinity,
                                               !.changed = TRUE]
  BY PoisonAllProperties DEF Shutdown, TypeOK
<1>2. \A x \in DOMAIN database.ok_routes : database.ok_routes[x] \in RipDbEntry
  BY DatabaseElim DEF TypeOK
<1>3. \A x \in DOMAIN database.ok_routes :
          /\ database'.ok_routes[x].is_local = database.ok_routes[x].is_local
          /\ database'.ok_routes[x].next_hop = database.ok_routes[x].next_hop
          /\ database'.ok_routes[x].in_routing_table =
                 database.ok_routes[x].in_routing_table
  BY <1>1, <1>2 DEF RipDbEntry
<1>4. RouteKinds(database') /\ NoOverlap(database', taken')
  BY <1>1, <1>3 DEF DatabaseInv, RouteKinds, IsKind, NoOverlap
<1>5. QED
  BY <1>4 DEF Shutdown, Step, DatabaseInv, Leaving, PacketSource, TimeoutWork,
              InstallWork, ErrorEnds, NoDatabaseError

(* The rest of a shutdown.                                                 *)
LEMMA DatabaseLeave ==
    ASSUME TypeOK, DatabaseInv, taken \subseteq taken',
           Leave
    PROVE  DatabaseInv'
<1>1. CASE Farewell
  <2>1. Quiet(database, database')
    BY <1>1, QuietSend DEF Farewell, TypeOK
  <2>2. QED
    BY <1>1, <2>1, QuietReturn
    DEF Farewell, Step, Leaving, DatabaseInv, ErrorEnds, NoDatabaseError
<1>2. ASSUME NEW p \in pending, CleanUpRoute(p)
      PROVE  DatabaseInv'
  BY <1>2, QuietReturn, QuietSame
  DEF CleanUpRoute, Step, Leaving, DatabaseInv, ErrorEnds, NoDatabaseError
<1>3. CASE CleanedUp
  BY <1>3, QuietReturn, QuietSame DEF CleanedUp, Exit, Leaving
<1>4. QED
  BY <1>1, <1>2, <1>3 DEF Leave

(* An empty database is sound.                                             *)
LEMMA DatabaseNew == RouteKinds(new) /\ NoOverlap(new, {}) /\ LocalMetric(new)
BY NewProperties DEF RouteKinds, NoOverlap, LocalMetric

(* Only a restart forgets which local routes were taken.                   *)
LEMMA TakenGrows ==
    ASSUME [Next]_vars, ~Restart
    PROVE  taken \subseteq taken'
<1>1. CASE UNCHANGED rib
  BY <1>1 DEF rib
<1>2. CASE \E p \in pending : TimeOutRoute(p) \/ CleanUpRoute(p)
  BY <1>2 DEF TimeOutRoute, CleanUpRoute
<1>3. CASE HandlePoison \/ UpdateRoute \/ SwitchRoute \/ InstallRoute
  BY <1>3 DEF HandlePoison, UpdateRoute, SwitchRoute, InstallRoute, TakenNow
<1>4. CASE Start \/ Timer \/ Receive \/ Http \/ Shutdown
  BY <1>1, <1>4
  DEF Start, SetupNetwork, SetupNetworkFails, StartFails, Run,
      Timer, RequestWarmupTimer, UpdateTimer, TriggeredUpdateLockTimer,
      TimeoutTimer, GarbageCollectionTimer,
      Receive, ReceiveResponse, ReceiveRequest, ReceiveForeignResponse,
      ReceiveMalformed, ReceiveTasksStopped,
      Http, HttpGetRoutes, HttpAddLocalRoute, Shutdown
<1>5. CASE HandleEntry
  BY <1>1, <1>3, <1>5
  DEF HandleEntry, SkipInvalidEntry, IgnorePoison, LearnRoute, RefreshRoute,
      KeepRoute, PacketDone
<1>6. CASE MaybeSendTriggeredUpdate \/ Farewell \/ CleanedUp
  BY <1>1, <1>6 DEF MaybeSendTriggeredUpdate, Farewell, CleanedUp
<1>7. CASE Elapse \/ Kill \/ UNCHANGED vars
  BY <1>1, <1>7 DEF Elapse, Kill, vars
<1>8. QED
  BY <1>2, <1>4, <1>5, <1>6, <1>7 DEF Next, Handle, Leave, Terminated

(* Every step preserves DatabaseInv.                                       *)
LEMMA DatabaseNext ==
    ASSUME TypeOK, DatabaseInv, [Next]_vars
    PROVE  DatabaseInv'
<1>9. CASE Restart
  BY <1>9, DatabaseNew
  DEF Restart, DatabaseInv, Leaving, PacketSource, TimeoutWork, InstallWork,
      ErrorEnds, NoDatabaseError
<1> SUFFICES ASSUME taken \subseteq taken', ~Restart PROVE DatabaseInv'
  BY <1>9, TakenGrows
<1>1. CASE Start
  BY <1>1, DatabaseStart
<1>2. CASE Timer
  BY <1>2, DatabaseTimer
<1>3. CASE Receive
  BY <1>3, DatabaseReceive
<1>4. CASE Http
  BY <1>4, DatabaseHttp
<1>5. CASE Shutdown
  BY <1>5, DatabaseShutdown
<1>6. CASE Handle
  <2>1. CASE MaybeSendTriggeredUpdate
    <3>1. Quiet(database, database')
      BY <2>1, QuietSend, QuietSame DEF MaybeSendTriggeredUpdate, TypeOK
    <3>2. QED
      BY <2>1, <3>1, QuietReturn
      DEF MaybeSendTriggeredUpdate, Step, Exit, Leaving, DatabaseInv,
          ErrorEnds, NoDatabaseError
  <2>2. QED
    BY <1>6, <2>1, DatabaseHandleEntry, DatabaseTimeOutRoute, DatabaseLeave
    DEF Handle
<1>7. CASE Elapse
  <2>1. Quiet(database, database')
    BY <1>7, QuietGarbage DEF Elapse, TypeOK
  <2>2. QED
    BY <1>7, <2>1, QuietReturn
    DEF Elapse, Leaving, DatabaseInv, ErrorEnds, NoDatabaseError
<1>8. CASE Kill
  BY <1>8, QuietReturn, QuietSame DEF Kill, Exit, Leaving
<1>10. CASE UNCHANGED vars
  <2>1. /\ UNCHANGED <<pc, exit, packet, pending, database, taken>>
        /\ OldRoute' = OldRoute
    BY <1>10 DEF vars, work, rib, OldRoute, Key, Current
  <2>2. QED
    BY <2>1 DEF DatabaseInv, PacketSource, TimeoutWork, InstallWork,
                ErrorEnds, NoDatabaseError
<1>11. QED
  BY <1>1, <1>2, <1>3, <1>4, <1>5, <1>6, <1>7, <1>8, <1>10
  DEF Next, Terminated

(* The daemon starts with an empty database.                               *)
LEMMA DatabaseInit == Init => DatabaseInv
BY DatabaseNew
DEF Init, DatabaseInv, PacketSource, TimeoutWork, InstallWork,
    ErrorEnds, NoDatabaseError

(* DatabaseInv holds in every run.                                         *)
THEOREM DatabaseInvariant == Spec => []DatabaseInv
<1>1. TypeOK /\ DatabaseInv /\ [Next]_vars => DatabaseInv'
  BY DatabaseNext
<1>2. QED
  BY DatabaseInit, TypeCorrect, <1>1, PTL DEF Spec

(* No interleaving of packets, timeouts, requests and failures makes the   *)
(* database return the Err that would end run(), as every route handed to  *)
(* move_route_to_garbage, remove_route or add_route is where it should be: *)
(* but for a destination with garbage whose local route a response from    *)
(* 0.0.0.0 took.                                                           *)
THEOREM NoDatabaseErrorHolds == Spec => []NoDatabaseError
<1>1. DatabaseInv => NoDatabaseError
  BY DEF DatabaseInv
<1>2. QED
  BY DatabaseInvariant, <1>1, PTL

(* Garbage and an active route share a destination only when the active    *)
(* route is a local one that was added over the garbage, or what a         *)
(* response from 0.0.0.0 made of it.                                       *)
THEOREM OverlapOnlyLocalHolds == Spec => []OverlapOnlyLocal
<1>1. DatabaseInv => OverlapOnlyLocal
  BY DEF DatabaseInv, NoOverlap, OverlapOnlyLocal, ActiveRemote, has_route,
         has_garbage_route
<1>2. QED
  BY DatabaseInvariant, <1>1, PTL

-----------------------------------------------------------------------------
(* KernelInv is inductive.                                                 *)

(* The active routes in the kernel are among the routes a shutdown deletes.*)
LEMMA RouteMessagesInstalled ==
    ASSUME NEW db, IsDatabase(db)
    PROVE  RouteMessages(db) \subseteq Messages(get_routes_in_routing_table(db))
<1> SUFFICES ASSUME NEW k \in DOMAIN db.ok_routes,
                    db.ok_routes[k].in_routing_table
             PROVE  build_route_message(k, db.ok_routes[k])
                        \in Messages(get_routes_in_routing_table(db))
  BY DEF RouteMessages
<1> DEFINE p == [key |-> k, route |-> db.ok_routes[k]]
<1>1. p \in get_routes_in_routing_table(db)
  BY InstalledProperties
<1>2. p.key = k /\ p.route = db.ok_routes[k]
  OBVIOUS
<1> HIDE DEF p
<1>3. QED
  BY <1>1, <1>2 DEF Messages

(* What has to be shown of a step before the shutdown.                     *)
LEMMA KernelRunning ==
    ASSUME TypeOK', kernel' \subseteq preexisting' \cup RouteMessages(database'),
           pc' \notin {"farewell", "cleanup"}, exit' # "ok"
    PROVE  KernelInv'
<1>1. RouteMessages(database')
          \subseteq Messages(get_routes_in_routing_table(database'))
  BY RouteMessagesInstalled DEF TypeOK
<1>2. NoKernelLeak'
  BY <1>1 DEF NoKernelLeak, Messages
<1>3. QED
  BY <1>2 DEF KernelInv, CleanExit

(* Such a step that leaves the kernel alone and gives up no active route.  *)
LEMMA KernelIdle ==
    ASSUME TypeOK, TypeOK', KernelInv, UNCHANGED <<kernel, preexisting>>,
           RouteMessages(database) \subseteq RouteMessages(database'),
           pc \notin Leaving,
           \/ \E next \in {"setup", "select", "response", "install",
                           "timeout", "trigger"} : Step(next)
           \/ \E reason \in {"io", "packet", "setup", "killed"} : Exit(reason)
    PROVE  KernelInv'
<1>1. kernel' \subseteq preexisting' \cup RouteMessages(database')
  BY DEF KernelInv
<1>2. pc' \notin {"farewell", "cleanup"} /\ exit' # "ok"
  BY DEF TypeOK, TypeControl, Leaving, Step, Exit
<1>3. QED
  BY <1>1, <1>2, KernelRunning

(* A quiet one.                                                            *)
LEMMA KernelQuiet ==
    ASSUME TypeOK, TypeOK', KernelInv, UNCHANGED <<kernel, preexisting>>,
           Quiet(database, database'),
           pc \notin Leaving,
           \/ \E next \in {"setup", "select", "response", "install",
                           "timeout", "trigger"} : Step(next)
           \/ \E reason \in {"io", "packet", "setup", "killed"} : Exit(reason)
    PROVE  KernelInv'
<1>1. RouteMessages(database) \subseteq RouteMessages(database')
  BY QuietPreserves
<1>2. QED
  BY <1>1, KernelIdle

(* A route leaves the kernel and the database together.                    *)
LEMMA KernelDelete ==
    ASSUME TypeOK, TypeOK', KernelInv, pc \notin Leaving, NEW k, NEW route,
           kernel' = delete_route_from_kernel(kernel, k, route),
           preexisting' = preexisting,
           RouteMessages(database)
               \subseteq RouteMessages(database')
                         \cup {build_route_message(k, route)},
           \/ \E next \in {"response", "install", "timeout", "trigger"} :
                  Step(next)
           \/ Exit("database")
    PROVE  KernelInv'
<1>1. kernel' \subseteq preexisting' \cup RouteMessages(database')
  BY DeleteProperties DEF KernelInv
<1>2. pc' \notin {"farewell", "cleanup"} /\ exit' # "ok"
  BY DEF TypeOK, TypeControl, Leaving, Step, Exit
<1>3. QED
  BY <1>1, <1>2, KernelRunning

(* A local network leaves the kernel alone.                                *)
LEMMA KernelAddLocal ==
    ASSUME TypeOK, NEW network \in Network \cup {InvalidNetwork},
           ~setup_advertised_network_fails(database, network),
           database' = setup_advertised_network(database, network)
    PROVE  RouteMessages(database) \subseteq RouteMessages(database')
<1> DEFINE k == network.key
<1>1. network \in Network /\ ~has_route(database, k)
  BY DEF setup_advertised_network_fails, add_route_fails
<1>2. k \in RouteKey /\ network.dev \in Device
  BY <1>1 DEF Network
<1>3. OnlyAt(database, database', k)
  BY <1>1, <1>2, OnlyAtAddLocal DEF setup_advertised_network, TypeOK
<1> HIDE DEF k
<1>4. QED
  BY <1>1, <1>3, OnlyAtMessages DEF has_route

(* The steps before run() and the timers.                                  *)
LEMMA KernelStartTimer ==
    ASSUME TypeOK, TypeOK', KernelInv, Start \/ Timer
    PROVE  KernelInv'
<1>1. CASE SetupNetwork
  <2>1. Head(networks) \in Network \cup {InvalidNetwork}
    BY <1>1, HeadTailProperties DEF SetupNetwork, TypeOK, TypeWork
  <2>2. RouteMessages(database) \subseteq RouteMessages(database')
    BY <1>1, <2>1, KernelAddLocal DEF SetupNetwork
  <2>3. QED
    BY <1>1, <2>2, KernelIdle DEF SetupNetwork, rib, Leaving
<1>2. CASE SetupNetworkFails \/ StartFails \/ Run
  BY <1>2, KernelQuiet, QuietSame
  DEF SetupNetworkFails, StartFails, Run, rib, Leaving
<1>3. CASE RequestWarmupTimer \/ TriggeredUpdateLockTimer
  BY <1>3, KernelQuiet, QuietSame
  DEF RequestWarmupTimer, TriggeredUpdateLockTimer, rib, Leaving
<1>4. CASE UpdateTimer
  <2>1. Quiet(database, database')
    BY <1>4, QuietSend DEF UpdateTimer, TypeOK
  <2>2. QED
    BY <1>4, <2>1, KernelQuiet DEF UpdateTimer, rib, Leaving
<1>5. CASE TimeoutTimer
  <2>1. Quiet(database, database')
    BY <1>5, QuietCountSilence DEF TimeoutTimer, TypeOK
  <2>2. QED
    BY <1>5, <2>1, KernelQuiet DEF TimeoutTimer, rib, Leaving
<1>6. CASE GarbageCollectionTimer
  <2>1. Quiet(database, database')
    BY <1>6, QuietGarbage DEF GarbageCollectionTimer, TypeOK
  <2>2. QED
    BY <1>6, <2>1, KernelQuiet DEF GarbageCollectionTimer, rib, Leaving
<1>7. QED
  BY <1>1, <1>2, <1>3, <1>4, <1>5, <1>6 DEF Start, Timer

(* The loop over timed out routes deletes what the kernel knows: p.route   *)
(* is the route as it was installed.                                       *)
LEMMA KernelTimeOutRoute ==
    ASSUME TypeOK, TypeOK', DatabaseInv, KernelInv,
           NEW p \in pending, TimeOutRoute(p)
    PROVE  KernelInv'
<1>1. /\ pc = "timeout" /\ p.key \in RouteKey
      /\ has_route(database, p.key)
      /\ p.route = database.ok_routes[p.key]
      /\ preexisting' = preexisting
  BY DEF TimeOutRoute, TypeOK, TypeWork, DatabaseInv, TimeoutWork, has_route
<1>3. CASE Exit("io") /\ UNCHANGED <<kernel, database>>
  BY <1>1, <1>3, KernelQuiet, QuietSame DEF Leaving
<1>4. CASE /\ kernel' = delete_route_from_kernel(kernel, p.key, p.route)
           /\ database' = move_route_to_garbage(database, p.key)
           /\ Step("trigger") \/ Step("timeout") \/ Exit("database")
  <2>1. OnlyAt(database, database', p.key)
    BY <1>1, <1>4, OnlyAtMove DEF TypeOK
  <2>2. RouteMessages(database)
            \subseteq RouteMessages(database')
                      \cup {build_route_message(p.key, p.route)}
    BY <1>1, <2>1, OnlyAtMessages
  <2>3. QED
    BY <1>1, <1>4, <2>2, KernelDelete DEF Leaving
<1>5. QED
  BY <1>3, <1>4 DEF TimeOutRoute, StepUnless

(* Replacing a route deletes the old one before the new one is added.      *)
LEMMA KernelReplace ==
    ASSUME TypeOK, TypeOK', DatabaseInv, KernelInv, taken \subseteq taken',
           AtEntry, has_route(database, Key), OldRoute.is_local => Key \in taken',
           NEW db, IsDatabase(db), Quiet(database, db),
           replace_route_from_response(db)
    PROVE  KernelInv'
<1>1. pc \notin Leaving /\ preexisting' = preexisting
  BY DEF AtEntry, Leaving, replace_route_from_response
<1>2. /\ exit' # "io" => OnlyAt(db, database', Key)
      /\ \/ Exit("io") /\ kernel' = kernel /\ database' = db
         \/ /\ kernel' = delete_route_from_kernel(kernel, Key, OldRoute)
            /\ Step("install")
  BY DatabaseReplace
<1>3. CASE Exit("io") /\ kernel' = kernel /\ database' = db
  BY <1>1, <1>3, KernelQuiet
<1>4. CASE /\ kernel' = delete_route_from_kernel(kernel, Key, OldRoute)
           /\ Step("install")
  <2>1. RouteMessages(database) = RouteMessages(db)
    BY QuietPreserves
  <2>2. OnlyAt(db, database', Key)
    BY <1>1, <1>2, <1>4 DEF Step, TypeOK, TypeControl, Leaving
  <2>3. build_route_message(Key, db.ok_routes[Key]) =
            build_route_message(Key, OldRoute)
    BY DEF Quiet, SameForwarding, build_route_message, has_route, OldRoute
  <2>4. RouteMessages(database)
            \subseteq RouteMessages(database')
                      \cup {build_route_message(Key, OldRoute)}
    BY <2>1, <2>2, <2>3, OnlyAtMessages
  <2>5. QED
    BY <1>1, <1>4, <2>4, KernelDelete
<1>5. QED
  BY <1>2, <1>3, <1>4

(* The entries of a response packet.                                       *)
LEMMA KernelHandleEntry ==
    ASSUME TypeOK, TypeOK', DatabaseInv, DatabaseInv', KernelInv,
           taken \subseteq taken', HandleEntry
    PROVE  KernelInv'
<1>1. CASE SkipInvalidEntry \/ IgnorePoison \/ KeepRoute
  BY <1>1, KernelQuiet, QuietSame
  DEF SkipInvalidEntry, IgnorePoison, KeepRoute, FromAnotherNextHop, AtPoison,
      AtReachable, AtEntry, rib, Leaving
<1>2. CASE RefreshRoute
  <2>1. AtEntry
    BY <1>2 DEF RefreshRoute, FromCurrentNextHop, AtReachable
  <2>2. Quiet(database, database')
    BY <1>2, <2>1, EntryKnown, QuietRefresh DEF RefreshRoute, TypeOK
  <2>3. QED
    BY <1>2, <2>1, <2>2, KernelQuiet DEF RefreshRoute, AtEntry, rib, Leaving
<1>3. CASE HandlePoison
  <2>1. /\ AtEntry /\ has_route(database, Key) /\ preexisting' = preexisting
        /\ route_is_from_current_next_hop(OldRoute, RouteEntry)
    BY <1>3 DEF HandlePoison, AtPoison
  <2>3. Key \in RouteKey
    BY <2>1, EntryKnown
  <2>5. CASE Exit("io") /\ UNCHANGED <<kernel, database>>
    BY <2>1, <2>5, KernelQuiet, QuietSame DEF AtEntry, Leaving
  <2>6. CASE /\ kernel' = delete_route_from_kernel(kernel, Key, OldRoute)
             /\ database' = move_route_to_garbage(database, Key)
             /\ Step("response") \/ Exit("database")
    <3>1. OnlyAt(database, database', Key)
      BY <2>1, <2>3, <2>6, OnlyAtMove DEF TypeOK
    <3>2. RouteMessages(database)
              \subseteq RouteMessages(database')
                        \cup {build_route_message(Key, OldRoute)}
      BY <3>1, OnlyAtMessages DEF OldRoute
    <3>3. pc \notin Leaving
      BY <2>1 DEF AtEntry, Leaving
    <3>4. QED
      BY <2>1, <2>6, <3>2, <3>3, KernelDelete
  <2>7. QED
    BY <1>3, <2>5, <2>6 DEF HandlePoison, StepUnless
<1>4. CASE LearnRoute
  <2>1. AtEntry /\ ~has_route(database, Key) /\ UNCHANGED rib
    BY <1>4 DEF LearnRoute, AtReachable
  <2>2. /\ packet.dev \in Device
        /\ Key \in RouteKey /\ RouteEntry \in RipEntry
    BY <2>1, EntryKnown
  <2> DEFINE db == remove_garbage_route(database, Key)
  <2>3. IsDatabase(db) /\ db.ok_routes = database.ok_routes
    BY <2>2, RemoveGarbageRouteProperties DEF TypeOK
  <2>4. /\ database' = add_remote_route(db, Key, RouteEntry, packet.dev)
        /\ StepUnless(add_route_fails(db, Key), "install")
    BY <1>4 DEF LearnRoute
  <2> HIDE DEF db
  <2>5. ~has_route(db, Key)
    BY <2>1, <2>3 DEF has_route
  <2>6. OnlyAt(db, database', Key)
    BY <2>2, <2>3, <2>4, <2>5, OnlyAtAddRemote
  <2>7. RouteMessages(db) \subseteq RouteMessages(database')
    BY <2>5, <2>6, OnlyAtMessages DEF has_route
  <2>8. RouteMessages(database) \subseteq RouteMessages(database')
    BY <2>3, <2>7 DEF RouteMessages
  <2>9. Step("install") /\ pc \notin Leaving
    BY <2>1, <2>4, <2>5 DEF StepUnless, add_route_fails, AtEntry, Leaving
  <2>10. QED
    BY <2>1, <2>8, <2>9, KernelIdle DEF rib
<1>5. CASE UpdateRoute
  <2>1. /\ AtEntry /\ has_route(database, Key)
        /\ route_is_from_current_next_hop(OldRoute, RouteEntry)
    BY <1>5 DEF UpdateRoute, FromCurrentNextHop, AtReachable
  <2>2. (OldRoute.is_local => Key \in taken') /\ Key \in RouteKey
    BY <1>5, <2>1, OldRouteOwned, EntryKnown DEF UpdateRoute
  <2>3. /\ IsDatabase(refresh_route_timeout(database, Key))
        /\ Quiet(database, refresh_route_timeout(database, Key))
    BY <2>2, RefreshProperties, QuietRefresh DEF TypeOK
  <2>4. QED
    BY <1>5, <2>1, <2>2, <2>3, KernelReplace DEF UpdateRoute
<1>6. CASE SwitchRoute
  <2>1. /\ AtEntry /\ has_route(database, Key) /\ is_entry_valid(Current)
        /\ OldRoute.metric > RouteEntry.metric
    BY <1>6 DEF SwitchRoute, FromAnotherNextHop, AtReachable
  <2>2. ~OldRoute.is_local
    <3>1. OldRoute.metric \in Nat /\ RouteEntry.metric \in Nat
      BY <2>1, EntryKnown, DatabaseElim
      DEF TypeOK, has_route, OldRoute, RipDbEntry, RipEntry
    <3>2. QED
      BY <2>1, <3>1, OldRouteOwned
  <2>3. QED
    BY <1>6, <2>1, <2>2, QuietSame, KernelReplace DEF SwitchRoute, TypeOK
<1>7. CASE InstallRoute
  <2>1. UNCHANGED <<database, preexisting>> /\ pc \notin Leaving
    BY <1>7 DEF InstallRoute, Leaving
  <2>2. CASE Exit("io") /\ UNCHANGED kernel
    BY <2>1, <2>2, KernelQuiet, QuietSame
  <2>3. CASE /\ kernel' = add_route_to_kernel(kernel, Key, OldRoute)
             /\ Step("response")
    <3>1. build_route_message(Key, OldRoute) \in RouteMessages(database)
      BY <1>7 DEF InstallRoute, TypeOK, TypeWork, DatabaseInv, InstallWork,
                  RouteKinds, IsKind, RouteMessages, OldRoute, has_route
    <3>2. kernel' \subseteq preexisting' \cup RouteMessages(database')
      BY <2>1, <2>3, <3>1 DEF KernelInv, add_route_to_kernel
    <3>3. pc' \notin {"farewell", "cleanup"} /\ exit' # "ok"
      BY <2>1, <2>3 DEF TypeOK, TypeControl, Leaving, Step
    <3>4. QED
      BY <3>2, <3>3, KernelRunning
  <2>4. QED
    BY <1>7, <2>2, <2>3 DEF InstallRoute
<1>8. CASE PacketDone
  BY <1>8, KernelQuiet, QuietSame DEF PacketDone, rib, Leaving
<1>9. QED
  BY <1>1, <1>2, <1>3, <1>4, <1>5, <1>6, <1>7, <1>8 DEF HandleEntry

(* The shutdown takes its list of routes before it poisons the metrics,    *)
(* and then works it off.                                                  *)
LEMMA KernelShutdown ==
    ASSUME TypeOK, TypeOK', KernelInv, Shutdown \/ Leave
    PROVE  KernelInv'
<1>1. CASE Shutdown
  <2>1. /\ kernel \subseteq preexisting \cup RouteMessages(database)
        /\ UNCHANGED <<kernel, preexisting>>
        /\ pc' = "farewell" /\ exit' # "ok"
        /\ pending' = get_routes_in_routing_table(database)
    BY <1>1 DEF Shutdown, Step, KernelInv, Leaving, rib, TypeOK, TypeControl
  <2>2. RouteMessages(database) \subseteq Messages(pending')
    BY <2>1, RouteMessagesInstalled DEF TypeOK
  <2>3. QED
    BY <2>1, <2>2 DEF KernelInv, NoKernelLeak, CleanExit, Messages, Leaving
<1>2. CASE Farewell
  <2>1. /\ UNCHANGED <<kernel, preexisting, undeleted, pending>>
        /\ pc = "farewell" /\ pc' = "cleanup" /\ exit' # "ok"
    BY <1>2 DEF Farewell, Step, rib, work, TypeOK, TypeControl
  <2>2. QED
    BY <2>1 DEF KernelInv, NoKernelLeak, CleanExit, Messages, Leaving
<1>3. ASSUME NEW p \in pending, CleanUpRoute(p)
      PROVE  KernelInv'
  <2>1. /\ pc = "cleanup" /\ pc' = "cleanup" /\ exit' # "ok"
        /\ preexisting' = preexisting /\ pending' = pending \ {p}
    BY <1>3 DEF CleanUpRoute, Step, TypeOK, TypeControl
  <2> DEFINE m == build_route_message(p.key, p.route)
  <2>2. Messages(pending) \subseteq Messages(pending') \cup {m}
    BY <2>1 DEF Messages
  <2>3. \/ kernel' \subseteq kernel \ {m} /\ undeleted' = undeleted
        \/ kernel' = kernel /\ undeleted' = undeleted \cup {m}
    BY <1>3, DeleteProperties DEF CleanUpRoute
  <2> HIDE DEF m
  <2>4. kernel \subseteq preexisting \cup Messages(pending) \cup undeleted
    BY <2>1 DEF KernelInv
  <2>5. kernel' \subseteq preexisting' \cup Messages(pending') \cup undeleted'
    BY <2>1, <2>2, <2>3, <2>4
  <2>6. QED
    BY <2>1, <2>5 DEF KernelInv, NoKernelLeak, CleanExit, Messages, Leaving
<1>4. CASE CleanedUp
  <2>1. /\ UNCHANGED <<kernel, preexisting, undeleted, pending>>
        /\ pending = {} /\ pc = "cleanup" /\ pc' = "exited"
    BY <1>4 DEF CleanedUp, Exit, rib, work
  <2>2. kernel' \subseteq preexisting' \cup undeleted'
    BY <2>1 DEF KernelInv, Messages
  <2>3. QED
    BY <2>1, <2>2 DEF KernelInv, NoKernelLeak, CleanExit, Leaving
<1>5. QED
  BY <1>1, <1>2, <1>3, <1>4 DEF Leave

(* Every step preserves KernelInv.                                         *)
LEMMA KernelNext ==
    ASSUME TypeOK, TypeOK', DatabaseInv, DatabaseInv', KernelInv, [Next]_vars
    PROVE  KernelInv'
<1>1. CASE Start \/ Timer
  BY <1>1, KernelStartTimer
<1>2. CASE Receive
  <2>1. UNCHANGED <<database, rib>> /\ pc \notin Leaving
    BY <1>2 DEF Receive, ReceiveResponse, ReceiveRequest, ReceiveMalformed,
                ReceiveForeignResponse, ReceiveTasksStopped, Leaving
  <2>2. Step("response") \/ Step("trigger") \/ Exit("io") \/ Exit("packet")
    BY <1>2 DEF Receive, ReceiveResponse, ReceiveRequest, ReceiveMalformed,
                ReceiveForeignResponse, ReceiveTasksStopped
  <2>3. QED
    BY <2>1, <2>2, KernelQuiet, QuietSame DEF rib
<1>3. CASE Http
  <2>1. UNCHANGED <<kernel, preexisting>> /\ pc \notin Leaving /\ Step("trigger")
    BY <1>3 DEF Http, HttpGetRoutes, HttpAddLocalRoute, rib, Leaving
  <2>2. CASE database' = database
    BY <2>1, <2>2, KernelQuiet, QuietSame
  <2>3. CASE database' # database
    <3>1. PICK network \in HttpNetwork :
              /\ ~setup_advertised_network_fails(database, network)
              /\ database' = setup_advertised_network(database, network)
      BY <1>3, <2>3 DEF Http, HttpGetRoutes, HttpAddLocalRoute
    <3>2. network \in Network \cup {InvalidNetwork}
      BY InputAssumption
    <3>3. QED
      BY <2>1, <3>1, <3>2, KernelAddLocal, KernelIdle
  <2>4. QED
    BY <2>2, <2>3
<1>4. CASE Shutdown \/ Leave
  BY <1>4, KernelShutdown
<1>5. CASE HandleEntry /\ ~Restart
  BY <1>5, KernelHandleEntry, TakenGrows
<1>6. CASE \E p \in pending : TimeOutRoute(p)
  BY <1>6, KernelTimeOutRoute
<1>7. CASE MaybeSendTriggeredUpdate
  <2>1. Quiet(database, database')
    BY <1>7, QuietSend, QuietSame DEF MaybeSendTriggeredUpdate, TypeOK
  <2>2. QED
    BY <1>7, <2>1, KernelQuiet DEF MaybeSendTriggeredUpdate, rib, Leaving
<1>8. CASE Elapse
  <2>1. Quiet(database, database')
    BY <1>8, QuietGarbage DEF Elapse, TypeOK
  <2>2. Step("select") /\ pc \notin Leaving
    BY <1>8 DEF Elapse, Step, Leaving
  <2>3. QED
    BY <1>8, <2>1, <2>2, KernelQuiet DEF Elapse, rib
<1>9. CASE Kill
  BY <1>9 DEF Kill, Exit, work, rib, KernelInv, NoKernelLeak, CleanExit,
              Messages, Leaving
<1>10. CASE Restart
  BY <1>10 DEF Restart, KernelInv, NoKernelLeak, CleanExit, Leaving
<1>11. CASE UNCHANGED vars
  BY <1>11 DEF vars, work, rib, KernelInv, NoKernelLeak, CleanExit, Messages
<1>12. QED
  BY <1>1, <1>2, <1>3, <1>4, <1>5, <1>6, <1>7, <1>8, <1>9, <1>10, <1>11
  DEF Next, Handle, Terminated

(* The kernel's table is taken as it is at the start.                      *)
LEMMA KernelInit == Init => KernelInv
BY DEF Init, KernelInv, NoKernelLeak, CleanExit, Leaving

(* KernelInv holds in every run.                                           *)
THEOREM KernelInvariant == Spec => []KernelInv
<1>1. TypeOK /\ TypeOK' /\ DatabaseInv /\ DatabaseInv' /\ KernelInv
          /\ [Next]_vars => KernelInv'
  BY KernelNext
<1>2. QED
  BY KernelInit, TypeCorrect, DatabaseInvariant, <1>1, PTL DEF Spec

(* The kernel never keeps a route the daemon replaced, poisoned or timed   *)
(* out, whatever netlink calls failed: also an error exit or a crash       *)
(* leaves no more than the routes of the database at that moment.          *)
THEOREM NoKernelLeakHolds == Spec => []NoKernelLeak
<1>1. KernelInv => NoKernelLeak
  BY DEF KernelInv
<1>2. QED
  BY KernelInvariant, <1>1, PTL

(* An orderly shutdown leaves in the kernel only what it found there and   *)
(* the routes whose delete failed.                                         *)
THEOREM CleanExitHolds == Spec => []CleanExit
<1>1. KernelInv => CleanExit
  BY DEF KernelInv
<1>2. QED
  BY KernelInvariant, <1>1, PTL

=============================================================================
