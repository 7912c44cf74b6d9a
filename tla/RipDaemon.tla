------------------------------ MODULE RipDaemon ------------------------------
(***************************************************************************)
(* One RIPv2 daemon (rip_deamon.rs): setup, the select! loop of run() and  *)
(* every handler it calls, up to shutdown, an error exit or a crash, and   *)
(* the restart after it.                                                   *)
(*                                                                         *)
(* The daemon is one task.  A step of the model is what it does between    *)
(* two awaits whose outcome matters: pc says where it is.                  *)
(*    setup      reading the configuration, before run()                   *)
(*    select     waiting in select! for the next event                     *)
(*    response   in the loop over the entries of a response packet         *)
(*    install    a route is in the database, its netlink add is awaited    *)
(*    timeout    in the loop over the routes that timed out                *)
(*    trigger    an event was handled, maybe_send_triggered_update is next *)
(*    farewell   shutdown, the poisoned advertisement is next              *)
(*    cleanup    shutdown, in the loop that empties the kernel's table     *)
(*    exited     the process is gone                                       *)
(* The environment sends packets and HTTP requests, makes netlink calls    *)
(* and sends fail, lets time pass, signals the process and kills it.       *)
(***************************************************************************)
EXTENDS RoutingTable, Sequences

CONSTANTS
    RipDevice,       \* the interfaces RIP is configured on
    Neighbour,       \* who sends packets: records of source and dev
    ValidKey,        \* destinations that pass the address and mask checks
    Metric,          \* metrics found in packets
    MaxEntries,      \* bound on the entries of a packet
    Configurations,  \* possible advertised_networks of the configuration
    HttpNetwork,     \* networks an HTTP client asks to advertise
    InvalidNetwork,  \* a network whose device, prefix or address is wrong
    InitialKernel,   \* kernel routes that may exist before the first start
    MaxRestarts      \* bound on the restarts

Network == [key : RouteKey, dev : Device]

Packet == [source : Address, dev : RipDevice,
           entries : Seq([key : RouteKey, metric : Nat, attr : Attr])]

KernelRoute == [destination : RouteKey, gateway : Address,
                output_interface : Device, priority : Nat,
                protocol : {"rip", "other"}]

(* A multicast datagram may come from 0.0.0.0 as well: see the README.     *)
ASSUME NeighbourAssumption ==
    /\ RipDevice \subseteq Device
    /\ Neighbour \subseteq [source : Address, dev : RipDevice]

ASSUME InputAssumption ==
    /\ ValidKey \subseteq RouteKey
    /\ Metric \subseteq Nat
    /\ MaxEntries \in Nat
    /\ HttpNetwork \subseteq Network \cup {InvalidNetwork}
    /\ Configurations \subseteq Seq(Network \cup {InvalidNetwork})
    /\ InvalidNetwork \notin Network
    /\ InitialKernel \subseteq KernelRoute
    /\ MaxRestarts \in Nat

VARIABLES
    pc,                           \* where the daemon is
    exit,                         \* how the process ended
    database,                     \* RipDeamon::database
    request_warmup_timer,         \* the three optional timers of run():
    triggered_update_lock_timer,  \*   is it armed?
    garbage_collection_timer,
    networks,                     \* advertised_networks left to set up
    packet,                       \* the response packet being handled
    pending,                      \* routes left in the loop being run
    kernel,                       \* the kernel's routing table
    preexisting,                  \* what it held when this process started
    undeleted,                    \* routes whose delete failed at shutdown
    taken,                        \* local routes a response of 0.0.0.0 took
    advertised,                   \* last metric multicast per device and key
    farewell_sent,                \* did the shutdown advertisement go out?
    restarts                      \* number of restarts so far

timers == <<request_warmup_timer, triggered_update_lock_timer,
            garbage_collection_timer>>
work == <<networks, packet, pending>>
rib == <<kernel, preexisting, undeleted, taken>>
wire == <<advertised, farewell_sent>>

vars == <<pc, exit, database, timers, work, rib, wire, restarts>>

Step(next) == pc' = next /\ exit' = exit

Exit(reason) == pc' = "exited" /\ exit' = reason

(* The ? operator on a result of the database.                             *)
StepUnless(failed, next) == IF failed THEN Exit("database") ELSE Step(next)

-----------------------------------------------------------------------------
(* Starting: RipDeamon::new, setup and the first lines of run().           *)

NothingHeard == [d \in RipDevice |-> [k \in RouteKey |-> 0]]

local_entry == [next_hop |-> Unspecified, metric |-> 1, attr |-> LocalAttr]

setup_advertised_network_fails(db, network) ==
    ~(network # InvalidNetwork /\ ~add_route_fails(db, network.key))

setup_advertised_network(db, network) ==
    add_local_route(db, network.key, local_entry, network.dev)

Init ==
    /\ pc = "setup" /\ exit = "running"
    /\ database = new
    /\ request_warmup_timer = FALSE
    /\ triggered_update_lock_timer = FALSE
    /\ garbage_collection_timer = FALSE
    /\ networks \in Configurations
    /\ packet = None
    /\ pending = {}
    /\ kernel \in SUBSET InitialKernel /\ OneRoutePerPlace(kernel)
    /\ preexisting = kernel
    /\ undeleted = {}
    /\ taken = {}
    /\ advertised = NothingHeard
    /\ farewell_sent = FALSE
    /\ restarts = 0

SetupNetwork ==
    /\ pc = "setup" /\ networks # <<>>
    /\ ~setup_advertised_network_fails(database, Head(networks))
    /\ database' = setup_advertised_network(database, Head(networks))
    /\ networks' = Tail(networks)
    /\ Step("setup")
    /\ UNCHANGED <<timers, packet, pending, rib, wire, restarts>>

(* A wrong network or a network listed twice.                              *)
SetupNetworkFails ==
    /\ pc = "setup" /\ networks # <<>>
    /\ setup_advertised_network_fails(database, Head(networks))
    /\ Exit("setup")
    /\ UNCHANGED <<database, timers, work, rib, wire, restarts>>

(* The netlink connection, the file, a socket or the HTTP port fails.      *)
StartFails ==
    /\ pc = "setup"
    /\ Exit("setup")
    /\ UNCHANGED <<database, timers, work, rib, wire, restarts>>

Run ==
    /\ pc = "setup" /\ networks = <<>>
    /\ request_warmup_timer' = TRUE
    /\ triggered_update_lock_timer' = FALSE
    /\ garbage_collection_timer' = FALSE
    /\ Step("select")
    /\ UNCHANGED <<database, work, rib, wire, restarts>>

-----------------------------------------------------------------------------
(* Sending.                                                                *)

(* What listeners have heard once the devices in sent got their share of   *)
(* an advertisement.                                                       *)
heard_after(sent, changed_only) ==
    [d \in RipDevice |-> [k \in RouteKey |->
        IF d \in sent
        THEN last_metric(database, k, d, changed_only, advertised[d][k])
        ELSE advertised[d][k]]]

send_multicast_advertisement(changed_only) ==
    /\ advertised' = heard_after(RipDevice, changed_only)
    /\ database' = mark_all_routes_as_unchanged(database)

(* A send fails on a device that has something to be sent: other devices   *)
(* may have been served, and no route is marked as unchanged.              *)
send_multicast_advertisement_fails(changed_only) ==
    \E failing \in RipDevice :
        /\ get_routes_for_advertisement(database, failing, changed_only) # {}
        /\ \E sent \in SUBSET (RipDevice \ {failing}) :
               advertised' = heard_after(sent, changed_only)
        /\ database' = database

-----------------------------------------------------------------------------
(* The timers of select!.                                                  *)

RequestWarmupTimer ==
    /\ pc = "select" /\ request_warmup_timer
    /\ request_warmup_timer' = FALSE
    /\ Step("trigger") \/ Exit("io")
    /\ UNCHANGED <<database, triggered_update_lock_timer,
                   garbage_collection_timer, work, rib, wire, restarts>>

UpdateTimer ==
    /\ pc = "select"
    /\ \/ send_multicast_advertisement(FALSE) /\ Step("trigger")
       \/ send_multicast_advertisement_fails(FALSE) /\ Exit("io")
    /\ UNCHANGED <<timers, work, rib, farewell_sent, restarts>>

(* Mutant: back to select! without a look at the changed routes.           *)
TriggeredUpdateLockTimerContinues ==
    /\ pc = "select" /\ triggered_update_lock_timer
    /\ triggered_update_lock_timer' = FALSE
    /\ Step("select")
    /\ UNCHANGED <<database, request_warmup_timer, garbage_collection_timer,
                   work, rib, wire, restarts>>

(* Mutant: the lock is never lifted.                                       *)
TriggeredUpdateLockTimerStays ==
    /\ pc = "select" /\ triggered_update_lock_timer
    /\ Step("trigger")
    /\ UNCHANGED <<database, timers, work, rib, wire, restarts>>

TriggeredUpdateLockTimer ==
    /\ pc = "select" /\ triggered_update_lock_timer
    /\ triggered_update_lock_timer' = FALSE
    /\ Step("trigger")
    /\ UNCHANGED <<database, request_warmup_timer, garbage_collection_timer,
                   work, rib, wire, restarts>>

(* handle_route_timeout_tick, up to its loop.                              *)
TimeoutTimer ==
    /\ pc = "select"
    /\ database' = count_silence(database)
    /\ pending' = collect_timed_out_routes(database)
    /\ Step(IF pending' = {} THEN "trigger" ELSE "timeout")
    /\ UNCHANGED <<timers, networks, packet, rib, wire, restarts>>

(* Mutant: the route is poisoned before the kernel is told, and the delete *)
(* then names the wrong priority.                                          *)
TimeOutRouteMovesFirst(p) ==
    /\ pc = "timeout" /\ p \in pending
    /\ kernel' = delete_route_from_kernel(kernel, p.key, poisoned(p.route))
    /\ database' = move_route_to_garbage(database, p.key)
    /\ pending' = pending \ {p}
    /\ Step(IF pending' = {} THEN "trigger" ELSE "timeout")
    /\ garbage_collection_timer' = TRUE
    /\ UNCHANGED <<request_warmup_timer, triggered_update_lock_timer,
                   networks, packet, preexisting, undeleted, taken, wire,
                   restarts>>

(* One route of the loop.  The garbage collection timer is armed after the *)
(* last one, unless it already was.                                        *)
TimeOutRoute(p) ==
    /\ pc = "timeout" /\ p \in pending
    /\ \/ /\ kernel' = delete_route_from_kernel(kernel, p.key, p.route)
          /\ database' = move_route_to_garbage(database, p.key)
          /\ pending' = pending \ {p}
          /\ StepUnless(move_route_to_garbage_fails(database, p.key),
                        IF pending' = {} THEN "trigger" ELSE "timeout")
          /\ garbage_collection_timer' =
                 (garbage_collection_timer \/ pc' = "trigger")
       \/ /\ Exit("io")
          /\ UNCHANGED <<kernel, database, pending, garbage_collection_timer>>
    /\ UNCHANGED <<request_warmup_timer, triggered_update_lock_timer,
                   networks, packet, preexisting, undeleted, taken, wire,
                   restarts>>

(* Mutant: the timer is not armed again for the garbage that is left.      *)
GarbageCollectionTimerOnce ==
    /\ pc = "select" /\ garbage_collection_timer
    /\ database' = remove_expired_garbage_routes(database)
    /\ garbage_collection_timer' = FALSE
    /\ Step("trigger")
    /\ UNCHANGED <<request_warmup_timer, triggered_update_lock_timer,
                   work, rib, wire, restarts>>

(* handle_garbage_collection_tick.                                         *)
GarbageCollectionTimer ==
    /\ pc = "select" /\ garbage_collection_timer
    /\ database' = remove_expired_garbage_routes(database)
    /\ garbage_collection_timer' = has_garbage_routes(database')
    /\ Step("trigger")
    /\ UNCHANGED <<request_warmup_timer, triggered_update_lock_timer,
                   work, rib, wire, restarts>>

(* The tail of the loop: maybe_send_triggered_update.                      *)
MaybeSendTriggeredUpdate ==
    /\ pc = "trigger"
    /\ IF triggered_update_lock_timer \/ ~database.any_route_changed
       THEN /\ Step("select")
            /\ UNCHANGED <<database, advertised, triggered_update_lock_timer>>
       ELSE \/ /\ send_multicast_advertisement(TRUE)
               /\ triggered_update_lock_timer' = TRUE
               /\ Step("select")
            \/ /\ send_multicast_advertisement_fails(TRUE)
               /\ UNCHANGED triggered_update_lock_timer
               /\ Exit("io")
    /\ UNCHANGED <<request_warmup_timer, garbage_collection_timer,
                   work, rib, farewell_sent, restarts>>

-----------------------------------------------------------------------------
(* Receiving: handle_packet and handle_response_packet.                    *)

ReceiveResponse(n, entries) ==
    /\ pc = "select"
    /\ packet' = [source |-> n.source, dev |-> n.dev, entries |-> entries]
    /\ Step("response")
    /\ UNCHANGED <<database, timers, networks, pending, rib, wire, restarts>>

(* rip_send_response_unicast; nothing is sent when there is nothing to say.*)
ReceiveRequest(n) ==
    /\ pc = "select"
    /\ \/ Step("trigger")
       \/ /\ get_routes_for_advertisement(database, n.dev, FALSE) # {}
          /\ Exit("io")
    /\ UNCHANGED <<database, timers, work, rib, wire, restarts>>

(* A response from another port than RIP's is dropped.                     *)
ReceiveForeignResponse ==
    /\ pc = "select"
    /\ Step("trigger")
    /\ UNCHANGED <<database, timers, work, rib, wire, restarts>>

(* Neither request nor response, or a response of another version.         *)
ReceiveMalformed ==
    /\ pc = "select"
    /\ Exit("packet")
    /\ UNCHANGED <<database, timers, work, rib, wire, restarts>>

(* rx.recv() yields None, as every receive task has stopped; or ctrl_c()   *)
(* returns an error.                                                       *)
ReceiveTasksStopped ==
    /\ pc = "select"
    /\ Exit("io")
    /\ UNCHANGED <<database, timers, work, rib, wire, restarts>>

-----------------------------------------------------------------------------
(* One entry of a response packet: update_route_from_response.             *)

is_entry_valid(entry) == entry.key \in ValidKey /\ is_metric_valid(entry.metric)

response_entry_to_route(entry) ==
    [next_hop |-> packet.source, metric |-> update_metric(entry.metric),
     attr |-> entry.attr]

Current == Head(packet.entries)
Key == Current.key
OldRoute == database.ok_routes[Key]
RouteEntry == response_entry_to_route(Current)

NextEntry == packet' = [packet EXCEPT !.entries = Tail(packet.entries)]

(* A local route has the next hop 0.0.0.0, and nothing else tells it from  *)
(* a route of a neighbour that sends from there.                           *)
TakenNow ==
    IF packet.source = Unspecified /\ OldRoute.is_local
    THEN taken \cup {Key}
    ELSE taken

PacketDone ==
    /\ pc = "response" /\ packet.entries = <<>>
    /\ packet' = None
    /\ Step("trigger")
    /\ UNCHANGED <<database, timers, networks, pending, rib, wire, restarts>>

AtEntry == pc = "response" /\ packet.entries # <<>>

SkipInvalidEntry ==
    /\ AtEntry /\ ~is_entry_valid(Current)
    /\ NextEntry
    /\ Step("response")
    /\ UNCHANGED <<database, timers, networks, pending, rib, wire, restarts>>

AtPoison == AtEntry /\ is_entry_valid(Current) /\ RouteEntry.metric >= Infinity

AtReachable == AtEntry /\ is_entry_valid(Current) /\ RouteEntry.metric < Infinity

IgnorePoison ==
    /\ AtPoison
    /\ has_route(database, Key) =>
           ~route_is_from_current_next_hop(OldRoute, RouteEntry)
    /\ NextEntry
    /\ Step("response")
    /\ UNCHANGED <<database, timers, networks, pending, rib, wire, restarts>>

HandlePoison ==
    /\ AtPoison
    /\ has_route(database, Key)
    /\ route_is_from_current_next_hop(OldRoute, RouteEntry)
    /\ \/ /\ kernel' = delete_route_from_kernel(kernel, Key, OldRoute)
          /\ database' = move_route_to_garbage(database, Key)
          /\ StepUnless(move_route_to_garbage_fails(database, Key), "response")
          /\ NextEntry
       \/ Exit("io") /\ UNCHANGED <<kernel, database, packet>>
    /\ taken' = TakenNow
    /\ UNCHANGED <<timers, networks, pending, preexisting, undeleted, wire,
                   restarts>>

(* Case 1: there is no active route to the destination.                    *)
LearnRoute ==
    /\ AtReachable
    /\ ~has_route(database, Key)
    /\ LET db == remove_garbage_route(database, Key)
       IN  /\ database' = add_remote_route(db, Key, RouteEntry, packet.dev)
           /\ StepUnless(add_route_fails(db, Key), "install")
    /\ UNCHANGED <<timers, work, rib, wire, restarts>>

(* Mutant: the old route is removed and the new one never added.           *)
replace_route_by_nothing(db) ==
    /\ kernel' = delete_route_from_kernel(kernel, Key, OldRoute)
    /\ database' = remove_route(db, Key)
    /\ Step("install")
    /\ UNCHANGED <<timers, work, preexisting, undeleted, wire, restarts>>

(* replace_route_from_response, on the database db: up to the add.         *)
replace_route_from_response(db) ==
    /\ \/ /\ kernel' = delete_route_from_kernel(kernel, Key, OldRoute)
          /\ LET removed == remove_route(db, Key)
             IN  /\ database' =
                        add_remote_route(removed, Key, RouteEntry, packet.dev)
                 /\ StepUnless(remove_route_fails(db, Key)
                                   \/ add_route_fails(removed, Key), "install")
       \/ Exit("io") /\ kernel' = kernel /\ database' = db
    /\ UNCHANGED <<timers, work, preexisting, undeleted, wire, restarts>>

SameRoute ==
    /\ OldRoute.metric = RouteEntry.metric
    /\ OldRoute.attr = RouteEntry.attr
    /\ OldRoute.dev = packet.dev

FromCurrentNextHop ==
    /\ AtReachable
    /\ has_route(database, Key)
    /\ route_is_from_current_next_hop(OldRoute, RouteEntry)

FromAnotherNextHop ==
    /\ AtReachable
    /\ has_route(database, Key)
    /\ ~route_is_from_current_next_hop(OldRoute, RouteEntry)

(* Case 2: the current next hop repeats its route ...                      *)
RefreshRoute ==
    /\ FromCurrentNextHop /\ SameRoute
    /\ database' = refresh_route_timeout(database, Key)
    /\ NextEntry
    /\ Step("response")
    /\ UNCHANGED <<timers, networks, pending, rib, wire, restarts>>

(* Mutant: the database is changed and the kernel is not told.             *)
UpdateRouteInPlace ==
    /\ FromCurrentNextHop /\ ~SameRoute
    /\ database' = add_remote_route(remove_route(database, Key), Key,
                                    RouteEntry, packet.dev)
    /\ NextEntry
    /\ Step("response")
    /\ UNCHANGED <<timers, networks, pending, rib, wire, restarts>>

(* ... or changes it.                                                      *)
UpdateRoute ==
    /\ FromCurrentNextHop /\ ~SameRoute
    /\ replace_route_from_response(refresh_route_timeout(database, Key))
    /\ taken' = TakenNow

(* Mutant: any other next hop takes the route over.                        *)
SwitchRouteAlways ==
    /\ FromAnotherNextHop
    /\ replace_route_from_response(database)
    /\ UNCHANGED taken

(* Case 3: another next hop with a better metric.                          *)
SwitchRoute ==
    /\ FromAnotherNextHop /\ OldRoute.metric > RouteEntry.metric
    /\ replace_route_from_response(database)
    /\ UNCHANGED taken

(* Case 4: another next hop that is not better.                            *)
KeepRoute ==
    /\ FromAnotherNextHop /\ OldRoute.metric <= RouteEntry.metric
    /\ NextEntry
    /\ Step("response")
    /\ UNCHANGED <<database, timers, networks, pending, rib, wire, restarts>>

(* The netlink add that ends case 1 and replace_route_from_response.       *)
InstallRoute ==
    /\ pc = "install"
    /\ \/ /\ kernel' = add_route_to_kernel(kernel, Key, OldRoute)
          /\ NextEntry
          /\ Step("response")
       \/ Exit("io") /\ UNCHANGED <<kernel, packet>>
    /\ UNCHANGED <<database, timers, networks, pending, preexisting, undeleted,
                   taken, wire, restarts>>

-----------------------------------------------------------------------------
(* handle_http_request.                                                    *)

HttpGetRoutes ==
    /\ pc = "select"
    /\ Step("trigger")
    /\ UNCHANGED <<database, timers, work, rib, wire, restarts>>

(* Mutant: the route in place is overwritten.                              *)
HttpAddLocalRouteOverwrites(network) ==
    /\ pc = "select"
    /\ database' = IF network = InvalidNetwork
                   THEN database
                   ELSE setup_advertised_network(
                            remove_route(database, network.key), network)
    /\ Step("trigger")
    /\ UNCHANGED <<timers, work, rib, wire, restarts>>

HttpAddLocalRoute(network) ==
    /\ pc = "select"
    /\ database' = IF setup_advertised_network_fails(database, network)
                   THEN database
                   ELSE setup_advertised_network(database, network)
    /\ Step("trigger")
    /\ UNCHANGED <<timers, work, rib, wire, restarts>>

-----------------------------------------------------------------------------
(* handle_shutdown, on ctrl-c and SIGTERM.                                 *)

(* Mutant: the routes to delete are collected after they were poisoned.    *)
ShutdownPoisonsFirst ==
    /\ pc = "select"
    /\ database' = poison_all_routes(database)
    /\ pending' = get_routes_in_routing_table(database')
    /\ Step("farewell")
    /\ UNCHANGED <<timers, networks, packet, rib, wire, restarts>>

Shutdown ==
    /\ pc = "select"
    /\ pending' = get_routes_in_routing_table(database)
    /\ database' = poison_all_routes(database)
    /\ Step("farewell")
    /\ UNCHANGED <<timers, networks, packet, rib, wire, restarts>>

Farewell ==
    /\ pc = "farewell"
    /\ \/ send_multicast_advertisement(FALSE) /\ farewell_sent' = TRUE
       \/ send_multicast_advertisement_fails(FALSE) /\ farewell_sent' = FALSE
    /\ Step("cleanup")
    /\ UNCHANGED <<timers, work, rib, restarts>>

(* A failing delete is logged, and the loop goes on.                       *)
CleanUpRoute(p) ==
    /\ pc = "cleanup" /\ p \in pending
    /\ \/ /\ kernel' = delete_route_from_kernel(kernel, p.key, p.route)
          /\ undeleted' = undeleted
       \/ /\ undeleted' = undeleted \cup {build_route_message(p.key, p.route)}
          /\ kernel' = kernel
    /\ pending' = pending \ {p}
    /\ Step("cleanup")
    /\ UNCHANGED <<database, timers, networks, packet, preexisting, taken, wire,
                   restarts>>

CleanedUp ==
    /\ pc = "cleanup" /\ pending = {}
    /\ Exit("ok")
    /\ UNCHANGED <<database, timers, work, rib, wire, restarts>>

-----------------------------------------------------------------------------
(* The environment.                                                        *)

(* Time passes.  Only the garbage collection reads the clock, and it runs  *)
(* from select!: that is where time has to pass.                           *)
Elapse ==
    /\ pc = "select"
    /\ grow_older(database) # database
    /\ database' = grow_older(database)
    /\ UNCHANGED <<pc, exit, timers, work, rib, wire, restarts>>

(* SIGKILL, a panic or a power failure, at any await.                      *)
Kill ==
    /\ pc # "exited"
    /\ Exit("killed")
    /\ UNCHANGED <<database, timers, work, rib, wire, restarts>>

(* Nothing is persisted: only the kernel's table outlives the process.     *)
Restart ==
    /\ pc = "exited" /\ restarts < MaxRestarts
    /\ pc' = "setup" /\ exit' = "running"
    /\ database' = new
    /\ request_warmup_timer' = FALSE
    /\ triggered_update_lock_timer' = FALSE
    /\ garbage_collection_timer' = FALSE
    /\ networks' \in Configurations
    /\ packet' = None
    /\ pending' = {}
    /\ preexisting' = kernel
    /\ undeleted' = {}
    /\ taken' = {}
    /\ advertised' = NothingHeard
    /\ farewell_sent' = FALSE
    /\ restarts' = restarts + 1
    /\ UNCHANGED kernel

Terminated == pc = "exited" /\ restarts = MaxRestarts /\ UNCHANGED vars

-----------------------------------------------------------------------------
(* The specification.                                                      *)

Entries ==
    UNION {[1 .. n -> [key : RouteKey, metric : Metric, attr : Attr]] :
               n \in 0 .. MaxEntries}

Start == SetupNetwork \/ SetupNetworkFails \/ StartFails \/ Run

Timer ==
    \/ RequestWarmupTimer
    \/ UpdateTimer
    \/ TriggeredUpdateLockTimer
    \/ TimeoutTimer
    \/ GarbageCollectionTimer

Receive ==
    \/ \E n \in Neighbour, entries \in Entries : ReceiveResponse(n, entries)
    \/ \E n \in Neighbour : ReceiveRequest(n)
    \/ ReceiveForeignResponse
    \/ ReceiveMalformed
    \/ ReceiveTasksStopped

HandleEntry ==
    \/ SkipInvalidEntry
    \/ IgnorePoison
    \/ HandlePoison
    \/ LearnRoute
    \/ RefreshRoute
    \/ UpdateRoute
    \/ SwitchRoute
    \/ KeepRoute
    \/ InstallRoute
    \/ PacketDone

Http == HttpGetRoutes \/ \E network \in HttpNetwork : HttpAddLocalRoute(network)

Leave ==
    \/ Farewell
    \/ \E p \in pending : CleanUpRoute(p)
    \/ CleanedUp

(* What the daemon does once an event was chosen.                          *)
Handle ==
    \/ HandleEntry
    \/ \E p \in pending : TimeOutRoute(p)
    \/ MaybeSendTriggeredUpdate
    \/ Leave

Next ==
    \/ Start \/ Timer \/ Receive \/ Http \/ Shutdown \/ Handle
    \/ Elapse \/ Kill \/ Restart \/ Terminated

Spec == Init /\ [][Next]_vars

(* A handler that was started runs on; and select! polls its branches in   *)
(* random order, so that a timer that is due, again and again, is served.  *)
(* Nothing is asked of the periodic update: changes must not wait for it.  *)
Fairness ==
    /\ WF_vars(Handle)
    /\ SF_vars(RequestWarmupTimer)
    /\ SF_vars(TriggeredUpdateLockTimer)
    /\ SF_vars(TimeoutTimer)
    /\ SF_vars(GarbageCollectionTimer)
    /\ SF_vars(Elapse)

FairSpec == Spec /\ Fairness

-----------------------------------------------------------------------------
(* Properties.                                                             *)

TypeControl ==
    /\ pc \in {"setup", "select", "response", "install", "timeout", "trigger",
               "farewell", "cleanup", "exited"}
    /\ exit \in {"running", "ok", "io", "packet", "database", "setup", "killed"}
    /\ (pc = "exited") <=> (exit # "running")
    /\ restarts \in 0 .. MaxRestarts

TypeTimers ==
    /\ request_warmup_timer \in BOOLEAN
    /\ triggered_update_lock_timer \in BOOLEAN
    /\ garbage_collection_timer \in BOOLEAN

TypeWork ==
    /\ networks \in Seq(Network \cup {InvalidNetwork})
    /\ packet \in Packet \cup {None}
    /\ pc \in {"response", "install"} => packet \in Packet
    /\ pc = "install" => packet.entries # <<>> /\ has_route(database, Key)
    /\ pending \subseteq [key : RouteKey, route : RipDbEntry]

TypeRib ==
    /\ kernel \subseteq KernelRoute
    /\ preexisting \subseteq KernelRoute
    /\ undeleted \subseteq KernelRoute
    /\ taken \subseteq RouteKey

TypeWire ==
    /\ advertised \in [RipDevice -> [RouteKey -> Nat]]
    /\ farewell_sent \in BOOLEAN

(* Every variable has its type, and the daemon has the work its place in   *)
(* the code needs: a packet while it handles one, the route it installs.   *)
TypeOK ==
    /\ TypeControl
    /\ IsDatabase(database)
    /\ TypeTimers
    /\ TypeWork
    /\ TypeRib
    /\ TypeWire

ActiveRemote(k) == has_route(database, k) /\ ~database.ok_routes[k].is_local

ActiveLocal(k) == has_route(database, k) /\ database.ok_routes[k].is_local

(* A destination is both active and garbage only while a local route was   *)
(* added over a poisoned one (add_local_route leaves the garbage alone,    *)
(* learning a remote route removes it), or where a response from 0.0.0.0   *)
(* then took that local route.  This is what keeps move_route_to_garbage   *)
(* from meeting an occupied garbage entry.                                 *)
OverlapOnlyLocal ==
    \A k \in RouteKey \ taken :
        ActiveRemote(k) => ~has_garbage_route(database, k)

(* The daemon ends on an error of its own database only where a response   *)
(* from 0.0.0.0 took a local route that lay over garbage: every other      *)
(* add_route, remove_route and move_route_to_garbage whose Err run() would *)
(* propagate succeeds, in every order of packets, timeouts and requests.   *)
NoDatabaseError ==
    exit = "database" => \E k \in taken : has_garbage_route(database, k)

(* A route that still has to be advertised is never forgotten by the flag  *)
(* that maybe_send_triggered_update looks at.                              *)
ChangedIsFlagged ==
    ~database.any_route_changed =>
        /\ \A k \in DOMAIN database.ok_routes :
               ~database.ok_routes[k].changed
        /\ \A k \in DOMAIN database.garbage_routes :
               ~database.garbage_routes[k].changed

(* When the daemon goes back to wait in select!, a pending change has a    *)
(* timer that will bring it out: the lock of the last triggered update, or *)
(* the request warmup for what setup added before the loop began.          *)
ChangeNotStranded ==
    pc = "select" /\ database.any_route_changed =>
        triggered_update_lock_timer \/ request_warmup_timer

(* A listener on an interface was last told the current metric of every    *)
(* remote or poisoned route that is no longer marked as changed, unless    *)
(* split horizon keeps the route from that interface, or an active route   *)
(* has the place of a local one and perhaps its garbage beside it.         *)
NeighboursInformed ==
    exit = "running" =>
        \A d \in RipDevice, k \in RouteKey :
            /\ (/\ ActiveRemote(k) /\ k \notin taken
                /\ ~database.ok_routes[k].changed
                /\ database.ok_routes[k].dev # d)
                   => advertised[d][k] = database.ok_routes[k].metric
            /\ (/\ has_garbage_route(database, k) /\ ~has_route(database, k)
                /\ ~database.garbage_routes[k].changed
                /\ database.garbage_routes[k].dev # d)
                   => advertised[d][k] = Infinity

(* The kernel routes of a set of installed routes.                         *)
Messages(routes) == {build_route_message(p.key, p.route) : p \in routes}

(* The kernel never keeps a route the database has replaced, poisoned or   *)
(* timed out: beyond what was there at the start it holds the routes of    *)
(* the database, those the shutdown has still to delete and those whose    *)
(* delete failed.  An error exit or a crash leaves no more than that.      *)
NoKernelLeak ==
    kernel \subseteq preexisting
                     \cup Messages(get_routes_in_routing_table(database))
                     \cup Messages(pending)
                     \cup undeleted

(* A shutdown takes every route of the daemon out of the kernel, although  *)
(* the metrics by which the kernel knows them were poisoned before.        *)
CleanExit == exit = "ok" => kernel \subseteq preexisting \cup undeleted

(* Traffic for an active remote route is forwarded: the kernel holds its   *)
(* route, or a route with the same destination and priority that was there *)
(* before the daemon started, for which the add was refused with EEXIST.   *)
KernelServesRoutes ==
    exit = "running" /\ pc \notin {"farewell", "cleanup"} =>
        \A k \in RouteKey :
            (ActiveRemote(k) /\ ~(pc = "install" /\ k = Key)) =>
                LET message == build_route_message(k, database.ok_routes[k])
                IN  message \in kernel \/ Occupied(kernel \cap preexisting, message)

(* After a shutdown whose advertisement went out, the last thing heard of  *)
(* every route, on each interface it is not attached to, is infinity.      *)
FarewellHeard ==
    exit = "ok" /\ farewell_sent =>
        \A d \in RipDevice, k \in RouteKey :
            k \in get_routes_for_advertisement(database, d, FALSE) =>
                advertised[d][k] = Infinity

(* When the daemon waits, no remote route has outlived the timeout, and    *)
(* the garbage that timeouts left behind has an armed collection timer.    *)
TimeoutsServed ==
    pc = "select" =>
        /\ \A k \in DOMAIN database.ok_routes :
               ~is_timed_out(database.ok_routes[k])
        /\ \A k \in DOMAIN database.garbage_routes :
               is_timed_out(database.garbage_routes[k])
                   => garbage_collection_timer

Running == pc \notin {"setup", "farewell", "cleanup", "exited"}

(* A local route, once there, stays as it was until the daemon shuts down: *)
(* no timeout, garbage collection or packet touches it, but for an entry   *)
(* of its destination in a response from 0.0.0.0.                          *)
LocalRoutesStay ==
    [][\A k \in RouteKey :
          (Running /\ Running' /\ ActiveLocal(k)) =>
              \/ /\ ActiveLocal(k)'
                 /\ database'.ok_routes[k].metric = 1
                 /\ database'.ok_routes[k].dev = database.ok_routes[k].dev
              \/ AtEntry /\ Key = k /\ packet.source = Unspecified]_vars

(* A remote route gets worse or goes away only on the word of its own next *)
(* hop or after the full time of silence, whatever other neighbours say.   *)
OnlyNextHopWorsens ==
    [][\A k \in RouteKey :
          (Running /\ Running' /\ ActiveRemote(k)) =>
              \/ /\ ActiveRemote(k)'
                 /\ database'.ok_routes[k].metric <= database.ok_routes[k].metric
              \/ /\ pc = "response"
                 /\ packet.source = database.ok_routes[k].next_hop
              \/ is_timed_out(database.ok_routes[k])]_vars

-----------------------------------------------------------------------------
(* Liveness, under FairSpec; the daemon may always end instead.            *)

Ended == pc \in {"farewell", "cleanup", "exited"}

(* A change of any route is advertised sooner or later, by a triggered     *)
(* update: the periodic one need not come.                                 *)
ChangesGetOut ==
    database.any_route_changed ~> (~database.any_route_changed \/ Ended)

(* A route that timed out is collected, or learned anew.                   *)
TimedOutCollected ==
    \A k \in RouteKey :
        (/\ has_garbage_route(database, k)
         /\ is_timed_out(database.garbage_routes[k]))
            ~> (Ended \/ ~has_garbage_route(database, k))

(* When no response is handled any more, every remote route times out.     *)
SilenceEndsRoutes ==
    <>[](packet = None) => <>[](Ended \/ \A k \in RouteKey : ~ActiveRemote(k))

-----------------------------------------------------------------------------
(* What the repository says of the program and the program does not do:    *)
(* the runs that check these three end with a counterexample.              *)

(* What the unit test of the updater says of a local route: a listener is  *)
(* told its metric, once it is no longer marked as changed.                *)
LocalRoutesHeard ==
    exit = "running" =>
        \A d \in RipDevice, k \in RouteKey :
            (/\ ActiveLocal(k)
             /\ ~database.ok_routes[k].changed
             /\ database.ok_routes[k].dev # d)
                => advertised[d][k] = database.ok_routes[k].metric

(* What the integration test of garbage collection says of a poisoned      *)
(* route: it is removed once its lifetime is over.  Here for routes that   *)
(* were poisoned by their next hop as well as for those that timed out.    *)
GarbageCollected ==
    \A k \in RouteKey :
        has_garbage_route(database, k)
            ~> (Ended \/ ~has_garbage_route(database, k))

(* What the comment on case 2 of update_route_from_response says: who is   *)
(* the current next hop of a route owns it, so it is not a local one.      *)
NextHopOwnsRoute == FromCurrentNextHop => ~OldRoute.is_local

=============================================================================
