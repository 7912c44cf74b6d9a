# TLA+ models of rip_v2, a RIPv2 daemon

This directory holds specifications of the daemon in this repository, the
configurations with which TLC checks them on small instances, and proofs, checked
by TLAPS, that hold for all sizes. Paths of the program are given from the root
of the repository (`src/rip_deamon.rs`); `PROJECT.json` gives, for each
definition, the lines it models.

## The system

| Part | State | Operations | Modules |
|---|---|---|---|
| Database (`src/rip_database.rs`) | active routes, garbage routes, a flag "something changed" | add, remove, refresh, collect timed out, move to garbage, expire, poison all, select for advertisement, mark unchanged | `RipDatabase` |
| Daemon (`src/rip_deamon.rs`) | the database, three optional timers, two periodic timers | setup; the `select!` loop: signals, five timers, packets, HTTP requests; the triggered update after each event; shutdown | `RipDaemon`, `RipTimers`, `RouteSelection` |
| Kernel driver (`src/routing_table*.rs`) | none; the kernel's table | add and delete a route; EEXIST, ENOENT and ESRCH forgiven | `RoutingTable` |
| Updater (`src/rip_updater.rs`) | none | multicast request, multicast advertisement per interface, unicast reply, packets of 25 entries | `RipDatabase`, `RipDaemon`, `RipWire`, `RipSockets` |
| Receive tasks (`spawn_rx_task`) | one per interface, one channel of 64 packets | parse, enqueue, stop on the first error | `ReceiveTasks` |
| HTTP server (`src/http/mod.rs`) | a channel of 32 requests, one-shot replies | list routes, add a local route, read the log | `HttpAdmin` |
| Codec and addresses (`src/rip_packet.rs`, `src/address.rs`, `src/rip_route.rs`) | none | write and parse a datagram, check address and mask, make a local entry | `RipWire`, `AddressChecks` |
| Sockets (`src/rip_socket.rs`, `src/rip_ifc.rs`) | two sockets per interface, one more during a unicast reply | open, bind, join the group, send | `RipSockets` |
| Process (`src/main.rs`, signals in `run()`) | signal streams | start, SIGTERM, SIGINT, exit codes | `RipProcess` |
| A network of daemons | a database per router, packets in flight | boot, crash, leave, advertise, receive, time out | `RipNetwork` |

The daemon is a single task that owns the database, so nothing runs beside it on
the same state; what is concurrent is its environment: the receive tasks and the
HTTP handlers, which reach it through bounded channels, the signals, the kernel,
and the other daemons. The hard parts are the order of events and what happens at
the awaits inside a handler:

* netlink calls fail, between steps that change the database and the kernel in
  turn (delete, remove, add, add);
* the kernel identifies a route by its metric, and the daemon overwrites metrics
  when it poisons routes, so deletes must come first;
* packets of several neighbours, timeouts, garbage collection and HTTP requests
  interleave on the same destination;
* the triggered update is locked for a while after it was sent, and changes that
  arrive meanwhile must not be forgotten;
* one collection timer serves all garbage routes, and a timeout check counts whole
  intervals however recently the route was heard of;
* an `Err` of the database, which should be impossible, would end the process;
* the process may be killed anywhere, and only the kernel's table survives;
* channels fill up while a handler awaits netlink; receive tasks stop for good;
  HTTP clients go away with their request in the channel; `run()` returns under
  waiting handlers;
* `ctrl_c()` is a new future in every iteration, the SIGTERM stream is not;
* updates are lost, repeated, late and out of order, and routers count to infinity;
* addresses, masks and lengths at the edges of their range, and both byte orders.

`PROJECT.json` lists these hazards line by line with the properties that watch
them.

## The modules

### The daemon

* `RipDatabase`: the database as a value. Every method is an operator with the
  name it has in the source; a method that can return `Err` has a companion
  `..._fails`. `garbage_started_at`, an instant, is kept as an age that stops at
  the garbage lifetime. A route key is opaque; address family and route tag,
  which are only ever compared together, are one value `Attr`; interface index
  and name are one value `Device`. `Infinity` is 16 in the code and a constant
  here.
* `RoutingTable`: the kernel's table as a set of routes, and the two calls of
  the driver. The kernel refuses a second route with the same destination and
  priority, and deletes the route that agrees with the message; a delete without a
  gateway (0.0.0.0) agrees with every gateway.
* `RipDaemon`: the process. `pc` names the await it stands at; each action is
  the code from one such place to the next. A loop over entries or routes is one
  action per iteration. Netlink calls and sends have a failing outcome wherever
  the code propagates or logs one. `advertised` is not a variable of the program:
  it records what a listener on each interface last heard of each destination,
  and lets properties speak about neighbours. `preexisting` and `undeleted`
  record what the kernel held at the start and which deletes failed at shutdown,
  `taken` the destinations whose local route a sender without an address took.
* `RouteLifecycle`: what the daemon promises of a destination, with no word on
  packets, timers or the kernel: a remote route gets worse only through its own
  next hop, another next hop takes over only with a better metric, a local route
  ends with the process unless 0.0.0.0 is among the next hops (`Exposed`), what is
  withdrawn stays withdrawn until it is offered anew or forgotten. `RipLifecycle`
  gives the refinement mapping under which `RipDaemon` implements it; the next hops
  are the sources of the neighbours.
* `RouteSelection`: `update_route_from_response` with its four cases and the
  poison case as one function on databases, for the models in which a handler is
  one step.
* `RipTimers`: the five timers of `run()` with their durations, drawn at random
  where the code draws them. Time passes only when no timer is due; timers that are
  due together fire in any order.

Correspondence of the actions of `RipDaemon`: `SetupNetwork`,
`SetupNetworkFails`, `StartFails` and `Run` are `new`, `setup` and the head of
`run()`; `RequestWarmupTimer`, `UpdateTimer`, `TriggeredUpdateLockTimer`,
`TimeoutTimer` with `TimeOutRoute`, and `GarbageCollectionTimer` are the timer
branches with their handlers; the `Receive...` actions are `handle_packet` and the
checks of `handle_response_packet`; `SkipInvalidEntry` to `InstallRoute` are one
entry of a response (`update_route_from_response` with its four cases, the poison
handler and `replace_route_from_response`); `Http...` is `handle_http_request`;
`MaybeSendTriggeredUpdate` is the tail of the loop; `Shutdown`, `Farewell`,
`CleanUpRoute`, `CleanedUp` are `handle_shutdown`. `Elapse`, `Kill` and
`Restart` belong to the environment.

### Around the daemon

* `HttpAdmin` extends `RipDaemon`: the daemon's steps as they are, with its HTTP
  requests coming from the channel that the handlers of the server fill.
  `Ask`, `Send`, `SendFails` and `Respond` are the two awaits of a handler,
  `HandleHttpRequest` is the branch of `select!`, `HttpChannelClosed` the branch
  switching itself off, `RunReturns` what happens to the requests in the channel
  when `run()` returns. `applied` and `promised` are history.
* `RipSockets`: options, binding and membership of each socket, in the order in
  which `create_ifc`, `setup` and `rip_send_response_unicast` open them. A receiving
  socket belongs to its task and is closed with it (`DropRx`). Which socket gets a
  datagram is the kernel's business and external.
* `ReceiveTasks` extends `RipSockets`, whose steps it takes as they are: `SetUp`
  and `SpawnRxTasks` are the start; `RecvFrom`, `RecvUnparsable`, `RecvFails`,
  `SendPacket` and `SendIgnored` are `spawn_rx_task`. A task that breaks (`Break`)
  drops its socket: what is in the buffer is lost, and nothing more arrives there.
  `TakePacket` and `ReceiveTasksStopped` are the branch of `rx.recv()`;
  `SendMulticast` and `OpenAnswer` are what a handler does with sockets. Beyond that
  a handler only takes time, or ends the daemon. Datagrams are numbered; `expected`
  records which of them an interface had room for, and `cut` the first one that its
  task did not read before it broke, so that order and loss can be spoken of.
* `RipProcess`: the start in the order of `main` and `setup`, the two signals, and
  what the daemon leaves behind. SIGINT reaches only a `ctrl_c()` future that
  `select!` has polled in this iteration.
* `AddressChecks`: `address.rs` at its full width; a `u32` is its four bytes.
* `RipWire`: two daemons on a link, from `advertised_network_to_local_route`
  through `to_be`, `chunks` and the copy of `repr(C)` structs to `from_slice` and
  the checks on an entry; on machines of either byte order, with datagrams lost,
  reordered and mixed with those of other programs. The sender has more interfaces
  than the link, each route is on one of them, and an advertisement
  (`SendAdvertisement`) leaves out the routes of its own interface and, when it is a
  triggered one, those that are not marked as changed; then it takes the marks away.
  The answer to a request is filtered by interface alone. `advertised` records the
  networks for which an advertisement was made.
* `RipNetwork`: routers on links. The database and `RouteSelection` are the real
  ones, a handler is a step, and the kernel is left out. The topology is chosen at
  the start among the constant `Topologies`; `Distance` and `Uplink` are not part of
  the program, but describe the topology for the properties.

The `MC...` modules give the constants of an instance their values.

### Abstractions and assumptions worth knowing

* In `RipDaemon` timers have no length. An armed timer may fire at any `select!`;
  the periodic ones always may. So its properties hold for every setting of the
  environment variables, and those about time say "after the counter reached the
  limit". Durations are the subject of `RipTimers`, which asks for positive ones
  (`DurationAssumption`, `IntervalAssumption`): the code takes the intervals from
  the environment unchecked, and with an interval of 0 no route times out.
* A packet may have any source address, 0.0.0.0 included (`NeighbourAssumption` says
  no more of it than its type). IP accepts that source for a group such as
  224.0.0.9, the code does not check it, and it equals the next hop of a local
  route, so such a packet passes for one of the route's owner. The results about
  local routes name this exception: they hold of every destination that is not in
  `taken`, and a sender with an address cannot put one there.
* `RipTimers` starts from an empty database and has no local routes: those of the
  configuration, which wait for the warmup timer, and those of HTTP requests are in
  `RipDaemon`, whose timers have no length.
* In `RipDaemon` the checks on address and mask are the set `ValidKey`; the checks
  themselves are in `AddressChecks`. The checks on metrics are modelled.
* Kernel routes are changed by the daemon only, while it runs. Leftovers of
  earlier runs and routes of others may be there at the start.
* In `RipDaemon` a send to an interface is heard as a whole or fails; loss,
  repetition and reordering are in `RipNetwork`.
* `RipNetwork` sends each entry of a packet as a message of its own, since
  destinations do not meet in a database, and one message more than `MaxInFlight`
  between two interfaces about one destination is lost. Its routers send from
  interfaces that have an address (`NetworkAssumption`).

## Properties and runs

What each property says is stated at its definition.

| Run | Instance | States | Checks |
|---|---|---|---|
| `one_route` | 1 destination, a neighbour on two links and a sender from 0.0.0.0, metrics 0, 1, 2, 15, 17, local routes from configuration and HTTP | 1,090,492 | `TypeOK`, `OverlapOnlyLocal`, `NoDatabaseError`, `ChangedIsFlagged`, `ChangeNotStranded`, `NeighboursInformed`, `FarewellHeard`, `TimeoutsServed`, `LocalRoutesStay`, `OnlyNextHopWorsens`, `ImplementsLifecycle` |
| `kernel` | 1 destination, a neighbour and a sender from 0.0.0.0, local routes from HTTP, leftovers and foreign routes in the kernel, 1 restart | 5,153,480 | `NoKernelLeak`, `CleanExit`, `KernelServesRoutes` |
| `liveness` | 1 destination, 2 neighbours, packets of 2 entries, with fairness | 61,808 | `ChangesGetOut`, `TimedOutCollected`, `SilenceEndsRoutes` |
| `timers` | 2 destinations, a neighbour and a sender from 0.0.0.0, durations of 1 to 4 units | 726,380 | `ChangeToldInTime`, `TriggeredUpdatesApart`, `SilentRouteTimesOut`, `NoEarlyTimeout`, `CollectedInTime` |
| `http_admin` | the daemon without neighbours, 2 clients, a channel of 1, with fairness | 52,283 | `FailureLeavesNoTrace`, `ReadsWhatWasWritten`, `EveryRequestEnds` |
| `receive_tasks` | no interface, two, or one configured twice; socket buffers of 2, a channel of 1, with fairness | 40,931 | `InOrderAtMostOnce`, `HearsTheNeighbours`, `EveryPacketHandled`, `DeafDaemonExits` |
| `process` | no parameters, with fairness | 134 | `LeavesCleanly`, `SigtermEndsProcess`, `RepeatedInterruptsEnd` |
| `wire` | networks at the edges of the checks, of the link and of another interface, up to 3 local routes, packets of 2 entries, both byte orders, datagrams of other programs of 3 lengths | 22,294 | `LearnsWhatWasConfigured`, `KernelMeansTheSame`, `AnnouncesWhatIsConfigured`, `OwnDatagramsUnderstood` |
| `network` | 3 routers in a line, as in `tests/integration/01_basic.sh`, or 2 routers on 2 links; infinity 5, 1 fault, with fairness | 46,867 | `NeverTooShort`, `RoutesLeadUp`, `Converges` |
| `garbage_of_poison` | as `liveness`, packets of 1 entry | | `GarbageCollected`: violated, see below |
| `local_over_garbage` | as `liveness`, packets of 1 entry | | `LocalRoutesHeard`: violated, see below |
| `unspecified_source` | 1 destination, a neighbour and a sender from 0.0.0.0 | | `NextHopOwnsRoute`: violated, see below |

### Bounds

`MaxEntries` bounds the entries of a packet: in `liveness` two suffice for one entry
to meet what another of the same packet left behind, and in `wire` for a response to
be cut at a boundary with one entry left over.
`MaxRestarts` is 1 in `kernel`, because all that a process inherits is the
kernel's table, which the initial states vary as well. `TimeoutLimit` is 1 or 2
intervals, so that a route can be refreshed between two ticks; `GarbageLifetime` is
0 or 1, so that a collection can find garbage that is not yet expired. The metrics
of `one_route` are those at which the code changes its mind: invalid below, the
best, a worse one, the one that becomes infinity by the hop, invalid above;
infinity itself is among those of `kernel` and `liveness`.

The runs of `RipDaemon` have one destination. What destinations could do to each
other (a timeout loop or a shutdown over several routes, packets about several of
them) is proved for every number of destinations; `timers` checks two that share the
collection timer.

In `timers` the limit is not a multiple of the interval, the periods of update,
lock, timeout check and collection are short and fall due together in every
combination, and two destinations share the collection timer.

Channels have room for one and sockets for two: a second packet or client then
waits, which is what the code's 64 and 32 only make rare. `http_admin` leaves the
neighbours out: what they can do to a local route is `LocalRoutesStay` of
`one_route`, the theorem about `ReadsWhatWasWritten` includes them, and a request
does not wait for packets other than through the loop, which the timers occupy as
well.

`network` lowers infinity to 5, so that counting to infinity, which happens on the
two parallel links, fits; nothing in the code depends on the value. Two messages
may be in flight between two interfaces on the line, so that they can be reordered,
and one on the parallel links, where the other link reorders them. `MaxFaults` bounds
crashes, departures, repeated messages and timeouts that happen although the route
is still offered; loss is not bounded.

Deadlock is checked in every run: a process that has ended and may not restart
takes the step `Terminated`.

### Fairness

* `RipDaemon`: `WF` of `Handle`: a handler that was begun runs on, as it does
  whenever netlink and the sockets answer. `SF` of each timer branch and of the
  clock: `select!` polls its branches in random order, and a timer that is due
  stays due while other branches win. Nothing is assumed of the periodic update, of
  packets or of requests: `ChangesGetOut` shows that changes do not wait for it.
  The liveness properties let the process end instead.
* `HttpAdmin`, `ReceiveTasks`: tasks and handlers are scheduled (`WF`); the
  branches of `select!` as above, and a sender that waits for room gets it (`SF`),
  because tokio's channels serve waiters in order. Nothing is asked of the end of
  the process: whoever waits is told before.
* `RipProcess`: the same, and that `select!` polls `ctrl_c()` again and again.
  `RepeatedInterruptsEnd` takes the user's repetition as its hypothesis.
* `RipNetwork`: every running daemon advertises and checks its timeouts again and
  again (`WF`), and no direction of a link loses everything for ever (`SF` of
  receiving). Faults are bounded, so every behaviour is one in which they end.

### Three disagreements

* `garbage_of_poison`. Only `handle_route_timeout_tick` arms the garbage
  collection timer. A route that becomes garbage because its next hop poisoned
  it waits for another route to time out; if none does, it stays in the database,
  and in every periodic update, for ever. `src/tests/rip_database_tests.rs` says of
  garbage in general that a collection after its lifetime removes it;
  `tests/integration/03_timeout_gc.sh` says so of a route that timed out.
* `local_over_garbage`. Learning a remote route removes the garbage of that
  destination; adding a local route does not. An advertisement then carries both,
  the garbage after the active route, and a listener that handles the entries in
  order (as this daemon does) ends with infinity. `src/tests/rip_updater_tests.rs`
  expects the metric of the local route.
* `unspecified_source`. `route_is_from_current_next_hop` compares addresses, and a
  local route has the next hop 0.0.0.0. A comment in `update_route_from_response`
  says that an update of the current next hop is trusted "because this neighbor owns
  our active route"; a response from 0.0.0.0 is trusted with a local route, which no
  neighbour owns. It replaces the route by a remote one or withdraws it, and where
  garbage of the same destination is left, the withdrawal ends the daemon with an
  error of its database.

## What is proved

The theorems hold for every set of destinations, neighbours, devices, metrics,
configurations and kernel routes, for every value of infinity above 1, for packets
of any length, for every number of restarts, routers, faults, interfaces and
clients, for all durations and all capacities of channels and buffers. They rest on
the assumptions named in the modules: `AddressAssumption`, `InfinityAssumption`,
`TimeAssumption`, `NoneAssumption`, `NeighbourAssumption`, `InputAssumption`,
`DurationAssumption`, `IntervalAssumption`, those of `RipNetwork`, `SocketAssumption`,
`ReceiveAssumption`, `AdminAssumption` and `WireAssumption`. The instances of TLC
satisfy them. Every inductive invariant was checked by TLC on the instances of the
runs before it was proved.

### The database and the daemon

* `RipDatabaseProofs`: what each method of the database returns, preserves and
  leaves alone, as relations between the database before and after: `Put` (one
  route is there, marked as changed), `Moved` (a route is garbage now), `Quiet` and
  `Aged` (counters, ages and marks at most). The other proofs cite these facts and
  do not open the methods.
* `RipSafetyProofs!TypeCorrect`: `Spec => []TypeOK`. The type invariant is
  inductive as it stands, because it includes that the route being installed is
  in the database.
* `RipSafetyProofs!NoDatabaseErrorHolds` and `OverlapOnlyLocalHolds`. Neither is
  inductive. `DatabaseInv` adds that local routes have no next hop and metric 1
  (until the shutdown poisons them), that remote routes are marked as installed, that
  a destination is active and garbage at once only under a local route or where one
  was taken, that a packet in work has the source of a neighbour, and that the routes
  left in the timeout loop are still the ones of the database, and remote.
  From it: an entry that replaces or poisons a route comes from its next hop or has a
  better metric, so the route is either not local, hence without garbage beside it,
  or taken by this very entry, which came from 0.0.0.0. A move to garbage finds its
  place free, except at a destination in `taken`.
* `RipSafetyProofs!NoKernelLeakHolds` and `CleanExitHolds`. `KernelInv` says who
  accounts for the kernel's routes: while the daemon runs the active routes
  alone, from the shutdown on the list taken before the metrics were poisoned.
  Each delete names the route as it was installed, which for the timeout loop is
  again the fact about its remaining routes.
* `RipLifecycleProofs` first shows that under `DatabaseInv` every step is of one of
  fourteen kinds (`Kinds`, `NextKinds`): the database does not fail, so that a step
  learns, replaces, withdraws or installs one route, sends an update, starts the
  timeout loop, shuts down, and so on. The proofs below go through these kinds and
  not through the actions.
  * `ChangedIsFlaggedHolds`: the flag is kept by each relation (`Flagged`).
  * `ChangeNotStrandedHolds`: only the tail of the loop returns to `select!`, and it
    returns with the flag down or the lock armed.
  * `TimeoutsServedHolds`, from `TimeoutInv`: an active route that has timed out is
    in the timeout loop's list, and the loop arms the collection timer before it
    ends; a collection that finds nothing left may disarm it.
  * `NeighboursInformedHolds`, from `InformedInv`: garbage has metric infinity,
    and an update is sent before the marks are taken away.
  * `FarewellHeardHolds`, from `FarewellInv`: after the shutdown began every route
    is poisoned, and the farewell, which asks for all routes, is the last message.
  * `KernelServesRoutesHolds`, from `ServedInv`, together with `KernelInv`: the
    delete of one route does not take away another's.
  * The action properties `LocalRoutesStayHolds` and `OnlyNextHopWorsensHolds` kind by
    kind (the latter needs that what is left in the timeout loop has timed out). A
    local route ends only with the process or in a step that adds it to `taken`.
  * `LifecycleRefined`: `Spec => Lifecycle!Spec`, each kind being a step of
    `RouteLifecycle` at one destination, or a stutter; where no neighbour sends from
    0.0.0.0 no local route is exposed.

### Time

`RipTimersProofs`. `UpdateInv` relates the lock timer to the age of the oldest
untold change and to the time since the last triggered update: their sums are
bounded by the longest lock from above and by the shortest from below
(`ChangeToldInTimeHolds`, `TriggeredUpdatesApartHolds`). `RoutesInv` relates the
counter of a route, a multiple of the interval below the limit, to the silence and
to what is left of the check timer: they differ by at most one interval
(`SilentRouteTimesOutHolds`, `NoEarlyTimeoutHolds`); and the age of a dead route to
what is left of the one collection timer, which is armed as long as any such route
is there (`CollectedInTimeHolds`). The arithmetic of rounding up is in lemmas of its
own.

### The network

`RipNetworkProofs`. What a router believes is only as good as what it is told, so
`NetworkInv` speaks of the messages in flight as well: a finite metric exceeds the
distance of its sender, garbage has metric infinity, and in a tree no finite metric
is told on the link that leads to the destination. Loss, repetition, reordering and
crashes then cannot hurt: `NeverTooShortHolds` for every topology,
`RoutesLeadUpHolds` for every tree.

### Receive tasks

`ReceiveTasksProofs`. `ReceiveInv` has four parts. `SocketsInv`: the interfaces
that are set up are those of the configuration in its order, and every open socket
is one of the four kinds, all of which share the port; so no bind fails, a multicast
reaches exactly the interfaces configured for its device, and none of the daemon's
own comes back. `OwnedInv`: an interface has a receiving socket until its task
breaks, and no longer. `LoopInv`: the packets past the tasks are in order. `WayInv`:
for each interface, the numbers past the task, the one in its hand and those in the
buffer form an increasing chain without gaps, which ends before `cut` once the task
broke. From these `InOrderAtMostOnceHolds` and `HearsTheNeighboursHolds`.

### The administration server

`HttpAdminProofs`. `TraceInv`: a client is in the channel at most once and only
before it is handled, and who changed the database has "Ok" in its one-shot channel,
has been told so, or is gone; hence `FailureLeavesNoTraceHolds`. It also gives that
what is handled is a request of `RipDaemon`, and so `DaemonBehindServer`:
`AdminSpec => Spec`, by which the theorems about `RipDaemon` hold for the daemon behind
the server. With them `PromiseInv`: every acknowledged or promised network is a
local route until the daemon leaves, which it does for good, or is taken by a sender
from 0.0.0.0; hence `ReadsWhatWasWrittenHolds`.

### The wire

`RipWireProofs`, from the bits up. `ones` and `from_ones` are inverse to each other
and `complement` swaps zeros and ones, so that masks become sets of positions;
`MasksAccepted` is then an argument about the least position of a zero and the
greatest of a one, and holds for all 2^32 masks. The two byte orders cancel out in
`to_be` and the copy of the struct; an entry keeps its place at a multiple of 20
bytes, which makes `ResponseBytes`, the round trip of a packet with any number of
entries; and every element of a list is in some chunk of it, at the quotient and
remainder of its index.

`LearnsWhatWasConfigured` alone is not inductive: the next datagram to be received
may hold anything. `WireInv` adds that the sender's local routes are the entries of
the networks it accepted, each on its interface and marked until it was advertised
(`LocalInv`), and that each datagram of a daemon in flight is
parsed, recognised and believed as it was meant (`DatagramsInv`). Hence
`LearnsWhatWasConfiguredHolds` and `OwnDatagramsUnderstoodHolds`;
`KernelMeansTheSameHolds` speaks of datagrams of others too and rests on the checks
alone, `AnnouncesWhatIsConfiguredHolds` on `LocalInv`, by which the filter on
interface and mark selects the networks that are due (`EntriesDue`), and on the
chunks. `WireAssumption` gives addresses
and masks their 32 bits and asks for at least one entry per packet; `None` is no set
of networks.

Sums over bits and the buffer of a response are written out, byte by byte and entry
by entry, and not with a fold, because what a fold computes would have to be proved
by induction.

### Only model-checked

* Liveness (`ChangesGetOut`, `TimedOutCollected`, `SilenceEndsRoutes`,
  `EveryRequestEnds`, `EveryPacketHandled`, `DeafDaemonExits`, `SigtermEndsProcess`,
  `RepeatedInterruptsEnd`, `Converges`): out of the prover's reach.
* `RipProcess` (`LeavesCleanly`): it has no parameters, so that the run visits all
  states there are and a theorem would say no more.

## What is not modelled

* Logging (`src/logger.rs`) and the web console: output of what other parts know.
* The error values and the stub driver of the routing table: no behaviour.
* The text of the configuration file and of the command line, and the JSON of HTTP
  requests: parsed by libraries; what they yield is an input of the models, valid
  or not. Static files of the HTTP server.
* The saturation of the timeout counter at 2^64 seconds.

## What could come next

Liveness is checked on small instances only. `NeverTooShort` and `RoutesLeadUp` are
proved for all networks, but that routes converge (`Converges`) rests on two
topologies. The text of the configuration and the JSON of requests are inputs of
the models; a model of `cfg.rs` would have to say what the YAML parser yields.
