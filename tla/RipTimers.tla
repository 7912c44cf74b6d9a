------------------------------ MODULE RipTimers ------------------------------
(***************************************************************************)
(* The timers of run() with their durations.                               *)
(*                                                                         *)
(* RipDaemon leaves open when a timer fires.  Here each timer counts down  *)
(* to its deadline and fires at it, and time passes only when no timer is  *)
(* due: handlers take no time, and timers that are due at the same instant *)
(* fire in any order.  Responses are treated as RouteSelection says and    *)
(* come at any time; the kernel and the failures that end the daemon are   *)
(* RipDaemon's.                                                            *)
(***************************************************************************)
EXTENDS RouteSelection

CONSTANTS
    Metric,                      \* metrics of received routes, the hop added
    Seed,                        \* values of the clock random numbers come from
    WarmupMin, WarmupMax,        \* RIP_REQUEST_WARMUP_..._MILLIS
    UpdateMin, UpdateMax,        \* RIP_UPDATE_..._MILLIS
    LockMin, LockMax,            \* RIP_TRIGGERED_UPDATE_LOCK_..._MILLIS
    CollectionInterval           \* RIP_GARBAGE_COLLECTION_INTERVAL_SECS

ASSUME DurationAssumption ==
    /\ Metric \subseteq 2 .. Infinity
    /\ Seed \subseteq Nat
    /\ WarmupMin \in Nat /\ WarmupMax \in Nat /\ WarmupMin <= WarmupMax
    /\ UpdateMin \in Nat /\ UpdateMax \in Nat /\ UpdateMin <= UpdateMax
    /\ LockMin \in Nat /\ LockMax \in Nat /\ LockMin <= LockMax
    /\ UpdateMin > 0 /\ LockMin > 0
    /\ CollectionInterval \in Nat \ {0}

(* The time between two checks comes from the environment, unchecked.  If  *)
(* it is 0, silence does not add up and routes never time out.             *)
ASSUME IntervalAssumption == TimeoutInterval > 0

VARIABLES
    database,
    request_warmup_timer,          \* the timers: time left, or None
    update_timer,
    triggered_update_lock_timer,
    timeout_timer,
    garbage_collection_timer,
    silence,                       \* time since a destination was heard of
    unsent,                        \* time a change waits to be advertised
    since_triggered,               \* time since the last triggered update
    dead_for                       \* time since a route timed out, or None

timers == <<request_warmup_timer, update_timer, triggered_update_lock_timer,
            timeout_timer, garbage_collection_timer>>
watch == <<silence, unsent, since_triggered, dead_for>>

vars == <<database, timers, watch>>

-----------------------------------------------------------------------------
(* Durations.                                                              *)

(* Mutant: the range is one too long.                                      *)
random_millis_in_longer_range(min_millis, max_millis) ==
    {min_millis + (seed % (max_millis - min_millis + 2)) : seed \in Seed}

(* Mutant: the lower end is left out.                                      *)
random_millis_from_zero(min_millis, max_millis) ==
    {seed % (max_millis + 1) : seed \in Seed}

random_millis_in_range(min_millis, max_millis) ==
    {min_millis + (seed % (max_millis - min_millis + 1)) : seed \in Seed}

create_request_warmup_duration == random_millis_in_range(WarmupMin, WarmupMax)

create_update_duration == random_millis_in_range(UpdateMin, UpdateMax)

create_triggered_update_lock_duration == random_millis_in_range(LockMin, LockMax)

Init ==
    /\ database = new
    /\ request_warmup_timer \in create_request_warmup_duration
    /\ update_timer \in create_update_duration
    /\ triggered_update_lock_timer = None
    /\ timeout_timer = TimeoutInterval
    /\ garbage_collection_timer = None
    /\ silence = [k \in RouteKey |-> 0]
    /\ unsent = None
    /\ since_triggered = LockMax
    /\ dead_for = [k \in RouteKey |-> None]

-----------------------------------------------------------------------------
(* The end of an iteration: maybe_send_triggered_update, for the database  *)
(* and the lock that the branch of select! has left.                       *)
maybe_send_triggered_update(db, lock) ==
    /\ IF lock # None \/ ~db.any_route_changed
       THEN /\ database' = db
            /\ triggered_update_lock_timer' = lock
            /\ since_triggered' = since_triggered
       ELSE /\ database' = mark_all_routes_as_unchanged(db)
            /\ triggered_update_lock_timer' \in create_triggered_update_lock_duration
            /\ since_triggered' = 0
    /\ unsent' = IF ~database'.any_route_changed THEN None
                 ELSE IF unsent = None THEN 0 ELSE unsent

-----------------------------------------------------------------------------
(* The branches of select!.                                                *)

RequestWarmupTimer ==
    /\ request_warmup_timer = 0
    /\ request_warmup_timer' = None
    /\ maybe_send_triggered_update(database, triggered_update_lock_timer)
    /\ UNCHANGED <<update_timer, timeout_timer, garbage_collection_timer,
                   silence, dead_for>>

(* The periodic update carries every route.                                *)
UpdateTimer ==
    /\ update_timer = 0
    /\ update_timer' \in create_update_duration
    /\ maybe_send_triggered_update(mark_all_routes_as_unchanged(database),
                                   triggered_update_lock_timer)
    /\ UNCHANGED <<request_warmup_timer, timeout_timer,
                   garbage_collection_timer, silence, dead_for>>

TriggeredUpdateLockTimer ==
    /\ triggered_update_lock_timer = 0
    /\ maybe_send_triggered_update(database, None)
    /\ UNCHANGED <<request_warmup_timer, update_timer, timeout_timer,
                   garbage_collection_timer, silence, dead_for>>

(* The database after handle_route_timeout_tick; no route that times out   *)
(* is garbage as well (OverlapOnlyLocal of RipDaemon).                     *)
timed_out(db) ==
    LET counted == count_silence(db)
        gone == {k \in DOMAIN counted.ok_routes : is_timed_out(counted.ok_routes[k])}
    IN  [ok_routes |-> [k \in DOMAIN counted.ok_routes \ gone |-> counted.ok_routes[k]],
         garbage_routes |->
             [k \in DOMAIN counted.garbage_routes \cup gone |->
                 IF k \in gone THEN poisoned(counted.ok_routes[k])
                               ELSE counted.garbage_routes[k]],
         any_route_changed |-> counted.any_route_changed \/ gone # {}]

(* The routes that a check finds timed out.                                *)
TimedOut == {p.key : p \in collect_timed_out_routes(database)}

(* Mutant: a collection that is under way is put off.                      *)
TimeoutTimerRestartsCollection ==
    /\ timeout_timer = 0
    /\ timeout_timer' = TimeoutInterval
    /\ garbage_collection_timer' = CollectionInterval
    /\ dead_for' = [k \in RouteKey |-> IF k \in TimedOut THEN 0 ELSE dead_for[k]]
    /\ maybe_send_triggered_update(timed_out(database), triggered_update_lock_timer)
    /\ UNCHANGED <<request_warmup_timer, update_timer, silence>>

TimeoutTimer ==
    /\ timeout_timer = 0
    /\ timeout_timer' = TimeoutInterval
    /\ garbage_collection_timer' =
           IF TimedOut # {} /\ garbage_collection_timer = None
           THEN CollectionInterval
           ELSE garbage_collection_timer
    /\ dead_for' = [k \in RouteKey |-> IF k \in TimedOut THEN 0 ELSE dead_for[k]]
    /\ maybe_send_triggered_update(timed_out(database), triggered_update_lock_timer)
    /\ UNCHANGED <<request_warmup_timer, update_timer, silence>>

(* handle_garbage_collection_tick.                                         *)
GarbageCollectionTimer ==
    /\ garbage_collection_timer = 0
    /\ LET db == remove_expired_garbage_routes(database)
       IN  /\ garbage_collection_timer' =
                  IF has_garbage_routes(db) THEN CollectionInterval ELSE None
           /\ dead_for' = [k \in RouteKey |->
                              IF has_garbage_route(db, k) THEN dead_for[k] ELSE None]
           /\ maybe_send_triggered_update(db, triggered_update_lock_timer)
    /\ UNCHANGED <<request_warmup_timer, update_timer, timeout_timer, silence>>

(* A response about k.  The silence ends if its sender is the next hop     *)
(* afterwards, that is if the route is refreshed, replaced or learned.     *)
Response(k, entry, dev) ==
    LET db == update_route_from_response(database, k, entry, dev)
        heard == has_route(db, k) /\ db.ok_routes[k].next_hop = entry.next_hop
    IN  /\ maybe_send_triggered_update(db, triggered_update_lock_timer)
        /\ silence' = IF heard THEN [silence EXCEPT ![k] = 0] ELSE silence
        /\ dead_for' = IF heard THEN [dead_for EXCEPT ![k] = None] ELSE dead_for
        /\ UNCHANGED <<request_warmup_timer, update_timer, timeout_timer,
                       garbage_collection_timer>>

-----------------------------------------------------------------------------
(* Time.                                                                   *)

Armed(t) == t # None

Due(t) == Armed(t) /\ t = 0

left(t) == IF Armed(t) THEN t - 1 ELSE t

passed(t) == IF Armed(t) THEN t + 1 ELSE t

capped(t, bound) == IF t >= bound THEN bound ELSE t + 1

Tick ==
    /\ ~Due(request_warmup_timer) /\ ~Due(update_timer)
    /\ ~Due(triggered_update_lock_timer) /\ ~Due(timeout_timer)
    /\ ~Due(garbage_collection_timer)
    /\ request_warmup_timer' = left(request_warmup_timer)
    /\ update_timer' = left(update_timer)
    /\ triggered_update_lock_timer' = left(triggered_update_lock_timer)
    /\ timeout_timer' = left(timeout_timer)
    /\ garbage_collection_timer' = left(garbage_collection_timer)
    /\ database' = grow_older(database)
    /\ silence' = [k \in RouteKey |->
                      IF has_route(database, k) THEN silence[k] + 1 ELSE 0]
    /\ unsent' = passed(unsent)
    /\ since_triggered' = capped(since_triggered, LockMax)
    /\ dead_for' = [k \in RouteKey |-> passed(dead_for[k])]

Next ==
    \/ RequestWarmupTimer \/ UpdateTimer \/ TriggeredUpdateLockTimer
    \/ TimeoutTimer \/ GarbageCollectionTimer
    \/ \E k \in RouteKey, metric \in Metric, hop \in Address,
          dev \in Device :
           Response(k, [next_hop |-> hop, metric |-> metric, attr |-> LocalAttr], dev)
    \/ Tick

Spec == Init /\ [][Next]_vars

-----------------------------------------------------------------------------
(* Properties.                                                             *)

(* A change is told to the neighbours LockMax after it happened at the     *)
(* latest, by a triggered update or by a periodic one.                     *)
ChangeToldInTime == unsent # None => unsent <= LockMax

(* Two triggered updates are at least LockMin apart, whatever periodic     *)
(* updates and other timers come between them.                             *)
TriggeredUpdatesApart ==
    [][(/\ triggered_update_lock_timer' # None
        /\ \/ triggered_update_lock_timer = None
           \/ triggered_update_lock_timer' > triggered_update_lock_timer)
           => since_triggered >= LockMin]_vars

(* The number of checks after which a silent route times out.              *)
Checks == (TimeoutLimit + TimeoutInterval - 1) \div TimeoutInterval

(* A route times out after Checks intervals of silence at the latest.      *)
SilentRouteTimesOut ==
    \A k \in DOMAIN database.ok_routes : silence[k] <= Checks * TimeoutInterval

(* No route times out before Checks - 1 intervals of silence: a check that *)
(* comes right after the last response counts as a whole interval.         *)
NoEarlyTimeout ==
    [][\A k \in RouteKey :
           (dead_for[k] = None /\ dead_for'[k] = 0)
               => silence[k] >= (Checks - 1) * TimeoutInterval]_vars

(* What timed out is kept for its lifetime and removed one collection      *)
(* interval later at most, also when the collection was already running    *)
(* for an older route, or the route came back in between.                  *)
CollectedInTime ==
    \A k \in RouteKey :
        dead_for[k] # None => dead_for[k] <= GarbageLifetime + CollectionInterval

=============================================================================
