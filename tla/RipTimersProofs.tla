--------------------------- MODULE RipTimersProofs ---------------------------
(***************************************************************************)
(* The time bounds of the timers, for all durations: how long a change     *)
(* waits to be told, how far triggered updates are apart, when a silent    *)
(* route times out and when it is collected.                               *)
(***************************************************************************)
EXTENDS RipTimers, RipDatabaseProofs

-----------------------------------------------------------------------------
(* The inductive invariants.                                               *)

(* A change waits only while the lock is armed, and no longer than the     *)
(* lock still runs; the lock and the time since the last triggered update  *)
(* add up to the least distance between two of them.                       *)
UpdateInv ==
    /\ triggered_update_lock_timer \in {None} \cup 0 .. LockMax
    /\ since_triggered \in 0 .. LockMax
    /\ unsent \in {None} \cup Nat
    /\ unsent # None =>
           /\ triggered_update_lock_timer # None
           /\ unsent + triggered_update_lock_timer <= LockMax
    /\ IF triggered_update_lock_timer = None
       THEN since_triggered >= LockMin
       ELSE since_triggered + triggered_update_lock_timer >= LockMin

(* The silence that a route has counted differs by at most one interval    *)
(* from the time for which it was silent.                                  *)
InTime(route, hush, timer) ==
    /\ ~route.is_local
    /\ route.timeout_cnt < TimeoutLimit
    /\ \E n \in Nat : route.timeout_cnt = n * TimeoutInterval
    /\ route.timeout_cnt <= hush + timer
    /\ hush + timer <= route.timeout_cnt + TimeoutInterval

ActiveInTime(db, hush, timer) ==
    \A k \in DOMAIN db.ok_routes : InTime(db.ok_routes[k], hush[k], timer)

(* The age of a route that timed out, and the collection under way.        *)
Aging(route, dead, timer) ==
    /\ route.garbage_age = IF dead < GarbageLifetime THEN dead ELSE GarbageLifetime
    /\ timer # None
    /\ dead + timer <= GarbageLifetime + CollectionInterval

DeadInTime(db, dead, timer) ==
    \A k \in RouteKey :
        dead[k] # None =>
            /\ k \in DOMAIN db.garbage_routes
            /\ Aging(db.garbage_routes[k], dead[k], timer)

(* Without local routes no destination is both active and garbage.         *)
Apart(db) == DOMAIN db.ok_routes \cap DOMAIN db.garbage_routes = {}

RoutesInv ==
    /\ IsDatabase(database) /\ Apart(database)
    /\ timeout_timer \in 0 .. TimeoutInterval
    /\ garbage_collection_timer \in {None} \cup 0 .. CollectionInterval
    /\ silence \in [RouteKey -> Nat]
    /\ dead_for \in [RouteKey -> {None} \cup Nat]
    /\ ActiveInTime(database, silence, timeout_timer)
    /\ DeadInTime(database, dead_for, garbage_collection_timer)

-----------------------------------------------------------------------------
(* Triggered updates.                                                      *)

(* A new lock lasts as long as the two constants say.                      *)
LEMMA LockDuration ==
    ASSUME NEW t \in create_triggered_update_lock_duration
    PROVE  t \in LockMin .. LockMax
<1>1. PICK seed \in Seed : t = LockMin + (seed % (LockMax - LockMin + 1))
  BY DEF create_triggered_update_lock_duration, random_millis_in_range
<1> DEFINE d == LockMax - LockMin + 1
           rest == seed % d
<1>2. seed \in Nat /\ d \in Nat \ {0}
  BY DurationAssumption
<1> HIDE DEF d
<1>3. rest \in 0 .. d - 1
  BY <1>2
<1> HIDE DEF rest
<1>4. t = LockMin + rest
  BY <1>1 DEF rest, d
<1>5. QED
  BY <1>3, <1>4, DurationAssumption DEF d

(* A new lock keeps the next triggered update far enough away.             *)
LEMMA LockKeeps ==
    ASSUME NEW t \in LockMin .. LockMax
    PROVE  /\ t \in {None} \cup 0 .. LockMax
           /\ 0 \in 0 .. LockMax
           /\ t # None
           /\ 0 + t >= LockMin
<1>1. LockMin \in Nat /\ LockMax \in Nat /\ None \notin Nat
  BY DurationAssumption, NoneAssumption
<1>2. QED
  BY <1>1

(* The distance of an action that starts the lock from the last one.       *)
LockApart ==
    (/\ triggered_update_lock_timer' # None
     /\ \/ triggered_update_lock_timer = None
        \/ triggered_update_lock_timer' > triggered_update_lock_timer)
        => since_triggered >= LockMin

(* A triggered update is sent, or the change waits for the lock.           *)
LEMMA UpdateSend ==
    ASSUME UpdateInv, NEW db, NEW lock, maybe_send_triggered_update(db, lock),
           \/ lock = triggered_update_lock_timer
           \/ lock = None /\ triggered_update_lock_timer = 0
    PROVE  UpdateInv' /\ LockApart
<1>1. /\ LockMin \in Nat /\ LockMax \in Nat /\ LockMin <= LockMax
      /\ None \notin Nat
  BY DurationAssumption, NoneAssumption
<1>2. lock \in {None} \cup 0 .. LockMax
  BY <1>1 DEF UpdateInv
<1>3. CASE lock # None
  <2>1. /\ triggered_update_lock_timer' = lock
        /\ lock = triggered_update_lock_timer
        /\ since_triggered' = since_triggered
        /\ unsent' \in {None, 0, unsent}
        /\ unsent = None => unsent' \in {None, 0}
        /\ unsent # None => unsent' \in {None, unsent}
    BY <1>3 DEF maybe_send_triggered_update
  <2>2. QED
    BY <1>1, <1>3, <2>1 DEF UpdateInv, LockApart
<1>4. CASE lock = None /\ ~db.any_route_changed
  <2>1. /\ triggered_update_lock_timer' = None
        /\ since_triggered' = since_triggered
        /\ unsent' = None
    BY <1>4 DEF maybe_send_triggered_update
  <2>2. QED
    BY <1>1, <1>4, <2>1 DEF UpdateInv, LockApart
<1>5. CASE lock = None /\ db.any_route_changed
  <2>1. /\ triggered_update_lock_timer' \in create_triggered_update_lock_duration
        /\ since_triggered' = 0
    BY <1>5 DEF maybe_send_triggered_update
  <2>2. database' = mark_all_routes_as_unchanged(db)
    BY <1>5 DEF maybe_send_triggered_update
  <2>3. ~database'.any_route_changed
    BY <1>5, <2>2 DEF mark_all_routes_as_unchanged
  <2>4. unsent' = None
    BY <2>3 DEF maybe_send_triggered_update
  <2>5. since_triggered >= LockMin
    BY <1>1, <1>5 DEF UpdateInv
  <2>6. triggered_update_lock_timer' \in LockMin .. LockMax
    BY <2>1, LockDuration
  <2>7. UpdateInv'
    <3> DEFINE t == triggered_update_lock_timer'
    <3>1. /\ t \in {None} \cup 0 .. LockMax
          /\ 0 \in 0 .. LockMax
          /\ t # None
          /\ 0 + t >= LockMin
      BY <2>6, LockKeeps
    <3>2. /\ since_triggered' \in 0 .. LockMax
          /\ since_triggered' + t >= LockMin
      BY <2>1, <3>1
    <3>3. QED
      BY <2>4, <3>1, <3>2, Zenon DEF UpdateInv
  <2>8. QED
    BY <2>5, <2>7 DEF LockApart
<1>6. QED
  BY <1>3, <1>4, <1>5

(* Time goes by.                                                           *)
LEMMA UpdateTick ==
    ASSUME UpdateInv, Tick
    PROVE  UpdateInv' /\ LockApart
<1>1. /\ LockMin \in Nat /\ LockMax \in Nat /\ LockMin <= LockMax
      /\ None \notin Nat
  BY DurationAssumption, NoneAssumption
<1>2. since_triggered' = IF since_triggered >= LockMax
                         THEN LockMax ELSE since_triggered + 1
  BY DEF Tick, capped
<1>3. CASE triggered_update_lock_timer = None
  <2>1. triggered_update_lock_timer' = None
    BY <1>3 DEF Tick, left, Armed
  <2>2. unsent = None /\ unsent' = None
    BY <1>3 DEF Tick, UpdateInv, passed, Armed
  <2>3. QED
    BY <1>1, <1>2, <1>3, <2>1, <2>2 DEF UpdateInv, LockApart
<1>4. CASE triggered_update_lock_timer # None
  <2>1. /\ triggered_update_lock_timer' = triggered_update_lock_timer - 1
        /\ triggered_update_lock_timer # 0
    BY <1>4 DEF Tick, left, Armed, Due
  <2>2. unsent' = IF unsent # None THEN unsent + 1 ELSE unsent
    BY DEF Tick, passed, Armed
  <2>3. QED
    BY <1>1, <1>2, <1>4, <2>1, <2>2 DEF UpdateInv, LockApart
<1>5. QED
  BY <1>3, <1>4

(* Every step.                                                             *)
LEMMA UpdateNext ==
    ASSUME UpdateInv, [Next]_vars
    PROVE  UpdateInv' /\ (LockApart \/ UNCHANGED vars)
<1>1. CASE TriggeredUpdateLockTimer
  BY <1>1, UpdateSend DEF TriggeredUpdateLockTimer
<1>2. CASE Tick
  BY <1>2, UpdateTick
<1>3. CASE UNCHANGED vars
  BY <1>3 DEF vars, timers, watch, UpdateInv
<1>4. CASE RequestWarmupTimer \/ UpdateTimer
  BY <1>4, UpdateSend DEF RequestWarmupTimer, UpdateTimer
<1>5. CASE TimeoutTimer \/ GarbageCollectionTimer
  BY <1>5, UpdateSend DEF TimeoutTimer, GarbageCollectionTimer
<1>6. ASSUME NEW k, NEW entry, NEW dev, Response(k, entry, dev)
      PROVE  UpdateInv' /\ LockApart
  BY <1>6, UpdateSend DEF Response
<1>7. QED
  BY <1>1, <1>2, <1>3, <1>4, <1>5, <1>6 DEF Next

(* Triggered updates and their lock keep in step.                          *)
THEOREM UpdateInvariant == Spec => []UpdateInv
<1>1. Init => UpdateInv
  BY DurationAssumption, NoneAssumption DEF Init, UpdateInv
<1>2. UpdateInv /\ [Next]_vars => UpdateInv'
  BY UpdateNext
<1>3. QED
  BY <1>1, <1>2, PTL DEF Spec

(* A change waits for LockMax at most, whatever the durations are, whether *)
(* it comes while the lock is armed or not and however timers that are due *)
(* at the same instant are ordered.                                        *)
THEOREM ChangeToldInTimeHolds == Spec => []ChangeToldInTime
<1>1. UpdateInv => ChangeToldInTime
  BY DurationAssumption, NoneAssumption DEF UpdateInv, ChangeToldInTime
<1>2. QED
  BY <1>1, UpdateInvariant, PTL

(* Two triggered updates are at least LockMin apart.                       *)
THEOREM TriggeredUpdatesApartHolds == Spec => TriggeredUpdatesApart
<1>1. UpdateInv /\ [Next]_vars => [LockApart]_vars
  BY UpdateNext
<1>2. Spec => [][LockApart]_vars
  BY <1>1, UpdateInvariant, PTL DEF Spec
<1>3. QED
  BY <1>2 DEF TriggeredUpdatesApart, LockApart

-----------------------------------------------------------------------------
(* Whole intervals.                                                        *)

(* Multiplication by the interval keeps the order.                         *)
LEMMA TimesInterval ==
    ASSUME NEW t \in Nat, NEW m \in Int, NEW n \in Int, m <= n
    PROVE  m * t <= n * t /\ m * t \in Int /\ n * t \in Int
<1>1. PICK d \in Nat : n = m + d
  <2>1. n - m \in Nat /\ n = m + (n - m)
    OBVIOUS
  <2>2. QED
    BY <2>1
<1>2. d * t \in Nat
  OBVIOUS
<1>3. n * t = m * t + d * t
  BY <1>1
<1>4. QED
  BY <1>2, <1>3

(* Checks is the least number of intervals that reach the limit.           *)
LEMMA ChecksRoundsUp ==
    /\ Checks \in Nat
    /\ Checks * TimeoutInterval >= TimeoutLimit
    /\ (Checks - 1) * TimeoutInterval < TimeoutLimit
<1> DEFINE a == TimeoutLimit + TimeoutInterval - 1
           b == TimeoutInterval
           q == Checks
<1>1. a \in Nat /\ b \in Nat \ {0} /\ q = a \div b
  BY TimeAssumption, IntervalAssumption DEF Checks
<1> HIDE DEF a, q
<1>2. /\ q \in Nat
      /\ q * b <= a
      /\ a < q * b + b
  <2> HIDE DEF b
  <2>1. QED
    BY <1>1
<1>3. (q - 1) * b = q * b - b /\ q * b \in Int
  <2> HIDE DEF b
  <2>1. QED
    BY <1>1, <1>2
<1> DEFINE p == q * b
<1> HIDE DEF p
<1>4. p \in Int /\ p <= a /\ a < p + b /\ (q - 1) * b = p - b
  BY <1>2, <1>3 DEF p
<1>5. p >= TimeoutLimit /\ p - b < TimeoutLimit
  BY <1>4, TimeAssumption DEF a
<1>6. QED
  BY <1>2, <1>4, <1>5 DEF p, q

(* A count below the limit leaves room for another interval.               *)
LEMMA BelowLimit ==
    ASSUME NEW n \in Nat, n * TimeoutInterval < TimeoutLimit
    PROVE  n * TimeoutInterval + TimeoutInterval <= Checks * TimeoutInterval
<1> DEFINE t == TimeoutInterval
           c == Checks
<1>1. /\ t \in Nat /\ c \in Nat /\ c * t >= TimeoutLimit
      /\ TimeoutLimit \in Nat /\ n * t < TimeoutLimit
  BY TimeAssumption, ChecksRoundsUp
<1> HIDE DEF t, c
<1>2. n < c
  <2>1. SUFFICES ASSUME c <= n PROVE FALSE
    BY <1>1
  <2>2. c * t <= n * t /\ c * t \in Int /\ n * t \in Int
    BY <1>1, <2>1, TimesInterval
  <2>3. QED
    BY <1>1, <2>2
<1>3. (n + 1) * t <= c * t
  BY <1>1, <1>2, TimesInterval
<1>4. (n + 1) * t = n * t + t
  BY <1>1
<1>5. QED
  BY <1>3, <1>4 DEF t, c

(* A count that the next check brings to the limit is nearly there.        *)
LEMMA NearLimit ==
    ASSUME NEW n \in Nat,
           n * TimeoutInterval + TimeoutInterval >= TimeoutLimit
    PROVE  (Checks - 1) * TimeoutInterval <= n * TimeoutInterval
<1> DEFINE t == TimeoutInterval
           c == Checks
<1>1. /\ t \in Nat /\ c \in Nat /\ (c - 1) * t < TimeoutLimit
      /\ TimeoutLimit \in Nat /\ n * t + t >= TimeoutLimit
  BY TimeAssumption, ChecksRoundsUp
<1> HIDE DEF t, c
<1>2. c - 1 <= n
  <2>1. SUFFICES ASSUME n + 1 <= c - 1 PROVE FALSE
    BY <1>1
  <2>2. /\ (n + 1) * t <= (c - 1) * t
        /\ (n + 1) * t \in Int /\ (c - 1) * t \in Int
    BY <1>1, <2>1, TimesInterval
  <2>3. (n + 1) * t = n * t + t
    BY <1>1
  <2>4. QED
    BY <1>1, <2>2, <2>3
<1>3. (c - 1) * t <= n * t
  BY <1>1, <1>2, TimesInterval
<1>4. QED
  BY <1>3 DEF t, c

-----------------------------------------------------------------------------
(* What the timers need of a database, apart from the variables.           *)

DatabaseInTime(db, hush, timer, dead, collection) ==
    /\ IsDatabase(db) /\ Apart(db)
    /\ ActiveInTime(db, hush, timer)
    /\ DeadInTime(db, dead, collection)

(* Two databases with the same counts and ages.                            *)
SameClocks(db, db2) ==
    /\ DOMAIN db2.ok_routes = DOMAIN db.ok_routes
    /\ DOMAIN db2.garbage_routes = DOMAIN db.garbage_routes
    /\ \A k \in DOMAIN db.ok_routes :
           /\ db2.ok_routes[k].is_local = db.ok_routes[k].is_local
           /\ db2.ok_routes[k].timeout_cnt = db.ok_routes[k].timeout_cnt
    /\ \A k \in DOMAIN db.garbage_routes :
           db2.garbage_routes[k].garbage_age = db.garbage_routes[k].garbage_age

(* They are alike to the timers.                                           *)
LEMMA InTimeSameClocks ==
    ASSUME NEW db, NEW db2, NEW hush, NEW timer, NEW dead, NEW collection,
           DatabaseInTime(db, hush, timer, dead, collection),
           IsDatabase(db2), SameClocks(db, db2)
    PROVE  DatabaseInTime(db2, hush, timer, dead, collection)
<1>1. Apart(db2)
  BY DEF DatabaseInTime, SameClocks, Apart
<1>2. ActiveInTime(db2, hush, timer)
  BY DEF DatabaseInTime, SameClocks, ActiveInTime, InTime
<1>3. DeadInTime(db2, dead, collection)
  BY DEF DatabaseInTime, SameClocks, DeadInTime, Aging
<1>4. QED
  BY <1>1, <1>2, <1>3 DEF DatabaseInTime

(* mark_all_routes_as_unchanged leaves counts and ages alone.              *)
LEMMA MarkSameClocks ==
    ASSUME NEW db, IsDatabase(db)
    PROVE  LET db2 == mark_all_routes_as_unchanged(db)
           IN  IsDatabase(db2) /\ SameClocks(db, db2)
<1> DEFINE db2 == mark_all_routes_as_unchanged(db)
<1>1. CASE ~db.any_route_changed
  BY <1>1 DEF mark_all_routes_as_unchanged, SameClocks
<1>2. CASE db.any_route_changed
  <2>1. /\ IsDatabase(db2)
        /\ DOMAIN db2.ok_routes = DOMAIN db.ok_routes
        /\ DOMAIN db2.garbage_routes = DOMAIN db.garbage_routes
        /\ \A x \in DOMAIN db.ok_routes :
               db2.ok_routes[x] = [db.ok_routes[x] EXCEPT !.changed = FALSE]
        /\ \A x \in DOMAIN db.garbage_routes :
               db2.garbage_routes[x] =
                   [db.garbage_routes[x] EXCEPT !.changed = FALSE]
    BY <1>2, MarkUnchangedProperties
  <2> HIDE DEF db2
  <2>2. \A route \in RipDbEntry :
            LET route2 == [route EXCEPT !.changed = FALSE]
            IN  /\ route2.is_local = route.is_local
                /\ route2.timeout_cnt = route.timeout_cnt
                /\ route2.garbage_age = route.garbage_age
    BY DEF RipDbEntry
  <2>3. /\ \A x \in DOMAIN db.ok_routes : db.ok_routes[x] \in RipDbEntry
        /\ \A x \in DOMAIN db.garbage_routes :
               db.garbage_routes[x] \in RipDbEntry
    BY DatabaseElim
  <2>4. SameClocks(db, db2)
    BY <2>1, <2>2, <2>3 DEF SameClocks
  <2>5. QED
    BY <2>1, <2>4 DEF db2
<1>3. QED
  BY <1>1, <1>2

(* The end of an iteration.                                                *)
LEMMA SendInTime ==
    ASSUME NEW db, NEW lock, NEW hush, NEW timer, NEW dead, NEW collection,
           maybe_send_triggered_update(db, lock),
           DatabaseInTime(db, hush, timer, dead, collection)
    PROVE  DatabaseInTime(database', hush, timer, dead, collection)
<1>1. database' = db \/ database' = mark_all_routes_as_unchanged(db)
  BY DEF maybe_send_triggered_update
<1>2. IsDatabase(db)
  BY DEF DatabaseInTime
<1>3. QED
  BY <1>1, <1>2, MarkSameClocks, InTimeSameClocks

-----------------------------------------------------------------------------
(* Responses.                                                              *)

(* The route of k has just been heard of, and is not garbage.              *)
Renewed(db, db2, k) ==
    /\ DOMAIN db2.ok_routes = DOMAIN db.ok_routes \cup {k}
    /\ ~db2.ok_routes[k].is_local
    /\ db2.ok_routes[k].timeout_cnt = 0
    /\ \A x \in DOMAIN db.ok_routes \ {k} : db2.ok_routes[x] = db.ok_routes[x]
    /\ DOMAIN db2.garbage_routes = DOMAIN db.garbage_routes \ {k}
    /\ \A x \in DOMAIN db2.garbage_routes :
           db2.garbage_routes[x] = db.garbage_routes[x]

(* The silence ends where the sender is the next hop afterwards.           *)
Heard(db, k, entry) ==
    has_route(db, k) /\ db.ok_routes[k].next_hop = entry.next_hop

(* The fields of a new route.                                              *)
LEMMA NewRemoteFields ==
    ASSUME NEW entry, NEW dev
    PROVE  /\ ~NewRemote(entry, dev).is_local
           /\ NewRemote(entry, dev).timeout_cnt = 0
           /\ NewRemote(entry, dev).next_hop = entry.next_hop
BY DEF NewRemote, db_entry

(* A new route in the place of another one.                                *)
LEMMA ReplacedRenewed ==
    ASSUME NEW db, IsDatabase(db), Apart(db), NEW k \in RouteKey,
           NEW entry \in RipEntry, NEW dev \in Device, has_route(db, k)
    PROVE  LET db2 == replaced(db, k, entry, dev)
           IN  IsDatabase(db2) /\ Renewed(db, db2, k) /\ Heard(db2, k, entry)
<1> DEFINE db2 == replaced(db, k, entry, dev)
           route == NewRemote(entry, dev)
<1>1. IsDatabase(db2)
  BY RemoveRouteType, AddRemoteRouteType DEF replaced
<1>2. Put(db, db2, k, route) /\ db2.garbage_routes = db.garbage_routes
  BY PutReplaced DEF replaced
<1>3. ~route.is_local /\ route.timeout_cnt = 0 /\ route.next_hop = entry.next_hop
  BY NewRemoteFields
<1>4. k \notin DOMAIN db.garbage_routes
  BY DEF Apart, has_route
<1> HIDE DEF db2, route
<1>5. Renewed(db, db2, k)
  BY <1>2, <1>3, <1>4 DEF Renewed, Put
<1>6. Heard(db2, k, entry)
  BY <1>2, <1>3 DEF Heard, Put, has_route
<1>7. QED
  BY <1>1, <1>5, <1>6 DEF db2

(* A new route where there was none.                                       *)
LEMMA AddedRenewed ==
    ASSUME NEW db, IsDatabase(db), NEW k \in RouteKey,
           NEW entry \in RipEntry, NEW dev \in Device, ~has_route(db, k)
    PROVE  LET db2 == add_remote_route(remove_garbage_route(db, k), k, entry, dev)
           IN  IsDatabase(db2) /\ Renewed(db, db2, k) /\ Heard(db2, k, entry)
<1> DEFINE clean == remove_garbage_route(db, k)
           db2 == add_remote_route(clean, k, entry, dev)
           route == NewRemote(entry, dev)
<1>1. /\ IsDatabase(clean)
      /\ clean.ok_routes = db.ok_routes
      /\ DOMAIN clean.garbage_routes = DOMAIN db.garbage_routes \ {k}
      /\ \A x \in DOMAIN clean.garbage_routes :
             clean.garbage_routes[x] = db.garbage_routes[x]
  BY RemoveGarbageRouteProperties
<1> HIDE DEF clean
<1>2. ~has_route(clean, k)
  BY <1>1 DEF has_route
<1>3. Put(clean, db2, k, route) /\ db2.garbage_routes = clean.garbage_routes
  BY <1>1, <1>2, PutRemote
<1>4. IsDatabase(db2)
  BY <1>1, <1>2, AddRemoteRouteType
<1>5. ~route.is_local /\ route.timeout_cnt = 0 /\ route.next_hop = entry.next_hop
  BY NewRemoteFields
<1> HIDE DEF db2, route
<1>6. Renewed(db, db2, k)
  BY <1>1, <1>3, <1>5 DEF Renewed, Put
<1>7. Heard(db2, k, entry)
  BY <1>3, <1>5 DEF Heard, Put, has_route
<1>8. QED
  BY <1>4, <1>6, <1>7 DEF db2, clean

(* The next hop repeats itself.                                            *)
LEMMA RefreshedRenewed ==
    ASSUME NEW db, IsDatabase(db), Apart(db), NEW k \in RouteKey,
           has_route(db, k), ~db.ok_routes[k].is_local
    PROVE  LET db2 == refresh_route_timeout(db, k)
           IN  /\ IsDatabase(db2) /\ Apart(db2) /\ Renewed(db, db2, k)
               /\ db2.ok_routes[k].next_hop = db.ok_routes[k].next_hop
<1> DEFINE db2 == refresh_route_timeout(db, k)
           route == db.ok_routes[k]
<1>1. /\ IsDatabase(db2)
      /\ DOMAIN db2.ok_routes = DOMAIN db.ok_routes
      /\ db2.ok_routes[k] = [route EXCEPT !.timeout_cnt = 0]
      /\ \A x \in DOMAIN db.ok_routes \ {k} : db2.ok_routes[x] = db.ok_routes[x]
      /\ db2.garbage_routes = db.garbage_routes
  <2>1. /\ IsDatabase(db2)
        /\ DOMAIN db2.ok_routes = DOMAIN db.ok_routes
        /\ \A x \in DOMAIN db.ok_routes :
               db2.ok_routes[x] = IF x = k
                                  THEN [db.ok_routes[x] EXCEPT !.timeout_cnt = 0]
                                  ELSE db.ok_routes[x]
        /\ db2.garbage_routes = db.garbage_routes
    BY RefreshProperties
  <2> HIDE DEF db2
  <2>2. QED
    BY <2>1 DEF has_route
<1>2. route \in RipDbEntry
  BY DatabaseElim DEF has_route
<1>3. k \notin DOMAIN db.garbage_routes /\ k \in DOMAIN db.ok_routes
  BY DEF Apart, has_route
<1>4. ~route.is_local
  OBVIOUS
<1> HIDE DEF db2, route
<1>5. /\ [route EXCEPT !.timeout_cnt = 0].timeout_cnt = 0
      /\ [route EXCEPT !.timeout_cnt = 0].is_local = route.is_local
      /\ [route EXCEPT !.timeout_cnt = 0].next_hop = route.next_hop
  BY <1>2 DEF RipDbEntry
<1>6. Renewed(db, db2, k)
  BY <1>1, <1>3, <1>4, <1>5 DEF Renewed
<1>7. Apart(db2)
  BY <1>1 DEF Apart
<1>8. QED
  BY <1>1, <1>5, <1>6, <1>7 DEF db2, route

(* One renewal after another.                                              *)
LEMMA RenewedTwice ==
    ASSUME NEW db, NEW db1, NEW db2, NEW k,
           Renewed(db, db1, k), Renewed(db1, db2, k)
    PROVE  Renewed(db, db2, k)
BY DEF Renewed

(* What a response does: its sender becomes or stays the next hop and the  *)
(* route is renewed, or the sender is not the next hop afterwards and      *)
(* nothing is renewed.                                                     *)
LEMMA ResponseCases ==
    ASSUME NEW db, IsDatabase(db), Apart(db), NEW k \in RouteKey,
           NEW entry \in RipEntry, NEW dev \in Device,
           has_route(db, k) => ~db.ok_routes[k].is_local
    PROVE  LET db2 == update_route_from_response(db, k, entry, dev)
           IN  /\ IsDatabase(db2)
               /\ \/ Renewed(db, db2, k) /\ Heard(db2, k, entry)
                  \/ db2 = db /\ ~Heard(db2, k, entry)
                  \/ Moved(db, db2, k) /\ ~Heard(db2, k, entry)
<1> DEFINE db2 == update_route_from_response(db, k, entry, dev)
           from_next_hop == route_is_from_current_next_hop(db.ok_routes[k], entry)
<1>1. CASE entry.metric >= Infinity
  <2>1. CASE has_route(db, k) /\ from_next_hop
    <3>1. db2 = move_route_to_garbage(db, k)
      BY <1>1, <2>1 DEF update_route_from_response, poison_from_response
    <3>2. ~move_route_to_garbage_fails(db, k)
      BY <2>1 DEF move_route_to_garbage_fails, Apart, has_route, has_garbage_route
    <3>3. IsDatabase(db2) /\ Moved(db, db2, k)
      BY <3>1, <3>2, MovedToGarbage, MoveToGarbageType
    <3> HIDE DEF db2
    <3>4. ~Heard(db2, k, entry)
      BY <3>3 DEF Moved, Heard, has_route
    <3>5. QED
      BY <3>3, <3>4 DEF db2
  <2>2. CASE ~(has_route(db, k) /\ from_next_hop)
    <3>1. db2 = db
      BY <1>1, <2>2 DEF update_route_from_response, poison_from_response
    <3>2. QED
      BY <2>2, <3>1 DEF Heard, route_is_from_current_next_hop
  <2>3. QED
    BY <2>1, <2>2
<1>2. CASE ~(entry.metric >= Infinity)
  <2>1. CASE ~has_route(db, k)
    <3>1. db2 = add_remote_route(remove_garbage_route(db, k), k, entry, dev)
      BY <1>2, <2>1 DEF update_route_from_response, reachable_from_response
    <3>2. QED
      BY <2>1, <3>1, AddedRenewed
  <2>2. CASE has_route(db, k) /\ from_next_hop
    <3> DEFINE refreshed == refresh_route_timeout(db, k)
    <3>1. /\ IsDatabase(refreshed) /\ Apart(refreshed) /\ Renewed(db, refreshed, k)
          /\ refreshed.ok_routes[k].next_hop = db.ok_routes[k].next_hop
      BY <2>2, RefreshedRenewed
    <3>2. db2 = refreshed \/ db2 = replaced(refreshed, k, entry, dev)
      BY <1>2, <2>2 DEF update_route_from_response, reachable_from_response
    <3> HIDE DEF refreshed, db2
    <3>3. has_route(refreshed, k)
      BY <3>1 DEF Renewed, has_route
    <3>4. CASE db2 = refreshed
      <4>1. Heard(refreshed, k, entry)
        BY <2>2, <3>1, <3>3 DEF Heard, route_is_from_current_next_hop
      <4>2. QED
        BY <3>1, <3>4, <4>1 DEF db2
    <3>5. CASE db2 = replaced(refreshed, k, entry, dev)
      <4>1. /\ IsDatabase(db2) /\ Renewed(refreshed, db2, k)
            /\ Heard(db2, k, entry)
        BY <3>1, <3>3, <3>5, ReplacedRenewed
      <4>2. Renewed(db, db2, k)
        BY <3>1, <4>1, RenewedTwice
      <4>3. QED
        BY <4>1, <4>2 DEF db2
    <3>6. QED
      BY <3>2, <3>4, <3>5
  <2>3. CASE has_route(db, k) /\ ~from_next_hop
    <3>1. db2 = db \/ db2 = replaced(db, k, entry, dev)
      BY <1>2, <2>3 DEF update_route_from_response, reachable_from_response
    <3>2. ~Heard(db, k, entry)
      BY <2>3 DEF Heard, route_is_from_current_next_hop
    <3>3. QED
      BY <2>3, <3>1, <3>2, ReplacedRenewed
  <2>4. QED
    BY <2>1, <2>2, <2>3
<1>3. QED
  BY <1>1, <1>2

(* A route that has just been heard of is in time.                         *)
LEMMA InTimeRenewed ==
    ASSUME NEW route, ~route.is_local, route.timeout_cnt = 0,
           NEW timer \in 0 .. TimeoutInterval
    PROVE  InTime(route, 0, timer)
<1>1. 0 = 0 * TimeoutInterval /\ 0 \in Nat
  BY TimeAssumption
<1>2. \E n \in Nat : 0 = n * TimeoutInterval
  BY <1>1
<1>3. QED
  BY <1>2, TimeAssumption DEF InTime

(* The silence of k ends, and k is not dead.                               *)
LEMMA RenewedInTime ==
    ASSUME NEW db, NEW db2, NEW k \in RouteKey, IsDatabase(db2),
           Renewed(db, db2, k),
           NEW hush \in [RouteKey -> Nat], NEW timer \in 0 .. TimeoutInterval,
           NEW dead \in [RouteKey -> {None} \cup Nat], NEW collection,
           DatabaseInTime(db, hush, timer, dead, collection)
    PROVE  DatabaseInTime(db2, [hush EXCEPT ![k] = 0], timer,
                          [dead EXCEPT ![k] = None], collection)
<1> DEFINE hush2 == [hush EXCEPT ![k] = 0]
           dead2 == [dead EXCEPT ![k] = None]
<1>1. /\ hush2[k] = 0 /\ dead2[k] = None
      /\ \A x \in RouteKey \ {k} : hush2[x] = hush[x] /\ dead2[x] = dead[x]
  OBVIOUS
<1>2. DOMAIN db.ok_routes \subseteq RouteKey
  BY DatabaseElim DEF DatabaseInTime
<1> HIDE DEF hush2, dead2
<1>3. Apart(db2)
  BY DEF Apart, Renewed, DatabaseInTime
<1>4. InTime(db2.ok_routes[k], hush2[k], timer)
  BY <1>1, InTimeRenewed DEF Renewed
<1>5. ActiveInTime(db2, hush2, timer)
  BY <1>1, <1>2, <1>4 DEF ActiveInTime, Renewed, DatabaseInTime
<1>6. DeadInTime(db2, dead2, collection)
  BY <1>1 DEF DeadInTime, Renewed, DatabaseInTime
<1>7. QED
  BY <1>3, <1>5, <1>6 DEF DatabaseInTime, hush2, dead2

(* A neighbour withdraws the route of k, which is not dead by silence.     *)
LEMMA MovedInTime ==
    ASSUME NEW db, NEW db2, NEW k \in RouteKey, IsDatabase(db2),
           Moved(db, db2, k),
           NEW hush, NEW timer, NEW dead, NEW collection,
           DatabaseInTime(db, hush, timer, dead, collection)
    PROVE  DatabaseInTime(db2, hush, timer, dead, collection)
<1>1. Apart(db2)
  BY DEF Apart, Moved, DatabaseInTime
<1>2. ActiveInTime(db2, hush, timer)
  BY DEF ActiveInTime, Moved, DatabaseInTime
<1>3. DeadInTime(db2, dead, collection)
  BY DEF DeadInTime, Moved, DatabaseInTime
<1>4. QED
  BY <1>1, <1>2, <1>3 DEF DatabaseInTime

(* A response, and what it ends.                                           *)
LEMMA ResponseInTime ==
    ASSUME NEW k \in RouteKey, NEW entry \in RipEntry, NEW dev \in Device,
           RoutesInv, Response(k, entry, dev)
    PROVE  RoutesInv'
<1> DEFINE db2 == update_route_from_response(database, k, entry, dev)
<1>1. /\ maybe_send_triggered_update(db2, triggered_update_lock_timer)
      /\ silence' = IF Heard(db2, k, entry)
                    THEN [silence EXCEPT ![k] = 0] ELSE silence
      /\ dead_for' = IF Heard(db2, k, entry)
                     THEN [dead_for EXCEPT ![k] = None] ELSE dead_for
      /\ timeout_timer' = timeout_timer
      /\ garbage_collection_timer' = garbage_collection_timer
  BY DEF Response, Heard
<1>2. /\ DatabaseInTime(database, silence, timeout_timer, dead_for,
                        garbage_collection_timer)
      /\ IsDatabase(database) /\ Apart(database)
      /\ timeout_timer \in 0 .. TimeoutInterval
      /\ silence \in [RouteKey -> Nat]
      /\ dead_for \in [RouteKey -> {None} \cup Nat]
  BY DEF RoutesInv, DatabaseInTime
<1>3. has_route(database, k) => ~database.ok_routes[k].is_local
  BY DEF RoutesInv, ActiveInTime, InTime, has_route
<1>4. /\ IsDatabase(db2)
      /\ \/ Renewed(database, db2, k) /\ Heard(db2, k, entry)
         \/ db2 = database /\ ~Heard(db2, k, entry)
         \/ Moved(database, db2, k) /\ ~Heard(db2, k, entry)
  BY <1>2, <1>3, ResponseCases
<1> HIDE DEF db2
<1>5. DatabaseInTime(db2, silence', timeout_timer, dead_for',
                     garbage_collection_timer)
  <2>1. CASE Renewed(database, db2, k) /\ Heard(db2, k, entry)
    BY <1>1, <1>2, <1>4, <2>1, RenewedInTime
  <2>2. CASE db2 = database /\ ~Heard(db2, k, entry)
    BY <1>1, <1>2, <2>2
  <2>3. CASE Moved(database, db2, k) /\ ~Heard(db2, k, entry)
    BY <1>1, <1>2, <1>4, <2>3, MovedInTime
  <2>4. QED
    BY <1>4, <2>1, <2>2, <2>3
<1>6. DatabaseInTime(database', silence', timeout_timer, dead_for',
                     garbage_collection_timer)
  BY <1>1, <1>5, SendInTime
<1>7. /\ silence' \in [RouteKey -> Nat]
      /\ dead_for' \in [RouteKey -> {None} \cup Nat]
  BY <1>1, <1>2
<1>8. QED
  BY <1>1, <1>6, <1>7 DEF RoutesInv, DatabaseInTime

-----------------------------------------------------------------------------
(* The timeout check.                                                      *)

(* What handle_route_timeout_tick does: a route that reaches the limit     *)
(* becomes garbage, the others have counted one more interval.             *)
CheckedFor(db, db2, gone) ==
    /\ gone = {k \in DOMAIN db.ok_routes :
                   db.ok_routes[k].timeout_cnt + TimeoutInterval >= TimeoutLimit}
    /\ DOMAIN db2.ok_routes = DOMAIN db.ok_routes \ gone
    /\ \A k \in DOMAIN db2.ok_routes :
           /\ ~db2.ok_routes[k].is_local
           /\ db2.ok_routes[k].timeout_cnt =
                  db.ok_routes[k].timeout_cnt + TimeoutInterval
    /\ DOMAIN db2.garbage_routes = DOMAIN db.garbage_routes \cup gone
    /\ \A k \in gone : db2.garbage_routes[k].garbage_age = 0
    /\ \A k \in DOMAIN db.garbage_routes \ gone :
           db2.garbage_routes[k] = db.garbage_routes[k]

(* A route that was counted.                                               *)
LEMMA Counted ==
    ASSUME NEW db, IsDatabase(db),
           \A k \in DOMAIN db.ok_routes : ~db.ok_routes[k].is_local
    PROVE  LET db2 == count_silence(db)
           IN  /\ IsDatabase(db2)
               /\ DOMAIN db2.ok_routes = DOMAIN db.ok_routes
               /\ db2.garbage_routes = db.garbage_routes
               /\ db2.any_route_changed = db.any_route_changed
               /\ \A k \in DOMAIN db.ok_routes :
                      /\ ~db2.ok_routes[k].is_local
                      /\ db2.ok_routes[k].timeout_cnt =
                             db.ok_routes[k].timeout_cnt + TimeoutInterval
<1> DEFINE db2 == count_silence(db)
<1>1. /\ IsDatabase(db2)
      /\ DOMAIN db2.ok_routes = DOMAIN db.ok_routes
      /\ \A x \in DOMAIN db.ok_routes :
             db2.ok_routes[x] =
                 IF db.ok_routes[x].is_local
                 THEN db.ok_routes[x]
                 ELSE [db.ok_routes[x] EXCEPT
                          !.timeout_cnt = db.ok_routes[x].timeout_cnt
                                          + TimeoutInterval]
      /\ db2.garbage_routes = db.garbage_routes
      /\ db2.any_route_changed = db.any_route_changed
  BY CountSilenceProperties
<1> HIDE DEF db2
<1>2. \A route \in RipDbEntry :
          LET route2 == [route EXCEPT !.timeout_cnt = route.timeout_cnt
                                                      + TimeoutInterval]
          IN  /\ route2.is_local = route.is_local
              /\ route2.timeout_cnt = route.timeout_cnt + TimeoutInterval
  BY DEF RipDbEntry
<1>3. \A x \in DOMAIN db.ok_routes : db.ok_routes[x] \in RipDbEntry
  BY DatabaseElim
<1>4. \A k \in DOMAIN db.ok_routes :
          /\ ~db2.ok_routes[k].is_local
          /\ db2.ok_routes[k].timeout_cnt =
                 db.ok_routes[k].timeout_cnt + TimeoutInterval
  BY <1>1, <1>2, <1>3
<1>5. QED
  BY <1>1, <1>4 DEF db2

(* A poisoned route starts to age.                                         *)
LEMMA PoisonedAge ==
    ASSUME NEW route \in RipDbEntry
    PROVE  poisoned(route).garbage_age = 0 /\ poisoned(route) \in RipDbEntry
<1>1. 0 \in GarbageAge
  BY TimeAssumption DEF GarbageAge
<1>2. QED
  BY <1>1, InfinityAssumption DEF poisoned, RipDbEntry

(* The check, for a database without local routes.                         *)
LEMMA TimedOutChecked ==
    ASSUME NEW db, IsDatabase(db),
           \A k \in DOMAIN db.ok_routes : ~db.ok_routes[k].is_local
    PROVE  \E gone \in SUBSET RouteKey :
               /\ gone = {p.key : p \in collect_timed_out_routes(db)}
               /\ IsDatabase(timed_out(db))
               /\ CheckedFor(db, timed_out(db), gone)
<1> DEFINE counted == count_silence(db)
           gone == {k \in DOMAIN counted.ok_routes :
                        is_timed_out(counted.ok_routes[k])}
           ok == [k \in DOMAIN counted.ok_routes \ gone |-> counted.ok_routes[k]]
           garbage == [k \in DOMAIN counted.garbage_routes \cup gone |->
                          IF k \in gone THEN poisoned(counted.ok_routes[k])
                                        ELSE counted.garbage_routes[k]]
           flag == counted.any_route_changed \/ gone # {}
           db2 == [ok_routes |-> ok, garbage_routes |-> garbage,
                   any_route_changed |-> flag]
<1>1. timed_out(db) = db2
  BY DEF timed_out
<1>2. gone = {p.key : p \in collect_timed_out_routes(db)}
  <2>1. collect_timed_out_routes(db) =
            {[key |-> k, route |-> counted.ok_routes[k]] : k \in gone}
    BY DEF collect_timed_out_routes
  <2> DEFINE pairs == collect_timed_out_routes(db)
  <2> HIDE DEF gone, counted, pairs
  <2>2. \A p \in pairs : p.key \in gone
    BY <2>1 DEF pairs
  <2>3. \A k \in gone : \E p \in pairs : p.key = k
    <3>1. ASSUME NEW k \in gone PROVE \E p \in pairs : p.key = k
      <4> DEFINE p == [key |-> k, route |-> counted.ok_routes[k]]
      <4>1. p.key = k
        OBVIOUS
      <4>2. p \in pairs
        BY <2>1 DEF pairs
      <4>3. QED
        BY <4>1, <4>2
    <3>2. QED
      BY <3>1
  <2>4. gone = {p.key : p \in pairs}
    BY <2>2, <2>3
  <2>5. QED
    BY <2>4 DEF pairs
<1>3. /\ IsDatabase(counted)
      /\ DOMAIN counted.ok_routes = DOMAIN db.ok_routes
      /\ counted.garbage_routes = db.garbage_routes
      /\ \A k \in DOMAIN db.ok_routes :
             /\ ~counted.ok_routes[k].is_local
             /\ counted.ok_routes[k].timeout_cnt =
                    db.ok_routes[k].timeout_cnt + TimeoutInterval
  BY Counted
<1>4. /\ IsRouteMap(counted.ok_routes) /\ IsRouteMap(counted.garbage_routes)
      /\ DOMAIN counted.ok_routes \subseteq RouteKey
      /\ DOMAIN counted.garbage_routes \subseteq RouteKey
      /\ \A k \in DOMAIN counted.ok_routes : counted.ok_routes[k] \in RipDbEntry
      /\ \A k \in DOMAIN counted.garbage_routes :
             counted.garbage_routes[k] \in RipDbEntry
  BY <1>3, DatabaseElim
<1> HIDE DEF counted
<1>5. /\ gone \subseteq DOMAIN counted.ok_routes
      /\ gone = {k \in DOMAIN db.ok_routes :
                     db.ok_routes[k].timeout_cnt + TimeoutInterval >= TimeoutLimit}
  BY <1>3 DEF is_timed_out
<1> HIDE DEF gone
<1>6. /\ IsRouteMap(ok)
      /\ DOMAIN ok = DOMAIN counted.ok_routes \ gone
      /\ \A k \in DOMAIN ok : ok[k] = counted.ok_routes[k]
  <2>1. ok \in [DOMAIN counted.ok_routes \ gone -> RipDbEntry]
    BY <1>4
  <2>2. QED
    BY <1>4, <2>1, RouteMapIntro
<1>7. /\ IsRouteMap(garbage)
      /\ DOMAIN garbage = DOMAIN counted.garbage_routes \cup gone
      /\ \A k \in gone : garbage[k] = poisoned(counted.ok_routes[k])
      /\ \A k \in DOMAIN counted.garbage_routes \ gone :
             garbage[k] = counted.garbage_routes[k]
  <2>1. \A k \in gone : poisoned(counted.ok_routes[k]) \in RipDbEntry
    BY <1>4, <1>5, PoisonedAge
  <2>2. garbage \in [DOMAIN counted.garbage_routes \cup gone -> RipDbEntry]
    BY <1>4, <2>1
  <2>3. DOMAIN counted.garbage_routes \cup gone \subseteq RouteKey
    BY <1>4, <1>5
  <2>4. IsRouteMap(garbage)
    BY <2>2, <2>3, RouteMapIntro
  <2>5. QED
    BY <2>4
<1> HIDE DEF ok, garbage
<1>8. flag \in BOOLEAN
  OBVIOUS
<1> HIDE DEF flag
<1>9. IsDatabase(db2)
  BY <1>6, <1>7, <1>8, DatabaseIntro
<1>10. db2.ok_routes = ok /\ db2.garbage_routes = garbage
  OBVIOUS
<1> HIDE DEF db2
<1>11. CheckedFor(db, db2, gone)
  <2>1. \A k \in gone : garbage[k].garbage_age = 0
    BY <1>4, <1>5, <1>7, PoisonedAge
  <2>2. QED
    BY <1>3, <1>5, <1>6, <1>7, <1>10, <2>1 DEF CheckedFor
<1>12. gone \in SUBSET RouteKey
  BY <1>4, <1>5
<1>13. QED
  BY <1>1, <1>2, <1>9, <1>11, <1>12

(* An active route that was counted once more, and is below the limit.     *)
LEMMA InTimeCounted ==
    ASSUME NEW route, NEW route2, NEW hush \in Nat,
           InTime(route, hush, 0), route.timeout_cnt \in Nat,
           ~route2.is_local,
           route2.timeout_cnt = route.timeout_cnt + TimeoutInterval,
           ~(route.timeout_cnt + TimeoutInterval >= TimeoutLimit)
    PROVE  InTime(route2, hush, TimeoutInterval)
<1>1. TimeoutInterval \in Nat /\ TimeoutLimit \in Nat
  BY TimeAssumption
<1>2. PICK n \in Nat : route.timeout_cnt = n * TimeoutInterval
  BY DEF InTime
<1>3. n + 1 \in Nat /\ (n + 1) * TimeoutInterval = n * TimeoutInterval + TimeoutInterval
  BY <1>1
<1>4. \E m \in Nat : route2.timeout_cnt = m * TimeoutInterval
  BY <1>2, <1>3
<1>5. /\ route2.timeout_cnt < TimeoutLimit
      /\ route2.timeout_cnt <= hush + TimeoutInterval
      /\ hush + TimeoutInterval <= route2.timeout_cnt + TimeoutInterval
  BY <1>1 DEF InTime
<1>6. QED
  BY <1>4, <1>5 DEF InTime

(* An active route that this check finds at the limit was silent for all   *)
(* intervals but one.                                                      *)
LEMMA LateEnough ==
    ASSUME NEW route, NEW hush \in Nat, InTime(route, hush, 0),
           route.timeout_cnt + TimeoutInterval >= TimeoutLimit
    PROVE  hush >= (Checks - 1) * TimeoutInterval
<1>1. PICK n \in Nat : route.timeout_cnt = n * TimeoutInterval
  BY DEF InTime
<1>2. (Checks - 1) * TimeoutInterval <= n * TimeoutInterval
  BY <1>1, NearLimit
<1>3. n * TimeoutInterval <= hush + 0
  BY <1>1 DEF InTime
<1> DEFINE a == (Checks - 1) * TimeoutInterval
           b == n * TimeoutInterval
<1>4. a \in Int /\ b \in Int
  BY ChecksRoundsUp, TimeAssumption
<1> HIDE DEF a, b
<1>5. a <= hush
  BY <1>2, <1>3, <1>4 DEF a, b
<1>6. QED
  BY <1>4, <1>5 DEF a

(* The time of death of the routes that timed out.                         *)
LEMMA AgingStarts ==
    ASSUME NEW route, route.garbage_age = 0,
           NEW timer \in 0 .. CollectionInterval
    PROVE  Aging(route, 0, timer)
BY TimeAssumption, DurationAssumption, NoneAssumption DEF Aging

(* The check starts a collection unless one is under way.                  *)
LEMMA CheckInTime ==
    ASSUME RoutesInv, TimeoutTimer
    PROVE  /\ RoutesInv'
           /\ \A k \in RouteKey :
                  (dead_for[k] = None /\ dead_for'[k] = 0)
                      => silence[k] >= (Checks - 1) * TimeoutInterval
<1> DEFINE db2 == timed_out(database)
<1>1. /\ IsDatabase(database) /\ Apart(database)
      /\ ActiveInTime(database, silence, 0)
      /\ DeadInTime(database, dead_for, garbage_collection_timer)
      /\ garbage_collection_timer \in {None} \cup 0 .. CollectionInterval
      /\ silence \in [RouteKey -> Nat]
      /\ dead_for \in [RouteKey -> {None} \cup Nat]
  BY DEF RoutesInv, TimeoutTimer
<1>2. \A k \in DOMAIN database.ok_routes :
          /\ k \in RouteKey
          /\ InTime(database.ok_routes[k], silence[k], 0)
          /\ ~database.ok_routes[k].is_local
          /\ database.ok_routes[k].timeout_cnt \in Nat
  <2>1. \A k \in DOMAIN database.ok_routes :
            k \in RouteKey /\ database.ok_routes[k] \in RipDbEntry
    BY <1>1, DatabaseElim
  <2>2. QED
    BY <1>1, <2>1 DEF ActiveInTime, InTime, RipDbEntry
<1>3. PICK gone \in SUBSET RouteKey :
          /\ gone = TimedOut
          /\ IsDatabase(db2)
          /\ CheckedFor(database, db2, gone)
  BY <1>1, <1>2, TimedOutChecked DEF TimedOut
<1>4. /\ timeout_timer' = TimeoutInterval
      /\ garbage_collection_timer' =
             IF gone # {} /\ garbage_collection_timer = None
             THEN CollectionInterval
             ELSE garbage_collection_timer
      /\ dead_for' = [k \in RouteKey |-> IF k \in gone THEN 0 ELSE dead_for[k]]
      /\ maybe_send_triggered_update(db2, triggered_update_lock_timer)
      /\ silence' = silence
  BY <1>3 DEF TimeoutTimer
<1> HIDE DEF db2
<1>5. /\ garbage_collection_timer' \in {None} \cup 0 .. CollectionInterval
      /\ gone # {} => garbage_collection_timer' \in 0 .. CollectionInterval
      /\ garbage_collection_timer # None =>
             garbage_collection_timer' = garbage_collection_timer
  BY <1>1, <1>4, DurationAssumption, NoneAssumption
<1>6. /\ dead_for' \in [RouteKey -> {None} \cup Nat]
      /\ \A k \in gone : dead_for'[k] = 0
      /\ \A k \in RouteKey \ gone : dead_for'[k] = dead_for[k]
  BY <1>1, <1>4
<1>7. Apart(db2)
  BY <1>1, <1>3 DEF Apart, CheckedFor
<1>8. ActiveInTime(db2, silence, TimeoutInterval)
  <2>1. SUFFICES ASSUME NEW k \in DOMAIN db2.ok_routes
                 PROVE  InTime(db2.ok_routes[k], silence[k], TimeoutInterval)
    BY DEF ActiveInTime
  <2>2. /\ k \in DOMAIN database.ok_routes
        /\ ~(database.ok_routes[k].timeout_cnt + TimeoutInterval >= TimeoutLimit)
        /\ ~db2.ok_routes[k].is_local
        /\ db2.ok_routes[k].timeout_cnt =
               database.ok_routes[k].timeout_cnt + TimeoutInterval
    BY <1>3 DEF CheckedFor
  <2>3. QED
    BY <1>1, <1>2, <2>2, InTimeCounted
<1>9. DeadInTime(db2, dead_for', garbage_collection_timer')
  <2>1. SUFFICES ASSUME NEW k \in RouteKey, dead_for'[k] # None
                 PROVE  /\ k \in DOMAIN db2.garbage_routes
                        /\ Aging(db2.garbage_routes[k], dead_for'[k],
                                 garbage_collection_timer')
    BY DEF DeadInTime
  <2>2. CASE k \in gone
    BY <1>3, <1>5, <1>6, <2>2, AgingStarts DEF CheckedFor
  <2>3. CASE k \notin gone
    <3>1. /\ dead_for'[k] = dead_for[k]
          /\ k \in DOMAIN database.garbage_routes
          /\ Aging(database.garbage_routes[k], dead_for[k],
                   garbage_collection_timer)
      BY <1>1, <1>6, <2>1, <2>3 DEF DeadInTime
    <3>2. garbage_collection_timer' = garbage_collection_timer
      BY <1>5, <3>1 DEF Aging
    <3>3. QED
      BY <1>3, <2>3, <3>1, <3>2 DEF CheckedFor
  <2>4. QED
    BY <2>2, <2>3
<1>10. DatabaseInTime(db2, silence, TimeoutInterval, dead_for',
                      garbage_collection_timer')
  BY <1>3, <1>7, <1>8, <1>9 DEF DatabaseInTime
<1>11. DatabaseInTime(database', silence, TimeoutInterval, dead_for',
                      garbage_collection_timer')
  BY <1>4, <1>10, SendInTime
<1>12. RoutesInv'
  BY <1>1, <1>4, <1>5, <1>6, <1>11, TimeAssumption DEF RoutesInv, DatabaseInTime
<1>13. ASSUME NEW k \in RouteKey, dead_for[k] = None, dead_for'[k] = 0
       PROVE  silence[k] >= (Checks - 1) * TimeoutInterval
  <2>1. k \in gone
    BY <1>6, <1>13, NoneAssumption
  <2>2. /\ k \in DOMAIN database.ok_routes
        /\ database.ok_routes[k].timeout_cnt + TimeoutInterval >= TimeoutLimit
    BY <1>3, <2>1 DEF CheckedFor
  <2>3. QED
    BY <1>1, <1>2, <2>2, LateEnough
<1>14. QED
  BY <1>12, <1>13

-----------------------------------------------------------------------------
(* The collection of garbage.                                              *)

(* Garbage that is kept has not reached its lifetime.                      *)
LEMMA KeptGarbage ==
    ASSUME NEW db, IsDatabase(db)
    PROVE  LET db2 == remove_expired_garbage_routes(db)
           IN  /\ IsDatabase(db2)
               /\ db2.ok_routes = db.ok_routes
               /\ DOMAIN db2.garbage_routes \subseteq DOMAIN db.garbage_routes
               /\ \A k \in DOMAIN db2.garbage_routes :
                      /\ db2.garbage_routes[k] = db.garbage_routes[k]
                      /\ ~is_expired(db.garbage_routes[k])
<1> DEFINE db2 == remove_expired_garbage_routes(db)
<1>1. /\ IsDatabase(db2)
      /\ db2.ok_routes = db.ok_routes
      /\ DOMAIN db2.garbage_routes \subseteq DOMAIN db.garbage_routes
      /\ \A k \in DOMAIN db2.garbage_routes :
             db2.garbage_routes[k] = db.garbage_routes[k]
  BY RemoveExpiredProperties
<1>2. \A k \in DOMAIN db2.garbage_routes : ~is_expired(db.garbage_routes[k])
  <2> DEFINE D == {y \in DOMAIN db.garbage_routes :
                      ~is_expired(db.garbage_routes[y])}
             garbage == [x \in D |-> db.garbage_routes[x]]
  <2>1. db2.garbage_routes = garbage
    BY DEF remove_expired_garbage_routes, IsDatabase
  <2>2. \A k \in DOMAIN garbage : ~is_expired(db.garbage_routes[k])
    OBVIOUS
  <2> HIDE DEF garbage
  <2>3. QED
    BY <2>1, <2>2
<1> HIDE DEF db2
<1>3. QED
  BY <1>1, <1>2 DEF db2

(* What is left is younger than its lifetime when the next round starts.   *)
LEMMA AgingLeft ==
    ASSUME NEW route, NEW dead \in Nat, NEW timer, Aging(route, dead, timer),
           ~is_expired(route)
    PROVE  Aging(route, dead, CollectionInterval)
<1>1. /\ GarbageLifetime \in Nat /\ CollectionInterval \in Nat
      /\ None \notin Nat
  BY TimeAssumption, DurationAssumption, NoneAssumption
<1>2. dead < GarbageLifetime
  BY <1>1 DEF Aging, is_expired
<1>3. QED
  BY <1>1, <1>2 DEF Aging

(* handle_garbage_collection_tick.                                         *)
LEMMA CollectionInTime ==
    ASSUME RoutesInv, GarbageCollectionTimer
    PROVE  /\ RoutesInv'
           /\ \A k \in RouteKey : dead_for'[k] \in {None, dead_for[k]}
<1> DEFINE db2 == remove_expired_garbage_routes(database)
<1>1. /\ IsDatabase(database) /\ Apart(database)
      /\ ActiveInTime(database, silence, timeout_timer)
      /\ DeadInTime(database, dead_for, garbage_collection_timer)
      /\ dead_for \in [RouteKey -> {None} \cup Nat]
  BY DEF RoutesInv
<1>2. /\ garbage_collection_timer' =
             IF has_garbage_routes(db2) THEN CollectionInterval ELSE None
      /\ dead_for' = [k \in RouteKey |->
                         IF has_garbage_route(db2, k) THEN dead_for[k] ELSE None]
      /\ maybe_send_triggered_update(db2, triggered_update_lock_timer)
      /\ timeout_timer' = timeout_timer /\ silence' = silence
  BY DEF GarbageCollectionTimer
<1>3. /\ IsDatabase(db2)
      /\ db2.ok_routes = database.ok_routes
      /\ DOMAIN db2.garbage_routes \subseteq DOMAIN database.garbage_routes
      /\ \A k \in DOMAIN db2.garbage_routes :
             /\ db2.garbage_routes[k] = database.garbage_routes[k]
             /\ ~is_expired(database.garbage_routes[k])
  BY <1>1, KeptGarbage
<1> HIDE DEF db2
<1>4. Apart(db2) /\ ActiveInTime(db2, silence, timeout_timer)
  BY <1>1, <1>3 DEF Apart, ActiveInTime
<1>5. /\ dead_for' \in [RouteKey -> {None} \cup Nat]
      /\ \A k \in RouteKey : dead_for'[k] \in {None, dead_for[k]}
  BY <1>1, <1>2
<1>6. garbage_collection_timer' \in {None} \cup 0 .. CollectionInterval
  BY <1>2, DurationAssumption
<1>7. DeadInTime(db2, dead_for', garbage_collection_timer')
  <2>1. SUFFICES ASSUME NEW k \in RouteKey, dead_for'[k] # None
                 PROVE  /\ k \in DOMAIN db2.garbage_routes
                        /\ Aging(db2.garbage_routes[k], dead_for'[k],
                                 garbage_collection_timer')
    BY DEF DeadInTime
  <2>2. k \in DOMAIN db2.garbage_routes /\ dead_for'[k] = dead_for[k]
    BY <1>2, <2>1 DEF has_garbage_route
  <2>3. garbage_collection_timer' = CollectionInterval
    BY <1>2, <2>2 DEF has_garbage_routes
  <2>4. /\ dead_for[k] \in Nat
        /\ Aging(database.garbage_routes[k], dead_for[k],
                 garbage_collection_timer)
    BY <1>1, <2>1, <2>2 DEF DeadInTime
  <2>5. Aging(database.garbage_routes[k], dead_for[k], CollectionInterval)
    BY <1>3, <2>2, <2>4, AgingLeft
  <2>6. QED
    BY <1>3, <2>2, <2>3, <2>5
<1>8. DatabaseInTime(db2, silence, timeout_timer, dead_for',
                     garbage_collection_timer')
  BY <1>3, <1>4, <1>7 DEF DatabaseInTime
<1>9. DatabaseInTime(database', silence, timeout_timer, dead_for',
                     garbage_collection_timer')
  BY <1>2, <1>8, SendInTime
<1>10. RoutesInv'
  BY <1>2, <1>5, <1>6, <1>9 DEF RoutesInv, DatabaseInTime
<1>11. QED
  BY <1>5, <1>10

-----------------------------------------------------------------------------
(* Time.                                                                   *)

(* The age of garbage follows the time since its death.                    *)
LEMMA AgingOlder ==
    ASSUME NEW route \in RipDbEntry, NEW dead \in Nat, NEW timer \in Nat \ {0},
           Aging(route, dead, timer)
    PROVE  Aging(older(route), dead + 1, timer - 1)
<1>1. /\ GarbageLifetime \in Nat /\ CollectionInterval \in Nat
      /\ None \notin Nat
  BY TimeAssumption, DurationAssumption, NoneAssumption
<1>2. older(route).garbage_age =
          IF route.garbage_age = GarbageLifetime
          THEN GarbageLifetime ELSE route.garbage_age + 1
  BY <1>1 DEF older, Aging, RipDbEntry
<1>3. older(route).garbage_age =
          IF dead + 1 < GarbageLifetime THEN dead + 1 ELSE GarbageLifetime
  BY <1>1, <1>2 DEF Aging
<1>4. timer - 1 # None /\ (dead + 1) + (timer - 1) <= GarbageLifetime + CollectionInterval
  BY <1>1 DEF Aging
<1>5. QED
  BY <1>3, <1>4 DEF Aging

(* A timer that is not due, and the silence it measures.                   *)
LEMMA InTimeLater ==
    ASSUME NEW route, route.timeout_cnt \in Nat, NEW hush \in Nat,
           NEW timer \in Nat, InTime(route, hush, timer)
    PROVE  InTime(route, hush + 1, timer - 1)
<1>1. (hush + 1) + (timer - 1) = hush + timer
  OBVIOUS
<1>2. QED
  BY <1>1 DEF InTime

(* All timers run on, and nothing is due before.                           *)
LEMMA TickInTime ==
    ASSUME RoutesInv, Tick
    PROVE  /\ RoutesInv'
           /\ \A k \in RouteKey : dead_for[k] = None => dead_for'[k] = None
<1> DEFINE db2 == grow_older(database)
           t == timeout_timer
           c == garbage_collection_timer
<1>1. /\ IsDatabase(database) /\ Apart(database)
      /\ t \in 0 .. TimeoutInterval
      /\ c \in {None} \cup 0 .. CollectionInterval
      /\ ActiveInTime(database, silence, t)
      /\ DeadInTime(database, dead_for, c)
      /\ silence \in [RouteKey -> Nat]
      /\ dead_for \in [RouteKey -> {None} \cup Nat]
  BY DEF RoutesInv
<1>2. /\ TimeoutInterval \in Nat /\ CollectionInterval \in Nat /\ None \notin Nat
  BY TimeAssumption, DurationAssumption, NoneAssumption
<1>3. /\ t # 0 /\ timeout_timer' = t - 1
      /\ c # None => c # 0 /\ garbage_collection_timer' = c - 1
      /\ c = None => garbage_collection_timer' = None
  BY <1>1, <1>2 DEF Tick, Due, Armed, left
<1>4. /\ database' = db2
      /\ silence' = [k \in RouteKey |->
                        IF has_route(database, k) THEN silence[k] + 1 ELSE 0]
      /\ dead_for' = [k \in RouteKey |->
                         IF dead_for[k] # None THEN dead_for[k] + 1 ELSE dead_for[k]]
  BY DEF Tick, passed, Armed
<1>5. /\ IsDatabase(db2)
      /\ db2.ok_routes = database.ok_routes
      /\ DOMAIN db2.garbage_routes = DOMAIN database.garbage_routes
      /\ \A k \in DOMAIN database.garbage_routes :
             db2.garbage_routes[k] = older(database.garbage_routes[k])
  BY <1>1, GrowOlderProperties
<1>6. /\ \A k \in DOMAIN database.ok_routes :
             k \in RouteKey /\ database.ok_routes[k] \in RipDbEntry
      /\ \A k \in DOMAIN database.garbage_routes :
             database.garbage_routes[k] \in RipDbEntry
  BY <1>1, DatabaseElim
<1> HIDE DEF db2, t, c
<1>7. /\ timeout_timer' \in 0 .. TimeoutInterval
      /\ garbage_collection_timer' \in {None} \cup 0 .. CollectionInterval
  BY <1>1, <1>2, <1>3
<1>8. /\ silence' \in [RouteKey -> Nat]
      /\ dead_for' \in [RouteKey -> {None} \cup Nat]
  BY <1>1, <1>4
<1>9. ActiveInTime(db2, silence', timeout_timer')
  <2>1. SUFFICES ASSUME NEW k \in DOMAIN database.ok_routes
                 PROVE  InTime(database.ok_routes[k], silence'[k], t - 1)
    BY <1>3, <1>5 DEF ActiveInTime
  <2>2. /\ database.ok_routes[k].timeout_cnt \in Nat
        /\ silence[k] \in Nat /\ t \in Nat
        /\ InTime(database.ok_routes[k], silence[k], t)
    BY <1>1, <1>6 DEF RipDbEntry, ActiveInTime
  <2>3. silence'[k] = silence[k] + 1
    BY <1>4, <1>6 DEF has_route
  <2>4. QED
    BY <2>2, <2>3, InTimeLater
<1>10. DeadInTime(db2, dead_for', garbage_collection_timer')
  <2>1. SUFFICES ASSUME NEW k \in RouteKey, dead_for'[k] # None
                 PROVE  /\ k \in DOMAIN db2.garbage_routes
                        /\ Aging(db2.garbage_routes[k], dead_for'[k],
                                 garbage_collection_timer')
    BY DEF DeadInTime
  <2>2. dead_for[k] # None /\ dead_for'[k] = dead_for[k] + 1
    BY <1>4, <2>1
  <2>3. /\ k \in DOMAIN database.garbage_routes
        /\ Aging(database.garbage_routes[k], dead_for[k], c)
        /\ dead_for[k] \in Nat
    BY <1>1, <2>2 DEF DeadInTime
  <2>4. c \in Nat \ {0} /\ garbage_collection_timer' = c - 1
    BY <1>1, <1>2, <1>3, <2>3 DEF Aging
  <2>5. Aging(older(database.garbage_routes[k]), dead_for[k] + 1, c - 1)
    BY <1>6, <2>3, <2>4, AgingOlder
  <2>6. QED
    BY <1>5, <2>2, <2>3, <2>4, <2>5
<1>11. Apart(db2)
  BY <1>1, <1>5 DEF Apart
<1>12. RoutesInv'
  BY <1>4, <1>5, <1>7, <1>8, <1>9, <1>10, <1>11 DEF RoutesInv
<1>13. \A k \in RouteKey : dead_for[k] = None => dead_for'[k] = None
  BY <1>4
<1>14. QED
  BY <1>12, <1>13

-----------------------------------------------------------------------------
(* Every step.                                                             *)

(* The silence after which a route may be found dead.                      *)
LateTimeout ==
    \A k \in RouteKey :
        (dead_for[k] = None /\ dead_for'[k] = 0)
            => silence[k] >= (Checks - 1) * TimeoutInterval

(* Timers that only tell the neighbours.                                   *)
LEMMA TellingInTime ==
    ASSUME RoutesInv, NEW db, NEW lock, db = database
                         \/ db = mark_all_routes_as_unchanged(database),
           maybe_send_triggered_update(db, lock),
           UNCHANGED <<timeout_timer, garbage_collection_timer, silence, dead_for>>
    PROVE  RoutesInv'
<1>1. /\ DatabaseInTime(database, silence, timeout_timer, dead_for,
                        garbage_collection_timer)
      /\ IsDatabase(database)
  BY DEF RoutesInv, DatabaseInTime
<1>2. DatabaseInTime(db, silence, timeout_timer, dead_for,
                     garbage_collection_timer)
  BY <1>1, MarkSameClocks, InTimeSameClocks
<1>3. DatabaseInTime(database', silence, timeout_timer, dead_for,
                     garbage_collection_timer)
  BY <1>2, SendInTime
<1>4. QED
  BY <1>3 DEF RoutesInv, DatabaseInTime

(* One step per action.                                                    *)
LEMMA RoutesNext ==
    ASSUME RoutesInv, [Next]_vars
    PROVE  RoutesInv' /\ LateTimeout
<1>1. \A k \in RouteKey : dead_for[k] \in {None} \cup Nat
  BY DEF RoutesInv
<1>2. (\A k \in RouteKey : dead_for'[k] \in {None, dead_for[k]}) => LateTimeout
  BY <1>1, NoneAssumption DEF LateTimeout
<1>3. CASE RequestWarmupTimer \/ UpdateTimer \/ TriggeredUpdateLockTimer
  <2>1. RoutesInv'
    BY <1>3, TellingInTime
       DEF RequestWarmupTimer, UpdateTimer, TriggeredUpdateLockTimer
  <2>2. dead_for' = dead_for
    BY <1>3 DEF RequestWarmupTimer, UpdateTimer, TriggeredUpdateLockTimer
  <2>3. QED
    BY <1>2, <2>1, <2>2
<1>4. CASE TimeoutTimer
  BY <1>4, CheckInTime DEF LateTimeout
<1>5. CASE GarbageCollectionTimer
  BY <1>2, <1>5, CollectionInTime
<1>6. CASE Tick
  <2>1. LateTimeout
    BY <1>6, TickInTime, NoneAssumption DEF LateTimeout
  <2>2. QED
    BY <1>6, <2>1, TickInTime
<1>7. ASSUME NEW k \in RouteKey, NEW metric \in Metric,
             NEW hop \in Address, NEW dev \in Device,
             Response(k, [next_hop |-> hop, metric |-> metric,
                          attr |-> LocalAttr], dev)
      PROVE  RoutesInv' /\ LateTimeout
  <2> DEFINE entry == [next_hop |-> hop, metric |-> metric, attr |-> LocalAttr]
  <2>1. metric \in Nat
    BY DurationAssumption, InfinityAssumption
  <2>2. entry \in RipEntry
    BY <2>1, AddressAssumption DEF RipEntry
  <2>3. Response(k, entry, dev)
    BY <1>7
  <2> HIDE DEF entry
  <2>4. RoutesInv'
    BY <2>2, <2>3, ResponseInTime
  <2>5. dead_for' = dead_for \/ dead_for' = [dead_for EXCEPT ![k] = None]
    BY <2>3 DEF Response
  <2>6. \A x \in RouteKey : dead_for'[x] \in {None, dead_for[x]}
    BY <2>5 DEF RoutesInv
  <2>7. QED
    BY <1>2, <2>4, <2>6
<1>8. CASE UNCHANGED vars
  <2>1. RoutesInv' /\ dead_for' = dead_for
    BY <1>8 DEF vars, timers, watch, RoutesInv, Apart, ActiveInTime, DeadInTime
  <2>2. QED
    BY <1>2, <2>1
<1>9. QED
  BY <1>3, <1>4, <1>5, <1>6, <1>7, <1>8 DEF Next

(* The counts and ages of all routes follow the time.                      *)
THEOREM RoutesInvariant == Spec => []RoutesInv
<1>1. Init => RoutesInv
  <2>1. SUFFICES ASSUME Init PROVE RoutesInv
    OBVIOUS
  <2>2. /\ database = new /\ timeout_timer = TimeoutInterval
        /\ garbage_collection_timer = None
        /\ silence = [k \in RouteKey |-> 0]
        /\ dead_for = [k \in RouteKey |-> None]
    BY <2>1 DEF Init
  <2>3. /\ IsDatabase(database)
        /\ DOMAIN database.ok_routes = {} /\ DOMAIN database.garbage_routes = {}
    BY <2>2, NewProperties
  <2>4. Apart(database) /\ ActiveInTime(database, silence, timeout_timer)
    BY <2>3 DEF Apart, ActiveInTime
  <2>5. DeadInTime(database, dead_for, garbage_collection_timer)
    BY <2>2 DEF DeadInTime
  <2>6. QED
    BY <2>2, <2>3, <2>4, <2>5, TimeAssumption DEF RoutesInv
<1>2. RoutesInv /\ [Next]_vars => RoutesInv'
  BY RoutesNext
<1>3. QED
  BY <1>1, <1>2, PTL DEF Spec

(* A silent route is gone after Checks intervals, whatever the limit and   *)
(* the interval are, and however its responses fall between the checks.    *)
THEOREM SilentRouteTimesOutHolds == Spec => []SilentRouteTimesOut
<1>1. RoutesInv => SilentRouteTimesOut
  <2>1. SUFFICES ASSUME RoutesInv, NEW k \in DOMAIN database.ok_routes
                 PROVE  silence[k] <= Checks * TimeoutInterval
    BY DEF SilentRouteTimesOut
  <2>2. /\ k \in RouteKey /\ silence[k] \in Nat
        /\ timeout_timer \in 0 .. TimeoutInterval
        /\ InTime(database.ok_routes[k], silence[k], timeout_timer)
    BY <2>1, DatabaseElim DEF RoutesInv, ActiveInTime
  <2>3. PICK n \in Nat : database.ok_routes[k].timeout_cnt = n * TimeoutInterval
    BY <2>2 DEF InTime
  <2> DEFINE a == n * TimeoutInterval
             b == Checks * TimeoutInterval
  <2>4. a + TimeoutInterval <= b
    BY <2>2, <2>3, BelowLimit DEF InTime
  <2>5. a \in Nat /\ b \in Nat /\ TimeoutInterval \in Nat
    BY ChecksRoundsUp, TimeAssumption
  <2>6. silence[k] + timeout_timer <= a + TimeoutInterval
    BY <2>2, <2>3 DEF InTime
  <2> HIDE DEF a, b
  <2>7. silence[k] <= b
    BY <2>2, <2>4, <2>5, <2>6
  <2>8. QED
    BY <2>7 DEF b
<1>2. QED
  BY <1>1, RoutesInvariant, PTL

(* No route is given up before all its intervals but one have passed.      *)
THEOREM NoEarlyTimeoutHolds == Spec => NoEarlyTimeout
<1>1. RoutesInv /\ [Next]_vars => [LateTimeout]_vars
  BY RoutesNext
<1>2. Spec => [][LateTimeout]_vars
  BY <1>1, RoutesInvariant, PTL DEF Spec
<1>3. QED
  BY <1>2 DEF NoEarlyTimeout, LateTimeout

(* A route that timed out is collected one interval after its lifetime at  *)
(* the latest.                                                             *)
THEOREM CollectedInTimeHolds == Spec => []CollectedInTime
<1>1. RoutesInv => CollectedInTime
  <2>1. SUFFICES ASSUME RoutesInv, NEW k \in RouteKey, dead_for[k] # None
                 PROVE  dead_for[k] <= GarbageLifetime + CollectionInterval
    BY DEF CollectedInTime
  <2>2. /\ dead_for[k] \in Nat
        /\ garbage_collection_timer \in {None} \cup 0 .. CollectionInterval
        /\ garbage_collection_timer # None
        /\ dead_for[k] + garbage_collection_timer
               <= GarbageLifetime + CollectionInterval
    BY <2>1 DEF RoutesInv, DeadInTime, Aging
  <2>3. QED
    BY <2>2, TimeAssumption, DurationAssumption
<1>2. QED
  BY <1>1, RoutesInvariant, PTL

=============================================================================
