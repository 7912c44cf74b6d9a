-------------------------- MODULE HttpAdminProofs --------------------------
(***************************************************************************)
(* The administration server beside the daemon, for any number of clients  *)
(* and any capacity of the channel: the daemon is the one of RipDaemon, so *)
(* that its theorems hold behind the server too; a client that is told of  *)
(* a failure has changed nothing; and what a client was promised is what   *)
(* the next one sees.                                                      *)
(***************************************************************************)
EXTENDS HttpAdmin, RipLifecycleProofs

-----------------------------------------------------------------------------
(* The inductive invariants.                                               *)

(* A client waits in the channel at most once.                             *)
Once(q) ==
    /\ q \in Seq(Client)
    /\ \A m, n \in DOMAIN q : q[m] = q[n] => m = n

Queued(q, c) == \E n \in DOMAIN q : q[n] = c

(* The reply in the one-shot channel of a client is of this kind.          *)
Replied(r, kind) == r # None /\ r.kind = kind

(* Who waits in the channel was neither handled nor answered; whose        *)
(* request changed the database is told "ok" or, gone, nothing.            *)
ClientInv(at, req, queued, changed, r, told) ==
    /\ at \in {"idle", "sending", "waiting", "done", "gone"}
    /\ at \in {"sending", "waiting"} \/ queued => req \in HttpRequestKind
    /\ at \in {"idle", "sending"} => ~queued /\ ~changed /\ r = None
    /\ queued => at \in {"waiting", "gone"} /\ ~changed /\ r = None
    /\ at # "done" => told = None
    /\ changed => told \in {None, "ok"} /\ (r # None => r.kind = "Ok")

TraceInv ==
    /\ Once(queue)
    /\ DOMAIN stage = Client /\ DOMAIN reply = Client /\ DOMAIN answer = Client
    /\ DOMAIN request = Client /\ DOMAIN promised = Client
    /\ \A c \in Client :
           ClientInv(stage[c], request[c], Queued(queue, c), c \in applied,
                     reply[c], answer[c])

(* The database has n as a local route, until the daemon leaves or a       *)
(* response from 0.0.0.0 takes it.                                         *)
HeldFor(n) ==
    ActiveLocal(n.key) /\ database.ok_routes[n.key].dev = n.dev

Kept(n) ==
    /\ n \in Network
    /\ pc # "setup"
    /\ Running => HeldFor(n) \/ n.key \in taken

(* The routes of a reply show the networks, all but those taken since.     *)
AsShown(n) == [destination |-> n.key, interface_name |-> n.dev,
               route_type |-> "local", state |-> "active"]

Shows(routes, nets) ==
    \A n \in nets : AsShown(n) \in routes \/ n.key \in taken

PromiseTo(c) ==
    /\ reply[c] # None => reply[c].kind \in {"Routes", "Ok", "Error", "dropped"}
    /\ Replied(reply[c], "Ok") \/ answer[c] = "ok" => Kept(request[c].network)
    /\ \A n \in promised[c] : Kept(n)
    /\ Replied(reply[c], "Routes") => Shows(reply[c].routes, promised[c])
    /\ answer[c] = "routes" => Replied(reply[c], "Routes")

PromiseInv == \A c \in Client : PromiseTo(c)

-----------------------------------------------------------------------------
(* The channel.                                                            *)

(* A client that waits joins the end.                                      *)
LEMMA QueueSent ==
    ASSUME NEW q, Once(q), NEW c \in Client, ~Queued(q, c)
    PROVE  /\ Once(Append(q, c))
           /\ \A x : Queued(Append(q, c), x) <=> Queued(q, x) \/ x = c
<1> DEFINE q2 == Append(q, c)
           len == Len(q)
<1>1. q \in Seq(Client) /\ DOMAIN q = 1 .. len /\ len \in Nat
  BY DEF Once
<1>2. /\ q2 \in Seq(Client) /\ DOMAIN q2 = 1 .. len + 1
      /\ q2[len + 1] = c /\ \A n \in 1 .. len : q2[n] = q[n]
  BY <1>1
<1> HIDE DEF q2, len
<1>3. Once(q2)
  <2> SUFFICES ASSUME NEW m \in DOMAIN q2, NEW n \in DOMAIN q2, q2[m] = q2[n]
               PROVE  m = n
    BY <1>2 DEF Once
  <2>1. CASE m \in 1 .. len /\ n \in 1 .. len
    BY <1>1, <1>2, <2>1 DEF Once
  <2>2. CASE m = len + 1 /\ n \in 1 .. len
    BY <1>1, <1>2, <2>2 DEF Queued
  <2>3. CASE n = len + 1 /\ m \in 1 .. len
    BY <1>1, <1>2, <2>3 DEF Queued
  <2>4. QED
    BY <1>1, <1>2, <2>1, <2>2, <2>3
<1>4. ASSUME NEW x PROVE Queued(q2, x) <=> Queued(q, x) \/ x = c
  <2>1. ASSUME Queued(q2, x) PROVE Queued(q, x) \/ x = c
    BY <1>1, <1>2, <2>1 DEF Queued
  <2>2. ASSUME Queued(q, x) PROVE Queued(q2, x)
    BY <1>1, <1>2, <2>2 DEF Queued
  <2>3. Queued(q2, c)
    BY <1>1, <1>2 DEF Queued
  <2>4. QED
    BY <2>1, <2>2, <2>3
<1>5. QED
  BY <1>3, <1>4 DEF q2

(* The first one leaves it.                                                *)
LEMMA QueueTaken ==
    ASSUME NEW q, Once(q), q # <<>>
    PROVE  /\ Head(q) \in Client /\ Queued(q, Head(q))
           /\ Once(Tail(q))
           /\ \A x : Queued(Tail(q), x) <=> Queued(q, x) /\ x # Head(q)
<1> DEFINE q2 == Tail(q)
           len == Len(q)
<1>1. /\ q \in Seq(Client) /\ DOMAIN q = 1 .. len /\ len \in Nat \ {0}
      /\ Head(q) = q[1]
  BY DEF Once
<1>2. /\ q2 \in Seq(Client) /\ DOMAIN q2 = 1 .. len - 1
      /\ \A n \in 1 .. len - 1 : q2[n] = q[n + 1]
  BY <1>1
<1> HIDE DEF q2, len
<1>3. \A m, n \in 1 .. len : q[m] = q[n] => m = n
  BY <1>1 DEF Once
<1>4. Head(q) \in Client /\ Queued(q, Head(q))
  BY <1>1 DEF Queued
<1>5. Once(q2)
  BY <1>1, <1>2, <1>3 DEF Once
<1>6. ASSUME NEW x PROVE Queued(q2, x) <=> Queued(q, x) /\ x # Head(q)
  <2>1. ASSUME Queued(q2, x) PROVE Queued(q, x) /\ x # Head(q)
    <3>1. PICK n \in 1 .. len - 1 : q[n + 1] = x
      BY <1>2, <2>1 DEF Queued
    <3>2. n + 1 \in 1 .. len /\ n + 1 # 1
      BY <1>1
    <3>3. QED
      BY <1>1, <1>3, <3>1, <3>2 DEF Queued
  <2>2. ASSUME Queued(q, x), x # Head(q) PROVE Queued(q2, x)
    <3>1. PICK n \in 1 .. len : q[n] = x
      BY <1>1, <2>2 DEF Queued
    <3>2. n # 1
      BY <1>1, <2>2, <3>1
    <3>3. n - 1 \in 1 .. len - 1 /\ (n - 1) + 1 = n
      BY <1>1, <3>2
    <3>4. q2[n - 1] = x
      BY <1>2, <3>1, <3>3
    <3>5. QED
      BY <1>2, <3>3, <3>4 DEF Queued
  <2>3. QED
    BY <2>1, <2>2
<1>7. QED
  BY <1>4, <1>5, <1>6 DEF q2

(* It is dropped.                                                          *)
LEMMA QueueDropped == Once(<<>>) /\ \A x : ~Queued(<<>>, x)
BY DEF Once, Queued

-----------------------------------------------------------------------------
(* TraceInv is inductive.                                                  *)

(* A step that concerns one client.                                        *)
LEMMA TraceOne ==
    ASSUME TraceInv, NEW c, Once(queue'),
           DOMAIN stage' = Client, DOMAIN reply' = Client,
           DOMAIN answer' = Client, DOMAIN request' = Client,
           DOMAIN promised' = Client,
           \A x \in Client \ {c} :
               /\ stage'[x] = stage[x] /\ request'[x] = request[x]
               /\ reply'[x] = reply[x] /\ answer'[x] = answer[x]
               /\ Queued(queue', x) <=> Queued(queue, x)
               /\ x \in applied' <=> x \in applied,
           c \in Client =>
               ClientInv(stage'[c], request'[c], Queued(queue', c),
                         c \in applied', reply'[c], answer'[c])
    PROVE  TraceInv'
<1>1. ASSUME NEW x \in Client, x # c
      PROVE  ClientInv(stage'[x], request'[x], Queued(queue', x),
                       x \in applied', reply'[x], answer'[x])
  <2>1. ClientInv(stage[x], request[x], Queued(queue, x), x \in applied,
                  reply[x], answer[x])
    BY DEF TraceInv
  <2>2. QED
    BY <1>1, <2>1 DEF ClientInv
<1>2. \A x \in Client :
          ClientInv(stage'[x], request'[x], Queued(queue', x), x \in applied',
                    reply'[x], answer'[x])
  BY <1>1
<1>3. QED
  BY <1>2 DEF TraceInv

(* A step that changes nothing that the invariant is about.                *)
LEMMA TraceIdle ==
    ASSUME TraceInv, UNCHANGED <<handlers, reply, queue, applied>>
    PROVE  TraceInv'
BY DEF TraceInv, handlers

(* What is known of one client.                                            *)
LEMMA TraceOf ==
    ASSUME TraceInv, NEW c \in Client
    PROVE  /\ Once(queue)
           /\ DOMAIN stage = Client /\ DOMAIN reply = Client
           /\ DOMAIN answer = Client /\ DOMAIN request = Client
           /\ DOMAIN promised = Client
           /\ ClientInv(stage[c], request[c], Queued(queue, c), c \in applied,
                        reply[c], answer[c])
BY DEF TraceInv

(* The steps of a handler of the server.                                   *)
LEMMA TraceHandler ==
    ASSUME TraceInv, NEW c \in Client,
           \/ \E kind \in HttpRequestKind : Ask(c, kind)
           \/ GetLogs(c) \/ Send(c) \/ SendFails(c) \/ Respond(c)
           \/ Disconnect(c)
    PROVE  TraceInv'
<1>1. /\ Once(queue)
      /\ DOMAIN stage = Client /\ DOMAIN reply = Client
      /\ DOMAIN answer = Client /\ DOMAIN request = Client
      /\ DOMAIN promised = Client
      /\ ClientInv(stage[c], request[c], Queued(queue, c), c \in applied,
                   reply[c], answer[c])
  BY TraceOf
<1>2. ASSUME NEW kind \in HttpRequestKind, Ask(c, kind) PROVE TraceInv'
  <2>1. /\ stage[c] = "idle" /\ stage' = [stage EXCEPT ![c] = "sending"]
        /\ request' = [request EXCEPT ![c] = kind]
        /\ promised' = [promised EXCEPT ![c] = Acknowledged]
        /\ UNCHANGED <<reply, answer, queue, applied>>
    BY <1>2 DEF Ask
  <2>2. ClientInv(stage'[c], request'[c], Queued(queue', c), c \in applied',
                  reply'[c], answer'[c])
    BY <1>1, <2>1 DEF ClientInv
  <2>3. /\ DOMAIN stage' = Client /\ DOMAIN request' = Client
        /\ DOMAIN promised' = Client
        /\ \A x \in Client \ {c} : stage'[x] = stage[x] /\ request'[x] = request[x]
    BY <1>1, <2>1
  <2>4. QED
    BY <1>1, <2>1, <2>2, <2>3, TraceOne
<1>3. ASSUME NEW status, Finish(c, status),
             UNCHANGED <<request, promised, reply, queue, applied>>,
             ~Queued(queue, c), c \in applied => status = "ok"
      PROVE  TraceInv'
  <2>1. /\ stage' = [stage EXCEPT ![c] = "done"]
        /\ answer' = [answer EXCEPT ![c] = status]
    BY <1>3 DEF Finish
  <2>2. ClientInv(stage'[c], request'[c], Queued(queue', c), c \in applied',
                  reply'[c], answer'[c])
    BY <1>1, <1>3, <2>1 DEF ClientInv
  <2>3. /\ DOMAIN stage' = Client /\ DOMAIN answer' = Client
        /\ \A x \in Client \ {c} : stage'[x] = stage[x] /\ answer'[x] = answer[x]
    BY <1>1, <2>1
  <2>4. QED
    BY <1>1, <1>3, <2>2, <2>3, TraceOne
<1>4. CASE GetLogs(c)
  <2>1. stage[c] = "idle" /\ UNCHANGED <<request, promised, reply, queue, applied>>
    BY <1>4 DEF GetLogs
  <2>2. PICK status \in {"log", "internal_error", "not_found"} : Finish(c, status)
    BY <1>4 DEF GetLogs
  <2>3. ~Queued(queue, c) /\ c \notin applied
    BY <1>1, <2>1 DEF ClientInv
  <2>4. QED
    BY <1>3, <2>1, <2>2, <2>3
<1>5. CASE Send(c)
  <2>1. /\ stage[c] = "sending" /\ stage' = [stage EXCEPT ![c] = "waiting"]
        /\ queue' = Append(queue, c)
        /\ UNCHANGED <<request, answer, promised, reply, applied>>
    BY <1>5 DEF Send
  <2>2. ~Queued(queue, c)
    BY <1>1, <2>1 DEF ClientInv
  <2>3. /\ Once(queue')
        /\ \A x : Queued(queue', x) <=> Queued(queue, x) \/ x = c
    BY <1>1, <2>1, <2>2, QueueSent
  <2>4. ClientInv(stage'[c], request'[c], Queued(queue', c), c \in applied',
                  reply'[c], answer'[c])
    BY <1>1, <2>1 DEF ClientInv
  <2>5. /\ DOMAIN stage' = Client
        /\ \A x \in Client \ {c} : stage'[x] = stage[x]
    BY <1>1, <2>1
  <2>6. QED
    BY <1>1, <2>1, <2>3, <2>4, <2>5, TraceOne
<1>6. CASE SendFails(c)
  <2>1. /\ stage[c] = "sending" /\ Finish(c, "not_accepting")
        /\ UNCHANGED <<request, promised, reply, queue, applied>>
    BY <1>6 DEF SendFails
  <2>2. ~Queued(queue, c) /\ c \notin applied
    BY <1>1, <2>1 DEF ClientInv
  <2>3. QED
    BY <1>3, <2>1, <2>2
<1>7. CASE Respond(c)
  <2>1. /\ stage[c] = "waiting" /\ reply[c] # None
        /\ Finish(c, status_of(reply[c]))
        /\ UNCHANGED <<request, promised, reply, queue, applied>>
    BY <1>7 DEF Respond
  <2>2. ~Queued(queue, c) /\ (c \in applied => reply[c].kind = "Ok")
    BY <1>1, <2>1 DEF ClientInv
  <2>3. c \in applied => status_of(reply[c]) = "ok"
    BY <2>2 DEF status_of
  <2>4. QED
    BY <1>3, <2>1, <2>2, <2>3
<1>8. CASE Disconnect(c)
  <2>1. /\ stage[c] \in {"sending", "waiting"}
        /\ stage' = [stage EXCEPT ![c] = "gone"]
        /\ UNCHANGED <<request, answer, promised, reply, queue, applied>>
    BY <1>8 DEF Disconnect
  <2>2. ClientInv(stage'[c], request'[c], Queued(queue', c), c \in applied',
                  reply'[c], answer'[c])
    BY <1>1, <2>1 DEF ClientInv
  <2>3. /\ DOMAIN stage' = Client
        /\ \A x \in Client \ {c} : stage'[x] = stage[x]
    BY <1>1, <2>1
  <2>4. QED
    BY <1>1, <2>1, <2>2, <2>3, TraceOne
<1>9. QED
  BY <1>2, <1>4, <1>5, <1>6, <1>7, <1>8

(* run() returns: who waits in the channel has its reply dropped.          *)
LEMMA TraceReturns ==
    ASSUME TraceInv, RunReturns, UNCHANGED <<handlers, applied>>
    PROVE  TraceInv'
<1>1. /\ queue' = <<>> /\ reply' = [c \in Client |-> reply_dropped(c)]
      /\ UNCHANGED <<stage, request, answer, promised, applied>>
  BY DEF RunReturns, handlers
<1>2. ASSUME NEW c \in Client
      PROVE  ClientInv(stage'[c], request'[c], Queued(queue', c),
                       c \in applied', reply'[c], answer'[c])
  <2>1. ClientInv(stage[c], request[c], Queued(queue, c), c \in applied,
                  reply[c], answer[c])
    BY TraceOf
  <2>2. ~Queued(queue, c) => reply'[c] = reply[c]
    BY <1>1 DEF reply_dropped, Queued
  <2>3. ~Queued(queue', c)
    BY <1>1, QueueDropped
  <2>4. QED
    BY <1>1, <2>1, <2>2, <2>3 DEF ClientInv
<1>3. DOMAIN reply' = Client
  BY <1>1
<1>4. QED
  BY <1>1, <1>2, <1>3, QueueDropped DEF TraceInv

(* A request changes the database only if it is answered with "Ok".        *)
LEMMA OnlyOkChanges ==
    ASSUME NEW req,
           \/ req.kind = "GetRoutes" /\ HttpGetRoutes
           \/ req.kind = "AddLocalRoute" /\ HttpAddLocalRoute(req.network),
           database' # database
    PROVE  response_to(req).kind = "Ok"
BY DEF HttpGetRoutes, HttpAddLocalRoute, response_to

(* The oldest request is handled.                                          *)
LEMMA TraceHandled ==
    ASSUME TraceInv, HandleHttpRequest
    PROVE  TraceInv'
<1> DEFINE c == Head(queue)
<1>1. /\ queue # <<>> /\ queue' = Tail(queue)
      /\ \/ request[c].kind = "GetRoutes" /\ HttpGetRoutes
         \/ /\ request[c].kind = "AddLocalRoute"
            /\ HttpAddLocalRoute(request[c].network)
      /\ reply' = IF stage[c] = "waiting"
                  THEN [reply EXCEPT ![c] = response_to(request[c])]
                  ELSE reply
      /\ applied' = IF database' = database THEN applied ELSE applied \cup {c}
      /\ UNCHANGED <<stage, request, answer, promised>>
  BY DEF HandleHttpRequest, handlers
<1>2. Once(queue)
  BY DEF TraceInv
<1>3. /\ c \in Client /\ Queued(queue, c) /\ Once(queue')
      /\ \A x : Queued(queue', x) <=> Queued(queue, x) /\ x # c
  BY <1>1, <1>2, QueueTaken
<1>4. database' # database => response_to(request[c]).kind = "Ok"
  BY <1>1, OnlyOkChanges
<1> HIDE DEF c
<1>5. /\ DOMAIN stage = Client /\ DOMAIN reply = Client
      /\ DOMAIN answer = Client /\ DOMAIN request = Client
      /\ DOMAIN promised = Client
      /\ ClientInv(stage[c], request[c], Queued(queue, c), c \in applied,
                   reply[c], answer[c])
  BY <1>3, TraceOf
<1>6. /\ stage[c] \in {"waiting", "gone"} /\ reply[c] = None /\ answer[c] = None
      /\ c \notin applied /\ request[c] \in HttpRequestKind
  BY <1>3, <1>5 DEF ClientInv
<1>7. /\ DOMAIN reply' = Client
      /\ stage[c] = "waiting" => reply'[c] = response_to(request[c])
      /\ stage[c] # "waiting" => reply'[c] = None
      /\ \A x \in Client \ {c} : reply'[x] = reply[x]
  BY <1>1, <1>3, <1>5, <1>6
<1>8. c \in applied' => (reply'[c] # None => reply'[c].kind = "Ok")
  BY <1>1, <1>4, <1>6, <1>7
<1>9. ClientInv(stage'[c], request'[c], Queued(queue', c), c \in applied',
                reply'[c], answer'[c])
  BY <1>1, <1>3, <1>6, <1>8 DEF ClientInv
<1>10. \A x \in Client \ {c} : x \in applied' <=> x \in applied
  BY <1>1
<1>11. QED
  BY <1>1, <1>3, <1>5, <1>7, <1>9, <1>10, TraceOne

(* Every step preserves TraceInv.                                          *)
LEMMA TraceNext ==
    ASSUME TraceInv, [AdminNext]_adminVars
    PROVE  TraceInv'
<1>1. ASSUME NEW c \in Client,
             \/ \E kind \in HttpRequestKind : Ask(c, kind)
             \/ GetLogs(c) \/ Send(c) \/ SendFails(c) \/ Respond(c)
             \/ Disconnect(c)
      PROVE  TraceInv'
  BY <1>1, TraceHandler
<1>2. CASE ServerStops \/ ProcessEnds \/ HttpChannelClosed
  BY <1>2, TraceIdle DEF ServerStops, ProcessEnds, HttpChannelClosed
<1>3. CASE DaemonStep
  <2>1. CASE pc' = "exited"
    BY <1>3, <2>1, TraceReturns DEF DaemonStep
  <2>2. CASE pc' # "exited"
    BY <1>3, <2>2, TraceIdle DEF DaemonStep
  <2>3. QED
    BY <2>1, <2>2
<1>4. CASE HandleHttpRequest
  BY <1>4, TraceHandled
<1>5. CASE AdminTerminated \/ UNCHANGED adminVars
  BY <1>5, TraceIdle DEF AdminTerminated, adminVars, admin
<1>6. QED
  BY <1>1, <1>2, <1>3, <1>4, <1>5 DEF AdminNext

(* Before the first request.                                               *)
LEMMA TraceInit == AdminInit => TraceInv
<1> SUFFICES ASSUME AdminInit PROVE TraceInv
  OBVIOUS
<1>1. /\ stage = [c \in Client |-> "idle"] /\ request = [c \in Client |-> None]
      /\ reply = [c \in Client |-> None] /\ answer = [c \in Client |-> None]
      /\ promised = [c \in Client |-> {}]
      /\ queue = <<>> /\ applied = {}
  BY DEF AdminInit
<1>2. Once(queue) /\ \A c : ~Queued(queue, c)
  BY <1>1, QueueDropped
<1>3. \A c \in Client :
          ClientInv(stage[c], request[c], Queued(queue, c), c \in applied,
                    reply[c], answer[c])
  BY <1>1, <1>2 DEF ClientInv
<1>4. QED
  BY <1>1, <1>2, <1>3 DEF TraceInv

(* The requests on their way are where the handlers of the server and the  *)
(* loop of the daemon think they are.                                      *)
THEOREM TraceInvariant == AdminSpec => []TraceInv
<1>1. TraceInv /\ [AdminNext]_adminVars => TraceInv'
  BY TraceNext
<1>2. QED
  BY <1>1, TraceInit, PTL DEF AdminSpec

(* However many clients ask, go away or are refused, whenever the daemon   *)
(* leaves its loop: a client that is told of a failure by one of the       *)
(* handlers of http/mod.rs has changed nothing.                            *)
THEOREM FailureLeavesNoTraceHolds == AdminSpec => []FailureLeavesNoTrace
<1>1. TraceInv => FailureLeavesNoTrace
  <2> SUFFICES ASSUME TraceInv, NEW c \in Client, c \in applied
               PROVE  answer[c] \notin {"bad_request", "not_accepting",
                                        "did_not_answer"}
    BY DEF FailureLeavesNoTrace
  <2>1. answer[c] \in {None, "ok"}
    BY TraceOf DEF ClientInv
  <2>2. None \notin {"bad_request", "not_accepting", "did_not_answer"}
    BY AdminAssumption DEF Status
  <2>3. QED
    BY <2>1, <2>2
<1>2. QED
  BY <1>1, TraceInvariant, PTL

-----------------------------------------------------------------------------
(* The daemon behind the server.                                           *)

(* Every step is one of the daemon, or none of its business.               *)
LEMMA DaemonStepped ==
    ASSUME TraceInv, [AdminNext]_adminVars
    PROVE  [Next]_vars
<1>1. ASSUME NEW c \in Client,
             \/ \E kind \in HttpRequestKind : Ask(c, kind)
             \/ GetLogs(c) \/ Send(c) \/ SendFails(c) \/ Respond(c)
             \/ Disconnect(c)
      PROVE  UNCHANGED vars
  BY <1>1 DEF Ask, GetLogs, Send, SendFails, Respond, Disconnect
<1>2. CASE ServerStops \/ ProcessEnds
  BY <1>2 DEF ServerStops, ProcessEnds
<1>3. CASE DaemonStep
  BY <1>3 DEF DaemonStep, Next
<1>4. CASE HandleHttpRequest
  <2> DEFINE c == Head(queue)
  <2>1. /\ queue # <<>> /\ Once(queue)
        /\ \/ request[c].kind = "GetRoutes" /\ HttpGetRoutes
           \/ /\ request[c].kind = "AddLocalRoute"
              /\ HttpAddLocalRoute(request[c].network)
    BY <1>4 DEF HandleHttpRequest, TraceInv
  <2>2. c \in Client /\ Queued(queue, c)
    BY <2>1, QueueTaken
  <2>3. request[c] \in HttpRequestKind
    BY <2>2, TraceOf DEF ClientInv
  <2> HIDE DEF c
  <2>4. request[c].kind = "AddLocalRoute" => request[c].network \in HttpNetwork
    BY <2>3 DEF HttpRequestKind
  <2>5. Http
    BY <2>1, <2>4 DEF Http
  <2>6. QED
    BY <2>5 DEF Next
<1>5. CASE HttpChannelClosed
  BY <1>5 DEF HttpChannelClosed, Next, Http
<1>6. CASE AdminTerminated \/ UNCHANGED adminVars
  BY <1>6 DEF AdminTerminated, adminVars
<1>7. QED
  BY <1>1, <1>2, <1>3, <1>4, <1>5, <1>6 DEF AdminNext

(* The daemon with its requests from the channel is the daemon of          *)
(* RipDaemon: all that is proved of run() holds behind the server as well. *)
THEOREM DaemonBehindServer == AdminSpec => Spec
<1>1. AdminInit => Init
  BY DEF AdminInit
<1>2. TraceInv /\ [AdminNext]_adminVars => [Next]_vars
  BY DaemonStepped
<1>3. QED
  BY <1>1, <1>2, TraceInvariant, PTL DEF AdminSpec, Spec

-----------------------------------------------------------------------------
(* PromiseInv is inductive.                                                *)

(* A daemon that leaves does not come back while the server is there.      *)
LEMMA LeavesForGood ==
    ASSUME [AdminNext]_adminVars, pc # "setup"
    PROVE  pc' # "setup" /\ (Running' => Running)
<1>1. UNCHANGED vars => pc' = pc
  BY DEF vars
<1>2. ASSUME NEW c \in Client,
             \/ \E kind \in HttpRequestKind : Ask(c, kind)
             \/ GetLogs(c) \/ Send(c) \/ SendFails(c) \/ Respond(c)
             \/ Disconnect(c)
      PROVE  UNCHANGED vars
  BY <1>2 DEF Ask, GetLogs, Send, SendFails, Respond, Disconnect
<1>3. CASE \/ ServerStops \/ ProcessEnds \/ AdminTerminated
           \/ UNCHANGED adminVars
  BY <1>1, <1>3
  DEF ServerStops, ProcessEnds, AdminTerminated, adminVars, Running
<1>4. CASE HandleHttpRequest \/ HttpChannelClosed
  BY <1>4 DEF HandleHttpRequest, HttpChannelClosed, HttpGetRoutes,
              HttpAddLocalRoute, Step, Running
<1>5. CASE DaemonStep
  <2>1. CASE Start
    BY <2>1 DEF Start, SetupNetwork, SetupNetworkFails, StartFails, Run, Exit,
                Step, Running
  <2>2. CASE Timer
    BY <2>2 DEF Timer, RequestWarmupTimer, UpdateTimer,
                TriggeredUpdateLockTimer, TimeoutTimer, GarbageCollectionTimer,
                Step, Exit, Running
  <2>3. CASE Receive
    BY <2>3 DEF Receive, ReceiveResponse, ReceiveRequest,
                ReceiveForeignResponse, ReceiveMalformed, ReceiveTasksStopped,
                Step, Exit, Running
  <2>4. CASE HandleEntry
    <3>1. pc \in {"response", "install"}
      BY <2>4 DEF HandleEntry, SkipInvalidEntry, IgnorePoison, HandlePoison,
                  LearnRoute, RefreshRoute, UpdateRoute, SwitchRoute, KeepRoute,
                  InstallRoute, PacketDone, AtPoison, AtReachable, AtEntry,
                  FromCurrentNextHop, FromAnotherNextHop
    <3>2. pc' \in {"response", "install", "trigger", "exited"}
      BY <2>4 DEF HandleEntry, SkipInvalidEntry, IgnorePoison, HandlePoison,
                  LearnRoute, RefreshRoute, UpdateRoute, SwitchRoute, KeepRoute,
                  InstallRoute, PacketDone, replace_route_from_response, Step,
                  StepUnless, Exit
    <3>3. QED
      BY <3>1, <3>2 DEF Running
  <2>5. CASE \E p \in pending : TimeOutRoute(p)
    BY <2>5 DEF TimeOutRoute, Step, StepUnless, Exit, Running
  <2>6. CASE MaybeSendTriggeredUpdate
    BY <2>6 DEF MaybeSendTriggeredUpdate, Step, Exit, Running
  <2>7. CASE Leave
    BY <2>7 DEF Leave, Farewell, CleanUpRoute, CleanedUp, Step, Exit, Running
  <2>8. CASE Shutdown \/ Elapse \/ Kill
    BY <2>8 DEF Shutdown, Elapse, Kill, Step, Exit, Running
  <2>9. QED
    BY <1>5, <2>1, <2>2, <2>3, <2>4, <2>5, <2>6, <2>7, <2>8
    DEF DaemonStep, Handle
<1>6. QED
  BY <1>1, <1>2, <1>3, <1>4, <1>5 DEF AdminNext, Running

(* While the server is there nothing forgets which routes were taken.      *)
LEMMA TakenStays ==
    ASSUME TraceInv, [AdminNext]_adminVars
    PROVE  taken \subseteq taken'
<1>1. [Next]_vars
  BY DaemonStepped
<1>2. Restart => pc # "setup" /\ pc' = "setup"
  BY DEF Restart
<1>3. QED
  BY <1>1, <1>2, LeavesForGood, TakenGrows

(* Of a response from 0.0.0.0, an entry for a local route takes the route  *)
(* and says so, or leaves it as it is.                                     *)
LEMMA LocalTaken ==
    ASSUME TypeOK, DatabaseInv, [Next]_vars, Running', NEW k, ActiveLocal(k),
           AtEntry, Key = k, packet.source = Unspecified
    PROVE  \/ k \in taken'
           \/ /\ ActiveLocal(k)'
              /\ database'.ok_routes[k].dev = database.ok_routes[k].dev
<1>1. pc = "response" /\ has_route(database, Key) /\ OldRoute.is_local
  BY DEF AtEntry, ActiveLocal, OldRoute
<1>2. ASSUME database' = database
      PROVE  /\ ActiveLocal(k)'
             /\ database'.ok_routes[k].dev = database.ok_routes[k].dev
  BY <1>2 DEF ActiveLocal, has_route
<1>3. Key \in TakenNow
  BY <1>1 DEF TakenNow
<1>4. CASE HandlePoison \/ UpdateRoute
  BY <1>3, <1>4 DEF HandlePoison, UpdateRoute
<1>5. CASE RefreshRoute
  <2>1. Aged(database, database')
    BY <1>5, EntryKnown, AgedRefresh DEF RefreshRoute, TypeOK
  <2>2. QED
    BY <2>1 DEF Aged, Alike, SameForwarding, ActiveLocal, has_route
<1>6. CASE LearnRoute \/ SwitchRoute
  <2>1. SwitchRoute /\ OldRoute.metric > RouteEntry.metric
    BY <1>1, <1>6 DEF LearnRoute, SwitchRoute
  <2>2. is_entry_valid(Current) /\ RouteEntry.metric \in Nat
    BY <2>1, EntryKnown
    DEF SwitchRoute, FromAnotherNextHop, AtReachable, RipEntry
  <2>3. OldRoute.metric \in Nat
    BY <1>1, DatabaseElim DEF TypeOK, OldRoute, has_route, RipDbEntry
  <2>4. QED
    BY <1>1, <2>1, <2>2, <2>3, OldRouteOwned
<1>7. CASE SkipInvalidEntry \/ IgnorePoison \/ KeepRoute \/ PacketDone
  BY <1>2, <1>7 DEF SkipInvalidEntry, IgnorePoison, KeepRoute, PacketDone
<1>8. CASE InstallRoute
  BY <1>1, <1>8 DEF InstallRoute
<1>9. CASE HandleEntry
  BY <1>4, <1>5, <1>6, <1>7, <1>8, <1>9 DEF HandleEntry
<1>10. CASE Start \/ Timer \/ Receive \/ Http \/ Shutdown
  BY <1>1, <1>10
  DEF Start, SetupNetwork, SetupNetworkFails, StartFails, Run,
      Timer, RequestWarmupTimer, UpdateTimer, TriggeredUpdateLockTimer,
      TimeoutTimer, GarbageCollectionTimer,
      Receive, ReceiveResponse, ReceiveRequest, ReceiveForeignResponse,
      ReceiveMalformed, ReceiveTasksStopped,
      Http, HttpGetRoutes, HttpAddLocalRoute, Shutdown
<1>11. CASE \/ \E p \in pending : TimeOutRoute(p)
            \/ MaybeSendTriggeredUpdate \/ Leave
  BY <1>1, <1>11 DEF TimeOutRoute, MaybeSendTriggeredUpdate, Leave, Farewell,
                     CleanUpRoute, CleanedUp
<1>12. CASE Elapse \/ Kill \/ Restart \/ Terminated
  BY <1>1, <1>12 DEF Elapse, Kill, Restart, Terminated, Exit, Running
<1>13. CASE UNCHANGED vars
  BY <1>2, <1>13 DEF vars
<1>14. QED
  BY <1>9, <1>10, <1>11, <1>12, <1>13 DEF Next, Handle

(* A network that is kept stays so.                                        *)
LEMMA KeptStays ==
    ASSUME TraceInv, TypeOK, DatabaseInv, DatabaseInv', [AdminNext]_adminVars,
           NEW n, Kept(n)
    PROVE  Kept(n)'
<1>1. /\ n \in Network /\ pc # "setup"
      /\ Running => HeldFor(n) \/ n.key \in taken
  BY DEF Kept
<1>2. pc' # "setup" /\ (Running' => Running)
  BY <1>1, LeavesForGood
<1>3. LocalStays /\ taken \subseteq taken'
  BY DaemonStepped, NextKinds, LocalStaysNext, TakenStays
<1>4. n.key \in RouteKey
  BY <1>1 DEF Network
<1>5. ASSUME Running', HeldFor(n) PROVE HeldFor(n)' \/ n.key \in taken'
  <2>1. ActiveLocal(n.key) /\ database.ok_routes[n.key].dev = n.dev
    BY <1>5 DEF HeldFor
  <2>2. CASE /\ ActiveLocal(n.key)'
             /\ database'.ok_routes[n.key].dev = database.ok_routes[n.key].dev
    BY <2>1, <2>2 DEF HeldFor
  <2>3. CASE AtEntry /\ Key = n.key /\ packet.source = Unspecified
    <3>1. \/ n.key \in taken'
          \/ /\ ActiveLocal(n.key)'
             /\ database'.ok_routes[n.key].dev = database.ok_routes[n.key].dev
      BY <1>5, <2>1, <2>3, DaemonStepped, LocalTaken
    <3>2. QED
      BY <2>1, <3>1 DEF HeldFor
  <2>4. QED
    BY <1>2, <1>3, <1>4, <1>5, <2>1, <2>2, <2>3 DEF LocalStays
<1>6. QED
  BY <1>1, <1>2, <1>3, <1>5 DEF Kept

(* A client of whom nothing changes.                                       *)
LEMMA PromiseStays ==
    ASSUME NEW c, PromiseTo(c), \A n : Kept(n) => Kept(n)', taken \subseteq taken',
           request'[c] = request[c], reply'[c] = reply[c],
           promised'[c] = promised[c],
           \/ answer'[c] = answer[c]
           \/ answer'[c] \notin {"ok", "routes"}
           \/ answer'[c] = "ok" /\ Replied(reply[c], "Ok")
           \/ answer'[c] = "routes" /\ Replied(reply[c], "Routes")
    PROVE  PromiseTo(c)'
BY DEF PromiseTo, Replied, Shows

(* A new request is promised what others were told.                        *)
LEMMA PromiseAsk ==
    ASSUME TraceInv, PromiseInv, \A n : Kept(n) => Kept(n)', taken \subseteq taken',
           NEW c \in Client, NEW kind, Ask(c, kind)
    PROVE  PromiseInv'
<1>1. /\ stage[c] = "idle" /\ request' = [request EXCEPT ![c] = kind]
      /\ promised' = [promised EXCEPT ![c] = Acknowledged]
      /\ UNCHANGED <<reply, answer>>
  BY DEF Ask
<1>2. /\ DOMAIN request = Client /\ DOMAIN promised = Client
      /\ reply[c] = None /\ answer[c] = None
  BY <1>1, TraceOf DEF ClientInv
<1>3. \A n \in Acknowledged : Kept(n)'
  BY DEF Acknowledged, PromiseInv, PromiseTo
<1>4. None \notin {"ok", "routes"}
  BY AdminAssumption DEF Status
<1>5. PromiseTo(c)'
  <2>1. promised'[c] = Acknowledged /\ reply'[c] = None /\ answer'[c] = None
    BY <1>1, <1>2
  <2>2. QED
    BY <1>3, <1>4, <2>1 DEF PromiseTo, Replied
<1>6. ASSUME NEW x \in Client, x # c PROVE PromiseTo(x)'
  <2>1. request'[x] = request[x] /\ promised'[x] = promised[x]
    BY <1>1, <1>2, <1>6
  <2>2. QED
    BY <1>1, <2>1, PromiseStays DEF PromiseInv
<1>7. QED
  BY <1>5, <1>6 DEF PromiseInv

(* The other steps of a handler.  What a client is told is what the daemon *)
(* replied.                                                                *)
LEMMA PromiseHandler ==
    ASSUME TraceInv, PromiseInv, \A n : Kept(n) => Kept(n)', taken \subseteq taken',
           NEW c \in Client,
           \/ GetLogs(c) \/ Send(c) \/ SendFails(c) \/ Respond(c)
           \/ Disconnect(c)
    PROVE  PromiseInv'
<1>1. UNCHANGED <<request, promised, reply>>
  BY DEF GetLogs, Send, SendFails, Respond, Disconnect
<1>2. DOMAIN answer = Client
  BY TraceOf
<1>3. ASSUME NEW status, Finish(c, status),
             \/ status \notin {"ok", "routes"}
             \/ status = "ok" /\ Replied(reply[c], "Ok")
             \/ status = "routes" /\ Replied(reply[c], "Routes")
      PROVE  PromiseInv'
  <2>1. answer'[c] = status /\ \A x \in Client \ {c} : answer'[x] = answer[x]
    BY <1>2, <1>3 DEF Finish
  <2>2. PromiseTo(c)'
    BY <1>1, <1>3, <2>1, PromiseStays DEF PromiseInv
  <2>3. ASSUME NEW x \in Client, x # c PROVE PromiseTo(x)'
    BY <1>1, <2>1, <2>3, PromiseStays DEF PromiseInv
  <2>4. QED
    BY <2>2, <2>3 DEF PromiseInv
<1>4. CASE GetLogs(c)
  BY <1>3, <1>4 DEF GetLogs
<1>5. CASE SendFails(c)
  BY <1>3, <1>5 DEF SendFails
<1>6. CASE Respond(c)
  <2>1. reply[c] # None /\ Finish(c, status_of(reply[c]))
    BY <1>6 DEF Respond
  <2>2. reply[c].kind \in {"Routes", "Ok", "Error", "dropped"}
    BY <2>1 DEF PromiseInv, PromiseTo
  <2>3. \/ status_of(reply[c]) \notin {"ok", "routes"}
        \/ status_of(reply[c]) = "ok" /\ Replied(reply[c], "Ok")
        \/ status_of(reply[c]) = "routes" /\ Replied(reply[c], "Routes")
    BY <2>1, <2>2 DEF status_of, Replied
  <2>4. QED
    BY <1>3, <2>1, <2>3
<1>7. CASE Send(c) \/ Disconnect(c)
  BY <1>1, <1>7, PromiseStays DEF Send, Disconnect, PromiseInv
<1>8. QED
  BY <1>4, <1>5, <1>6, <1>7

(* run() returns, and drops replies.                                       *)
LEMMA PromiseReturns ==
    ASSUME TraceInv, PromiseInv, \A n : Kept(n) => Kept(n)', taken \subseteq taken',
           RunReturns, UNCHANGED handlers
    PROVE  PromiseInv'
<1>1. /\ reply' = [c \in Client |-> reply_dropped(c)]
      /\ UNCHANGED <<request, answer, promised>>
  BY DEF RunReturns, handlers
<1>2. ASSUME NEW c \in Client PROVE PromiseTo(c)'
  <2>1. PromiseTo(c) /\ ClientInv(stage[c], request[c], Queued(queue, c),
                                  c \in applied, reply[c], answer[c])
    BY TraceOf DEF PromiseInv
  <2>2. CASE Queued(queue, c)
    <3>1. reply'[c] = [kind |-> "dropped"]
      BY <1>1, <2>2 DEF reply_dropped, Queued
    <3>2. answer[c] = None
      BY <2>1, <2>2 DEF ClientInv
    <3>3. None \notin {"ok", "routes"}
      BY AdminAssumption DEF Status
    <3>4. QED
      BY <1>1, <2>1, <3>1, <3>2, <3>3 DEF PromiseTo, Replied
  <2>3. CASE ~Queued(queue, c)
    <3>1. reply'[c] = reply[c]
      BY <1>1, <2>3 DEF reply_dropped, Queued
    <3>2. QED
      BY <1>1, <2>1, <3>1, PromiseStays
  <2>4. QED
    BY <2>2, <2>3
<1>3. QED
  BY <1>2 DEF PromiseInv

(* A network that is added is kept.                                        *)
LEMMA AddedIsKept ==
    ASSUME TypeOK, NEW n \in HttpNetwork, HttpAddLocalRoute(n),
           ~setup_advertised_network_fails(database, n)
    PROVE  Kept(n)'
<1>1. /\ n # InvalidNetwork /\ ~has_route(database, n.key)
      /\ database' = add_local_route(database, n.key, local_entry, n.dev)
      /\ pc' = "trigger"
  BY DEF setup_advertised_network_fails, HttpAddLocalRoute, add_route_fails,
         setup_advertised_network, Step
<1>2. n \in Network
  BY <1>1, InputAssumption
<1>3. n.key \in RouteKey /\ n.dev \in Device
  BY <1>2 DEF Network
<1>4. Put(database, database', n.key, NewLocal(n.dev))
  BY <1>1, <1>3, PutLocal DEF TypeOK
<1>5. /\ n.key \in DOMAIN database'.ok_routes
      /\ database'.ok_routes[n.key] = NewLocal(n.dev)
  BY <1>4 DEF Put
<1>6. NewLocal(n.dev).is_local /\ NewLocal(n.dev).dev = n.dev
  BY DEF NewLocal, db_entry
<1>7. QED
  BY <1>1, <1>2, <1>5, <1>6 DEF Kept, HeldFor, ActiveLocal, has_route

(* The list of routes shows what is kept.                                  *)
LEMMA KeptIsShown ==
    ASSUME pc = "select", NEW nets, \A n \in nets : Kept(n)
    PROVE  Shows(from_database(database), nets)
<1> SUFFICES ASSUME NEW n \in nets, n.key \notin taken
             PROVE  AsShown(n) \in from_database(database)
  BY DEF Shows
<1>1. /\ n.key \in DOMAIN database.ok_routes
      /\ database.ok_routes[n.key].is_local
      /\ database.ok_routes[n.key].dev = n.dev
  BY DEF Kept, HeldFor, Running, ActiveLocal, has_route
<1>2. from_db_entry(n.key, database.ok_routes[n.key], "active") = AsShown(n)
  BY <1>1 DEF from_db_entry, AsShown
<1>3. QED
  BY <1>1, <1>2 DEF from_database

(* The oldest request is handled.                                          *)
LEMMA PromiseHandled ==
    ASSUME TraceInv, PromiseInv, \A n : Kept(n) => Kept(n)', taken \subseteq taken',
           TypeOK, HandleHttpRequest
    PROVE  PromiseInv'
<1>1. PICK c \in Client : c = Head(queue) /\ Queued(queue, c)
  BY QueueTaken DEF HandleHttpRequest, TraceInv
<1>2. /\ \/ request[c].kind = "GetRoutes" /\ HttpGetRoutes
         \/ /\ request[c].kind = "AddLocalRoute"
            /\ HttpAddLocalRoute(request[c].network)
      /\ reply' = IF stage[c] = "waiting"
                  THEN [reply EXCEPT ![c] = response_to(request[c])]
                  ELSE reply
      /\ UNCHANGED <<request, answer, promised>>
  BY <1>1 DEF HandleHttpRequest, handlers
<1>3. /\ DOMAIN reply = Client /\ answer[c] = None
      /\ request[c] \in HttpRequestKind
  BY <1>1, TraceOf DEF ClientInv
<1>4. None \notin {"ok", "routes"}
  BY AdminAssumption DEF Status
<1>5. ASSUME NEW x \in Client, reply'[x] = reply[x] PROVE PromiseTo(x)'
  BY <1>2, <1>5, PromiseStays DEF PromiseInv
<1>6. CASE stage[c] # "waiting"
  BY <1>2, <1>5, <1>6 DEF PromiseInv
<1>7. CASE stage[c] = "waiting"
  <2>1. /\ reply'[c] = response_to(request[c])
        /\ \A x \in Client \ {c} : reply'[x] = reply[x]
    BY <1>1, <1>2, <1>3, <1>7
  <2>2. \A n \in promised[c] : Kept(n) /\ Kept(n)'
    BY <1>1 DEF PromiseInv, PromiseTo
  <2>3. CASE request[c].kind = "GetRoutes"
    <3>1. /\ reply'[c] = [kind |-> "Routes", routes |-> from_database(database)]
          /\ pc = "select"
      BY <1>2, <2>1, <2>3 DEF response_to, HttpGetRoutes
    <3>2. Shows(from_database(database), promised[c])
      BY <2>2, <3>1, KeptIsShown
    <3>3. PromiseTo(c)'
      BY <1>2, <1>3, <1>4, <2>2, <3>1, <3>2 DEF PromiseTo, Replied, Shows
    <3>4. QED
      BY <1>5, <2>1, <3>3 DEF PromiseInv
  <2>4. CASE request[c].kind = "AddLocalRoute"
    <3>1. PICK n \in HttpNetwork : n = request[c].network
      BY <1>3, <2>4 DEF HttpRequestKind
    <3>2. reply'[c] = IF setup_advertised_network_fails(database, n)
                      THEN [kind |-> "Error"] ELSE [kind |-> "Ok"]
      BY <2>1, <2>4, <3>1 DEF response_to
    <3>3. ~setup_advertised_network_fails(database, n) => Kept(n)'
      BY <1>2, <2>4, <3>1, AddedIsKept
    <3>4. request'[c].network = n
      BY <1>2, <3>1
    <3>5. PromiseTo(c)'
      BY <1>2, <1>3, <1>4, <2>2, <3>2, <3>3, <3>4 DEF PromiseTo, Replied
    <3>6. QED
      BY <1>5, <2>1, <3>5 DEF PromiseInv
  <2>5. QED
    BY <1>2, <2>3, <2>4
<1>8. QED
  BY <1>6, <1>7

(* Every step preserves PromiseInv.                                        *)
LEMMA PromiseNext ==
    ASSUME TraceInv, TypeOK, DatabaseInv, DatabaseInv', PromiseInv,
           [AdminNext]_adminVars
    PROVE  PromiseInv'
<1>1. /\ \A n : Kept(n) => Kept(n)'
      /\ taken \subseteq taken'
  BY KeptStays, TakenStays
<1>2. ASSUME UNCHANGED <<handlers, reply>> PROVE PromiseInv'
  BY <1>1, <1>2, PromiseStays DEF handlers, PromiseInv
<1>3. ASSUME NEW c \in Client, NEW kind \in HttpRequestKind, Ask(c, kind)
      PROVE  PromiseInv'
  BY <1>1, <1>3, PromiseAsk
<1>4. ASSUME NEW c \in Client,
             \/ GetLogs(c) \/ Send(c) \/ SendFails(c) \/ Respond(c)
             \/ Disconnect(c)
      PROVE  PromiseInv'
  BY <1>1, <1>4, PromiseHandler
<1>5. CASE ServerStops \/ ProcessEnds \/ HttpChannelClosed
  BY <1>2, <1>5 DEF ServerStops, ProcessEnds, HttpChannelClosed
<1>6. CASE DaemonStep
  <2>1. CASE pc' = "exited"
    BY <1>1, <1>6, <2>1, PromiseReturns DEF DaemonStep
  <2>2. CASE pc' # "exited"
    BY <1>2, <1>6, <2>2 DEF DaemonStep
  <2>3. QED
    BY <2>1, <2>2
<1>7. CASE HandleHttpRequest
  BY <1>1, <1>7, PromiseHandled
<1>8. CASE AdminTerminated \/ UNCHANGED adminVars
  BY <1>2, <1>8 DEF AdminTerminated, adminVars, admin
<1>9. QED
  BY <1>3, <1>4, <1>5, <1>6, <1>7, <1>8 DEF AdminNext

(* Before the first request nothing is promised.                           *)
LEMMA PromiseInit == AdminInit => PromiseInv
BY AdminAssumption DEF AdminInit, PromiseInv, PromiseTo, Replied, Status

(* What the server told one client holds for the next one.                 *)
THEOREM PromiseInvariant == AdminSpec => []PromiseInv
<1>1. /\ TraceInv /\ TypeOK /\ DatabaseInv /\ DatabaseInv' /\ PromiseInv
      /\ [AdminNext]_adminVars
      => PromiseInv'
  BY PromiseNext
<1>2. AdminSpec => []TypeOK /\ []DatabaseInv
  BY DaemonBehindServer, TypeCorrect, DatabaseInvariant, PTL
<1>3. QED
  BY <1>1, <1>2, PromiseInit, TraceInvariant, PTL DEF AdminSpec

(* The list of routes that get_routes returns shows every network whose    *)
(* addition was acknowledged before it was asked for, whatever packets,    *)
(* timeouts and requests the daemon handles in between, unless one of the  *)
(* packets is a response from 0.0.0.0 that took the network.               *)
THEOREM ReadsWhatWasWrittenHolds == AdminSpec => []ReadsWhatWasWritten
<1>1. PromiseInv => ReadsWhatWasWritten
  <2> SUFFICES ASSUME PromiseInv, NEW c \in Client, answer[c] = "routes",
                      NEW n \in promised[c], n.key \notin taken
               PROVE  [destination |-> n.key, interface_name |-> n.dev,
                       route_type |-> "local", state |-> "active"]
                          \in reply[c].routes
    BY Zenon DEF ReadsWhatWasWritten
  <2>1. AsShown(n) \in reply[c].routes
    BY DEF PromiseInv, PromiseTo, Shows
  <2>2. QED
    BY <2>1 DEF AsShown
<1>2. QED
  BY <1>1, PromiseInvariant, PTL

=============================================================================
