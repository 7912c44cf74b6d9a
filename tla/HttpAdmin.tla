----------------------------- MODULE HttpAdmin -----------------------------
(***************************************************************************)
(* The HTTP administration server (http/mod.rs) beside the daemon.         *)
(*                                                                         *)
(* Every connection is a task of its own.  Its handler puts a request into *)
(* a bounded channel, on which the event loop of RipDaemon is the only     *)
(* reader, and waits for the answer on a one-shot channel.  A client may   *)
(* go away at any time, and its handler is then dropped where it waits.    *)
(* The daemon drops its end of the channel when run() returns, some time   *)
(* before the process ends and takes the server with it.                   *)
(*                                                                         *)
(* The daemon is RipDaemon with its steps as they are; only the requests   *)
(* of its Http action now come from the channel.                           *)
(***************************************************************************)
EXTENDS RipDaemon

CONSTANTS
    Client,      \* clients, each with one request
    QueueSize,   \* capacity of the channel, 32
    LogFile      \* was a log file given on the command line?

(* What a client may be told.                                              *)
Status == {"ok", "routes", "log", "bad_request", "not_found", "internal_error",
           "not_accepting", "did_not_answer"}

ASSUME AdminAssumption ==
    /\ QueueSize \in Nat \ {0} /\ LogFile \in BOOLEAN
    /\ None \notin Status

VARIABLES
    stage,            \* where the handler of each client is
    request,          \* HttpRequest::kind of each client
    reply,            \* the one-shot channel of each client
    answer,           \* what each client was told
    queue,            \* the channel: clients whose requests wait in it
    http_request_rx,  \* the daemon's end of it
    server,           \* the server task and the process around it
    applied,          \* clients whose request changed the database
    promised          \* networks acknowledged before a client asked

handlers == <<stage, request, answer, promised>>
admin == <<handlers, reply, queue, http_request_rx, server, applied>>

adminVars == <<vars, admin>>

HttpRequestKind ==
    [kind : {"GetRoutes"}] \cup [kind : {"AddLocalRoute"}, network : HttpNetwork]

(* HttpRoute, as far as a client tells routes from each other here.        *)
HttpRoute == [destination : RouteKey, interface_name : Device,
              route_type : {"local", "remote"}, state : {"active", "garbage"}]

HttpResponse == [kind : {"Routes"}, routes : SUBSET HttpRoute]
                \cup [kind : {"Ok", "Error", "dropped"}]

from_db_entry(k, route, state) ==
    [destination |-> k, interface_name |-> route.dev,
     route_type |-> IF route.is_local THEN "local" ELSE "remote",
     state |-> state]

(* Mutant: garbage and active routes change places.                        *)
from_database_swapped(db) ==
    {from_db_entry(k, db.ok_routes[k], "garbage") : k \in DOMAIN db.ok_routes}

from_database(db) ==
    {from_db_entry(k, db.ok_routes[k], "active") : k \in DOMAIN db.ok_routes}
    \cup
    {from_db_entry(k, db.garbage_routes[k], "garbage") :
        k \in DOMAIN db.garbage_routes}

AdminInit ==
    /\ Init
    /\ stage = [c \in Client |-> "idle"]
    /\ request = [c \in Client |-> None]
    /\ reply = [c \in Client |-> None]
    /\ answer = [c \in Client |-> None]
    /\ queue = <<>>
    /\ http_request_rx = "open"
    /\ server = "serving"
    /\ applied = {}
    /\ promised = [c \in Client |-> {}]

-----------------------------------------------------------------------------
(* The handlers of the server.                                             *)

(* The networks of which some client knows that they are advertised.       *)
Acknowledged ==
    {request[c].network : c \in {x \in Client : answer[x] = "ok"}}

Finish(c, status) ==
    /\ stage' = [stage EXCEPT ![c] = "done"]
    /\ answer' = [answer EXCEPT ![c] = status]

(* The port is bound after setup, so that no request comes before it.      *)
Ask(c, kind) ==
    /\ server = "serving" /\ networks = <<>>
    /\ stage[c] = "idle"
    /\ stage' = [stage EXCEPT ![c] = "sending"]
    /\ request' = [request EXCEPT ![c] = kind]
    /\ promised' = [promised EXCEPT ![c] = Acknowledged]
    /\ UNCHANGED <<vars, reply, answer, queue, http_request_rx, server, applied>>

(* get_logs does not go through the daemon.                                *)
GetLogs(c) ==
    /\ server = "serving" /\ networks = <<>>
    /\ stage[c] = "idle"
    /\ \E status \in IF LogFile THEN {"log", "internal_error"} ELSE {"not_found"} :
           Finish(c, status)
    /\ UNCHANGED <<vars, request, promised, reply, queue, http_request_rx,
                   server, applied>>

(* sender.send finds room, perhaps after a while.                          *)
Send(c) ==
    /\ server # "ended" /\ stage[c] = "sending"
    /\ http_request_rx = "open" /\ Len(queue) < QueueSize
    /\ queue' = Append(queue, c)
    /\ stage' = [stage EXCEPT ![c] = "waiting"]
    /\ UNCHANGED <<vars, request, answer, promised, reply, http_request_rx,
                   server, applied>>

(* sender.send returns an error: the daemon has dropped its end.           *)
SendFails(c) ==
    /\ server # "ended" /\ stage[c] = "sending"
    /\ http_request_rx # "open"
    /\ Finish(c, "not_accepting")
    /\ UNCHANGED <<vars, request, promised, reply, queue, http_request_rx,
                   server, applied>>

status_of(response) ==
    CASE response.kind = "Ok"      -> "ok"
      [] response.kind = "Error"   -> "bad_request"
      [] response.kind = "Routes"  -> "routes"
      [] response.kind = "dropped" -> "did_not_answer"

(* reply_rx.await returns and the response is written.                     *)
Respond(c) ==
    /\ server # "ended" /\ stage[c] = "waiting"
    /\ reply[c] # None
    /\ Finish(c, status_of(reply[c]))
    /\ UNCHANGED <<vars, request, promised, reply, queue, http_request_rx,
                   server, applied>>

(* The client goes away, or the process does; the handler is dropped.  A   *)
(* request that is in the channel stays there.                             *)
Disconnect(c) ==
    /\ stage[c] \in {"sending", "waiting"}
    /\ stage' = [stage EXCEPT ![c] = "gone"]
    /\ UNCHANGED <<vars, request, answer, promised, reply, queue,
                   http_request_rx, server, applied>>

(* axum::serve returns; handlers that run are not disturbed.               *)
ServerStops ==
    /\ server = "serving" /\ networks = <<>>
    /\ server' = "stopped"
    /\ UNCHANGED <<vars, handlers, reply, queue, http_request_rx, applied>>

-----------------------------------------------------------------------------
(* The daemon.                                                             *)

(* The one-shot channels once the daemon has dropped the channel with the  *)
(* requests in it.                                                         *)
reply_dropped(c) ==
    IF \E i \in DOMAIN queue : queue[i] = c THEN [kind |-> "dropped"] ELSE reply[c]

(* Mutant: requests that wait are forgotten without an answer.             *)
RunReturnsSilently ==
    /\ queue' = <<>> /\ http_request_rx' = "dropped"
    /\ server' = IF exit' = "killed" THEN "ended" ELSE server
    /\ UNCHANGED reply

(* run() returns, for whatever reason, or the process is killed.           *)
RunReturns ==
    /\ queue' = <<>> /\ http_request_rx' = "dropped"
    /\ reply' = [c \in Client |-> reply_dropped(c)]
    /\ server' = IF exit' = "killed" THEN "ended" ELSE server

(* Every step of the daemon but the ones for a request.                    *)
DaemonStep ==
    /\ Start \/ Timer \/ Receive \/ Shutdown \/ Handle \/ Elapse \/ Kill
    /\ IF pc' = "exited"
       THEN RunReturns
       ELSE UNCHANGED <<queue, http_request_rx, reply, server>>
    /\ UNCHANGED <<handlers, applied>>

(* main returns or calls exit.                                             *)
ProcessEnds ==
    /\ pc = "exited" /\ server # "ended"
    /\ server' = "ended"
    /\ UNCHANGED <<vars, handlers, reply, queue, http_request_rx, applied>>

response_to(req) ==
    IF req.kind = "GetRoutes"
    THEN [kind |-> "Routes", routes |-> from_database(database)]
    ELSE IF setup_advertised_network_fails(database, req.network)
    THEN [kind |-> "Error"]
    ELSE [kind |-> "Ok"]

(* handle_http_request for the oldest request.  The send on the one-shot   *)
(* channel comes to nothing when the handler is gone.                      *)
HandleHttpRequest ==
    /\ http_request_rx = "open" /\ queue # <<>>
    /\ LET c == Head(queue)
       IN  /\ \/ request[c].kind = "GetRoutes" /\ HttpGetRoutes
              \/ /\ request[c].kind = "AddLocalRoute"
                 /\ HttpAddLocalRoute(request[c].network)
           /\ reply' = IF stage[c] = "waiting"
                       THEN [reply EXCEPT ![c] = response_to(request[c])]
                       ELSE reply
           /\ applied' = IF database' = database THEN applied
                                                 ELSE applied \cup {c}
    /\ queue' = Tail(queue)
    /\ UNCHANGED <<handlers, http_request_rx, server>>

(* recv() returns None when the server has stopped and no handler is left, *)
(* and the branch is switched off.                                         *)
HttpChannelClosed ==
    /\ http_request_rx = "open" /\ queue = <<>>
    /\ server = "stopped"
    /\ \A c \in Client : stage[c] \notin {"sending", "waiting"}
    /\ HttpGetRoutes
    /\ http_request_rx' = "none"
    /\ UNCHANGED <<handlers, reply, queue, server, applied>>

AdminTerminated ==
    /\ server = "ended" /\ \A c \in Client : stage[c] \in {"idle", "done", "gone"}
    /\ UNCHANGED adminVars

AdminNext ==
    \/ \E c \in Client :
           \/ \E kind \in HttpRequestKind : Ask(c, kind)
           \/ GetLogs(c)
           \/ Send(c) \/ SendFails(c) \/ Respond(c) \/ Disconnect(c)
    \/ ServerStops
    \/ DaemonStep
    \/ HandleHttpRequest
    \/ HttpChannelClosed
    \/ ProcessEnds
    \/ AdminTerminated

AdminSpec == AdminInit /\ [][AdminNext]_adminVars

(* The tasks of the server are scheduled, tokio hands out the room in the  *)
(* channel first come, first served, and select! polls its branches in     *)
(* random order.  Nothing is asked of the end of the process: whoever      *)
(* waits is told before, if the daemon has left its loop.                  *)
AdminFairness ==
    /\ WF_adminVars(DaemonStep /\ (Start \/ Handle))
    /\ SF_adminVars(HandleHttpRequest)
    /\ \A c \in Client :
           /\ SF_adminVars(Send(c))
           /\ WF_adminVars(SendFails(c))
           /\ WF_adminVars(Respond(c))
           /\ WF_adminVars(server = "ended" /\ Disconnect(c))

AdminFairSpec == AdminSpec /\ AdminFairness

-----------------------------------------------------------------------------
(* Properties.                                                             *)

(* A client that is told of a failure, be it 400 or 503, can be sure that  *)
(* its request changed nothing: it may repeat it.                          *)
FailureLeavesNoTrace ==
    \A c \in Client :
        answer[c] \in {"bad_request", "not_accepting", "did_not_answer"}
            => c \notin applied

(* The list of routes shows every network that was acknowledged before it  *)
(* was asked for, as an active local route, whatever neighbours have sent  *)
(* in between; only a response from 0.0.0.0 may have taken it.             *)
ReadsWhatWasWritten ==
    \A c \in Client :
        answer[c] = "routes" =>
            \A n \in promised[c] :
                \/ [destination |-> n.key, interface_name |-> n.dev,
                    route_type |-> "local", state |-> "active"]
                       \in reply[c].routes
                \/ n.key \in taken

(* Every request comes to an end: a full channel drains, abandoned         *)
(* requests included, and no handler waits for a daemon that has left.     *)
EveryRequestEnds ==
    \A c \in Client :
        stage[c] \in {"sending", "waiting"} ~> stage[c] \in {"done", "gone"}

=============================================================================
