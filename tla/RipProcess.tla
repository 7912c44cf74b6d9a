----------------------------- MODULE RipProcess -----------------------------
(***************************************************************************)
(* The process around the daemon: main(), the steps of the start, and the  *)
(* two signals that end it.                                                *)
(*                                                                         *)
(* SIGTERM has a stream that is made once, before the loop of run(): a     *)
(* signal that comes while a handler runs is remembered.  For SIGINT,      *)
(* select! makes a new ctrl_c() future in every iteration.  The future     *)
(* listens from its first poll, and select! polls its branches in random   *)
(* order until one is ready, so that it may never be polled.  The first    *)
(* poll also replaces the default action of the signal, for good: after    *)
(* that, an interrupt nobody listens to has no effect.                     *)
(*                                                                         *)
(* The daemon itself is reduced to what it leaves behind: routes in the    *)
(* kernel and in the tables of its neighbours.                             *)
(***************************************************************************)
EXTENDS Integers, Sequences

VARIABLES
    phase,            \* where main() is
    sigterm_handled,  \* SIGTERM has lost its default action
    sigterm,          \* the stream holds a signal
    sigint_handled,   \* SIGINT has lost its default action
    ctrl_c,           \* this iteration's future: "new", "listening", "ready"
    listeners,        \* receive tasks: "some", or "none" to wait for
    traces,           \* what the daemon has left in kernel and neighbours
    exit              \* how the process ended

signals == <<sigterm_handled, sigterm, sigint_handled, ctrl_c>>

vars == <<phase, signals, listeners, traces, exit>>

(* The steps of the start, in their order, up to the loop.                 *)
Startup == <<"args", "logger", "netlink", "configuration", "sockets",
             "networks", "http", "run", "select">>

Starting == {Startup[n] : n \in 1 .. Len(Startup) - 1}

Init ==
    /\ phase = "args"
    /\ sigterm_handled = FALSE /\ sigterm = FALSE
    /\ sigint_handled = FALSE /\ ctrl_c = "new"
    /\ listeners \in {"some", "none"}
    /\ traces = "none"
    /\ exit = "running"

Exits(status) == phase' = "exited" /\ exit' = status

(* Mutant: the stream of SIGTERM is not made before the loop.              *)
StartStepDeaf ==
    /\ \E n \in 1 .. Len(Startup) - 1 :
           phase = Startup[n] /\ phase' = Startup[n + 1]
    /\ UNCHANGED <<signals, listeners, traces, exit>>

(* A step of the start succeeds.  Nothing is sent and nothing installed.   *)
StartStep ==
    /\ \E n \in 1 .. Len(Startup) - 1 :
           phase = Startup[n] /\ phase' = Startup[n + 1]
    /\ sigterm_handled' = (phase = "run")
    /\ UNCHANGED <<sigterm, sigint_handled, ctrl_c, listeners, traces, exit>>

(* Every error of the start ends the process with code 1.                  *)
StartFails ==
    /\ phase \in Starting
    /\ Exits("1")
    /\ UNCHANGED <<signals, listeners, traces>>

-----------------------------------------------------------------------------
(* The loop.                                                               *)

(* Mutant: the future does not listen.                                     *)
PollCtrlCDeaf ==
    /\ phase = "select" /\ ctrl_c = "new"
    /\ sigint_handled' = TRUE
    /\ UNCHANGED <<phase, sigterm_handled, sigterm, ctrl_c, listeners, traces, exit>>

(* select! comes to the branch of ctrl_c() and finds it pending.           *)
PollCtrlC ==
    /\ phase = "select" /\ ctrl_c = "new"
    /\ ctrl_c' = "listening" /\ sigint_handled' = TRUE
    /\ UNCHANGED <<phase, sigterm_handled, sigterm, listeners, traces, exit>>

(* The handler cannot be installed, and the ? leaves run().                *)
PollCtrlCFails ==
    /\ phase = "select" /\ ctrl_c = "new" /\ ~sigint_handled
    /\ Exits("1")
    /\ UNCHANGED <<signals, listeners, traces>>

(* Mutant: the stream of SIGTERM is made anew in every iteration, too.     *)
OtherEventDropsSigterm ==
    /\ phase = "select"
    /\ phase' = "handling" /\ ctrl_c' = "new" /\ sigterm' = FALSE
    /\ UNCHANGED <<sigterm_handled, sigint_handled, listeners, traces, exit>>

(* Another branch is ready, and the future of ctrl_c() is dropped.         *)
OtherEvent ==
    /\ phase = "select"
    /\ phase' = "handling" /\ ctrl_c' = "new"
    /\ UNCHANGED <<sigterm_handled, sigterm, sigint_handled, listeners,
                   traces, exit>>

(* The handler installs or advertises a route.                             *)
HandlerWorks ==
    /\ phase = "handling"
    /\ traces' = "left"
    /\ UNCHANGED <<phase, signals, listeners, exit>>

(* The handler returns, perhaps with an error, which ends run().           *)
HandlerDone ==
    /\ phase = "handling"
    /\ \/ phase' = "select" /\ UNCHANGED exit
       \/ Exits("1")
    /\ UNCHANGED <<signals, listeners, traces>>

(* The last receive task stops: an unparsable packet or a socket error.    *)
(* Without an interface there was none from the beginning.                 *)
ReceiveTasksStop ==
    /\ phase \in {"select", "handling", "shutdown"} /\ listeners = "some"
    /\ listeners' = "none"
    /\ UNCHANGED <<phase, signals, traces, exit>>

(* rx.recv() returns None.                                                 *)
NothingToReceive ==
    /\ phase = "select" /\ listeners = "none"
    /\ Exits("1")
    /\ UNCHANGED <<signals, listeners, traces>>

Terminate ==
    /\ phase = "select" /\ sigterm
    /\ phase' = "shutdown" /\ sigterm' = FALSE /\ ctrl_c' = "new"
    /\ UNCHANGED <<sigterm_handled, sigint_handled, listeners, traces, exit>>

Interrupted ==
    /\ phase = "select" /\ ctrl_c = "ready"
    /\ phase' = "shutdown" /\ ctrl_c' = "new"
    /\ UNCHANGED <<sigterm_handled, sigterm, sigint_handled, listeners,
                   traces, exit>>

(* handle_shutdown poisons and deletes what it can.                        *)
ShutDown ==
    /\ phase = "shutdown"
    /\ traces' = IF traces = "left" THEN "cleaned_up" ELSE traces
    /\ Exits("0")
    /\ UNCHANGED <<signals, listeners>>

-----------------------------------------------------------------------------
(* The signals.                                                            *)

SendSigterm ==
    /\ phase # "exited"
    /\ IF sigterm_handled
       THEN sigterm' = TRUE /\ UNCHANGED <<phase, exit>>
       ELSE Exits("SIGTERM") /\ UNCHANGED sigterm
    /\ UNCHANGED <<sigterm_handled, sigint_handled, ctrl_c, listeners, traces>>

(* Only a future that listens hears the interrupt.                         *)
SendSigint ==
    /\ phase # "exited"
    /\ IF sigint_handled
       THEN /\ ctrl_c' = IF ctrl_c = "listening" THEN "ready" ELSE ctrl_c
            /\ UNCHANGED <<phase, exit>>
       ELSE Exits("SIGINT") /\ UNCHANGED ctrl_c
    /\ UNCHANGED <<sigterm_handled, sigterm, sigint_handled, listeners, traces>>

Terminated == phase = "exited" /\ UNCHANGED vars

Next ==
    \/ StartStep \/ StartFails
    \/ PollCtrlC \/ PollCtrlCFails \/ OtherEvent \/ HandlerWorks \/ HandlerDone
    \/ ReceiveTasksStop \/ NothingToReceive
    \/ Terminate \/ Interrupted \/ ShutDown
    \/ SendSigterm \/ SendSigint
    \/ Terminated

Spec == Init /\ [][Next]_vars

(* The process is scheduled, and a branch of select! that is ready, again  *)
(* and again, is chosen: they are polled in random order.                  *)
Fairness ==
    /\ WF_vars(StartStep) /\ WF_vars(HandlerDone) /\ WF_vars(ShutDown)
    /\ SF_vars(PollCtrlC)
    /\ SF_vars(Terminate) /\ SF_vars(Interrupted)
    /\ SF_vars(NothingToReceive)

FairSpec == Spec /\ Fairness

-----------------------------------------------------------------------------
(* Properties.                                                             *)

(* Whenever SIGTERM ends the process, be it during the start, in a         *)
(* handler, in the middle of the cleanup or twice, no routes stay behind   *)
(* that the daemon has not tried to withdraw; the same holds of every exit *)
(* with code 0.                                                            *)
LeavesCleanly == exit \in {"0", "SIGTERM"} => traces # "left"

(* SIGTERM is never lost: once it was sent, the daemon leaves.             *)
SigtermEndsProcess == sigterm ~> phase = "exited"

(* One interrupt may be swallowed by a handler, but a user who repeats it, *)
(* also while the daemon waits, gets rid of the daemon in the end.         *)
RepeatedInterruptsEnd ==
    SF_vars(ctrl_c = "listening" /\ SendSigint)
        => (phase = "select" ~> phase = "exited")

=============================================================================
