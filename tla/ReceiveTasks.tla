---------------------------- MODULE ReceiveTasks ----------------------------
(***************************************************************************)
(* The way of a datagram from the wire to handle_packet.                   *)
(*                                                                         *)
(* The daemon opens its sockets as RipSockets says.  A task per interface  *)
(* (spawn_rx_task) takes datagrams off the receiving socket, parses them   *)
(* and puts them into one channel, which the event loop empties while it   *)
(* is at select!.  A datagram that cannot be parsed ends the task, which   *)
(* owns the socket: the socket is closed with what is in its buffer.       *)
(*                                                                         *)
(* Datagrams are numbered per device, and an interface stands for its      *)
(* place in the configuration.  Datagrams that come during the setup are   *)
(* left out.  What the daemon does with a packet is the subject of         *)
(* RipDaemon: here a handler only takes time, perhaps with the socket of   *)
(* an answer open, and may end the daemon.                                 *)
(***************************************************************************)
EXTENDS RipSockets

CONSTANTS
    MaxInterfaces,  \* bound on the length of the configuration
    SocketBuffer,   \* datagrams the buffer of a socket holds
    QueueSize,      \* capacity of the channel, 64
    MaxDatagrams    \* bound on the datagrams per device

Ifc == 1 .. MaxInterfaces

(* A packet on its way through the channel.                                *)
Packet == [ifc : Ifc, id : Nat]

ASSUME ReceiveAssumption ==
    /\ MaxInterfaces \in Nat
    /\ \A cfg \in Configurations : Len(cfg) <= MaxInterfaces
    /\ None \notin Nat /\ None \notin Packet
    /\ SocketBuffer \in Nat /\ QueueSize \in Nat /\ MaxDatagrams \in Nat

VARIABLES
    arrived,    \* number of datagrams seen on each device
    expected,   \* the ones each interface ought to have, for it had room
    buffer,     \* the buffers of the receiving sockets
    task,       \* what each receive task does
    cut,        \* the first datagram a task that broke did not read
    in_hand,    \* the packet it is about to send
    queue,      \* the channel
    loop,       \* what the event loop does
    current,    \* the packet it handles
    handled,    \* packets it has handled
    exit        \* why run() returned

datagrams == <<arrived, expected, buffer>>
tasks == <<task, cut, in_hand>>
daemon == <<loop, current, handled, exit>>

vars == <<socketVars, datagrams, tasks, queue, daemon>>

(* len - 4 is a multiple of 20; a shorter datagram makes from_slice panic  *)
(* or fail, and ends the task as well.                                     *)
Form == {"rip", "unparsable"}

Init ==
    /\ SocketInit
    /\ arrived = [dev \in Device |-> 0]
    /\ expected = [i \in Ifc |-> {}]
    /\ buffer = [i \in Ifc |-> <<>>]
    /\ task = [i \in Ifc |-> "none"]
    /\ cut = [i \in Ifc |-> None]
    /\ in_hand = [i \in Ifc |-> None]
    /\ queue = <<>>
    /\ loop = "select"
    /\ current = None
    /\ handled = <<>>
    /\ exit = "running"

-----------------------------------------------------------------------------
(* The start.                                                              *)

SetUp ==
    /\ CreateTx \/ CreateRx \/ SetupFails
    /\ UNCHANGED <<datagrams, tasks, queue, daemon>>

(* The head of run(): a task for every interface.                          *)
SpawnRxTasks ==
    /\ SetupDone
    /\ task' = [i \in Ifc |-> IF i \in DOMAIN interfaces THEN "recv" ELSE "none"]
    /\ UNCHANGED <<datagrams, cut, in_hand, queue, daemon>>

-----------------------------------------------------------------------------
(* The kernel.                                                             *)

HasRoom(i) == Len(buffer[i]) < SocketBuffer

(* The buffers after datagram d was given to the interfaces in S.          *)
Given(S, d) ==
    [i \in Ifc |-> IF i \in S /\ HasRoom(i) THEN Append(buffer[i], d)
                                             ELSE buffer[i]]

(* The daemon wants to hear of dev on these interfaces.                    *)
Listening(dev) ==
    IF phase = "setup_failed" \/ loop = "exited"
    THEN {}
    ELSE {i \in DOMAIN rip_cfg : rip_cfg[i] = dev}

(* The next datagram on dev is given to S and ought to be given to those   *)
(* in due.                                                                 *)
Arrives(dev, form, S, due) ==
    /\ phase # "setup" /\ arrived[dev] < MaxDatagrams
    /\ arrived' = [arrived EXCEPT ![dev] = @ + 1]
    /\ buffer' = Given(S, [id |-> arrived'[dev], form |-> form])
    /\ expected' = [i \in Ifc |-> IF i \in due /\ HasRoom(i)
                                  THEN expected[i] \cup {arrived'[dev]}
                                  ELSE expected[i]]
    /\ UNCHANGED <<socketVars, tasks, queue, daemon>>

(* An update or a request of a neighbour, lost where there is no room.     *)
MulticastArrives(dev, form) ==
    Arrives(dev, form, MulticastTo(dev), Listening(dev))

(* An answer of a neighbour; it may be given to a socket nobody reads.     *)
UnicastArrives(dev, form) ==
    \E i \in UnicastTo(dev) : Arrives(dev, form, {i}, {i} \cap Listening(dev))

(* A handler multicasts an update or a request.  Datagrams of the daemon   *)
(* itself have the number 0.                                               *)
SendMulticast(i) ==
    /\ loop = "handling" /\ i \in DOMAIN interfaces
    /\ buffer' = Given(OwnMulticastTo(i), [id |-> 0, form |-> "rip"])
    /\ UNCHANGED <<socketVars, arrived, expected, tasks, queue, daemon>>

-----------------------------------------------------------------------------
(* spawn_rx_task.                                                          *)

FirstUnread(i) ==
    IF buffer[i] = <<>> THEN arrived[rip_cfg[i]] + 1 ELSE Head(buffer[i]).id

(* The loop of the task is left, and the socket is dropped with it.        *)
Break(i) ==
    /\ task' = [task EXCEPT ![i] = "stopped"]
    /\ cut' = [cut EXCEPT ![i] = FirstUnread(i)]
    /\ buffer' = [buffer EXCEPT ![i] = <<>>]
    /\ DropRx(i)
    /\ UNCHANGED <<arrived, expected, in_hand, queue, daemon>>

RecvFrom(i) ==
    /\ task[i] = "recv" /\ buffer[i] # <<>>
    /\ Head(buffer[i]).form = "rip"
    /\ buffer' = [buffer EXCEPT ![i] = Tail(@)]
    /\ task' = [task EXCEPT ![i] = "send"]
    /\ in_hand' = [in_hand EXCEPT ![i] = Head(buffer[i]).id]
    /\ UNCHANGED <<socketVars, arrived, expected, cut, queue, daemon>>

(* parse_rx_data fails.                                                    *)
RecvUnparsable(i) ==
    /\ task[i] = "recv" /\ buffer[i] # <<>>
    /\ Head(buffer[i]).form = "unparsable"
    /\ Break(i)

(* recv_from fails.                                                        *)
RecvFails(i) ==
    /\ task[i] = "recv"
    /\ Break(i)

(* Mutant: a packet that finds the channel full is dropped.                *)
SendPacketOrDrop(i) ==
    /\ task[i] = "send" /\ loop # "exited"
    /\ queue' = IF Len(queue) < QueueSize
                THEN Append(queue, [ifc |-> i, id |-> in_hand[i]])
                ELSE queue
    /\ task' = [task EXCEPT ![i] = "recv"]
    /\ in_hand' = [in_hand EXCEPT ![i] = None]
    /\ UNCHANGED <<socketVars, datagrams, cut, daemon>>

(* Mutant: the packet is sent again.                                       *)
SendPacketAgain(i) ==
    /\ task[i] = "send" /\ loop # "exited"
    /\ Len(queue) < QueueSize
    /\ queue' = Append(queue, [ifc |-> i, id |-> in_hand[i]])
    /\ UNCHANGED <<socketVars, datagrams, tasks, daemon>>

(* sender.send finds room, perhaps after a while.                          *)
SendPacket(i) ==
    /\ task[i] = "send" /\ loop # "exited"
    /\ Len(queue) < QueueSize
    /\ queue' = Append(queue, [ifc |-> i, id |-> in_hand[i]])
    /\ task' = [task EXCEPT ![i] = "recv"]
    /\ in_hand' = [in_hand EXCEPT ![i] = None]
    /\ UNCHANGED <<socketVars, datagrams, cut, daemon>>

(* The channel is closed: the error is ignored and the task goes on, until *)
(* the process ends.                                                       *)
SendIgnored(i) ==
    /\ task[i] = "send" /\ loop = "exited"
    /\ task' = [task EXCEPT ![i] = "recv"]
    /\ in_hand' = [in_hand EXCEPT ![i] = None]
    /\ UNCHANGED <<socketVars, datagrams, cut, queue, daemon>>

-----------------------------------------------------------------------------
(* The event loop.                                                         *)

TakePacket ==
    /\ phase = "run" /\ loop = "select" /\ queue # <<>>
    /\ loop' = "handling" /\ current' = Head(queue)
    /\ queue' = Tail(queue)
    /\ UNCHANGED <<socketVars, datagrams, tasks, handled, exit>>

(* A timer, an HTTP request or a signal comes first.                       *)
OtherEvent ==
    /\ phase = "run" /\ loop = "select"
    /\ loop' = "handling"
    /\ UNCHANGED <<socketVars, datagrams, tasks, queue, current, handled, exit>>

(* The packet was a request, and is answered through a socket of its own,  *)
(* which is closed at the end.                                             *)
OpenAnswer(i) ==
    /\ loop = "handling" /\ current # None /\ current.ifc = i
    /\ OpenUnicast(i)
    /\ UNCHANGED <<datagrams, tasks, queue, daemon>>

(* The handler is done, or it fails, or it was the one of a signal.  The   *)
(* channel is dropped with what is in it when run() returns.               *)
HandlerDone ==
    /\ phase = "run" /\ loop = "handling"
    /\ handled' = IF current = None THEN handled ELSE Append(handled, current)
    /\ current' = None
    /\ \/ loop' = "select" /\ UNCHANGED <<queue, exit>>
       \/ loop' = "exited" /\ exit' = "handler" /\ queue' = <<>>
    /\ UNCHANGED <<datagrams, tasks>>
    /\ CloseUnicast

(* Mutant: the daemon keeps a sender of its own.                           *)
ReceiveTasksStoppedUnseen == FALSE /\ UNCHANGED vars

(* rx.recv() returns None: every sender is gone and the channel is empty.  *)
ReceiveTasksStopped ==
    /\ phase = "run" /\ loop = "select" /\ queue = <<>>
    /\ \A i \in Ifc : task[i] \in {"none", "stopped"}
    /\ loop' = "exited" /\ exit' = "tasks_stopped"
    /\ UNCHANGED <<socketVars, datagrams, tasks, queue, current, handled>>

Terminated ==
    /\ loop = "exited" \/ phase \notin {"setup", "run"}
    /\ UNCHANGED vars

Next ==
    \/ SetUp \/ SpawnRxTasks
    \/ \E dev \in Device, form \in Form :
           MulticastArrives(dev, form) \/ UnicastArrives(dev, form)
    \/ \E i \in Ifc :
           \/ RecvFrom(i) \/ RecvUnparsable(i) \/ RecvFails(i)
           \/ SendPacket(i) \/ SendIgnored(i)
           \/ SendMulticast(i) \/ OpenAnswer(i)
    \/ TakePacket \/ OtherEvent \/ HandlerDone \/ ReceiveTasksStopped
    \/ Terminated

Spec == Init /\ [][Next]_vars

(* Tasks and handlers are scheduled; select! polls its branches in random  *)
(* order; and the room in the channel goes to the senders first come,      *)
(* first served.                                                           *)
Fairness ==
    /\ WF_vars(HandlerDone)
    /\ SF_vars(TakePacket)
    /\ SF_vars(ReceiveTasksStopped)
    /\ \A i \in Ifc : /\ WF_vars(RecvFrom(i) \/ RecvUnparsable(i))
                      /\ SF_vars(SendPacket(i))

FairSpec == Spec /\ Fairness

-----------------------------------------------------------------------------
(* Properties.                                                             *)

(* All packets past the sockets, the oldest first.                         *)
Pipeline ==
    handled \o (IF current = None THEN <<>> ELSE <<current>>) \o queue

Ids(i) == {Pipeline[n].id : n \in {m \in DOMAIN Pipeline : Pipeline[m].ifc = i}}

(* The packets of one interface are handled in the order in which they     *)
(* came, and none of them twice, however the tasks are interleaved.        *)
InOrderAtMostOnce ==
    \A m, n \in DOMAIN Pipeline :
        (m < n /\ Pipeline[m].ifc = Pipeline[n].ifc)
            => Pipeline[m].id < Pipeline[n].id

(* An interface hears exactly the datagrams of its neighbours for which    *)
(* its socket had room: none of the daemon's own, although sockets that    *)
(* send are bound to the same port; none less for a socket that cannot     *)
(* share the port or a channel that is full.  A task that broke has handed *)
(* on what came before the datagram at which it broke; that one, what the  *)
(* socket held behind it and all that came later are lost.                 *)
HearsTheNeighbours ==
    loop # "exited" =>
        \A i \in Ifc :
            LET heard == {buffer[i][n].id : n \in DOMAIN buffer[i]}
                         \cup Ids(i) \cup ({in_hand[i]} \ {None})
            IN  heard = {x \in expected[i] : task[i] = "stopped" => x < cut[i]}

(* A task that waits for room in the channel gets it: no interface is      *)
(* starved by the packets of another one.                                  *)
EveryPacketHandled ==
    \A i \in Ifc, n \in 1 .. MaxDatagrams :
        in_hand[i] = n ~>
            \/ loop = "exited"
            \/ \E m \in DOMAIN handled : handled[m] = [ifc |-> i, id |-> n]

(* A daemon that can hear nothing any more does not linger, be it because  *)
(* its tasks have stopped or because no interface is configured.           *)
DeafDaemonExits ==
    (phase = "run" /\ \A i \in Ifc : task[i] \in {"none", "stopped"})
        ~> loop = "exited"

=============================================================================
