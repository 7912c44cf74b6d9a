------------------------- MODULE ReceiveTasksProofs -------------------------
(***************************************************************************)
(* The way of a datagram for any number of interfaces, configured in any   *)
(* way, any buffers and any channel: it is handled at most once and in its *)
(* turn, and an interface hears its neighbours and nobody else.            *)
(***************************************************************************)
EXTENDS ReceiveTasks, SequenceTheorems, TLAPS

-----------------------------------------------------------------------------
(* The inductive invariant.                                                *)

(* The sockets that the n-th interface of the configuration may have.      *)
SocketsOf(n) == [rx : {None, create_multicast_rx_socket(rip_cfg[n])},
                 tx : {create_multicast_tx_socket(rip_cfg[n])}]

(* The interfaces are set up in the order of the configuration, all of     *)
(* them before the daemon runs, and nothing stands in the way of a socket. *)
SocketsInv ==
    /\ rip_cfg \in Configurations
    /\ interfaces \in Seq(RipIfc)
    /\ Len(interfaces) <= Len(rip_cfg)
    /\ \A n \in DOMAIN interfaces : interfaces[n] \in SocketsOf(n)
    /\ todo \in Seq(Device)
    /\ phase \in {"setup", "run", "setup_failed"}
    /\ phase = "setup" =>
           /\ unicast = None
           /\ Len(interfaces) + Len(todo) = Len(rip_cfg)
           /\ \A n \in DOMAIN todo : todo[n] = rip_cfg[Len(interfaces) + n]
           /\ tx # None =>
                  todo # <<>> /\ tx = create_multicast_tx_socket(Head(todo))
    /\ phase = "run" =>
           /\ tx = None
           /\ Len(interfaces) = Len(rip_cfg)
           /\ unicast # None =>
                  \E dev \in Device : unicast = create_unicast_tx_socket(dev)
    /\ phase = "setup_failed" =>
           tx = None /\ interfaces = <<>> /\ unicast = None

(* The numbers that the packets of an interface have in a sequence of      *)
(* packets, and the order in which they ought to be.                       *)
IdsOf(p, i) == {p[n].id : n \in {m \in DOMAIN p : p[m].ifc = i}}

InOrder(p) ==
    \A m, n \in DOMAIN p : (m < n /\ p[m].ifc = p[n].ifc) => p[m].id < p[n].id

Datagram == [id : Nat, form : Form]

(* The way of the datagrams of one interface: those past the task, the one *)
(* in its hand, those in the buffer, all numbered up to top.               *)
Chain(past, hand, waiting, top) ==
    /\ past \subseteq 1 .. top
    /\ hand \in {None} \cup 1 .. top
    /\ waiting \in Seq(Datagram)
    /\ hand # None => \A x \in past : x < hand
    /\ \A n \in DOMAIN waiting :
           /\ waiting[n].id \in 1 .. top
           /\ \A x \in past : x < waiting[n].id
           /\ hand # None => hand < waiting[n].id
    /\ \A m, n \in DOMAIN waiting : m < n => waiting[m].id < waiting[n].id

(* What an interface has heard, and what it should have: all that was due, *)
(* and of a task that broke what was due before stop.                      *)
HeardOf(past, hand, waiting) ==
    {waiting[n].id : n \in DOMAIN waiting} \cup past \cup ({hand} \ {None})

Complete(past, hand, waiting, state, stop, due, top) ==
    /\ due \subseteq 1 .. top
    /\ state = "stopped" => stop \in 1 .. top + 1
    /\ HeardOf(past, hand, waiting) = {x \in due : state = "stopped" => x < stop}

(* One interface: its task and its datagrams, until the loop has exited.   *)
Way(past, hand, waiting, state, stop, due, top, looping) ==
    /\ state \in {"none", "recv", "send", "stopped"}
    /\ hand = None <=> state # "send"
    /\ Chain(past, hand, waiting, top)
    /\ looping # "exited" =>
           Complete(past, hand, waiting, state, stop, due, top)

(* The datagrams that an interface may have seen.                          *)
TopOf(cfg, count, i) == IF i \in DOMAIN cfg THEN count[cfg[i]] ELSE 0

(* The packets past the tasks.                                             *)
Past(done, now, waiting) ==
    done \o (IF now = None THEN <<>> ELSE <<now>>) \o waiting

LoopInv ==
    /\ handled \in Seq(Packet) /\ queue \in Seq(Packet)
    /\ current \in Packet \cup {None}
    /\ loop \in {"select", "handling", "exited"}
    /\ loop # "handling" => current = None
    /\ loop = "exited" => queue = <<>>
    /\ InOrder(Past(handled, current, queue))

(* There is a task for every interface that is set up, and it owns the     *)
(* receiving socket until it breaks.                                       *)
OwnedInv ==
    /\ phase = "setup" => \A i \in Ifc : task[i] = "none"
    /\ \A i \in Ifc :
           /\ task[i] # "none" => i \in DOMAIN rip_cfg
           /\ i \in DOMAIN interfaces =>
                  (interfaces[i].rx = None <=> task[i] = "stopped")

WayInv ==
    /\ arrived \in [Device -> Nat]
    /\ DOMAIN expected = Ifc /\ DOMAIN buffer = Ifc
    /\ DOMAIN in_hand = Ifc /\ DOMAIN task = Ifc /\ DOMAIN cut = Ifc
    /\ \A i \in Ifc :
           Way(IdsOf(Past(handled, current, queue), i), in_hand[i], buffer[i],
               task[i], cut[i], expected[i], TopOf(rip_cfg, arrived, i), loop)

ReceiveInv == SocketsInv /\ OwnedInv /\ LoopInv /\ WayInv

-----------------------------------------------------------------------------
(* Sockets.                                                                *)

(* Every socket shares its port.  Those that receive are in the group, and *)
(* those that send do not hear themselves.                                 *)
LEMMA SocketFields ==
    ASSUME NEW dev
    PROVE  /\ LET rx_socket == create_multicast_rx_socket(dev)
              IN  /\ rx_socket.bound_to = dev /\ rx_socket.reuse_port
                  /\ rx_socket.multicast_group /\ rx_socket.role = "rx"
           /\ LET tx_socket == create_multicast_tx_socket(dev)
              IN  /\ tx_socket.bound_to = dev /\ tx_socket.reuse_port
                  /\ ~tx_socket.multicast_group
                  /\ ~tx_socket.multicast_loop /\ tx_socket.role = "tx"
           /\ LET uc_socket == create_unicast_tx_socket(dev)
              IN  /\ uc_socket.bound_to = dev /\ uc_socket.reuse_port
                  /\ ~uc_socket.multicast_group /\ uc_socket.role = "unicast"
BY DEF create_multicast_rx_socket, create_multicast_tx_socket,
       create_unicast_tx_socket, bind_port_and_device

(* What is opened is a socket.                                             *)
LEMMA SocketType ==
    ASSUME NEW dev \in Device
    PROVE  /\ create_multicast_rx_socket(dev) \in Socket
           /\ create_multicast_tx_socket(dev) \in Socket
BY DEF create_multicast_rx_socket, create_multicast_tx_socket,
       bind_port_and_device, Socket

(* What an open socket is.                                                 *)
RxAt(s) ==
    \E n \in DOMAIN interfaces :
        /\ s.at = n /\ interfaces[n].rx # None
        /\ s.socket = create_multicast_rx_socket(rip_cfg[n])

SendsOnly(socket) ==
    \E dev : \/ socket = create_multicast_tx_socket(dev)
             \/ socket = create_unicast_tx_socket(dev)

(* What a socket that only sends is like.                                  *)
LEMMA SendsOnlyFields ==
    ASSUME NEW socket, SendsOnly(socket)
    PROVE  socket.reuse_port /\ ~socket.multicast_group /\ socket.role # "rx"
<1>1. PICK dev : \/ socket = create_multicast_tx_socket(dev)
                 \/ socket = create_unicast_tx_socket(dev)
  BY DEF SendsOnly
<1>2. QED
  BY <1>1, SocketFields

(* The sockets of an interface that is set up.                             *)
LEMMA InterfaceSockets ==
    ASSUME SocketsInv, NEW n \in DOMAIN interfaces
    PROVE  /\ interfaces[n].rx # None =>
                  interfaces[n].rx = create_multicast_rx_socket(rip_cfg[n])
           /\ interfaces[n].tx = create_multicast_tx_socket(rip_cfg[n])
<1>1. interfaces[n] \in SocketsOf(n)
  BY Zenon DEF SocketsInv
<1>2. QED
  BY <1>1 DEF SocketsOf

(* Once the daemon runs, they are those of the configuration; a daemon     *)
(* whose start failed has none.                                            *)
LEMMA InterfacesSetUp ==
    ASSUME SocketsInv, phase # "setup"
    PROVE  IF phase = "run" THEN DOMAIN interfaces = DOMAIN rip_cfg
                            ELSE DOMAIN interfaces = {}
<1>1. CASE phase = "run"
  <2>1. /\ Len(interfaces) = Len(rip_cfg)
        /\ interfaces \in Seq(RipIfc)
        /\ rip_cfg \in Configurations
    BY <1>1, Zenon DEF SocketsInv
  <2>2. rip_cfg \in Seq(Device)
    BY <2>1, SocketAssumption
  <2>3. QED
    BY <1>1, <2>1, <2>2
<1>2. CASE phase # "run"
  <2>1. interfaces = <<>>
    <3>1. /\ phase \in {"setup", "run", "setup_failed"}
          /\ phase = "setup_failed" => interfaces = <<>>
      BY DEF SocketsInv
    <3>2. QED
      BY <1>2, <3>1
  <2>2. DOMAIN <<>> = {}
    OBVIOUS
  <2>3. QED
    BY <1>2, <2>1, <2>2
<1>3. QED
  BY <1>1, <1>2

(* It receives for one of the interfaces or only sends.                    *)
LEMMA SocketCases ==
    ASSUME SocketsInv, NEW s \in OpenSockets
    PROVE  RxAt(s) \/ SendsOnly(s.socket)
<1>1. CASE s \in {[at |-> n, socket |-> interfaces[n].rx] :
                      n \in {m \in DOMAIN interfaces : interfaces[m].rx # None}}
  <2>1. PICK n \in DOMAIN interfaces :
            interfaces[n].rx # None /\ s = [at |-> n, socket |-> interfaces[n].rx]
    BY <1>1
  <2>2. s.at = n /\ s.socket = interfaces[n].rx
    BY <2>1
  <2>3. interfaces[n].rx = create_multicast_rx_socket(rip_cfg[n])
    BY <2>1, InterfaceSockets
  <2>4. QED
    BY <2>1, <2>2, <2>3 DEF RxAt
<1>2. CASE s \in {[at |-> n, socket |-> interfaces[n].tx] : n \in DOMAIN interfaces}
  <2>1. PICK n \in DOMAIN interfaces : s = [at |-> n, socket |-> interfaces[n].tx]
    BY <1>2
  <2>2. s.socket = interfaces[n].tx
    BY <2>1
  <2>3. interfaces[n].tx = create_multicast_tx_socket(rip_cfg[n])
    BY InterfaceSockets
  <2>4. QED
    BY <2>2, <2>3 DEF SendsOnly
<1>3. CASE tx # None /\ s = [at |-> Len(interfaces) + 1, socket |-> tx]
  <2>1. s.socket = tx
    BY <1>3
  <2>2. tx = create_multicast_tx_socket(Head(todo))
    BY <1>3, Zenon DEF SocketsInv
  <2>3. QED
    BY <2>1, <2>2 DEF SendsOnly
<1>4. CASE unicast # None /\ s = [at |-> 0, socket |-> unicast]
  <2>1. s.socket = unicast
    BY <1>4
  <2>2. PICK dev \in Device : unicast = create_unicast_tx_socket(dev)
    BY <1>4, Zenon DEF SocketsInv
  <2>3. QED
    BY <2>1, <2>2 DEF SendsOnly
<1>5. QED
  BY <1>1, <1>2, <1>3, <1>4 DEF OpenSockets

(* No socket stands in the way of another one.                             *)
LEMMA NoAddressInUse ==
    ASSUME SocketsInv, NEW socket, socket.reuse_port
    PROVE  ~AddressInUse(socket)
<1>1. ASSUME NEW s \in OpenSockets PROVE s.socket.reuse_port
  <2>1. CASE RxAt(s)
    BY <2>1, SocketFields DEF RxAt
  <2>2. CASE SendsOnly(s.socket)
    BY <2>2, SendsOnlyFields
  <2>3. QED
    BY <2>1, <2>2, SocketCases
<1>2. QED
  BY <1>1 DEF AddressInUse

(* A multicast is for all interfaces that are configured for its device    *)
(* and still have their socket.                                            *)
LEMMA MulticastReaches ==
    ASSUME SocketsInv, NEW dev, phase # "setup"
    PROVE  MulticastTo(dev) =
               {n \in DOMAIN interfaces :
                   rip_cfg[n] = dev /\ interfaces[n].rx # None}
<1> DEFINE mine == {n \in DOMAIN interfaces :
                       rip_cfg[n] = dev /\ interfaces[n].rx # None}
<1>1. ASSUME NEW at \in MulticastTo(dev) PROVE at \in mine
  <2>1. PICK s \in OpenSockets : /\ s.at = at /\ s.socket.bound_to = dev
                                 /\ s.socket.multicast_group
    BY DEF MulticastTo, On
  <2>2. ~SendsOnly(s.socket)
    BY <2>1, SendsOnlyFields
  <2>3. PICK n \in DOMAIN interfaces :
            /\ s.at = n /\ interfaces[n].rx # None
            /\ s.socket = create_multicast_rx_socket(rip_cfg[n])
    BY <2>2, SocketCases DEF RxAt
  <2>4. s.socket.bound_to = rip_cfg[n]
    BY <2>3, SocketFields
  <2>5. QED
    BY <2>1, <2>3, <2>4
<1>2. ASSUME NEW n \in mine PROVE n \in MulticastTo(dev)
  <2> DEFINE s == [at |-> n, socket |-> interfaces[n].rx]
  <2>1. s \in OpenSockets
    BY DEF OpenSockets
  <2>2. /\ interfaces[n].rx = create_multicast_rx_socket(rip_cfg[n])
        /\ rip_cfg[n] = dev
    BY InterfaceSockets
  <2>3. /\ s.at = n /\ s.socket.bound_to = dev
        /\ s.socket.multicast_group
    <3>1. s.at = n /\ s.socket = create_multicast_rx_socket(rip_cfg[n])
      BY <2>2
    <3> HIDE DEF s
    <3>2. QED
      BY <2>2, <3>1, SocketFields
  <2> HIDE DEF s
  <2>4. s \in {x \in On(dev) : x.socket.multicast_group}
    BY <2>1, <2>3 DEF On
  <2>5. QED
    BY <2>3, <2>4 DEF MulticastTo
<1>3. QED
  BY <1>1, <1>2

(* A unicast is for one of these interfaces, if anybody reads it.          *)
LEMMA UnicastReaches ==
    ASSUME SocketsInv, NEW dev, phase # "setup", NEW i \in UnicastTo(dev), i # 0
    PROVE  /\ i \in DOMAIN interfaces /\ rip_cfg[i] = dev
           /\ interfaces[i].rx # None
<1>1. PICK s \in OpenSockets : /\ s.socket.bound_to = dev
                               /\ i = IF s.socket.role = "rx" THEN s.at ELSE 0
  BY DEF UnicastTo, On
<1>2. s.socket.role = "rx" /\ i = s.at
  BY <1>1
<1>3. ~SendsOnly(s.socket)
  BY <1>2, SendsOnlyFields
<1>4. PICK n \in DOMAIN interfaces :
          /\ s.at = n /\ interfaces[n].rx # None
          /\ s.socket = create_multicast_rx_socket(rip_cfg[n])
  BY <1>3, SocketCases DEF RxAt
<1>5. s.socket.bound_to = rip_cfg[n]
  BY <1>4, SocketFields
<1>6. rip_cfg[n] = dev /\ i = n
  BY <1>1, <1>2, <1>4, <1>5
<1>7. QED
  BY <1>4, <1>6

(* Nothing that the daemon multicasts comes back to it.                    *)
LEMMA NotItself ==
    ASSUME SocketsInv, NEW n \in DOMAIN interfaces
    PROVE  OwnMulticastTo(n) = {}
<1>1. interfaces[n].tx = create_multicast_tx_socket(rip_cfg[n])
  BY InterfaceSockets
<1>2. ~interfaces[n].tx.multicast_loop
  BY <1>1, SocketFields
<1>3. QED
  BY <1>2 DEF OwnMulticastTo

-----------------------------------------------------------------------------
(* The sockets stay in order.                                              *)

(* The configuration names devices.                                        *)
LEMMA ConfiguredDevices ==
    ASSUME SocketsInv
    PROVE  /\ rip_cfg \in Seq(Device) /\ Len(rip_cfg) \in Nat
           /\ DOMAIN rip_cfg = 1 .. Len(rip_cfg) /\ DOMAIN rip_cfg \subseteq Ifc
<1>1. rip_cfg \in Configurations
  BY DEF SocketsInv
<1>2. rip_cfg \in Seq(Device) /\ Len(rip_cfg) <= MaxInterfaces
  BY <1>1, SocketAssumption, ReceiveAssumption
<1>3. QED
  BY <1>2, ReceiveAssumption DEF Ifc

(* The sending socket of the next interface.                               *)
LEMMA CreateTxKeeps ==
    ASSUME SocketsInv, CreateTx
    PROVE  SocketsInv'
<1> DEFINE socket == create_multicast_tx_socket(Head(todo))
<1>1. socket.reuse_port
  BY SocketFields
<1>2. ~AddressInUse(socket)
  BY <1>1, NoAddressInUse
<1>3. /\ phase = "setup" /\ todo # <<>>
      /\ tx' = socket
      /\ UNCHANGED <<phase, rip_cfg, todo, interfaces, unicast>>
  BY <1>2 DEF CreateTx
<1> HIDE DEF socket
<1>4. QED
  BY <1>3 DEF SocketsInv, SocketsOf, socket

(* Its receiving socket, with which the interface is complete.             *)
LEMMA CreateRxKeeps ==
    ASSUME SocketsInv, CreateRx
    PROVE  SocketsInv'
<1> DEFINE socket == create_multicast_rx_socket(Head(todo))
           ifc == [rx |-> socket, tx |-> tx]
           len == Len(interfaces)
<1>1. /\ phase = "setup" /\ unicast = None /\ todo # <<>>
      /\ tx = create_multicast_tx_socket(Head(todo))
      /\ todo \in Seq(Device) /\ interfaces \in Seq(RipIfc)
      /\ len + Len(todo) = Len(rip_cfg)
      /\ \A n \in DOMAIN todo : todo[n] = rip_cfg[len + n]
      /\ \A n \in DOMAIN interfaces : interfaces[n] \in SocketsOf(n)
      /\ rip_cfg \in Configurations
  BY DEF SocketsInv, CreateRx
<1>2. socket.reuse_port
  BY SocketFields
<1>3. ~AddressInUse(socket)
  BY <1>2, NoAddressInUse
<1>4. /\ interfaces' = Append(interfaces, ifc)
      /\ tx' = None /\ todo' = Tail(todo)
      /\ UNCHANGED <<phase, rip_cfg, unicast>>
  BY <1>3 DEF CreateRx
<1>5. /\ Head(todo) \in Device /\ Head(todo) = rip_cfg[len + 1]
      /\ Len(todo) \in Nat \ {0} /\ len \in Nat /\ Len(rip_cfg) \in Nat
  <2>1. Len(rip_cfg) \in Nat
    BY ConfiguredDevices
  <2>2. len \in Nat
    BY <1>1
  <2>3. Len(todo) \in Nat \ {0} /\ Head(todo) \in Device /\ Head(todo) = todo[1]
    BY <1>1
  <2>4. 1 \in DOMAIN todo
    BY <1>1, <2>3
  <2>5. QED
    BY <1>1, <2>1, <2>2, <2>3, <2>4
<1>6. /\ ifc \in RipIfc
      /\ ifc \in SocketsOf(len + 1)
  BY <1>1, <1>5, SocketType DEF SocketsOf, RipIfc
<1> HIDE DEF ifc, socket
<1>7. /\ interfaces' \in Seq(RipIfc)
      /\ Len(interfaces') = len + 1
      /\ interfaces'[len + 1] = ifc
      /\ DOMAIN interfaces' = DOMAIN interfaces \cup {len + 1}
      /\ \A n \in DOMAIN interfaces : interfaces'[n] = interfaces[n]
  BY <1>1, <1>4, <1>5, <1>6
<1>8. /\ todo' \in Seq(Device)
      /\ Len(todo') = Len(todo) - 1
      /\ \A n \in DOMAIN todo' : n + 1 \in DOMAIN todo /\ todo'[n] = todo[n + 1]
  BY <1>1, <1>4
<1>9. \A n : SocketsOf(n)' = SocketsOf(n)
  BY <1>4 DEF SocketsOf
<1>10. \A n \in DOMAIN interfaces' : interfaces'[n] \in SocketsOf(n)'
  BY <1>1, <1>6, <1>7, <1>9
<1>11. \A n \in DOMAIN todo' : todo'[n] = rip_cfg[Len(interfaces') + n]
  <2>1. SUFFICES ASSUME NEW n \in DOMAIN todo'
                 PROVE  todo'[n] = rip_cfg[(len + 1) + n]
    BY <1>7
  <2>2. todo'[n] = rip_cfg[len + (n + 1)] /\ n \in Nat
    BY <1>1, <1>8
  <2>3. (len + 1) + n = len + (n + 1)
    BY <1>5, <2>2
  <2>4. QED
    BY <2>2, <2>3
<1>12. /\ Len(interfaces') + Len(todo') = Len(rip_cfg)
       /\ Len(interfaces') <= Len(rip_cfg)
  <2> DEFINE left_over == Len(todo)
             all == Len(rip_cfg)
  <2>1. /\ left_over \in Nat \ {0} /\ len \in Nat /\ all \in Nat
        /\ len + left_over = all
    BY <1>1, <1>5
  <2> HIDE DEF left_over, all, len
  <2>2. (len + 1) + (left_over - 1) = all /\ len + 1 <= all
    BY <2>1
  <2>3. QED
    BY <1>7, <1>8, <2>2 DEF left_over, all, len
<1>13. QED
  BY <1>1, <1>4, <1>7, <1>8, <1>10, <1>11, <1>12 DEF SocketsInv

(* That socket is open.                                                    *)
LEMMA CreateRxOpens ==
    ASSUME SocketsInv, CreateRx,
           \A i \in Ifc : i \in DOMAIN interfaces => interfaces[i].rx # None
    PROVE  \A i \in Ifc : i \in DOMAIN interfaces' => interfaces'[i].rx # None
<1> DEFINE socket == create_multicast_rx_socket(Head(todo))
           ifc == [rx |-> socket, tx |-> tx]
<1>1. socket.reuse_port
  BY SocketFields
<1>2. interfaces' = Append(interfaces, ifc)
  BY <1>1, NoAddressInUse DEF CreateRx
<1>3. /\ phase = "setup" /\ todo # <<>> /\ todo \in Seq(Device)
      /\ interfaces \in Seq(RipIfc) /\ tx \in Socket
  BY SocketType DEF SocketsInv, CreateRx
<1>4. socket \in Socket /\ socket # None /\ ifc \in RipIfc /\ ifc.rx = socket
  BY <1>3, SocketType, SocketAssumption DEF RipIfc
<1> HIDE DEF socket, ifc
<1>5. /\ DOMAIN interfaces' = DOMAIN interfaces \cup {Len(interfaces) + 1}
      /\ interfaces'[Len(interfaces) + 1] = ifc
      /\ \A n \in DOMAIN interfaces : interfaces'[n] = interfaces[n]
  BY <1>2, <1>3, <1>4
<1>6. QED
  BY <1>4, <1>5

(* The start fails.                                                        *)
LEMMA SetupFailsKeeps ==
    ASSUME SocketsInv, SetupFails
    PROVE  SocketsInv'
<1>1. /\ phase' = "setup_failed"
      /\ tx' = None /\ interfaces' = <<>> /\ unicast' = None
      /\ rip_cfg' = rip_cfg /\ todo' = todo
  BY DEF SetupFails, Drop
<1>2. /\ <<>> \in Seq(RipIfc) /\ Len(<<>>) = 0
      /\ DOMAIN <<>> = {}
  OBVIOUS
<1>3. Len(rip_cfg) \in Nat
  BY ConfiguredDevices
<1>4. /\ interfaces' \in Seq(RipIfc)
      /\ Len(interfaces') <= Len(rip_cfg')
      /\ \A n \in DOMAIN interfaces' : interfaces'[n] \in SocketsOf(n)'
  BY <1>1, <1>2, <1>3
<1>5. rip_cfg \in Configurations /\ todo \in Seq(Device)
  BY DEF SocketsInv
<1>6. QED
  BY <1>1, <1>4, <1>5 DEF SocketsInv

(* All interfaces are set up.                                              *)
LEMMA SetupDoneKeeps ==
    ASSUME SocketsInv, SetupDone
    PROVE  SocketsInv'
<1>1. /\ phase = "setup" /\ todo = <<>> /\ phase' = "run"
      /\ UNCHANGED <<rip_cfg, todo, tx, interfaces, unicast>>
  BY DEF SetupDone
<1>2. Len(todo) = 0 /\ Len(interfaces) \in Nat /\ Len(rip_cfg) \in Nat
  BY <1>1, ConfiguredDevices DEF SocketsInv
<1>3. tx = None /\ unicast = None /\ Len(interfaces) = Len(rip_cfg)
  BY <1>1, <1>2 DEF SocketsInv
<1>4. QED
  BY <1>1, <1>3 DEF SocketsInv, SocketsOf

(* A socket for a unicast response comes and goes.                         *)
LEMMA UnicastKeeps ==
    ASSUME SocketsInv, phase = "run",
           (\E n : OpenUnicast(n)) \/ CloseUnicast
    PROVE  SocketsInv'
<1>1. CASE CloseUnicast
  BY <1>1 DEF CloseUnicast, SocketsInv, SocketsOf
<1>2. ASSUME NEW n, OpenUnicast(n) PROVE SocketsInv'
  <2> DEFINE dev == interfaces[n].tx.bound_to
             socket == create_unicast_tx_socket(dev)
  <2>1. n \in DOMAIN interfaces /\ n \in DOMAIN rip_cfg
    BY <1>2, InterfacesSetUp DEF OpenUnicast
  <2>2. dev = rip_cfg[n]
    BY <2>1, InterfaceSockets, SocketFields
  <2>3. dev \in Device
    BY <2>1, <2>2, ConfiguredDevices
  <2>4. socket.reuse_port
    BY SocketFields
  <2>5. ~AddressInUse(socket)
    BY <2>4, NoAddressInUse
  <2>6. /\ unicast' = socket
        /\ UNCHANGED <<phase, rip_cfg, todo, tx, interfaces>>
    BY <1>2, <2>5 DEF OpenUnicast
  <2> HIDE DEF dev
  <2>7. QED
    BY <2>3, <2>6 DEF SocketsInv, SocketsOf
<1>3. QED
  BY <1>1, <1>2

(* A task drops its receiving socket.                                      *)
LEMMA DropRxKeeps ==
    ASSUME SocketsInv, NEW i, DropRx(i)
    PROVE  /\ SocketsInv'
           /\ DOMAIN interfaces' = DOMAIN interfaces
           /\ \A n \in DOMAIN interfaces :
                  interfaces'[n].rx = IF n = i THEN None ELSE interfaces[n].rx
<1>1. /\ interfaces' = [interfaces EXCEPT ![i].rx = None]
      /\ UNCHANGED <<phase, rip_cfg, todo, tx, unicast>>
  BY DEF DropRx
<1>2. /\ interfaces \in Seq(RipIfc)
      /\ \A n \in DOMAIN interfaces : interfaces[n] \in SocketsOf(n)
  BY DEF SocketsInv
<1>3. /\ DOMAIN interfaces' = DOMAIN interfaces
      /\ \A n \in DOMAIN interfaces :
             interfaces'[n] = IF n = i THEN [interfaces[n] EXCEPT !.rx = None]
                                       ELSE interfaces[n]
  BY <1>1
<1>4. ASSUME NEW n \in DOMAIN interfaces
      PROVE  /\ interfaces'[n] \in RipIfc /\ interfaces'[n] \in SocketsOf(n)
             /\ interfaces'[n].rx = IF n = i THEN None ELSE interfaces[n].rx
  <2>1. interfaces[n] \in RipIfc /\ interfaces[n] \in SocketsOf(n)
    BY <1>2
  <2>2. QED
    BY <1>3, <2>1 DEF RipIfc, SocketsOf
<1>5. interfaces' \in Seq(RipIfc) /\ Len(interfaces') = Len(interfaces)
  <2>1. /\ Len(interfaces) \in Nat /\ DOMAIN interfaces = 1 .. Len(interfaces)
    BY <1>2
  <2>2. interfaces' = [n \in 1 .. Len(interfaces) |-> interfaces'[n]]
    BY <1>1, <2>1
  <2>3. interfaces' \in [1 .. Len(interfaces) -> RipIfc]
    BY <1>4, <2>1, <2>2
  <2>4. QED
    BY <2>1, <2>3
<1>6. \A n : SocketsOf(n)' = SocketsOf(n)
  BY <1>1 DEF SocketsOf
<1>7. phase = "setup_failed" => interfaces' = <<>>
  <2>1. ASSUME phase = "setup_failed" PROVE interfaces' = <<>>
    <3>1. interfaces = <<>>
      BY <2>1 DEF SocketsInv
    <3>2. Len(interfaces) = 0
      BY <3>1
    <3>3. QED
      BY <1>5, <3>2
  <2>2. QED
    BY <2>1
<1>8. SocketsInv'
  BY <1>1, <1>3, <1>4, <1>5, <1>6, <1>7 DEF SocketsInv
<1>9. QED
  BY <1>3, <1>4, <1>8

(* A step that leaves the sockets alone and breaks no task.                *)
LEMMA SocketsStay ==
    ASSUME SocketsInv, OwnedInv, UNCHANGED socketVars,
           phase = "setup" => task' = task,
           \A i \in Ifc : /\ task'[i] = "stopped" <=> task[i] = "stopped"
                          /\ task'[i] = "none" <=> task[i] = "none"
    PROVE  SocketsInv' /\ OwnedInv'
<1>1. UNCHANGED <<phase, rip_cfg, todo, tx, interfaces, unicast>>
  BY DEF socketVars
<1>2. SocketsInv'
  BY <1>1 DEF SocketsInv, SocketsOf
<1>3. OwnedInv'
  BY <1>1 DEF OwnedInv
<1>4. QED
  BY <1>2, <1>3

-----------------------------------------------------------------------------
(* Sequences of packets.                                                   *)

(* The next packet of an interface joins the others.                       *)
LEMMA AppendPacket ==
    ASSUME NEW p \in Seq(Packet), InOrder(p), NEW e \in Packet,
           \A x \in IdsOf(p, e.ifc) : x < e.id
    PROVE  /\ InOrder(Append(p, e))
           /\ \A i : IdsOf(Append(p, e), i) =
                         IdsOf(p, i) \cup (IF i = e.ifc THEN {e.id} ELSE {})
<1> DEFINE p2 == Append(p, e)
           last == Len(p) + 1
<1>1. /\ DOMAIN p = 1 .. Len(p) /\ Len(p) \in Nat
      /\ DOMAIN p2 = DOMAIN p \cup {last} /\ last \notin DOMAIN p
      /\ p2[last] = e
      /\ \A n \in DOMAIN p : p2[n] = p[n]
  OBVIOUS
<1>2. ~(last < last) /\ \A n \in DOMAIN p : n < last /\ ~(last < n)
  BY <1>1
<1>3. \A n \in DOMAIN p : p[n].ifc = e.ifc => p[n].id < e.id
  BY DEF IdsOf
<1> HIDE DEF p2, last
<1>4. InOrder(p2)
  <2>1. SUFFICES ASSUME NEW m \in DOMAIN p2, NEW n \in DOMAIN p2,
                        m < n, p2[m].ifc = p2[n].ifc
                 PROVE  p2[m].id < p2[n].id
    BY DEF InOrder
  <2>2. m \in DOMAIN p
    BY <1>1, <1>2, <2>1
  <2>3. CASE n \in DOMAIN p
    BY <1>1, <2>1, <2>2, <2>3 DEF InOrder
  <2>4. CASE n = last
    BY <1>1, <1>3, <2>1, <2>2, <2>4
  <2>5. QED
    BY <1>1, <2>3, <2>4
<1>5. ASSUME NEW i
      PROVE  IdsOf(p2, i) =
                 IdsOf(p, i) \cup (IF i = e.ifc THEN {e.id} ELSE {})
  BY <1>1 DEF IdsOf
<1>6. QED
  BY <1>4, <1>5 DEF p2

(* The last packets are dropped.                                           *)
LEMMA DropPackets ==
    ASSUME NEW p \in Seq(Packet), NEW q \in Seq(Packet), InOrder(p \o q)
    PROVE  InOrder(p) /\ \A i : IdsOf(p, i) \subseteq IdsOf(p \o q, i)
<1> DEFINE p2 == p \o q
<1>1. /\ DOMAIN p \subseteq DOMAIN p2
      /\ \A n \in DOMAIN p : p2[n] = p[n]
  OBVIOUS
<1>2. InOrder(p2)
  OBVIOUS
<1> HIDE DEF p2
<1>3. InOrder(p) /\ \A i : IdsOf(p, i) \subseteq IdsOf(p2, i)
  BY <1>1, <1>2 DEF InOrder, IdsOf
<1>4. QED
  BY <1>3 DEF p2

(* They are packets.                                                       *)
LEMMA PastType ==
    ASSUME NEW done \in Seq(Packet), NEW now \in Packet \cup {None},
           NEW waiting \in Seq(Packet)
    PROVE  Past(done, now, waiting) \in Seq(Packet)
BY DEF Past

(* A packet is taken from the channel.                                     *)
LEMMA PastTaken ==
    ASSUME NEW done \in Seq(Packet), NEW waiting \in Seq(Packet), waiting # <<>>
    PROVE  Past(done, Head(waiting), Tail(waiting)) = Past(done, None, waiting)
<1>1. /\ Head(waiting) \in Packet /\ Tail(waiting) \in Seq(Packet)
      /\ <<Head(waiting)>> \o Tail(waiting) = waiting
  OBVIOUS
<1>2. Head(waiting) # None
  BY <1>1, ReceiveAssumption
<1> DEFINE h == Head(waiting)
           t == Tail(waiting)
<1> HIDE DEF h, t
<1>3. /\ <<h>> \in Seq(Packet) /\ t \in Seq(Packet) /\ h # None
      /\ <<h>> \o t = waiting
  BY <1>1, <1>2 DEF h, t
<1>4. (done \o <<h>>) \o t = done \o (<<h>> \o t)
  BY <1>3, ConcatAssociative
<1>5. done \o <<>> = done
  BY ConcatEmptySeq
<1>6. QED
  BY <1>3, <1>4, <1>5 DEF Past, h, t

(* A packet has been handled.                                              *)
LEMMA PastHandled ==
    ASSUME NEW done \in Seq(Packet), NEW now \in Packet,
           NEW waiting \in Seq(Packet)
    PROVE  Past(Append(done, now), None, waiting) = Past(done, now, waiting)
<1>1. now # None
  BY ReceiveAssumption
<1>2. Append(done, now) = done \o <<now>>
  OBVIOUS
<1>3. Append(done, now) \o <<>> = Append(done, now)
  BY ConcatEmptySeq
<1>4. QED
  BY <1>1, <1>2, <1>3 DEF Past

(* A task sends a packet.                                                  *)
LEMMA PastSent ==
    ASSUME NEW done \in Seq(Packet), NEW now \in Packet \cup {None},
           NEW waiting \in Seq(Packet), NEW e \in Packet
    PROVE  Past(done, now, Append(waiting, e)) = Append(Past(done, now, waiting), e)
<1> DEFINE p == done \o (IF now = None THEN <<>> ELSE <<now>>)
<1>1. p \in Seq(Packet)
  OBVIOUS
<1> HIDE DEF p
<1>2. p \o Append(waiting, e) = Append(p \o waiting, e)
  BY <1>1
<1>3. QED
  BY <1>2 DEF Past, p

(* The channel is dropped.                                                 *)
LEMMA PastDropped ==
    ASSUME NEW done \in Seq(Packet), NEW now \in Packet \cup {None},
           NEW waiting \in Seq(Packet)
    PROVE  Past(done, now, waiting) = Past(done, now, <<>>) \o waiting
<1> DEFINE p == done \o (IF now = None THEN <<>> ELSE <<now>>)
<1>1. p \in Seq(Packet)
  OBVIOUS
<1> HIDE DEF p
<1>2. p \o <<>> = p
  BY <1>1, ConcatEmptySeq
<1>3. QED
  BY <1>2 DEF Past, p

-----------------------------------------------------------------------------
(* The way of the datagrams of one interface.                              *)

(* A datagram comes, and is taken in or not.                               *)
LEMMA ChainArrival ==
    ASSUME NEW past, NEW hand, NEW waiting, NEW top \in Nat,
           Chain(past, hand, waiting, top), NEW form \in Form
    PROVE  /\ Chain(past, hand, waiting, top + 1)
           /\ Chain(past, hand,
                    Append(waiting, [id |-> top + 1, form |-> form]), top + 1)
<1> DEFINE d == [id |-> top + 1, form |-> form]
           waiting2 == Append(waiting, d)
           last == Len(waiting) + 1
<1>1. /\ past \subseteq 1 .. top
      /\ hand \in {None} \cup 1 .. top
      /\ waiting \in Seq(Datagram)
      /\ hand # None => \A x \in past : x < hand
      /\ \A n \in DOMAIN waiting :
             /\ waiting[n].id \in 1 .. top
             /\ \A x \in past : x < waiting[n].id
             /\ hand # None => hand < waiting[n].id
      /\ \A m, n \in DOMAIN waiting : m < n => waiting[m].id < waiting[n].id
  BY DEF Chain
<1>2. d \in Datagram /\ d.id = top + 1
  BY DEF Datagram
<1> HIDE DEF d
<1>3. /\ waiting2 \in Seq(Datagram) /\ Len(waiting) \in Nat
      /\ DOMAIN waiting = 1 .. Len(waiting)
      /\ DOMAIN waiting2 = DOMAIN waiting \cup {last}
      /\ waiting2[last] = d
      /\ \A n \in DOMAIN waiting : waiting2[n] = waiting[n]
  BY <1>1, <1>2
<1>4. ~(last < last) /\ \A n \in DOMAIN waiting : ~(last < n)
  BY <1>3
<1> HIDE DEF waiting2, last
<1>5. /\ past \subseteq 1 .. top + 1 /\ hand \in {None} \cup 1 .. top + 1
      /\ \A x \in 1 .. top : x \in 1 .. top + 1 /\ x < top + 1
      /\ top + 1 \in 1 .. top + 1
  BY <1>1
<1>6. Chain(past, hand, waiting, top + 1)
  BY <1>1, <1>5 DEF Chain
<1>7. ASSUME NEW n \in DOMAIN waiting2
      PROVE  /\ waiting2[n].id \in 1 .. top + 1
             /\ \A x \in past : x < waiting2[n].id
             /\ hand # None => hand < waiting2[n].id
  <2>1. CASE n \in DOMAIN waiting
    BY <1>1, <1>3, <1>5, <2>1
  <2>2. CASE n = last
    BY <1>1, <1>2, <1>3, <1>5, <2>2
  <2>3. QED
    BY <1>3, <2>1, <2>2
<1>8. ASSUME NEW m \in DOMAIN waiting2, NEW n \in DOMAIN waiting2, m < n
      PROVE  waiting2[m].id < waiting2[n].id
  <2>1. m \in DOMAIN waiting
    BY <1>3, <1>4, <1>8
  <2>2. CASE n \in DOMAIN waiting
    BY <1>1, <1>3, <1>8, <2>1, <2>2
  <2>3. CASE n = last
    BY <1>1, <1>2, <1>3, <1>5, <2>1, <2>3
  <2>4. QED
    BY <1>3, <2>2, <2>3
<1>9. Chain(past, hand, waiting2, top + 1)
  BY <1>1, <1>3, <1>5, <1>7, <1>8 DEF Chain
<1>10. QED
  BY <1>6, <1>9 DEF waiting2, d

(* What has been heard with it.                                            *)
LEMMA HeardArrival ==
    ASSUME NEW past, NEW hand, NEW waiting \in Seq(Datagram), NEW d \in Datagram
    PROVE  HeardOf(past, hand, Append(waiting, d)) =
               HeardOf(past, hand, waiting) \cup {d.id}
<1> DEFINE waiting2 == Append(waiting, d)
           last == Len(waiting) + 1
<1>1. /\ DOMAIN waiting2 = DOMAIN waiting \cup {last}
      /\ waiting2[last] = d
      /\ \A n \in DOMAIN waiting : waiting2[n] = waiting[n]
  OBVIOUS
<1> HIDE DEF waiting2, last
<1>2. {waiting2[n].id : n \in DOMAIN waiting2} =
          {waiting[n].id : n \in DOMAIN waiting} \cup {d.id}
  BY <1>1
<1>3. HeardOf(past, hand, waiting2) = HeardOf(past, hand, waiting) \cup {d.id}
  BY <1>2 DEF HeardOf
<1>4. QED
  BY <1>3 DEF waiting2

(* A datagram that is due is taken in, and one that is not due is not; a   *)
(* task that broke does not take in any.                                   *)
LEMMA CompleteArrival ==
    ASSUME NEW past, NEW hand, NEW waiting \in Seq(Datagram), NEW state,
           NEW stop, NEW due, NEW top \in Nat, NEW form \in Form,
           Complete(past, hand, waiting, state, stop, due, top)
    PROVE  LET waiting2 == Append(waiting, [id |-> top + 1, form |-> form])
               due2 == due \cup {top + 1}
           IN  /\ Complete(past, hand, waiting, state, stop, due, top + 1)
               /\ IF state = "stopped"
                  THEN Complete(past, hand, waiting, state, stop, due2, top + 1)
                  ELSE Complete(past, hand, waiting2, state, stop, due2, top + 1)
<1> DEFINE d == [id |-> top + 1, form |-> form]
           waiting2 == Append(waiting, d)
           due2 == due \cup {top + 1}
           heard == HeardOf(past, hand, waiting)
<1>1. d \in Datagram /\ d.id = top + 1
  BY DEF Datagram
<1> HIDE DEF d
<1>2. HeardOf(past, hand, waiting2) = heard \cup {top + 1}
  <2>1. d \in Datagram /\ waiting \in Seq(Datagram)
    BY <1>1
  <2>2. HeardOf(past, hand, waiting2) = heard \cup {d.id}
    BY ONLY <2>1, HeardArrival
  <2>3. QED
    BY <1>1, <2>2, Zenon
<1> HIDE DEF waiting2, heard
<1>3. /\ due \subseteq 1 .. top
      /\ state = "stopped" => stop \in 1 .. top + 1
      /\ heard = {x \in due : state = "stopped" => x < stop}
  BY DEF Complete, heard
<1>4. /\ due \subseteq 1 .. top + 1 /\ due2 \subseteq 1 .. top + 1
      /\ state = "stopped" => stop \in 1 .. (top + 1) + 1 /\ ~(top + 1 < stop)
  BY <1>3
<1>5. Complete(past, hand, waiting, state, stop, due, top + 1)
  BY <1>3, <1>4 DEF Complete, heard
<1>6. CASE state = "stopped"
  <2>1. heard = {x \in due2 : state = "stopped" => x < stop}
    BY <1>3, <1>4, <1>6
  <2>2. Complete(past, hand, waiting, state, stop, due2, top + 1)
    BY <1>4, <2>1 DEF Complete, heard
  <2>3. QED
    BY <1>5, <1>6, <2>2
<1>7. CASE state # "stopped"
  <2>1. heard \cup {top + 1} = {x \in due2 : state = "stopped" => x < stop}
    BY <1>3, <1>7
  <2>2. Complete(past, hand, waiting2, state, stop, due2, top + 1)
    BY <1>2, <1>4, <2>1 DEF Complete
  <2>3. QED
    BY <1>5, <1>7, <2>2 DEF waiting2, d
<1>8. QED
  BY <1>6, <1>7

(* The first of the datagrams that wait.                                   *)
LEMMA FirstWaiting ==
    ASSUME NEW waiting \in Seq(Datagram), waiting # <<>>
    PROVE  LET rest == Tail(waiting)
           IN  /\ rest \in Seq(Datagram)
               /\ 1 \in DOMAIN waiting /\ Head(waiting) = waiting[1]
               /\ \A n \in DOMAIN rest :
                      /\ n + 1 \in DOMAIN waiting /\ n \in Nat /\ n > 0
                      /\ rest[n] = waiting[n + 1]
               /\ \A n \in DOMAIN waiting :
                      n # 1 => n - 1 \in DOMAIN rest /\ n \in Nat /\ n > 1
<1>1. /\ Len(waiting) \in Nat \ {0} /\ DOMAIN waiting = 1 .. Len(waiting)
      /\ Head(waiting) = waiting[1]
  OBVIOUS
<1> DEFINE rest == Tail(waiting)
<1>2. /\ rest \in Seq(Datagram) /\ Len(rest) = Len(waiting) - 1
      /\ DOMAIN rest = 1 .. Len(rest)
      /\ \A n \in 1 .. Len(rest) : rest[n] = waiting[n + 1]
  OBVIOUS
<1> HIDE DEF rest
<1>3. QED
  BY <1>1, <1>2 DEF rest

(* The task takes it off the buffer.                                       *)
LEMMA ChainReceived ==
    ASSUME NEW past, NEW waiting, NEW top \in Nat,
           Chain(past, None, waiting, top), waiting # <<>>
    PROVE  Chain(past, Head(waiting).id, Tail(waiting), top)
<1> DEFINE rest == Tail(waiting)
           first == Head(waiting).id
<1>1. /\ past \subseteq 1 .. top
      /\ waiting \in Seq(Datagram)
      /\ \A n \in DOMAIN waiting :
             waiting[n].id \in 1 .. top /\ \A x \in past : x < waiting[n].id
      /\ \A m, n \in DOMAIN waiting : m < n => waiting[m].id < waiting[n].id
  BY DEF Chain
<1>2. /\ rest \in Seq(Datagram)
      /\ 1 \in DOMAIN waiting /\ first = waiting[1].id
      /\ \A n \in DOMAIN rest : /\ n + 1 \in DOMAIN waiting /\ n \in Nat /\ n > 0
                                /\ rest[n] = waiting[n + 1]
  BY <1>1, FirstWaiting
<1> HIDE DEF rest, first
<1>3. first \in 1 .. top /\ \A x \in past : x < first
  BY <1>1, <1>2
<1>4. \A n \in DOMAIN rest : 1 < n + 1
  BY <1>2
<1>5. \A n \in DOMAIN rest : /\ rest[n].id \in 1 .. top
                             /\ \A x \in past : x < rest[n].id
                             /\ first < rest[n].id
  BY <1>1, <1>2, <1>4
<1>6. \A m, n \in DOMAIN rest : m < n => rest[m].id < rest[n].id
  <2>1. SUFFICES ASSUME NEW m \in DOMAIN rest, NEW n \in DOMAIN rest, m < n
                 PROVE  rest[m].id < rest[n].id
    OBVIOUS
  <2>2. m + 1 < n + 1
    BY <1>2, <2>1
  <2>3. QED
    BY <1>1, <1>2, <2>2
<1>7. Chain(past, first, rest, top)
  BY <1>1, <1>2, <1>3, <1>5, <1>6 DEF Chain
<1>8. QED
  BY <1>7 DEF rest, first

(* With the datagram in hand nothing is lost.  It comes after what is past *)
(* and before all that wait behind it.                                     *)
LEMMA HeardReceived ==
    ASSUME NEW past, NEW waiting, NEW top \in Nat,
           Chain(past, None, waiting, top), waiting # <<>>
    PROVE  LET first == Head(waiting).id
           IN  /\ HeardOf(past, first, Tail(waiting)) =
                      HeardOf(past, None, waiting)
               /\ first \in 1 .. top /\ first # None
               /\ past = {x \in HeardOf(past, None, waiting) : x < first}
<1> DEFINE rest == Tail(waiting)
           first == Head(waiting).id
           ids == {waiting[n].id : n \in DOMAIN waiting}
           rest_ids == {rest[n].id : n \in DOMAIN rest}
<1>1. /\ waiting \in Seq(Datagram)
      /\ past \subseteq 1 .. top
      /\ \A n \in DOMAIN waiting :
             waiting[n].id \in 1 .. top /\ \A x \in past : x < waiting[n].id
      /\ \A m, n \in DOMAIN waiting : m < n => waiting[m].id < waiting[n].id
  BY DEF Chain
<1>2. /\ 1 \in DOMAIN waiting /\ first = waiting[1].id
      /\ \A n \in DOMAIN rest : /\ n + 1 \in DOMAIN waiting /\ n \in Nat /\ n > 0
                                /\ rest[n] = waiting[n + 1]
      /\ \A n \in DOMAIN waiting :
             n # 1 => n - 1 \in DOMAIN rest /\ n \in Nat /\ n > 1
  BY <1>1, FirstWaiting
<1> HIDE DEF rest, first
<1>3. first \in 1 .. top /\ first # None
  BY <1>1, <1>2, ReceiveAssumption
<1>4. first \notin past /\ \A y \in past : y < first
  BY <1>1, <1>2, <1>3
<1>5. ASSUME NEW n \in DOMAIN rest PROVE rest[n].id \in ids /\ rest[n].id # first
  <2>1. 1 < n + 1 /\ n + 1 \in DOMAIN waiting /\ rest[n] = waiting[n + 1]
    BY <1>2
  <2>2. first < waiting[n + 1].id /\ waiting[n + 1].id \in Nat
    BY <1>1, <1>2, <2>1
  <2>3. QED
    BY <1>3, <2>1, <2>2
<1>6. ASSUME NEW n \in DOMAIN waiting, n # 1 PROVE waiting[n].id \in rest_ids
  <2>1. n - 1 \in DOMAIN rest /\ (n - 1) + 1 = n
    BY <1>2, <1>6
  <2>2. rest[n - 1] = waiting[n]
    BY <1>2, <2>1
  <2>3. QED
    BY <2>1, <2>2
<1>7. ids = rest_ids \cup {first} /\ first \notin rest_ids
  <2>1. first \notin rest_ids /\ rest_ids \subseteq ids
    BY <1>5
  <2>2. first \in ids
    BY <1>2
  <2>3. ids \subseteq rest_ids \cup {first}
    BY <1>2, <1>6
  <2>4. QED
    BY <2>1, <2>2, <2>3
<1> HIDE DEF ids, rest_ids
<1>8. /\ HeardOf(past, first, rest) = rest_ids \cup past \cup {first}
      /\ HeardOf(past, None, waiting) = ids \cup past
  BY <1>3 DEF HeardOf, ids, rest_ids
<1>9. HeardOf(past, first, rest) = HeardOf(past, None, waiting)
  BY <1>7, <1>8
<1>10. \A x \in ids : ~(x < first)
  <2>1. SUFFICES ASSUME NEW n \in DOMAIN waiting PROVE ~(waiting[n].id < first)
    BY DEF ids
  <2>2. CASE n = 1
    BY <1>2, <1>3, <2>2
  <2>3. CASE n # 1
    <3>1. 1 < n /\ waiting[n].id \in Nat
      BY <1>1, <1>2, <2>3
    <3>2. first < waiting[n].id
      BY <1>1, <1>2, <3>1
    <3>3. QED
      BY <1>3, <3>1, <3>2
  <2>4. QED
    BY <2>2, <2>3
<1>11. past = {x \in HeardOf(past, None, waiting) : x < first}
  BY <1>4, <1>8, <1>10
<1>12. QED
  BY <1>3, <1>9, <1>11 DEF rest, first

(* A packet is sent, or dropped when nobody takes it.                      *)
LEMMA ChainSent ==
    ASSUME NEW past, NEW hand, NEW waiting, NEW top \in Nat,
           Chain(past, hand, waiting, top), hand # None
    PROVE  /\ Chain(past \cup {hand}, None, waiting, top)
           /\ Chain(past, None, waiting, top)
           /\ HeardOf(past \cup {hand}, None, waiting) =
                  HeardOf(past, hand, waiting)
BY DEF Chain, HeardOf

(* Packets past the task are dropped.                                      *)
LEMMA ChainDropped ==
    ASSUME NEW past, NEW past2 \in SUBSET past, NEW hand, NEW waiting, NEW top,
           Chain(past, hand, waiting, top)
    PROVE  Chain(past2, hand, waiting, top)
BY DEF Chain

-----------------------------------------------------------------------------
(* The steps, as one interface sees them.                                  *)

(* A datagram comes: an interface takes it in exactly if it is due there.  *)
LEMMA WayArrival ==
    ASSUME NEW past, NEW hand, NEW waiting, NEW state, NEW stop, NEW due,
           NEW top \in Nat, NEW looping, NEW form \in Form,
           Way(past, hand, waiting, state, stop, due, top, looping)
    PROVE  LET waiting2 == Append(waiting, [id |-> top + 1, form |-> form])
               due2 == due \cup {top + 1}
           IN  /\ Way(past, hand, waiting, state, stop, due, top + 1, looping)
               /\ IF state = "stopped"
                  THEN Way(past, hand, waiting, state, stop, due2, top + 1,
                           looping)
                  ELSE Way(past, hand, waiting2, state, stop, due2, top + 1,
                           looping)
               /\ looping = "exited" =>
                      Way(past, hand, waiting2, state, stop, due, top + 1,
                          looping)
<1> DEFINE waiting2 == Append(waiting, [id |-> top + 1, form |-> form])
           due2 == due \cup {top + 1}
<1>1. /\ state \in {"none", "recv", "send", "stopped"}
      /\ hand = None <=> state # "send"
      /\ Chain(past, hand, waiting, top)
      /\ looping # "exited" =>
             Complete(past, hand, waiting, state, stop, due, top)
  BY DEF Way
<1>2. /\ Chain(past, hand, waiting, top + 1)
      /\ Chain(past, hand, waiting2, top + 1)
  BY <1>1, ChainArrival
<1>3. waiting \in Seq(Datagram)
  BY <1>1 DEF Chain
<1>4. looping # "exited" =>
          /\ Complete(past, hand, waiting, state, stop, due, top + 1)
          /\ IF state = "stopped"
             THEN Complete(past, hand, waiting, state, stop, due2, top + 1)
             ELSE Complete(past, hand, waiting2, state, stop, due2, top + 1)
  BY <1>1, <1>3, CompleteArrival
<1> HIDE DEF waiting2, due2
<1>5. /\ Way(past, hand, waiting, state, stop, due, top + 1, looping)
      /\ IF state = "stopped"
         THEN Way(past, hand, waiting, state, stop, due2, top + 1, looping)
         ELSE Way(past, hand, waiting2, state, stop, due2, top + 1, looping)
      /\ looping = "exited" =>
             Way(past, hand, waiting2, state, stop, due, top + 1, looping)
  BY <1>1, <1>2, <1>4 DEF Way
<1>6. QED
  BY <1>5 DEF waiting2, due2

(* The task takes a datagram off the buffer.                               *)
LEMMA WayReceived ==
    ASSUME NEW past, NEW hand, NEW waiting, NEW stop, NEW due, NEW top \in Nat,
           NEW looping, waiting # <<>>,
           Way(past, hand, waiting, "recv", stop, due, top, looping)
    PROVE  Way(past, Head(waiting).id, Tail(waiting), "send", stop, due, top,
               looping)
<1> DEFINE first == Head(waiting).id
           rest == Tail(waiting)
<1>1. /\ hand = None
      /\ Chain(past, None, waiting, top)
      /\ looping # "exited" =>
             due \subseteq 1 .. top /\ HeardOf(past, None, waiting) = due
  BY DEF Way, Complete
<1>2. Chain(past, first, rest, top)
  BY <1>1, ChainReceived
<1>3. /\ HeardOf(past, first, rest) = HeardOf(past, None, waiting)
      /\ first # None
  BY <1>1, HeardReceived
<1> HIDE DEF first, rest
<1>4. looping # "exited" => Complete(past, first, rest, "send", stop, due, top)
  BY <1>1, <1>3 DEF Complete
<1>5. Way(past, first, rest, "send", stop, due, top, looping)
  BY <1>1, <1>2, <1>3, <1>4 DEF Way
<1>6. QED
  BY <1>5 DEF first, rest

(* The task breaks at the first datagram that waits, or while none does,   *)
(* and its socket is closed.                                               *)
LEMMA WayBroken ==
    ASSUME NEW past, NEW hand, NEW waiting, NEW stop, NEW due, NEW top \in Nat,
           NEW looping,
           Way(past, hand, waiting, "recv", stop, due, top, looping)
    PROVE  LET unread == IF waiting = <<>> THEN top + 1 ELSE Head(waiting).id
           IN  Way(past, hand, <<>>, "stopped", unread, due, top, looping)
<1> DEFINE unread == IF waiting = <<>> THEN top + 1 ELSE Head(waiting).id
<1>1. /\ hand = None
      /\ Chain(past, None, waiting, top)
      /\ looping # "exited" =>
             due \subseteq 1 .. top /\ HeardOf(past, None, waiting) = due
  BY DEF Way, Complete
<1>2. <<>> \in Seq(Datagram) /\ DOMAIN <<>> = {}
  OBVIOUS
<1>3. Chain(past, None, <<>>, top)
  BY <1>1, <1>2 DEF Chain
<1>4. HeardOf(past, None, <<>>) = past
  BY <1>2 DEF HeardOf
<1>5. /\ unread \in 1 .. top + 1
      /\ looping # "exited" => past = {x \in due : x < unread}
  <2>1. CASE waiting = <<>>
    <3>1. unread = top + 1
      BY <2>1
    <3>2. HeardOf(past, None, waiting) = past
      BY <1>4, <2>1
    <3> HIDE DEF unread
    <3>3. \A x \in 1 .. top : x < unread
      BY <3>1
    <3>4. QED
      BY <1>1, <3>1, <3>2, <3>3
  <2>2. CASE waiting # <<>>
    <3>1. unread = Head(waiting).id
      BY <2>2
    <3>2. /\ unread \in 1 .. top
          /\ past = {x \in HeardOf(past, None, waiting) : x < unread}
      BY <1>1, <2>2, <3>1, HeardReceived
    <3> HIDE DEF unread
    <3>3. unread \in 1 .. top + 1
      BY <3>2
    <3>4. QED
      BY <1>1, <3>2, <3>3
  <2>3. QED
    BY <2>1, <2>2
<1> HIDE DEF unread
<1>6. looping # "exited" =>
          Complete(past, None, <<>>, "stopped", unread, due, top)
  BY <1>1, <1>4, <1>5 DEF Complete
<1>7. Way(past, hand, <<>>, "stopped", unread, due, top, looping)
  BY <1>1, <1>3, <1>6 DEF Way
<1>8. QED
  BY <1>7 DEF unread

(* A task is started.                                                      *)
LEMMA WayStarted ==
    ASSUME NEW past, NEW hand, NEW waiting, NEW stop, NEW due, NEW top,
           NEW looping, Way(past, hand, waiting, "none", stop, due, top, looping)
    PROVE  Way(past, hand, waiting, "recv", stop, due, top, looping)
BY DEF Way, Complete

(* It sends the packet.                                                    *)
LEMMA WaySent ==
    ASSUME NEW past, NEW hand, NEW waiting, NEW stop, NEW due, NEW top \in Nat,
           NEW looping, Way(past, hand, waiting, "send", stop, due, top, looping)
    PROVE  /\ hand \in Nat /\ \A x \in past : x < hand
           /\ Way(past \cup {hand}, None, waiting, "recv", stop, due, top, looping)
           /\ looping = "exited" =>
                  Way(past, None, waiting, "recv", stop, due, top, looping)
<1>1. /\ hand # None
      /\ Chain(past, hand, waiting, top)
      /\ looping # "exited" =>
             due \subseteq 1 .. top /\ HeardOf(past, hand, waiting) = due
  BY DEF Way, Complete
<1>2. /\ Chain(past \cup {hand}, None, waiting, top)
      /\ Chain(past, None, waiting, top)
      /\ HeardOf(past \cup {hand}, None, waiting) = HeardOf(past, hand, waiting)
  BY <1>1, ChainSent
<1>3. hand \in Nat /\ \A x \in past : x < hand
  BY <1>1 DEF Chain
<1>4. looping # "exited" =>
          Complete(past \cup {hand}, None, waiting, "recv", stop, due, top)
  BY <1>1, <1>2 DEF Complete
<1>5. QED
  BY <1>2, <1>3, <1>4 DEF Way

(* The loop exits, and drops the channel.                                  *)
LEMMA WayExited ==
    ASSUME NEW past, NEW past2 \in SUBSET past, NEW hand, NEW waiting, NEW state,
           NEW stop, NEW due, NEW top, NEW looping,
           Way(past, hand, waiting, state, stop, due, top, looping)
    PROVE  Way(past2, hand, waiting, state, stop, due, top, "exited")
<1>1. Chain(past2, hand, waiting, top)
  BY ChainDropped DEF Way
<1>2. QED
  BY <1>1 DEF Way

(* The loop goes on.                                                       *)
LEMMA WayLoops ==
    ASSUME NEW past, NEW hand, NEW waiting, NEW state, NEW stop, NEW due, NEW top,
           NEW looping, NEW looping2, looping # "exited",
           Way(past, hand, waiting, state, stop, due, top, looping)
    PROVE  Way(past, hand, waiting, state, stop, due, top, looping2)
BY DEF Way

-----------------------------------------------------------------------------
(* The steps of the kernel.                                                *)

(* The number of the last datagram of an interface.                        *)
LEMMA TopType ==
    ASSUME ReceiveInv, NEW i
    PROVE  TopOf(rip_cfg, arrived, i) \in Nat
<1>1. rip_cfg \in Seq(Device) /\ DOMAIN rip_cfg = 1 .. Len(rip_cfg)
  BY ConfiguredDevices DEF ReceiveInv
<1>2. arrived \in [Device -> Nat]
  BY DEF ReceiveInv, WayInv
<1>3. QED
  BY <1>1, <1>2 DEF TopOf

(* A datagram is given to the interfaces where it is due, but for those    *)
(* whose task broke.                                                       *)
LEMMA ArrivesKeeps ==
    ASSUME ReceiveInv, NEW dev \in Device, NEW form \in Form, NEW S, NEW due,
           Arrives(dev, form, S, due),
           \A i \in Ifc :
               /\ i \in S \/ i \in due => i \in DOMAIN rip_cfg /\ rip_cfg[i] = dev
               /\ i \in S => task[i] # "stopped"
               /\ IF loop = "exited"
                  THEN i \notin due
                  ELSE task[i] # "stopped" => (i \in due <=> i \in S)
    PROVE  ReceiveInv'
<1> DEFINE past(i) == IdsOf(Past(handled, current, queue), i)
           top(i) == TopOf(rip_cfg, arrived, i)
           number == arrived[dev] + 1
           d == [id |-> number, form |-> form]
<1>1. /\ SocketsInv /\ OwnedInv /\ LoopInv
      /\ arrived \in [Device -> Nat]
      /\ DOMAIN expected = Ifc /\ DOMAIN buffer = Ifc
      /\ DOMAIN in_hand = Ifc /\ DOMAIN task = Ifc /\ DOMAIN cut = Ifc
      /\ \A i \in Ifc : Way(past(i), in_hand[i], buffer[i], task[i], cut[i],
                            expected[i], top(i), loop)
  BY DEF ReceiveInv, WayInv
<1>2. /\ phase # "setup"
      /\ arrived' = [arrived EXCEPT ![dev] = number]
      /\ arrived'[dev] = number
      /\ buffer' = [i \in Ifc |-> IF i \in S /\ HasRoom(i)
                                  THEN Append(buffer[i], d) ELSE buffer[i]]
      /\ expected' = [i \in Ifc |-> IF i \in due /\ HasRoom(i)
                                    THEN expected[i] \cup {number}
                                    ELSE expected[i]]
      /\ UNCHANGED <<socketVars, tasks, queue, daemon>>
  BY <1>1 DEF Arrives, Given
<1>3. /\ UNCHANGED <<phase, rip_cfg, todo, tx, interfaces, unicast>>
      /\ UNCHANGED <<task, cut, in_hand, queue, loop, current, handled>>
  BY <1>2 DEF socketVars, tasks, daemon
<1>4. SocketsInv' /\ OwnedInv' /\ LoopInv'
  <2>1. SocketsInv' /\ OwnedInv'
    BY <1>1, <1>2, <1>3, SocketsStay
  <2>2. LoopInv'
    BY <1>1, <1>3 DEF LoopInv
  <2>3. QED
    BY <2>1, <2>2
<1>5. arrived' \in [Device -> Nat] /\ number \in Nat
  BY <1>1, <1>2
<1>6. ASSUME NEW i \in Ifc
      PROVE  Way(past(i), in_hand[i], buffer'[i], task[i], cut[i],
                 expected'[i], TopOf(rip_cfg, arrived', i), loop)
  <2>1. top(i) \in Nat
    BY TopType
  <2>2. Way(past(i), in_hand[i], buffer[i], task[i], cut[i], expected[i],
            top(i), loop)
    BY <1>1
  <2>3. CASE i \in DOMAIN rip_cfg /\ rip_cfg[i] = dev
    <3>1. top(i) + 1 = number /\ TopOf(rip_cfg, arrived', i) = number
      BY <1>2, <2>3 DEF TopOf
    <3> DEFINE waiting2 == Append(buffer[i], [id |-> top(i) + 1, form |-> form])
               due2 == expected[i] \cup {top(i) + 1}
    <3>2. /\ Way(past(i), in_hand[i], buffer[i], task[i], cut[i], expected[i],
                 top(i) + 1, loop)
          /\ IF task[i] = "stopped"
             THEN Way(past(i), in_hand[i], buffer[i], task[i], cut[i], due2,
                      top(i) + 1, loop)
             ELSE Way(past(i), in_hand[i], waiting2, task[i], cut[i], due2,
                      top(i) + 1, loop)
          /\ loop = "exited" =>
                 Way(past(i), in_hand[i], waiting2, task[i], cut[i], expected[i],
                     top(i) + 1, loop)
      BY <2>1, <2>2, WayArrival
    <3>3. waiting2 = Append(buffer[i], d) /\ due2 = expected[i] \cup {number}
      BY <3>1
    <3>4. /\ buffer'[i] = IF i \in S /\ HasRoom(i) THEN waiting2 ELSE buffer[i]
          /\ expected'[i] = IF i \in due /\ HasRoom(i) THEN due2 ELSE expected[i]
      BY <1>2, <3>3
    <3> HIDE DEF past, top, number, d, waiting2, due2
    <3>5. CASE ~HasRoom(i) \/ (i \notin S /\ i \notin due)
      <4>1. buffer'[i] = buffer[i] /\ expected'[i] = expected[i]
        BY <3>4, <3>5
      <4>2. QED
        BY <3>1, <3>2, <4>1
    <3>6. CASE HasRoom(i) /\ i \in S
      <4>1. buffer'[i] = waiting2 /\ task[i] # "stopped"
        BY <3>4, <3>6
      <4>2. CASE loop = "exited"
        <5>1. expected'[i] = expected[i]
          BY <3>4, <4>2
        <5>2. QED
          BY <3>1, <3>2, <4>1, <4>2, <5>1
      <4>3. CASE loop # "exited"
        <5>1. expected'[i] = due2
          BY <3>4, <3>6, <4>1, <4>3
        <5>2. QED
          BY <3>1, <3>2, <4>1, <5>1
      <4>4. QED
        BY <4>2, <4>3
    <3>7. CASE HasRoom(i) /\ i \notin S /\ i \in due
      <4>1. /\ buffer'[i] = buffer[i] /\ expected'[i] = due2
            /\ task[i] = "stopped"
        BY <3>4, <3>7
      <4>2. QED
        BY <3>1, <3>2, <4>1
    <3>8. QED
      BY <3>5, <3>6, <3>7
  <2>4. CASE ~(i \in DOMAIN rip_cfg /\ rip_cfg[i] = dev)
    <3>1. i \notin S /\ i \notin due
      BY <2>4
    <3>2. buffer'[i] = buffer[i] /\ expected'[i] = expected[i]
      BY <1>2, <3>1
    <3>3. TopOf(rip_cfg, arrived', i) = top(i)
      <4>1. CASE i \in DOMAIN rip_cfg
        <5>1. rip_cfg[i] \in Device /\ rip_cfg[i] # dev
          BY <1>1, <2>4, <4>1, ConfiguredDevices
        <5>2. arrived'[rip_cfg[i]] = arrived[rip_cfg[i]]
          BY <1>1, <1>2, <5>1
        <5>3. QED
          BY <5>2 DEF TopOf
      <4>2. CASE i \notin DOMAIN rip_cfg
        BY <4>2 DEF TopOf
      <4>3. QED
        BY <4>1, <4>2
    <3> HIDE DEF past, top
    <3>4. QED
      BY <2>2, <3>2, <3>3
  <2>5. QED
    BY <2>3, <2>4
<1>7. WayInv'
  <2>1. DOMAIN buffer' = Ifc /\ DOMAIN expected' = Ifc
    BY <1>2
  <2>2. QED
    BY <1>1, <1>2, <1>3, <1>5, <1>6, <2>1 DEF WayInv
<1>8. QED
  BY <1>4, <1>7 DEF ReceiveInv

(* Where multicasts and unicasts are due, they are given.                  *)
LEMMA KernelKeeps ==
    ASSUME ReceiveInv, NEW dev \in Device, NEW form \in Form,
           MulticastArrives(dev, form) \/ UnicastArrives(dev, form)
    PROVE  ReceiveInv'
<1>1. SocketsInv /\ phase # "setup"
  BY DEF ReceiveInv, MulticastArrives, UnicastArrives, Arrives
<1> DEFINE mine == {i \in DOMAIN rip_cfg : rip_cfg[i] = dev}
           open == {i \in DOMAIN interfaces :
                       rip_cfg[i] = dev /\ interfaces[i].rx # None}
<1>2. phase \in {"run", "setup_failed"}
  BY <1>1 DEF SocketsInv
<1>3. Listening(dev) =
          IF phase = "run" /\ loop # "exited" THEN mine ELSE {}
  BY <1>2 DEF Listening
<1>4. mine \subseteq Ifc /\ 0 \notin Ifc
  BY <1>1, ConfiguredDevices DEF Ifc
<1>5. open = IF phase = "run" THEN {i \in mine : task[i] # "stopped"} ELSE {}
  <2>1. \A i \in Ifc : i \in DOMAIN interfaces =>
            (interfaces[i].rx = None <=> task[i] = "stopped")
    BY DEF ReceiveInv, OwnedInv
  <2>2. IF phase = "run" THEN DOMAIN interfaces = DOMAIN rip_cfg
                         ELSE DOMAIN interfaces = {}
    BY <1>1, InterfacesSetUp
  <2>3. QED
    BY <1>4, <2>1, <2>2
<1>6. CASE MulticastArrives(dev, form)
  <2>1. MulticastTo(dev) = open
    BY <1>1, MulticastReaches
  <2> DEFINE S == MulticastTo(dev)
             due == Listening(dev)
  <2>2. Arrives(dev, form, S, due)
    BY <1>6 DEF MulticastArrives
  <2>3. ASSUME NEW i \in Ifc
        PROVE  /\ i \in S \/ i \in due => i \in DOMAIN rip_cfg /\ rip_cfg[i] = dev
               /\ i \in S => task[i] # "stopped"
               /\ IF loop = "exited"
                  THEN i \notin due
                  ELSE task[i] # "stopped" => (i \in due <=> i \in S)
    BY <1>3, <1>5, <2>1
  <2> HIDE DEF S, due
  <2>4. QED
    BY <2>2, <2>3, ArrivesKeeps
<1>7. CASE UnicastArrives(dev, form)
  <2>1. PICK j \in UnicastTo(dev) :
            Arrives(dev, form, {j}, {j} \cap Listening(dev))
    BY <1>7 DEF UnicastArrives
  <2>2. j # 0 => j \in open
    BY <1>1, UnicastReaches
  <2> DEFINE S == {j}
             due == {j} \cap Listening(dev)
  <2>3. ASSUME NEW i \in Ifc
        PROVE  /\ i \in S \/ i \in due => i \in DOMAIN rip_cfg /\ rip_cfg[i] = dev
               /\ i \in S => task[i] # "stopped"
               /\ IF loop = "exited"
                  THEN i \notin due
                  ELSE task[i] # "stopped" => (i \in due <=> i \in S)
    BY <1>3, <1>4, <1>5, <2>2
  <2>4. Arrives(dev, form, S, due)
    BY <2>1
  <2> HIDE DEF S, due
  <2>5. QED
    BY <2>3, <2>4, ArrivesKeeps
<1>8. QED
  BY <1>6, <1>7

-----------------------------------------------------------------------------
(* The steps that only concern the sockets.                                *)

(* Nothing but the sockets changes.                                        *)
LEMMA SocketsOnly ==
    ASSUME ReceiveInv, SocketsInv', OwnedInv', rip_cfg' = rip_cfg,
           UNCHANGED <<datagrams, tasks, queue, daemon>>
    PROVE  ReceiveInv'
<1>1. /\ UNCHANGED <<arrived, expected, buffer, task, cut, in_hand, queue>>
      /\ UNCHANGED <<loop, current, handled, exit>>
  BY DEF datagrams, tasks, daemon
<1>2. LoopInv'
  <2>1. LoopInv
    BY DEF ReceiveInv
  <2>2. QED
    BY <1>1, <2>1 DEF LoopInv
<1>3. WayInv'
  <2>1. WayInv
    BY DEF ReceiveInv
  <2>2. QED
    BY <1>1, <2>1 DEF WayInv
<1>4. QED
  BY <1>2, <1>3 DEF ReceiveInv

(* The start, an answer and a step that changes nothing.                   *)
LEMMA SocketStepsKeep ==
    ASSUME ReceiveInv, SetUp \/ (\E i \in Ifc : OpenAnswer(i)) \/ UNCHANGED vars
    PROVE  ReceiveInv'
<1>1. SocketsInv /\ OwnedInv
  BY DEF ReceiveInv
<1>2. CASE SetUp
  <2>1. /\ CreateTx \/ CreateRx \/ SetupFails
        /\ UNCHANGED <<datagrams, tasks, queue, daemon>>
    BY <1>2 DEF SetUp
  <2>2. SocketsInv'
    BY <1>1, <2>1, CreateTxKeeps, CreateRxKeeps, SetupFailsKeeps
  <2>3. phase = "setup" /\ rip_cfg' = rip_cfg /\ task' = task
    BY <2>1 DEF CreateTx, CreateRx, SetupFails, Drop, tasks
  <2>4. \A i \in Ifc : i \in DOMAIN interfaces' => interfaces'[i].rx # None
    <3>1. \A i \in Ifc : i \in DOMAIN interfaces => interfaces[i].rx # None
      BY <1>1, <2>3 DEF OwnedInv
    <3>2. CASE CreateTx \/ SetupFails
      <4>1. interfaces' \in {interfaces, <<>>} /\ DOMAIN <<>> = {}
        BY <3>2 DEF CreateTx, SetupFails, Drop
      <4>2. QED
        BY <3>1, <4>1
    <3>3. CASE CreateRx
      BY <1>1, <3>1, <3>3, CreateRxOpens
    <3>4. QED
      BY <2>1, <3>2, <3>3
  <2>5. OwnedInv'
    BY <1>1, <2>3, <2>4 DEF OwnedInv
  <2>6. QED
    BY <2>1, <2>2, <2>3, <2>5, SocketsOnly
<1>3. ASSUME NEW i \in Ifc, OpenAnswer(i) PROVE ReceiveInv'
  <2>1. OpenUnicast(i) /\ UNCHANGED <<datagrams, tasks, queue, daemon>>
    BY <1>3 DEF OpenAnswer
  <2>2. phase = "run"
    BY <2>1 DEF OpenUnicast
  <2>3. SocketsInv'
    BY <1>1, <2>1, <2>2, UnicastKeeps
  <2>4. phase' # "setup" /\ rip_cfg' = rip_cfg /\ task' = task
    BY <2>1, <2>2 DEF OpenUnicast, Drop, tasks
  <2>5. interfaces' \in {interfaces, <<>>} /\ DOMAIN <<>> = {}
    BY <2>1 DEF OpenUnicast, Drop
  <2>6. OwnedInv'
    BY <1>1, <2>4, <2>5 DEF OwnedInv
  <2>7. QED
    BY <2>1, <2>3, <2>4, <2>6, SocketsOnly
<1>4. CASE UNCHANGED vars
  <2>1. /\ UNCHANGED <<socketVars, datagrams, tasks, queue, daemon>>
        /\ rip_cfg' = rip_cfg /\ task' = task
    BY <1>4 DEF vars, socketVars, tasks
  <2>2. SocketsInv' /\ OwnedInv'
    BY <1>1, <2>1, SocketsStay
  <2>3. QED
    BY <2>1, <2>2, SocketsOnly
<1>5. QED
  BY <1>2, <1>3, <1>4

-----------------------------------------------------------------------------
(* The steps of the tasks.                                                 *)

(* A step that changes nothing of what is due keeps the invariant if it    *)
(* keeps the sockets, the loop and the way of every interface.             *)
LEMMA TasksKeep ==
    ASSUME ReceiveInv, UNCHANGED <<rip_cfg, arrived, expected>>,
           SocketsInv', OwnedInv', LoopInv',
           DOMAIN buffer' = Ifc, DOMAIN in_hand' = Ifc, DOMAIN task' = Ifc,
           DOMAIN cut' = Ifc,
           \A i \in Ifc :
               Way(IdsOf(Past(handled', current', queue'), i), in_hand'[i],
                   buffer'[i], task'[i], cut'[i], expected[i],
                   TopOf(rip_cfg, arrived, i), loop')
    PROVE  ReceiveInv'
<1>1. WayInv
  BY DEF ReceiveInv
<1>2. WayInv'
  BY <1>1 DEF WayInv
<1>3. QED
  BY <1>2 DEF ReceiveInv

(* A step of one interface, seen by all of them.                           *)
LEMMA OneTaskKeeps ==
    ASSUME ReceiveInv, NEW i \in Ifc,
           UNCHANGED <<rip_cfg, arrived, expected, daemon>>,
           SocketsInv', OwnedInv', LoopInv',
           DOMAIN buffer' = Ifc, DOMAIN in_hand' = Ifc, DOMAIN task' = Ifc,
           DOMAIN cut' = Ifc,
           \A j \in Ifc \ {i} :
               /\ buffer'[j] = buffer[j] /\ in_hand'[j] = in_hand[j]
               /\ task'[j] = task[j] /\ cut'[j] = cut[j]
               /\ IdsOf(Past(handled, current, queue'), j) =
                      IdsOf(Past(handled, current, queue), j),
           Way(IdsOf(Past(handled, current, queue'), i), in_hand'[i],
               buffer'[i], task'[i], cut'[i], expected[i],
               TopOf(rip_cfg, arrived, i), loop)
    PROVE  ReceiveInv'
<1>1. /\ UNCHANGED <<loop, current, handled>>
      /\ UNCHANGED <<rip_cfg, arrived, expected>>
  BY DEF daemon
<1>3. ASSUME NEW j \in Ifc
      PROVE  Way(IdsOf(Past(handled', current', queue'), j), in_hand'[j],
                 buffer'[j], task'[j], cut'[j], expected[j],
                 TopOf(rip_cfg, arrived, j), loop')
  <2>1. CASE j = i
    BY <1>1, <2>1
  <2>2. CASE j # i
    <3>1. Way(IdsOf(Past(handled, current, queue), j), in_hand[j], buffer[j],
              task[j], cut[j], expected[j], TopOf(rip_cfg, arrived, j), loop)
      BY DEF ReceiveInv, WayInv
    <3>2. QED
      BY <1>1, <2>2, <3>1
  <2>3. QED
    BY <2>1, <2>2
<1>4. QED
  BY <1>1, <1>3, TasksKeep

(* What the daemon multicasts fills no buffer of its own.                  *)
LEMMA SendMulticastKeeps ==
    ASSUME ReceiveInv, NEW i \in Ifc, SendMulticast(i)
    PROVE  ReceiveInv'
<1>1. OwnMulticastTo(i) = {}
  BY NotItself DEF ReceiveInv, SendMulticast
<1>2. buffer' = [j \in Ifc |-> buffer[j]]
  BY <1>1 DEF SendMulticast, Given
<1>3. /\ UNCHANGED <<socketVars, rip_cfg, arrived, expected>>
      /\ UNCHANGED <<task, cut, in_hand, queue, loop, current, handled>>
  BY DEF SendMulticast, socketVars, tasks, daemon
<1>4. LoopInv /\ WayInv /\ SocketsInv' /\ OwnedInv'
  BY <1>3, SocketsStay DEF ReceiveInv
<1>5. LoopInv'
  BY <1>3, <1>4 DEF LoopInv
<1>6. \A j \in Ifc :
          Way(IdsOf(Past(handled', current', queue'), j), in_hand'[j],
              buffer'[j], task'[j], cut'[j], expected[j],
              TopOf(rip_cfg, arrived, j), loop')
  BY <1>2, <1>3, <1>4 DEF WayInv
<1>7. /\ DOMAIN buffer' = Ifc /\ DOMAIN in_hand' = Ifc /\ DOMAIN task' = Ifc
      /\ DOMAIN cut' = Ifc
  BY <1>2, <1>3, <1>4 DEF WayInv
<1>8. QED
  BY <1>3, <1>4, <1>5, <1>6, <1>7, TasksKeep

(* What holds of a task that is at work.                                   *)
LEMMA TaskAtWork ==
    ASSUME ReceiveInv, NEW i \in Ifc
    PROVE  /\ Way(IdsOf(Past(handled, current, queue), i), in_hand[i],
                  buffer[i], task[i], cut[i], expected[i],
                  TopOf(rip_cfg, arrived, i), loop)
           /\ TopOf(rip_cfg, arrived, i) \in Nat
           /\ DOMAIN buffer = Ifc /\ DOMAIN in_hand = Ifc /\ DOMAIN task = Ifc
           /\ DOMAIN cut = Ifc
           /\ SocketsInv /\ OwnedInv /\ LoopInv
<1>1. TopOf(rip_cfg, arrived, i) \in Nat
  BY TopType
<1>2. QED
  BY <1>1 DEF ReceiveInv, WayInv

(* A task takes a datagram from its socket.                                *)
LEMMA RecvFromKeeps ==
    ASSUME ReceiveInv, NEW i \in Ifc, RecvFrom(i)
    PROVE  ReceiveInv'
<1> DEFINE past == IdsOf(Past(handled, current, queue), i)
           top == TopOf(rip_cfg, arrived, i)
<1>1. /\ task[i] = "recv" /\ buffer[i] # <<>>
      /\ buffer' = [buffer EXCEPT ![i] = Tail(@)]
      /\ task' = [task EXCEPT ![i] = "send"]
      /\ in_hand' = [in_hand EXCEPT ![i] = Head(buffer[i]).id]
      /\ UNCHANGED <<socketVars, arrived, expected, cut, queue, daemon>>
      /\ UNCHANGED <<phase, rip_cfg, loop, current, handled>>
  BY DEF RecvFrom, socketVars, daemon
<1>2. /\ Way(past, in_hand[i], buffer[i], "recv", cut[i], expected[i], top,
             loop)
      /\ top \in Nat
      /\ DOMAIN buffer = Ifc /\ DOMAIN in_hand = Ifc /\ DOMAIN task = Ifc
      /\ DOMAIN cut = Ifc
      /\ SocketsInv /\ OwnedInv /\ LoopInv
  BY <1>1, TaskAtWork
<1>3. LoopInv'
  BY <1>1, <1>2 DEF LoopInv
<1> HIDE DEF past, top
<1>4. /\ buffer'[i] = Tail(buffer[i]) /\ DOMAIN buffer' = Ifc
      /\ task'[i] = "send" /\ in_hand'[i] = Head(buffer[i]).id
      /\ DOMAIN task' = Ifc /\ DOMAIN in_hand' = Ifc /\ DOMAIN cut' = Ifc
      /\ \A j \in Ifc \ {i} : /\ buffer'[j] = buffer[j] /\ task'[j] = task[j]
                               /\ in_hand'[j] = in_hand[j]
  BY <1>1, <1>2
<1>5. Way(past, Head(buffer[i]).id, Tail(buffer[i]), "send", cut[i],
          expected[i], top, loop)
  BY <1>1, <1>2, WayReceived
<1>6. SocketsInv' /\ OwnedInv'
  <2>1. phase # "setup"
    BY <1>1, <1>2 DEF OwnedInv
  <2>2. QED
    BY <1>1, <1>2, <1>4, <2>1, SocketsStay
<1>7. QED
  BY <1>1, <1>3, <1>4, <1>5, <1>6, OneTaskKeeps DEF past, top

(* A task breaks, at a datagram that cannot be parsed or because it cannot *)
(* take one from its socket.                                               *)
LEMMA BreakKeeps ==
    ASSUME ReceiveInv, NEW i \in Ifc, RecvUnparsable(i) \/ RecvFails(i)
    PROVE  ReceiveInv'
<1> DEFINE past == IdsOf(Past(handled, current, queue), i)
           top == TopOf(rip_cfg, arrived, i)
<1>1. /\ task[i] = "recv"
      /\ task' = [task EXCEPT ![i] = "stopped"]
      /\ cut' = [cut EXCEPT ![i] = FirstUnread(i)]
      /\ buffer' = [buffer EXCEPT ![i] = <<>>]
      /\ DropRx(i)
      /\ UNCHANGED <<phase, rip_cfg, arrived, expected, in_hand, queue, daemon>>
      /\ UNCHANGED <<loop, current, handled>>
  BY DEF RecvUnparsable, RecvFails, Break, DropRx, daemon
<1>2. /\ Way(past, in_hand[i], buffer[i], "recv", cut[i], expected[i], top,
             loop)
      /\ top \in Nat
      /\ DOMAIN buffer = Ifc /\ DOMAIN in_hand = Ifc /\ DOMAIN task = Ifc
      /\ DOMAIN cut = Ifc
      /\ SocketsInv /\ OwnedInv /\ LoopInv
  BY <1>1, TaskAtWork
<1>3. LoopInv'
  BY <1>1, <1>2 DEF LoopInv
<1>4. /\ i \in DOMAIN rip_cfg /\ phase # "setup"
      /\ FirstUnread(i) = IF buffer[i] = <<>> THEN top + 1
                                             ELSE Head(buffer[i]).id
  <2>1. i \in DOMAIN rip_cfg /\ phase # "setup"
    BY <1>1, <1>2 DEF OwnedInv
  <2>2. QED
    BY <2>1 DEF FirstUnread, TopOf
<1> HIDE DEF past, top
<1>5. Way(past, in_hand[i], <<>>, "stopped", FirstUnread(i), expected[i], top,
          loop)
  BY <1>2, <1>4, WayBroken
<1>6. /\ buffer'[i] = <<>> /\ task'[i] = "stopped" /\ cut'[i] = FirstUnread(i)
      /\ DOMAIN buffer' = Ifc /\ DOMAIN task' = Ifc /\ DOMAIN in_hand' = Ifc
      /\ DOMAIN cut' = Ifc
      /\ \A j \in Ifc \ {i} : /\ buffer'[j] = buffer[j] /\ task'[j] = task[j]
                               /\ cut'[j] = cut[j]
  BY <1>1, <1>2
<1>7. SocketsInv' /\ OwnedInv'
  <2>1. /\ SocketsInv'
        /\ DOMAIN interfaces' = DOMAIN interfaces
        /\ \A n \in DOMAIN interfaces :
               interfaces'[n].rx = IF n = i THEN None ELSE interfaces[n].rx
    BY <1>1, <1>2, DropRxKeeps
  <2>2. ASSUME NEW j \in Ifc
        PROVE  /\ task'[j] # "none" => j \in DOMAIN rip_cfg'
               /\ j \in DOMAIN interfaces' =>
                      (interfaces'[j].rx = None <=> task'[j] = "stopped")
    <3>1. CASE j = i
      BY <1>1, <1>4, <1>6, <2>1, <3>1
    <3>2. CASE j # i
      BY <1>1, <1>2, <1>6, <2>1, <3>2 DEF OwnedInv
    <3>3. QED
      BY <3>1, <3>2
  <2>3. OwnedInv'
    BY <1>1, <1>4, <2>2 DEF OwnedInv
  <2>4. QED
    BY <2>1, <2>3
<1>8. QED
  BY <1>1, <1>3, <1>5, <1>6, <1>7, OneTaskKeeps DEF past, top

(* A task sends the packet in its hand, or nobody takes it any more.       *)
LEMMA SendKeeps ==
    ASSUME ReceiveInv, NEW i \in Ifc, SendPacket(i) \/ SendIgnored(i)
    PROVE  ReceiveInv'
<1> DEFINE p == Past(handled, current, queue)
           past == IdsOf(p, i)
           top == TopOf(rip_cfg, arrived, i)
           e == [ifc |-> i, id |-> in_hand[i]]
<1>1. /\ task[i] = "send"
      /\ task' = [task EXCEPT ![i] = "recv"]
      /\ in_hand' = [in_hand EXCEPT ![i] = None]
      /\ UNCHANGED <<socketVars, arrived, expected, cut, daemon>>
      /\ buffer' = buffer
      /\ UNCHANGED <<phase, rip_cfg, loop, current, handled>>
  BY DEF SendPacket, SendIgnored, socketVars, datagrams, daemon
<1>2. /\ Way(past, in_hand[i], buffer[i], "send", cut[i], expected[i], top,
             loop)
      /\ top \in Nat
      /\ DOMAIN buffer = Ifc /\ DOMAIN in_hand = Ifc /\ DOMAIN task = Ifc
      /\ DOMAIN cut = Ifc
      /\ SocketsInv /\ OwnedInv /\ LoopInv
  BY <1>1, TaskAtWork
<1>3. /\ in_hand[i] \in Nat /\ \A x \in past : x < in_hand[i]
      /\ Way(past \cup {in_hand[i]}, None, buffer[i], "recv", cut[i],
             expected[i], top, loop)
      /\ loop = "exited" =>
             Way(past, None, buffer[i], "recv", cut[i], expected[i], top, loop)
  <2> HIDE DEF past, top
  <2>1. QED
    BY <1>2, WaySent
<1>4. /\ task'[i] = "recv" /\ in_hand'[i] = None
      /\ DOMAIN task' = Ifc /\ DOMAIN in_hand' = Ifc /\ DOMAIN buffer' = Ifc
      /\ DOMAIN cut' = Ifc
      /\ \A j \in Ifc \ {i} : task'[j] = task[j] /\ in_hand'[j] = in_hand[j]
      /\ SocketsInv' /\ OwnedInv'
  <2>1. /\ task'[i] = "recv" /\ in_hand'[i] = None
        /\ DOMAIN task' = Ifc /\ DOMAIN in_hand' = Ifc /\ DOMAIN buffer' = Ifc
        /\ DOMAIN cut' = Ifc
        /\ \A j \in Ifc \ {i} : task'[j] = task[j] /\ in_hand'[j] = in_hand[j]
    BY <1>1, <1>2
  <2>2. phase # "setup"
    BY <1>1, <1>2 DEF OwnedInv
  <2>3. SocketsInv' /\ OwnedInv'
    BY <1>1, <1>2, <2>1, <2>2, SocketsStay
  <2>4. QED
    BY <2>1, <2>3
<1>5. CASE SendPacket(i)
  <2>1. queue' = Append(queue, e) /\ loop # "exited"
    BY <1>5 DEF SendPacket
  <2>2. e \in Packet /\ e.ifc = i /\ e.id = in_hand[i]
    BY <1>3 DEF Packet
  <2>3. /\ handled \in Seq(Packet) /\ queue \in Seq(Packet)
        /\ current \in Packet \cup {None} /\ InOrder(p)
    BY <1>2 DEF LoopInv
  <2>4. p \in Seq(Packet)
    BY <2>3, PastType
  <2> HIDE DEF e
  <2>5. Past(handled, current, queue') = Append(p, e)
    BY <2>1, <2>2, <2>3, PastSent
  <2> HIDE DEF p
  <2>6. /\ InOrder(Append(p, e))
        /\ \A j : IdsOf(Append(p, e), j) =
                      IdsOf(p, j) \cup (IF j = e.ifc THEN {e.id} ELSE {})
    BY <1>3, <2>2, <2>3, <2>4, AppendPacket
  <2>7. queue' \in Seq(Packet)
    BY <2>1, <2>2, <2>3
  <2>8. LoopInv'
    BY <1>1, <1>2, <2>1, <2>5, <2>6, <2>7 DEF LoopInv
  <2>9. /\ IdsOf(Past(handled, current, queue'), i) = past \cup {in_hand[i]}
        /\ \A j \in Ifc \ {i} :
               IdsOf(Past(handled, current, queue'), j) = IdsOf(p, j)
    BY <2>2, <2>5, <2>6
  <2> HIDE DEF past, top
  <2>10. QED
    BY <1>1, <1>3, <1>4, <2>8, <2>9, OneTaskKeeps DEF p, top
<1>6. CASE SendIgnored(i)
  <2>1. queue' = queue /\ loop = "exited"
    BY <1>6 DEF SendIgnored
  <2>2. LoopInv'
    BY <1>1, <1>2, <2>1 DEF LoopInv
  <2> HIDE DEF top
  <2>3. QED
    BY <1>1, <1>3, <1>4, <2>1, <2>2, OneTaskKeeps DEF top
<1>7. QED
  BY <1>5, <1>6

(* The tasks are started.                                                  *)
LEMMA SpawnKeeps ==
    ASSUME ReceiveInv, SpawnRxTasks
    PROVE  ReceiveInv'
<1>1. /\ SetupDone /\ phase = "setup" /\ phase' = "run" /\ rip_cfg' = rip_cfg
      /\ task' = [i \in Ifc |-> IF i \in DOMAIN interfaces THEN "recv"
                                                           ELSE "none"]
      /\ UNCHANGED <<arrived, expected, buffer, cut, in_hand, queue>>
      /\ UNCHANGED <<interfaces, loop, current, handled>>
  BY DEF SpawnRxTasks, SetupDone, datagrams, daemon
<1>2. SocketsInv' /\ OwnedInv'
  <2>1. SocketsInv'
    BY <1>1, SetupDoneKeeps DEF ReceiveInv
  <2>2. DOMAIN interfaces \subseteq DOMAIN rip_cfg
    <3>1. /\ interfaces \in Seq(RipIfc) /\ Len(interfaces) <= Len(rip_cfg)
          /\ Len(rip_cfg) \in Nat /\ DOMAIN rip_cfg = 1 .. Len(rip_cfg)
      BY ConfiguredDevices DEF ReceiveInv, SocketsInv
    <3>2. QED
      BY <3>1
  <2>3. OwnedInv'
    BY <1>1, <2>2 DEF ReceiveInv, OwnedInv
  <2>4. QED
    BY <2>1, <2>3
<1>3. LoopInv'
  BY <1>1 DEF ReceiveInv, LoopInv
<1>4. WayInv
  BY DEF ReceiveInv
<1>5. ASSUME NEW i \in Ifc
      PROVE  Way(IdsOf(Past(handled, current, queue), i), in_hand[i], buffer[i],
                 task'[i], cut[i], expected[i], TopOf(rip_cfg, arrived, i), loop)
  <2>1. Way(IdsOf(Past(handled, current, queue), i), in_hand[i], buffer[i],
            "none", cut[i], expected[i], TopOf(rip_cfg, arrived, i), loop)
    BY <1>1, <1>4 DEF WayInv, ReceiveInv, OwnedInv
  <2>2. Way(IdsOf(Past(handled, current, queue), i), in_hand[i], buffer[i],
            "recv", cut[i], expected[i], TopOf(rip_cfg, arrived, i), loop)
    BY <2>1, WayStarted
  <2>3. task'[i] \in {"none", "recv"}
    BY <1>1
  <2>4. QED
    BY <2>1, <2>2, <2>3
<1>6. WayInv'
  BY <1>1, <1>4, <1>5 DEF WayInv
<1>7. QED
  BY <1>2, <1>3, <1>6 DEF ReceiveInv

-----------------------------------------------------------------------------
(* The steps of the event loop.                                            *)

(* A step of the loop that keeps its sockets and its packets in order      *)
(* keeps the invariant, if it goes on with the same packets or exits with  *)
(* some of them.                                                           *)
LEMMA LoopKeeps ==
    ASSUME ReceiveInv, SocketsInv', LoopInv',
           UNCHANGED <<phase, rip_cfg, interfaces>>,
           UNCHANGED <<datagrams, tasks>>, loop # "exited",
           \/ Past(handled', current', queue') = Past(handled, current, queue)
           \/ /\ loop' = "exited"
              /\ \A i : IdsOf(Past(handled', current', queue'), i)
                            \subseteq IdsOf(Past(handled, current, queue), i)
    PROVE  ReceiveInv'
<1>1. WayInv /\ UNCHANGED <<arrived, expected, buffer, task, cut, in_hand>>
  BY DEF ReceiveInv, datagrams, tasks
<1>2. ASSUME NEW i \in Ifc
      PROVE  Way(IdsOf(Past(handled', current', queue'), i), in_hand[i],
                 buffer[i], task[i], cut[i], expected[i],
                 TopOf(rip_cfg, arrived, i), loop')
  <2> DEFINE past == IdsOf(Past(handled, current, queue), i)
             past2 == IdsOf(Past(handled', current', queue'), i)
             top == TopOf(rip_cfg, arrived, i)
  <2>1. Way(past, in_hand[i], buffer[i], task[i], cut[i], expected[i], top, loop)
    BY <1>1 DEF WayInv
  <2>2. past2 = past \/ (loop' = "exited" /\ past2 \in SUBSET past)
    OBVIOUS
  <2> HIDE DEF past, past2, top
  <2>3. CASE past2 = past
    <3>1. Way(past, in_hand[i], buffer[i], task[i], cut[i], expected[i], top,
              loop')
      BY <2>1, WayLoops
    <3>2. QED
      BY <2>3, <3>1 DEF past2, top
  <2>4. CASE loop' = "exited" /\ past2 \in SUBSET past
    <3>1. Way(past2, in_hand[i], buffer[i], task[i], cut[i], expected[i], top,
              "exited")
      BY <2>1, <2>4, WayExited
    <3>2. QED
      BY <2>4, <3>1 DEF past2, top
  <2>5. QED
    BY <2>2, <2>3, <2>4
<1>3. WayInv' /\ OwnedInv'
  BY <1>1, <1>2 DEF WayInv, ReceiveInv, OwnedInv
<1>4. QED
  BY <1>3 DEF ReceiveInv

(* The loop takes a packet or another event, or sees that all tasks have   *)
(* stopped.                                                                *)
LEMMA SelectKeeps ==
    ASSUME ReceiveInv, TakePacket \/ OtherEvent \/ ReceiveTasksStopped
    PROVE  ReceiveInv'
<1>1. /\ UNCHANGED <<socketVars, datagrams, tasks>> /\ loop = "select"
      /\ handled' = handled
      /\ UNCHANGED <<phase, rip_cfg, todo, tx, interfaces, unicast>>
  BY DEF TakePacket, OtherEvent, ReceiveTasksStopped, socketVars
<1>2. SocketsInv'
  BY <1>1 DEF ReceiveInv, SocketsInv, SocketsOf
<1>3. LoopInv /\ current = None
  BY <1>1 DEF ReceiveInv, LoopInv
<1>4. handled \in Seq(Packet) /\ queue \in Seq(Packet)
  BY <1>3 DEF LoopInv
<1>5. CASE TakePacket
  <2>1. /\ queue # <<>> /\ loop' = "handling"
        /\ current' = Head(queue) /\ queue' = Tail(queue)
    BY <1>5 DEF TakePacket
  <2>2. Past(handled', current', queue') = Past(handled, current, queue)
    BY <1>1, <1>3, <1>4, <2>1, PastTaken
  <2>3. queue' \in Seq(Packet) /\ current' \in Packet
    BY <1>4, <2>1
  <2>4. LoopInv'
    BY <1>1, <1>3, <2>1, <2>2, <2>3 DEF LoopInv
  <2>5. QED
    BY <1>1, <1>2, <2>2, <2>4, LoopKeeps
<1>6. CASE OtherEvent
  <2>1. loop' = "handling" /\ UNCHANGED <<current, queue>>
    BY <1>6 DEF OtherEvent
  <2>2. LoopInv'
    BY <1>1, <1>3, <2>1 DEF LoopInv
  <2>3. QED
    BY <1>1, <1>2, <2>1, <2>2, LoopKeeps
<1>7. CASE ReceiveTasksStopped
  <2>1. loop' = "exited" /\ queue = <<>> /\ UNCHANGED <<current, queue>>
    BY <1>7 DEF ReceiveTasksStopped
  <2>2. LoopInv'
    BY <1>1, <1>3, <2>1 DEF LoopInv
  <2>3. QED
    BY <1>1, <1>2, <2>1, <2>2, LoopKeeps
<1>8. QED
  BY <1>5, <1>6, <1>7

(* A handler is done, and the loop goes on or exits.                       *)
LEMMA HandlerDoneKeeps ==
    ASSUME ReceiveInv, HandlerDone
    PROVE  ReceiveInv'
<1>1. /\ phase = "run" /\ loop = "handling" /\ CloseUnicast
      /\ UNCHANGED <<phase, rip_cfg, interfaces>>
      /\ UNCHANGED <<datagrams, tasks>>
      /\ handled' = IF current = None THEN handled ELSE Append(handled, current)
      /\ current' = None
      /\ \/ loop' = "select" /\ queue' = queue
         \/ loop' = "exited" /\ queue' = <<>>
  BY DEF HandlerDone, CloseUnicast
<1>2. SocketsInv'
  BY <1>1, UnicastKeeps DEF ReceiveInv
<1>3. /\ handled \in Seq(Packet) /\ queue \in Seq(Packet)
      /\ current \in Packet \cup {None}
      /\ InOrder(Past(handled, current, queue))
  BY DEF ReceiveInv, LoopInv
<1>4. /\ handled' \in Seq(Packet)
      /\ Past(handled', None, queue) = Past(handled, current, queue)
  <2>1. CASE current = None
    BY <1>1, <1>3, <2>1
  <2>2. CASE current # None
    <3>1. handled' = Append(handled, current) /\ current \in Packet
      BY <1>1, <1>3, <2>2
    <3>2. QED
      BY <1>3, <3>1, PastHandled
  <2>3. QED
    BY <2>1, <2>2
<1>5. CASE loop' = "select" /\ queue' = queue
  <2>1. LoopInv'
    BY <1>1, <1>3, <1>4, <1>5 DEF LoopInv
  <2>2. QED
    BY <1>1, <1>2, <1>4, <1>5, <2>1, LoopKeeps
<1>6. CASE loop' = "exited" /\ queue' = <<>>
  <2> DEFINE p == Past(handled', None, <<>>)
  <2>1. p \in Seq(Packet)
    <3>1. <<>> \in Seq(Packet)
      OBVIOUS
    <3>2. QED
      BY <1>4, <3>1, PastType
  <2>2. Past(handled', None, queue) = p \o queue
    BY <1>3, <1>4, PastDropped
  <2> HIDE DEF p
  <2>3. InOrder(p) /\ \A i : IdsOf(p, i) \subseteq IdsOf(p \o queue, i)
    BY <1>3, <1>4, <2>1, <2>2, DropPackets
  <2>4. Past(handled', current', queue') = p
    BY <1>1, <1>6 DEF p
  <2>5. LoopInv'
    BY <1>1, <1>4, <1>6, <2>3, <2>4 DEF LoopInv
  <2>6. \A i : IdsOf(Past(handled', current', queue'), i)
                   \subseteq IdsOf(Past(handled, current, queue), i)
    BY <1>4, <2>2, <2>3, <2>4
  <2>7. QED
    BY <1>1, <1>2, <1>6, <2>5, <2>6, LoopKeeps
<1>7. QED
  BY <1>1, <1>5, <1>6

-----------------------------------------------------------------------------
(* The theorems.                                                           *)

(* Before the first step nothing has come and nothing is open.             *)
LEMMA ReceiveInit ==
    ASSUME Init
    PROVE  ReceiveInv
<1>1. SocketsInv
  <2>1. /\ phase = "setup" /\ rip_cfg \in Configurations /\ todo = rip_cfg
        /\ tx = None /\ interfaces = <<>> /\ unicast = None
    BY DEF Init, SocketInit
  <2>2. rip_cfg \in Seq(Device)
    BY <2>1, SocketAssumption
  <2>3. /\ Len(interfaces) = 0 /\ DOMAIN interfaces = {}
        /\ interfaces \in Seq(RipIfc)
    BY <2>1
  <2>4. Len(rip_cfg) \in Nat /\ DOMAIN todo \subseteq Nat
    BY <2>1, <2>2
  <2>5. QED
    BY <2>1, <2>2, <2>3, <2>4 DEF SocketsInv
<1>2. handled = <<>> /\ current = None /\ queue = <<>> /\ loop = "select"
  BY DEF Init
<1>3. Past(handled, current, queue) = <<>>
  BY <1>2 DEF Past
<1>4. LoopInv
  <2>1. InOrder(<<>>)
    BY DEF InOrder
  <2>2. <<>> \in Seq(Packet)
    OBVIOUS
  <2>3. QED
    BY <1>2, <1>3, <2>1, <2>2 DEF LoopInv
<1>5. WayInv
  <2>1. /\ arrived = [dev \in Device |-> 0]
        /\ expected = [i \in Ifc |-> {}]
        /\ buffer = [i \in Ifc |-> <<>>]
        /\ task = [i \in Ifc |-> "none"]
        /\ in_hand = [i \in Ifc |-> None]
        /\ cut = [i \in Ifc |-> None]
    BY DEF Init
  <2>2. rip_cfg \in Seq(Device) /\ DOMAIN rip_cfg = 1 .. Len(rip_cfg)
    BY <1>1, ConfiguredDevices
  <2>3. ASSUME NEW i \in Ifc
        PROVE  Way(IdsOf(<<>>, i), None, <<>>, "none", cut[i], {},
                   TopOf(rip_cfg, arrived, i), loop)
    <3>1. TopOf(rip_cfg, arrived, i) = 0
      BY <2>1, <2>2 DEF TopOf
    <3>2. IdsOf(<<>>, i) = {}
      BY DEF IdsOf
    <3>3. <<>> \in Seq(Datagram) /\ DOMAIN <<>> = {}
      OBVIOUS
    <3>4. Chain({}, None, <<>>, 0)
      BY <3>3 DEF Chain
    <3>5. HeardOf({}, None, <<>>) = {}
      BY <3>3 DEF HeardOf
    <3>6. Complete({}, None, <<>>, "none", cut[i], {}, 0)
      BY <3>5 DEF Complete
    <3>7. QED
      BY <3>1, <3>2, <3>4, <3>6 DEF Way
  <2>4. QED
    BY <1>3, <2>1, <2>3 DEF WayInv
<1>6. OwnedInv
  <2>1. interfaces = <<>> /\ DOMAIN <<>> = {} /\ task = [i \in Ifc |-> "none"]
    BY DEF Init, SocketInit
  <2>2. QED
    BY <2>1 DEF OwnedInv
<1>7. QED
  BY <1>1, <1>4, <1>5, <1>6 DEF ReceiveInv

(* The sockets, the tasks, the channel and the loop of run() are at all    *)
(* times as the invariant says.                                            *)
THEOREM ReceiveInvariant == Spec => []ReceiveInv
<1>1. Init => ReceiveInv
  BY ReceiveInit
<1>2. ReceiveInv /\ [Next]_vars => ReceiveInv'
  <2> SUFFICES ASSUME ReceiveInv, [Next]_vars PROVE ReceiveInv'
    OBVIOUS
  <2>1. CASE SetUp
    BY <2>1, SocketStepsKeep
  <2>2. CASE SpawnRxTasks
    BY <2>2, SpawnKeeps
  <2>3. CASE \E dev \in Device, form \in Form :
                 MulticastArrives(dev, form) \/ UnicastArrives(dev, form)
    BY <2>3, KernelKeeps
  <2>4. ASSUME NEW i \in Ifc,
               RecvFrom(i) \/ RecvUnparsable(i) \/ RecvFails(i)
        PROVE  ReceiveInv'
    BY <2>4, RecvFromKeeps, BreakKeeps
  <2>5. ASSUME NEW i \in Ifc, SendPacket(i) \/ SendIgnored(i) PROVE ReceiveInv'
    BY <2>5, SendKeeps
  <2>6. ASSUME NEW i \in Ifc, SendMulticast(i) PROVE ReceiveInv'
    BY <2>6, SendMulticastKeeps
  <2>7. ASSUME NEW i \in Ifc, OpenAnswer(i) PROVE ReceiveInv'
    BY <2>7, SocketStepsKeep
  <2>8. CASE TakePacket \/ OtherEvent \/ ReceiveTasksStopped
    BY <2>8, SelectKeeps
  <2>9. CASE HandlerDone
    BY <2>9, HandlerDoneKeeps
  <2>10. CASE Terminated \/ UNCHANGED vars
    BY <2>10, SocketStepsKeep DEF Terminated
  <2>11. QED
    BY <2>1, <2>2, <2>3, <2>4, <2>5, <2>6, <2>7, <2>8, <2>9, <2>10 DEF Next
<1>3. QED
  BY <1>1, <1>2, PTL DEF Spec

(* The packets of one interface reach handle_packet in the order in which  *)
(* they came and none twice, for any number of tasks that send into the    *)
(* channel of run().                                                       *)
THEOREM InOrderAtMostOnceHolds == Spec => []InOrderAtMostOnce
<1>1. ReceiveInv => InOrderAtMostOnce
  <2> SUFFICES ASSUME ReceiveInv PROVE InOrderAtMostOnce
    OBVIOUS
  <2>1. InOrder(Past(handled, current, queue))
    BY DEF ReceiveInv, LoopInv
  <2>2. Pipeline = Past(handled, current, queue)
    BY DEF Pipeline, Past
  <2>3. InOrder(Pipeline)
    BY <2>1, <2>2
  <2>4. QED
    BY <2>3 DEF InOrder, InOrderAtMostOnce
<1>2. QED
  BY <1>1, ReceiveInvariant, PTL

(* An interface of any configuration hears exactly the datagrams of its    *)
(* neighbours for which its socket had room: no socket that the daemon     *)
(* opens takes any of them away or gives it one of its own.  A task that   *)
(* breaks hands on all that came before, and with its socket loses all     *)
(* that waits and all that is still to come.                               *)
THEOREM HearsTheNeighboursHolds == Spec => []HearsTheNeighbours
<1>1. ReceiveInv => HearsTheNeighbours
  <2> SUFFICES ASSUME ReceiveInv, loop # "exited", NEW i \in Ifc
               PROVE  LET heard == {buffer[i][n].id : n \in DOMAIN buffer[i]}
                                   \cup Ids(i) \cup ({in_hand[i]} \ {None})
                      IN  heard = {x \in expected[i] :
                                      task[i] = "stopped" => x < cut[i]}
    BY DEF HearsTheNeighbours
  <2>1. Ids(i) = IdsOf(Past(handled, current, queue), i)
    BY DEF Ids, IdsOf, Pipeline, Past
  <2>2. Complete(Ids(i), in_hand[i], buffer[i], task[i], cut[i], expected[i],
                 TopOf(rip_cfg, arrived, i))
    BY <2>1 DEF ReceiveInv, WayInv, Way
  <2>3. QED
    BY <2>2 DEF Complete, HeardOf
<1>2. QED
  BY <1>1, ReceiveInvariant, PTL

=============================================================================
