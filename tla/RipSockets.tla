----------------------------- MODULE RipSockets -----------------------------
(***************************************************************************)
(* The sockets of the daemon: two per interface (rip_socket.rs,            *)
(* rip_ifc.rs) and one for each unicast response (rip_updater.rs).         *)
(*                                                                         *)
(* All of them are bound to port 520 of one device.  The rules of the      *)
(* kernel are taken from how the code uses them: sockets that share device *)
(* and port must all have SO_REUSEPORT; a multicast datagram goes to every *)
(* socket of its device that joined the group; a unicast datagram goes to  *)
(* one socket of its device.  ReceiveTasks says what the daemon does with  *)
(* the datagrams.                                                          *)
(***************************************************************************)
EXTENDS Integers, Sequences

CONSTANTS
    Device,
    Configurations,   \* possible rip_interfaces of the configuration
    None

(* An open socket.                                                         *)
Socket == [bound_to : Device, reuse_port : BOOLEAN,
           multicast_group : BOOLEAN, multicast_loop : BOOLEAN,
           role : {"rx", "tx", "unicast"}]

ASSUME SocketAssumption ==
    Configurations \subseteq Seq(Device) /\ None \notin Socket

VARIABLES
    phase,        \* "setup", "run", or why the daemon ended
    rip_cfg,      \* the configuration
    todo,         \* interfaces left to set up
    tx,           \* the sending socket of the interface being set up
    interfaces,   \* RipDeamon::interfaces, with what its tasks own
    unicast       \* the socket of the response being sent

socketVars == <<phase, rip_cfg, todo, tx, interfaces, unicast>>

(* The receiving socket is moved into the receive task of the interface,   *)
(* and is gone when the task is.                                           *)
RipIfc == [rx : Socket \cup {None}, tx : Socket]

-----------------------------------------------------------------------------
(* Opening.                                                                *)

(* Mutant: without set_reuse_port.                                         *)
bind_port_and_device_alone(dev, role) ==
    [bound_to |-> dev, reuse_port |-> FALSE,
     multicast_group |-> FALSE, multicast_loop |-> TRUE, role |-> role]

(* multicast_loop is on unless it is switched off.                         *)
bind_port_and_device(dev, role) ==
    [bound_to |-> dev, reuse_port |-> TRUE,
     multicast_group |-> FALSE, multicast_loop |-> TRUE, role |-> role]

create_multicast_rx_socket(dev) ==
    [bind_port_and_device(dev, "rx") EXCEPT !.multicast_group = TRUE]

create_multicast_tx_socket(dev) ==
    [bind_port_and_device(dev, "tx") EXCEPT !.multicast_loop = FALSE]

create_unicast_tx_socket(dev) == bind_port_and_device(dev, "unicast")

(* All open sockets.  An interface may be configured twice: its sockets    *)
(* are told apart by their place.                                          *)
OpenSockets ==
    {[at |-> n, socket |-> interfaces[n].rx] :
        n \in {m \in DOMAIN interfaces : interfaces[m].rx # None}}
    \cup {[at |-> n, socket |-> interfaces[n].tx] : n \in DOMAIN interfaces}
    \cup (IF tx = None THEN {} ELSE {[at |-> Len(interfaces) + 1, socket |-> tx]})
    \cup (IF unicast = None THEN {} ELSE {[at |-> 0, socket |-> unicast]})

(* EADDRINUSE.                                                             *)
AddressInUse(socket) ==
    \E s \in OpenSockets :
        /\ s.socket.bound_to = socket.bound_to
        /\ ~(s.socket.reuse_port /\ socket.reuse_port)

(* The daemon ends, and its sockets are dropped.                           *)
Drop(reason) ==
    /\ phase' = reason
    /\ tx' = None /\ interfaces' = <<>> /\ unicast' = None
    /\ UNCHANGED <<rip_cfg, todo>>

SocketInit ==
    /\ phase = "setup"
    /\ rip_cfg \in Configurations /\ todo = rip_cfg
    /\ tx = None /\ interfaces = <<>> /\ unicast = None

(* RipIfc::create_ifc opens the sending socket first.                      *)
CreateTx ==
    /\ phase = "setup" /\ todo # <<>> /\ tx = None
    /\ LET socket == create_multicast_tx_socket(Head(todo))
       IN  IF AddressInUse(socket)
           THEN Drop("address_in_use")
           ELSE /\ tx' = socket
                /\ UNCHANGED <<phase, rip_cfg, todo, interfaces, unicast>>

CreateRx ==
    /\ phase = "setup" /\ tx # None
    /\ LET socket == create_multicast_rx_socket(Head(todo))
       IN  IF AddressInUse(socket)
           THEN Drop("address_in_use")
           ELSE /\ interfaces' = Append(interfaces, [rx |-> socket, tx |-> tx])
                /\ tx' = None /\ todo' = Tail(todo)
                /\ UNCHANGED <<phase, rip_cfg, unicast>>

(* No such device, no permission, the group cannot be joined.              *)
SetupFails ==
    /\ phase = "setup" /\ todo # <<>>
    /\ Drop("setup_failed")

SetupDone ==
    /\ phase = "setup" /\ todo = <<>>
    /\ phase' = "run"
    /\ UNCHANGED <<rip_cfg, todo, tx, interfaces, unicast>>

(* A receive task drops the socket it owns, which leaves the group.        *)
DropRx(n) ==
    /\ interfaces' = [interfaces EXCEPT ![n].rx = None]
    /\ UNCHANGED <<phase, rip_cfg, todo, tx, unicast>>

-----------------------------------------------------------------------------
(* Unicast responses: rip_send_response_unicast has a socket of its own,   *)
(* closed when it returns.                                                 *)

OpenUnicast(n) ==
    /\ phase = "run" /\ unicast = None /\ n \in DOMAIN interfaces
    /\ LET socket == create_unicast_tx_socket(interfaces[n].tx.bound_to)
       IN  IF AddressInUse(socket)
           THEN Drop("address_in_use")
           ELSE /\ unicast' = socket
                /\ UNCHANGED <<phase, rip_cfg, todo, tx, interfaces>>

CloseUnicast ==
    /\ unicast' = None
    /\ UNCHANGED <<phase, rip_cfg, todo, tx, interfaces>>

-----------------------------------------------------------------------------
(* The kernel.                                                             *)

On(dev) == {s \in OpenSockets : s.socket.bound_to = dev}

(* The places of the interfaces whose receiving socket gets a multicast.   *)
MulticastTo(dev) ==
    {s.at : s \in {x \in On(dev) : x.socket.multicast_group}}

(* The same for the daemon's own multicast on interface n.                 *)
OwnMulticastTo(n) ==
    IF interfaces[n].tx.multicast_loop
    THEN MulticastTo(interfaces[n].tx.bound_to)
    ELSE {}

(* A unicast is for one of the sockets; 0 stands for the ones nobody reads. *)
UnicastTo(dev) ==
    {IF s.socket.role = "rx" THEN s.at ELSE 0 : s \in On(dev)}

=============================================================================
