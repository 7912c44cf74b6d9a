------------------------------- MODULE RipWire -------------------------------
(***************************************************************************)
(* From a configured network to the route a neighbour learns: the          *)
(* conversion of a network to an entry (rip_route.rs), the bytes of a      *)
(* packet (rip_packet.rs, rip_updater.rs) and the checks on a received     *)
(* entry (address.rs).                                                     *)
(*                                                                         *)
(* Two daemons on a link: the sender has local networks, of this link or   *)
(* of its other interfaces, advertises them and answers requests, the      *)
(* receiver learns.  The order of a HashMap is arbitrary, datagrams are    *)
(* lost and reordered, and other programs on the link send datagrams of    *)
(* any length and entries with any mask; what the receiver learns from     *)
(* those is not recorded.  Machines are big-endian or little-endian: an    *)
(* integer is written to memory in that order, while from_be_bytes means   *)
(* the same everywhere.                                                    *)
(***************************************************************************)
EXTENDS AddressChecks, SequencesExt

CONSTANTS
    Network,          \* the networks of configurations and HTTP requests
    IfIndex,          \* the index of each interface of the sender, by name
    Link,             \* the index of the one to the receiver
    MaxEntries,       \* RIP_RESPONSE_MAX_ENTRIES, 25
    MaxLocal,         \* bound on the local networks
    ForeignEntry,     \* address and mask in responses of other programs
    ForeignLength,    \* lengths of other datagrams
    None

ASSUME WireAssumption ==
    /\ Network \subseteq [address : u32, prefix : Nat, dev : STRING]
    /\ ForeignEntry \subseteq [address : u32, mask : u32]
    /\ ForeignLength \subseteq Nat
    /\ MaxEntries \in Nat \ {0} /\ MaxLocal \in Nat
    /\ \A S \in SUBSET Network : S # None

VARIABLES
    big_endian,   \* the byte order of the machines
    local,        \* the sender's local routes
    accepted,     \* the networks it said yes to
    advertised,   \* those of them an advertisement was made for
    wire,         \* datagrams in flight
    told,         \* the networks the receiver was told of
    learned,      \* the routes it learned from them
    receiver      \* what became of its receive task and of its daemon

vars ==
    <<big_endian, local, accepted, advertised, wire, told, learned, receiver>>

-----------------------------------------------------------------------------
(* Bytes.                                                                  *)

RIP_HEADER_SIZE == 4
RIP_ENTRY_SIZE == 20
RIP_CMD_REQUEST == 1
RIP_CMD_RESPONSE == 2
RIP_2_VERSION == 2

(* The bytes of an integer in memory, and the swap that to_be makes on a   *)
(* little-endian machine.                                                  *)
in_memory(n) == IF big_endian THEN n ELSE Reverse(n)

to_be_int(n) == IF big_endian THEN n ELSE Reverse(n)

(* Mutant: the fields are left in the order of the machine.                *)
to_be_forgotten(entry) == entry

to_be(entry) ==
    [routing_family_id |-> to_be_int(entry.routing_family_id),
     route_tag |-> to_be_int(entry.route_tag),
     ip_address |-> to_be_int(entry.ip_address),
     subnet_mask |-> to_be_int(entry.subnet_mask),
     next_hop |-> to_be_int(entry.next_hop),
     metric |-> to_be_int(entry.metric)]

(* repr(C): the fields follow each other without gaps.                     *)
entry_as_bytes(entry) ==
    in_memory(entry.routing_family_id) \o in_memory(entry.route_tag)
    \o in_memory(entry.ip_address) \o in_memory(entry.subnet_mask)
    \o in_memory(entry.next_hop) \o in_memory(entry.metric)

header_as_bytes(command) == <<command, RIP_2_VERSION>> \o in_memory(<<0, 0>>)

RIP_ENTRY_REQUEST ==
    [routing_family_id |-> <<0, 0>>, route_tag |-> <<0, 0>>,
     ip_address |-> <<0, 0, 0, 0>>, subnet_mask |-> <<0, 0, 0, 0>>,
     next_hop |-> <<0, 0, 0, 0>>, metric |-> <<0, 0, 0, 16>>]

(* slice::chunks                                                           *)
chunks(s, size) ==
    [n \in 1 .. (Len(s) + size - 1) \div size |->
        SubSeq(s, (n - 1) * size + 1,
               IF n * size < Len(s) THEN n * size ELSE Len(s))]

(* Each entry is copied to its offset in a buffer of the right size.       *)
build_response_buffer(entries) ==
    LET header == header_as_bytes(RIP_CMD_RESPONSE)
        bytes == [n \in DOMAIN entries |-> entry_as_bytes(to_be(entries[n]))]
    IN  [i \in 1 .. RIP_HEADER_SIZE + Len(entries) * RIP_ENTRY_SIZE |->
            IF i <= RIP_HEADER_SIZE
            THEN header[i]
            ELSE bytes[((i - RIP_HEADER_SIZE - 1) \div RIP_ENTRY_SIZE) + 1]
                      [((i - RIP_HEADER_SIZE - 1) % RIP_ENTRY_SIZE) + 1]]

build_response_buffers(entries) ==
    LET parts == chunks(entries, MaxEntries)
    IN  [n \in DOMAIN parts |-> build_response_buffer(parts[n])]

request_buffer ==
    header_as_bytes(RIP_CMD_REQUEST) \o entry_as_bytes(to_be(RIP_ENTRY_REQUEST))

-----------------------------------------------------------------------------
(* Parsing.                                                                *)

(* data.len() - RIP_HEADER_SIZE is a usize.  For a shorter datagram it     *)
(* wraps around 2^64, which leaves 16 when divided by 20; a debug build    *)
(* panics, and ends the receive task as an error does.                     *)
is_malformed(data) ==
    IF Len(data) < RIP_HEADER_SIZE
    THEN (16 + Len(data) - RIP_HEADER_SIZE) % RIP_ENTRY_SIZE # 0
    ELSE (Len(data) - RIP_HEADER_SIZE) % RIP_ENTRY_SIZE # 0

entry_from_slice(data) ==
    [routing_family_id |-> SubSeq(data, 1, 2), route_tag |-> SubSeq(data, 3, 4),
     ip_address |-> SubSeq(data, 5, 8), subnet_mask |-> SubSeq(data, 9, 12),
     next_hop |-> SubSeq(data, 13, 16), metric |-> SubSeq(data, 17, 20)]

from_slice(data) ==
    [command |-> data[1], version |-> data[2],
     entries |->
        [n \in 1 .. (Len(data) - RIP_HEADER_SIZE) \div RIP_ENTRY_SIZE |->
            entry_from_slice(
                SubSeq(data, RIP_HEADER_SIZE + (n - 1) * RIP_ENTRY_SIZE + 1,
                             RIP_HEADER_SIZE + n * RIP_ENTRY_SIZE))]]

(* Mutant: the entry of a request is compared as it is on the wire.        *)
is_request_in_memory(packet) ==
    /\ packet.command = RIP_CMD_REQUEST
    /\ Len(packet.entries) = 1
    /\ packet.entries[1] = to_be(RIP_ENTRY_REQUEST)

is_request(packet) ==
    /\ packet.command = RIP_CMD_REQUEST
    /\ Len(packet.entries) = 1
    /\ packet.entries[1] = RIP_ENTRY_REQUEST

is_response(packet) == packet.command = RIP_CMD_RESPONSE

(* The metric as a number; what exceeds a byte is as invalid as 255.       *)
metric_of(entry) ==
    IF SubSeq(entry.metric, 1, 3) = <<0, 0, 0>> THEN entry.metric[4] ELSE 255

is_entry_valid(entry) ==
    /\ is_unicast_address(entry.ip_address)
    /\ is_net_mask_valid(entry.subnet_mask)
    /\ metric_of(entry) \in 1 .. 16

-----------------------------------------------------------------------------
(* The sender.                                                             *)

(* advertised_network_to_local_route, AF_INET being 2.                     *)
local_entry(network) ==
    [routing_family_id |-> <<0, 2>>, route_tag |-> <<0, 0>>,
     ip_address |-> bitand(network.address, prefix_to_mask(network.prefix)),
     subnet_mask |-> prefix_to_mask(network.prefix),
     next_hop |-> <<0, 0, 0, 0>>, metric |-> <<0, 0, 0, 1>>]

(* Names the kernel does not know are refused.                             *)
ifc_nametoindex_fails(dev) == dev \notin DOMAIN IfIndex

ifc_nametoindex(dev) == IfIndex[dev]

same_key(e, f) == e.ip_address = f.ip_address /\ e.subnet_mask = f.subnet_mask

Init ==
    /\ big_endian \in BOOLEAN
    /\ local = {} /\ accepted = {} /\ advertised = {}
    /\ wire = {} /\ told = {} /\ learned = {}
    /\ receiver = "running"

(* setup_advertised_network.  An unknown interface and a prefix beyond 32  *)
(* are refused, and so is a destination that has a route, on whatever      *)
(* interface.                                                              *)
AddNetwork(network) ==
    /\ Cardinality(local) < MaxLocal
    /\ ~ifc_nametoindex_fails(network.dev)
    /\ ~prefix_to_mask_fails(network.prefix)
    /\ \A r \in local : ~same_key(r.rip_entry, local_entry(network))
    /\ local' = local \cup {[rip_entry |-> local_entry(network),
                             if_index |-> ifc_nametoindex(network.dev),
                             changed |-> TRUE]}
    /\ accepted' = accepted \cup {network}
    /\ UNCHANGED <<big_endian, advertised, wire, told, learned, receiver>>

(* Mutant: split horizon is left to the full updates.                      *)
routes_for_advertisement_either(target_if_index, changed_only) ==
    {[r.rip_entry EXCEPT !.next_hop = <<0, 0, 0, 0>>] :
        r \in {x \in local : IF changed_only THEN x.changed
                             ELSE x.if_index # target_if_index}}

(* The entries of the routes that are not of the interface they are for,   *)
(* all of them or the changed ones.                                        *)
get_routes_for_advertisement(target_if_index, changed_only) ==
    {[r.rip_entry EXCEPT !.next_hop = <<0, 0, 0, 0>>] :
        r \in {x \in local : /\ changed_only => x.changed
                             /\ x.if_index # target_if_index}}

mark_all_routes_as_unchanged == {[r EXCEPT !.changed = FALSE] : r \in local}

(* A datagram, and what it was meant to say.                               *)
datagram(data, meant) == [data |-> data, meant |-> meant]

meaning(entries) ==
    {network \in accepted :
        \E n \in DOMAIN entries : same_key(entries[n], local_entry(network))}

(* The datagrams for the entries in the order of s.                        *)
response(s) ==
    LET buffers == build_response_buffers(s)
    IN  {datagram(buffers[n], meaning(chunks(s, MaxEntries)[n])) :
            n \in DOMAIN buffers}

(* send_multicast_advertisement, of which the receiver gets what goes out  *)
(* on the link.  Without entries there is no datagram.  Sends that fail    *)
(* are RipDaemon's matter.                                                 *)
SendAdvertisement(changed_only) ==
    /\ wire = {}
    /\ local' = mark_all_routes_as_unchanged
    /\ advertised' = accepted
    /\ UNCHANGED <<big_endian, accepted, told, learned, receiver>>
    /\ \E s \in SetToSeqs(get_routes_for_advertisement(Link, changed_only)) :
           wire' = response(s)

SendRequest ==
    /\ wire = {}
    /\ wire' = {datagram(request_buffer, {})}
    /\ UNCHANGED <<big_endian, local, accepted, advertised, told, learned,
                   receiver>>

(* Datagrams of other programs: a response with one entry, or zeros.       *)
SendForeignResponse(e) ==
    /\ wire = {}
    /\ wire' = {datagram(
           header_as_bytes(RIP_CMD_RESPONSE) \o <<0, 2, 0, 0>>
           \o e.address \o e.mask \o <<0, 0, 0, 0>> \o <<0, 0, 0, 1>>, None)}
    /\ UNCHANGED <<big_endian, local, accepted, advertised, told, learned,
                   receiver>>

SendForeign(len, command) ==
    /\ wire = {}
    /\ wire' = {datagram(
           [n \in 1 .. len |-> IF n = 1 THEN command ELSE IF n = 2 THEN 2 ELSE 0],
           None)}
    /\ UNCHANGED <<big_endian, local, accepted, advertised, told, learned,
                   receiver>>

Lose(d) ==
    /\ d \in wire
    /\ wire' = wire \ {d}
    /\ UNCHANGED <<big_endian, local, accepted, advertised, told, learned,
                   receiver>>

-----------------------------------------------------------------------------
(* The receiver: parse_rx_data, handle_packet and, for each entry of a     *)
(* response, response_entry_to_route and build_route_message.              *)

route(entry) ==
    [destination |-> entry.ip_address,
     prefix_len |-> leading_ones(entry.subnet_mask),
     mask |-> entry.subnet_mask]

routes(packet) ==
    {route(packet.entries[n]) :
        n \in {x \in DOMAIN packet.entries : is_entry_valid(packet.entries[x])}}

(* The receive task breaks.                                                *)
ReceiveMalformed(d) ==
    /\ receiver = "running" /\ d \in wire
    /\ is_malformed(d.data)
    /\ wire' = wire \ {d}
    /\ receiver' = "deaf"
    /\ UNCHANGED <<big_endian, local, accepted, advertised, told, learned>>

(* rip_send_response_unicast: the sender answers on the interface of the   *)
(* request, whether its routes have changed or not, and marks none.        *)
ReceiveRequest(d) ==
    /\ receiver = "running" /\ d \in wire
    /\ ~is_malformed(d.data)
    /\ is_request(from_slice(d.data))
    /\ \E s \in SetToSeqs(get_routes_for_advertisement(Link, FALSE)) :
           wire' = (wire \ {d}) \cup response(s)
    /\ UNCHANGED <<big_endian, local, accepted, advertised, told, learned,
                   receiver>>

ReceiveResponse(d) ==
    /\ receiver = "running" /\ d \in wire
    /\ ~is_malformed(d.data)
    /\ LET packet == from_slice(d.data)
       IN  /\ ~is_request(packet) /\ is_response(packet)
           /\ packet.version = RIP_2_VERSION
           /\ IF d.meant = None
              THEN UNCHANGED <<told, learned>>
              ELSE /\ told' = told \cup d.meant
                   /\ learned' = learned \cup routes(packet)
    /\ wire' = wire \ {d}
    /\ UNCHANGED <<big_endian, local, accepted, advertised, receiver>>

(* handle_packet returns Err, which ends run().                            *)
ReceiveUnknown(d) ==
    /\ receiver = "running" /\ d \in wire
    /\ ~is_malformed(d.data)
    /\ LET packet == from_slice(d.data)
       IN  ~is_request(packet)
           /\ (~is_response(packet) \/ packet.version # RIP_2_VERSION)
    /\ wire' = wire \ {d}
    /\ receiver' = "exited"
    /\ UNCHANGED <<big_endian, local, accepted, advertised, told, learned>>

Restart ==
    /\ receiver # "running"
    /\ receiver' = "running"
    /\ told' = {} /\ learned' = {}
    /\ UNCHANGED <<big_endian, local, accepted, advertised, wire>>

Next ==
    \/ \E network \in Network : AddNetwork(network)
    \/ \E changed_only \in BOOLEAN : SendAdvertisement(changed_only)
    \/ SendRequest
    \/ \E e \in ForeignEntry : SendForeignResponse(e)
    \/ \E len \in ForeignLength, command \in {0, 1, 2} : SendForeign(len, command)
    \/ \E d \in wire :
           \/ Lose(d)
           \/ ReceiveMalformed(d)
           \/ ReceiveRequest(d)
           \/ ReceiveResponse(d)
           \/ ReceiveUnknown(d)
    \/ Restart

Spec == Init /\ [][Next]_vars

-----------------------------------------------------------------------------
(* Properties.                                                             *)

(* The destination a network stands for, bit by bit.                       *)
Destination(network) ==
    [destination |-> from_ones({i \in ones(network.address) : i < network.prefix}),
     prefix_len |-> network.prefix,
     mask |-> from_ones(0 .. network.prefix - 1)]

(* The networks a neighbour believes: default and host routes, loopback,   *)
(* multicast and 0.x.y.z networks are accepted from the configuration and  *)
(* announced, but nobody learns them.                                      *)
Believable(network) ==
    /\ network.prefix \in 1 .. U32_BITS - 1
    /\ Destination(network).destination[1] \notin {0, 127} \cup 224 .. 255

(* The neighbour has learned exactly the believable networks it was told   *)
(* of, each with the destination and the prefix length that was            *)
(* configured: whatever the byte order, the order of the routes, their     *)
(* number, and the datagrams that were lost.                               *)
LearnsWhatWasConfigured ==
    learned = {Destination(n) : n \in {x \in told : Believable(x)}}

(* A route that is taken from whatever datagram has a contiguous mask, the *)
(* one that its prefix length in the kernel stands for, and a unicast      *)
(* destination.                                                            *)
KernelMeansTheSame ==
    \A d \in wire :
        ~is_malformed(d.data) =>
            \A r \in routes(from_slice(d.data)) :
                /\ r.prefix_len \in 1 .. U32_BITS - 1
                /\ r.mask = from_ones(0 .. r.prefix_len - 1)
                /\ r.destination[1] \notin {0, 127} \cup 224 .. 255

(* What the entries of a packet say, believed or not.                      *)
announced(packet) == {route(packet.entries[n]) : n \in DOMAIN packet.entries}

(* The networks a neighbour on the link is to hear of: those of the other  *)
(* interfaces, and in a triggered update those accepted since the last     *)
(* advertisement.                                                          *)
Due(changed_only) ==
    {n \in accepted : /\ IfIndex[n.dev] # Link
                      /\ changed_only => n \notin advertised}

Announce(datagrams) == UNION {announced(from_slice(d.data)) : d \in datagrams}

(* The packets of an advertisement announce the destinations of exactly    *)
(* the networks that are due, and the answer to a request those that are   *)
(* due in full, whatever was advertised before: however a network is       *)
(* written, with host bits or with a prefix of 0, where u32::MAX must not  *)
(* be shifted by 32; however many there are, wherever the limit of         *)
(* MaxEntries cuts, and whichever network with that destination was        *)
(* accepted first.                                                         *)
AnnouncesWhatIsConfigured ==
    [][(\A d \in wire' : d.meant # None) =>
           /\ \A changed_only \in BOOLEAN :
                  SendAdvertisement(changed_only)
                      => Announce(wire')
                             = {Destination(n) : n \in Due(changed_only)}
           /\ \A d \in wire \ wire' :
                  ReceiveRequest(d)
                      => Announce(wire' \ wire)
                             = {Destination(n) : n \in Due(FALSE)}]_vars

(* A daemon understands every datagram of another one: no response and no  *)
(* request ends a receive task or a daemon.                                *)
OwnDatagramsUnderstood ==
    [][receiver = "running" /\ receiver' # "running"
           => \E d \in wire \ wire' : d.meant = None]_vars

=============================================================================
