-------------------------- MODULE NetworkInterface --------------------------
(***************************************************************************)
(* src/network_interface: IP datagrams go out in Ethernet frames, to the   *)
(* address ARP finds for the next hop.  The object is a record with the    *)
(* source's members; its maps are functions on the keys they hold.  A      *)
(* method that transmits returns the interface and the frames it gave to   *)
(* the OutputPort.  current_time_ does not wrap here: it counts            *)
(* milliseconds in 64 bits.                                                *)
(***************************************************************************)
EXTENDS Integers, Sequences, Functions

CONSTANTS
    MAP_TTL,     \* how long a learnt mapping is kept: 30000 ms
    ARP_TTL,     \* how long a request is waited for: 5000 ms
    BROADCAST,   \* ETHERNET_BROADCAST
    Malformed    \* a payload that does not parse

ASSUME TTLAssumption == ARP_TTL \in Nat /\ MAP_TTL \in Nat /\ ARP_TTL <= MAP_TTL

NewInterface(ethernet_address, ip_address) ==
    [ethernet_address |-> ethernet_address, ip_address |-> ip_address,
     datagrams_received |-> <<>>, datagrams_waiting |-> <<>>,
     arp_requests_waiting |-> <<>>, ip_ether_map |-> <<>>, current_time |-> 0]

\* map[key] = value of a std::unordered_map
Put(map, key, value) ==
    [k \in DOMAIN map \cup {key} |-> IF k = key THEN value ELSE map[k]]

\* erase(key)
Erased(map, key) == Restrict(map, DOMAIN map \ {key})

ARPMessage(opcode, sender_ether, sender_ip, target_ip) ==
    [opcode |-> opcode, sender_ethernet_address |-> sender_ether,
     sender_ip_address |-> sender_ip, target_ip_address |-> target_ip]

Frame(n, dst, type, payload) ==
    [src |-> n.ethernet_address, dst |-> dst, type |-> type,
     payload |-> payload]

Knows(n, ip)     == ip \in DOMAIN n.ip_ether_map
HasAsked(n, ip)  == ip \in DOMAIN n.arp_requests_waiting
WaitingFor(n, ip) ==
    IF ip \in DOMAIN n.datagrams_waiting THEN n.datagrams_waiting[ip] ELSE <<>>

\* The ARP request of send_datagram
Request(n, ip) ==
    Frame(n, BROADCAST, "ARP",
          ARPMessage("REQUEST", n.ethernet_address, n.ip_address, ip))

\* The ARP reply of recv_frame
ReplyTo(n, arp) ==
    Frame(n, arp.sender_ethernet_address, "ARP",
          ARPMessage("REPLY", n.ethernet_address, n.ip_address,
                     arp.sender_ip_address))

\* Mutated form of Enqueued: asks again for every datagram
EnqueuedAskingAgain(n, dgram, ip) ==
    [interface |->
        [n EXCEPT !.datagrams_waiting =
                      Put(@, ip, Append(WaitingFor(n, ip), dgram)),
                  !.arp_requests_waiting = Put(@, ip, n.current_time)],
     sent |-> <<Request(n, ip)>>]

\* send_datagram to a hop whose address is not known: a request that is still
\* waited for is not repeated; a new one starts with an empty queue
Enqueued(n, dgram, ip) ==
    IF HasAsked(n, ip)
    THEN [interface |->
             [n EXCEPT !.datagrams_waiting =
                           Put(@, ip, Append(WaitingFor(n, ip), dgram))],
          sent |-> <<>>]
    ELSE [interface |->
             [n EXCEPT !.datagrams_waiting = Put(@, ip, <<dgram>>),
                       !.arp_requests_waiting = Put(@, ip, n.current_time)],
          sent |-> <<Request(n, ip)>>]

\* Mutated form of SendDatagram: using a mapping makes it look new
SendDatagramRefreshing(n, dgram, ip) ==
    IF Knows(n, ip)
    THEN [interface |->
             [n EXCEPT !.ip_ether_map =
                 Put(@, ip, [ether_addr |-> @[ip].ether_addr,
                             time_created |-> n.current_time])],
          sent |-> <<Frame(n, n.ip_ether_map[ip].ether_addr, "IPv4", dgram)>>]
    ELSE Enqueued(n, dgram, ip)

\* NetworkInterface::send_datagram
SendDatagram(n, dgram, ip) ==
    IF Knows(n, ip)
    THEN [interface |-> n,
          sent |-> <<Frame(n, n.ip_ether_map[ip].ether_addr, "IPv4", dgram)>>]
    ELSE Enqueued(n, dgram, ip)

\* Mutated form of Flushed: the queue is emptied but not erased
FlushedNotErased(n, ip) ==
    [n EXCEPT !.datagrams_waiting =
        IF ip \in DOMAIN @ THEN Put(@, ip, <<>>) ELSE @]

\* The queue of the sender of an ARP message is erased after it was sent
Flushed(n, ip) == [n EXCEPT !.datagrams_waiting = Erased(@, ip)]

\* Mutated form of FlushedFrames: only the datagram at the front
FlushedFramesFrontOnly(n, arp) ==
    LET queue == WaitingFor(n, arp.sender_ip_address)
    IN  [i \in 1 .. (IF queue = <<>> THEN 0 ELSE 1) |->
            Frame(n, arp.sender_ethernet_address, "IPv4", queue[i])]

\* Mutated form of FlushedFrames: the newest datagram first
FlushedFramesNewestFirst(n, arp) ==
    LET queue == WaitingFor(n, arp.sender_ip_address)
    IN  [i \in DOMAIN queue |->
            Frame(n, arp.sender_ethernet_address, "IPv4",
                  queue[Len(queue) + 1 - i])]

\* What the loop at the end of recv_frame transmits
FlushedFrames(n, arp) ==
    LET queue == WaitingFor(n, arp.sender_ip_address)
    IN  [i \in DOMAIN queue |->
            Frame(n, arp.sender_ethernet_address, "IPv4", queue[i])]

\* recv_frame for an ARP message: learn from the sender fields of any request
\* or reply, answer a request for the own address, send what was waiting
RecvARP(n, arp) ==
    LET ip      == arp.sender_ip_address
        learned == [n EXCEPT !.ip_ether_map =
                       Put(@, ip, [ether_addr |-> arp.sender_ethernet_address,
                                   time_created |-> n.current_time])]
        answers == arp.opcode = "REQUEST"
                      /\ arp.target_ip_address = n.ip_address
    IN  [interface |-> Flushed(learned, ip),
         sent |-> (IF answers THEN <<ReplyTo(n, arp)>> ELSE <<>>)
                     \o FlushedFrames(n, arp)]

\* NetworkInterface::recv_frame
RecvFrame(n, frame) ==
    LET mine == frame.dst \in {n.ethernet_address, BROADCAST}
                   /\ frame.payload # Malformed
    IN  IF mine /\ frame.type = "IPv4"
        THEN [interface |-> [n EXCEPT !.datagrams_received =
                                Append(@, frame.payload)],
              sent |-> <<>>]
        ELSE IF mine /\ frame.type = "ARP" THEN RecvARP(n, frame.payload)
        ELSE [interface |-> n, sent |-> <<>>]

\* Mutated form of InterfaceTick: an expired request leaves its queue behind
InterfaceTickKeepsQueue(n, ms) ==
    LET now   == n.current_time + ms
        fresh == {ip \in DOMAIN n.ip_ether_map :
                     now - n.ip_ether_map[ip].time_created <= MAP_TTL}
        asked == {ip \in DOMAIN n.arp_requests_waiting :
                     now - n.arp_requests_waiting[ip] <= ARP_TTL}
    IN  [n EXCEPT !.current_time = now,
                  !.ip_ether_map = Restrict(@, fresh),
                  !.arp_requests_waiting = Restrict(@, asked)]

\* NetworkInterface::tick: mappings and requests expire, and with a request
\* the datagrams that wait for its answer
InterfaceTick(n, ms) ==
    LET now     == n.current_time + ms
        fresh   == {ip \in DOMAIN n.ip_ether_map :
                       now - n.ip_ether_map[ip].time_created <= MAP_TTL}
        expired == {ip \in DOMAIN n.arp_requests_waiting :
                       now - n.arp_requests_waiting[ip] > ARP_TTL}
    IN  [n EXCEPT !.current_time = now,
                  !.ip_ether_map = Restrict(@, fresh),
                  !.datagrams_waiting = Restrict(@, DOMAIN @ \ expired),
                  !.arp_requests_waiting = Restrict(@, DOMAIN @ \ expired)]
=============================================================================
