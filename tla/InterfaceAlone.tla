--------------------------- MODULE InterfaceAlone ---------------------------
(***************************************************************************)
(* A NetworkInterface between the program that sends datagrams through it  *)
(* and an Ethernet on which neighbours ask, answer, change their address   *)
(* or stay silent.  A datagram is a pair of its next hop and its number    *)
(* among those for that hop.  The history variables remember what the      *)
(* interface itself forgets.                                               *)
(***************************************************************************)
EXTENDS NetworkInterface, SequencesExt

CONSTANTS
    OwnIP, OwnEther,
    Hops,         \* IP addresses of the neighbours
    Ethers,       \* Ethernet addresses of the neighbours
    Incoming,     \* a datagram a neighbour sends
    Ticks,        \* milliseconds between two calls of tick
    MaxDatagrams, \* bound: datagrams for one hop
    MaxTime       \* bound: milliseconds

ASSUME InterfaceAssumption ==
    /\ OwnIP \notin Hops /\ {OwnEther, BROADCAST} \cap Ethers = {}
    /\ OwnEther # BROADCAST
    /\ Ticks \subseteq Nat /\ MaxDatagrams \in Nat /\ MaxTime \in Nat
    /\ \A opcode \in {"REQUEST", "REPLY"}, ether \in Ethers, h \in Hops,
          ip \in Hops \cup {OwnIP} :
          ARPMessage(opcode, ether, h, ip) # Malformed

VARIABLES
    interface,
    sent,       \* the frames the last call transmitted
    handed,     \* history: number of datagrams for a hop that came
    left,       \* history: numbers of those that were transmitted
    announced,  \* history: the last ARP message of a hop, address and time
    asked       \* history: time of the last ARP request for a hop

vars == <<interface, sent, handed, left, announced, asked>>

Datagram(h, k) == [hop |-> h, number |-> k]

Init ==
    /\ interface = NewInterface(OwnEther, OwnIP)
    /\ sent = <<>>
    /\ handed = [h \in Hops |-> 0]
    /\ left = [h \in Hops |-> <<>>]
    /\ announced = <<>> /\ asked = <<>>

\* What left, after one more frame was transmitted
WithFrame(history, frame) ==
    IF frame.type = "IPv4"
    THEN [history EXCEPT ![frame.payload.hop] =
              Append(@, frame.payload.number)]
    ELSE history

WithFrames(history, frames) == FoldLeft(WithFrame, history, frames)

\* Is there an ARP request for hop h among the frames?
AsksFor(frames, h) ==
    \E i \in DOMAIN frames :
        /\ frames[i].type = "ARP" /\ frames[i].payload.opcode = "REQUEST"
        /\ frames[i].payload.target_ip_address = h

\* A call returned a new interface and the frames it transmitted
Returns(result) ==
    /\ interface' = result.interface
    /\ sent' = result.sent
    /\ left' = WithFrames(left, result.sent)
    /\ asked' = [h \in DOMAIN asked \cup
                         {x \in Hops : AsksFor(result.sent, x)} |->
                    IF AsksFor(result.sent, h)
                    THEN interface.current_time ELSE asked[h]]

Send(h) ==
    /\ handed[h] < MaxDatagrams
    /\ handed' = [handed EXCEPT ![h] = @ + 1]
    /\ Returns(SendDatagram(interface, Datagram(h, handed'[h]), h))
    /\ UNCHANGED announced

\* A frame comes in: a neighbour's ARP message, a datagram, or noise, for this
\* interface, for all or for another one
Receive(dst, type, payload) ==
    /\ Returns(RecvFrame(interface, [src |-> "neighbour", dst |-> dst,
                                     type |-> type, payload |-> payload]))
    /\ UNCHANGED <<handed, announced>>

ReceiveARP(dst, opcode, ether, h, target_ip) ==
    /\ Returns(RecvFrame(interface,
                  [src |-> ether, dst |-> dst, type |-> "ARP",
                   payload |-> ARPMessage(opcode, ether, h, target_ip)]))
    /\ announced' = IF dst \in {OwnEther, BROADCAST}
                    THEN Put(announced, h, [ether |-> ether,
                                            at |-> interface.current_time])
                    ELSE announced
    /\ UNCHANGED handed

\* The router or the program takes everything from datagrams_received()
Collect ==
    /\ interface' = [interface EXCEPT !.datagrams_received = <<>>]
    /\ sent' = <<>>
    /\ UNCHANGED <<handed, left, announced, asked>>

Tick(ms) ==
    /\ interface.current_time + ms <= MaxTime
    /\ Returns([interface |-> InterfaceTick(interface, ms), sent |-> <<>>])
    /\ UNCHANGED <<handed, announced>>

Next ==
    \/ \E h \in Hops : Send(h)
    \/ /\ interface.datagrams_received = <<>>
       /\ \E dst \in {OwnEther, BROADCAST, "other"},
             type \in {"IPv4", "ARP", "unknown"},
             payload \in {Incoming, Malformed} :
             /\ type = "ARP" => payload = Malformed
             /\ Receive(dst, type, payload)
    \/ \E dst \in {OwnEther, BROADCAST, "other"}, ether \in Ethers, h \in Hops,
          opcode \in {"REQUEST", "REPLY"} :
          \E target_ip \in {OwnIP, h} :
              ReceiveARP(dst, opcode, ether, h, target_ip)
    \/ Collect
    \/ \E ms \in Ticks : Tick(ms)

Spec == Init /\ [][Next]_vars
-----------------------------------------------------------------------------
Now == interface.current_time

\* No queue is left behind empty: datagrams_waiting_ holds an entry only for a
\* hop that datagrams wait for.
TypeOK ==
    /\ Now \in Nat
    /\ \A h \in DOMAIN interface.datagrams_waiting :
          /\ h \in Hops
          /\ interface.datagrams_waiting[h] \in
                Seq([hop : {h}, number : Nat]) \ {<<>>}
    /\ \A h \in DOMAIN interface.ip_ether_map :
          h \in Hops /\ interface.ip_ether_map[h] \in
                           [ether_addr : Ethers, time_created : Nat]
    /\ DOMAIN interface.arp_requests_waiting \subseteq Hops

(***************************************************************************)
(* A datagram waits only for an answer that may still come: its hop was    *)
(* asked for at most ARP_TTL ago, and its address is not known since.      *)
(* None is forgotten in a queue no request belongs to                      *)
(* (network_interface.cc:47-68, 117-131, 147-151).                         *)
(***************************************************************************)
WaitingIsAsked ==
    \A h \in DOMAIN interface.datagrams_waiting :
        /\ HasAsked(interface, h) /\ ~Knows(interface, h)
        /\ interface.arp_requests_waiting[h] = asked[h]
        /\ Now - asked[h] <= ARP_TTL

(***************************************************************************)
(* A datagram goes to the Ethernet address its next hop announced last,    *)
(* never to an older one, and never to one announced longer than MAP_TTL   *)
(* ago, also when it waited in the queue.                                  *)
(***************************************************************************)
RightAddress ==
    \A i \in DOMAIN sent :
        sent[i].type = "IPv4" =>
            LET h == sent[i].payload.hop
            IN  /\ h \in DOMAIN announced
                /\ sent[i].dst = announced[h].ether
                /\ Now - announced[h].at <= MAP_TTL

(***************************************************************************)
(* The interface does not flood the network: it asks for a hop only when   *)
(* it heard nothing from it for MAP_TTL and did not ask for ARP_TTL        *)
(* (network_interface.cc:47-48), whatever was sent, learnt and expired in  *)
(* between.                                                                *)
(***************************************************************************)
RequestsSpaced ==
    [][\A h \in Hops :
          AsksFor(sent', h) =>
              /\ h \in DOMAIN asked => Now - asked[h] > ARP_TTL
              /\ h \in DOMAIN announced => Now - announced[h].at > MAP_TTL]_vars

(***************************************************************************)
(* Per hop, datagrams leave in order, at most once, and none overtakes     *)
(* those that wait: the interface implements NextHopQueues.                *)
(***************************************************************************)
Queues == INSTANCE NextHopQueues WITH
    waiting <- [h \in Hops |->
                   LET queue == WaitingFor(interface, h)
                   IN  [i \in DOMAIN queue |-> queue[i].number]]

QueuesSpec == Queues!Spec
=============================================================================
