---------------------------- MODULE RoutedNetwork ----------------------------
(***************************************************************************)
(* Hosts and routers on Ethernet segments, as tests/router.cc and          *)
(* apps/fun_router.cc connect them.  A segment hands each frame to all the *)
(* interfaces on it but the one that sent it, in the order the frames were *)
(* transmitted, or loses it.  A host is a node with one interface and no   *)
(* routes.  A datagram is known by its source and its number among those   *)
(* of this source.                                                         *)
(***************************************************************************)
EXTENDS Router

CONSTANTS
    Hosts, Routers, Segments,
    Ports,       \* for each node, ether and ip of its interfaces
    Attached,    \* for each segment, the <<node, interface>> pairs on it
    Routes,      \* for each router, its routes
    Gateway,     \* for each host, the next hop of all it sends
    Dests,       \* for each host, the addresses it sends to
    Hops,        \* <<source, destination>> to the number of routers between
    InitialTTL,
    MaxSent,     \* bound: datagrams of each host
    MaxLosses,   \* bound: frames lost
    Ticks, MaxTime

Nodes == Hosts \cup Routers

ASSUME NetworkAssumption ==
    /\ Hosts \cap Routers = {}
    /\ DOMAIN Ports = Nodes /\ DOMAIN Attached = Segments
    /\ DOMAIN Routes = Routers /\ DOMAIN Gateway = Hosts
    /\ DOMAIN Dests = Hosts /\ DOMAIN MaxSent = Hosts
    /\ \A h \in Hosts : Len(Ports[h]) = 1
    /\ InitialTTL \in 0 .. 255 /\ Ticks \subseteq Nat /\ MaxTime \in Nat
    /\ MaxLosses \in Nat

VARIABLES
    node,       \* interfaces and routes of each node
    wire,       \* for each segment, the frames in flight, with their sender
    handed,     \* the destinations of the datagrams each host has sent
    delivered,  \* the datagrams each host has received
    losses      \* frames lost so far

vars == <<node, wire, handed, delivered, losses>>

OwnIP(h) == Ports[h][1].ip

\* A router with these interfaces and these routes
Configured(ports, routes) ==
    LET WithPort(r, port) ==
            AddInterface(r, NewInterface(port.ether, port.ip))
        WithRoute(r, route) ==
            AddRoute(r, route.route_prefix, route.prefix_length,
                     route.next_hop, route.interface_num)
    IN  FoldLeft(WithRoute, FoldLeft(WithPort, NewRouter, ports), routes)

Init ==
    /\ node = [n \in Nodes |->
                  Configured(Ports[n],
                             IF n \in Routers THEN Routes[n] ELSE <<>>)]
    /\ wire = [s \in Segments |-> <<>>]
    /\ handed = [h \in Hosts |-> <<>>]
    /\ delivered = [h \in Hosts |-> <<>>]
    /\ losses = 0

\* What segment s gets of the frames node n transmitted
OnSegment(s, n, sent) ==
    LET Mine(p) == <<n, p[1]>> \in Range(Attached[s])
        mine    == SelectSeq(sent, Mine)
    IN  [k \in DOMAIN mine |-> [from |-> <<n, mine[k][1]>>,
                                frame |-> mine[k][2]]]

\* Node n is left as result.router after it transmitted result.sent
Transmitting(n, result) ==
    /\ node' = [node EXCEPT ![n] = result.router]
    /\ wire' = [s \in Segments |->
                   wire[s] \o OnSegment(s, n, result.sent)]

HostSend(h, dest) ==
    /\ Len(handed[h]) < MaxSent[h]
    /\ handed' = [handed EXCEPT ![h] = Append(@, dest)]
    /\ Transmitting(h,
          SentOn([router |-> node[h], sent |-> <<>>], 1,
                 SendDatagram(node[h].interfaces[1],
                              IPDatagram(OwnIP(h), dest, InitialTTL,
                                         Len(handed'[h])),
                              Gateway[h])))
    /\ UNCHANGED <<delivered, losses>>

\* A header with a wrong checksum does not parse
Parsed(frame) ==
    IF frame.type = "IPv4" /\ ~ChecksumValid(frame.payload)
    THEN [frame EXCEPT !.payload = Malformed] ELSE frame

\* The port takes the frame; what it answers goes to the end of the wire
TakenBy(acc, port, frame) ==
    LET n == port[1]
        i == port[2]
        result == RecvFrame(acc.node[n].interfaces[i], frame)
    IN  [node |-> [acc.node EXCEPT ![n].interfaces[i] = result.interface],
         line |-> acc.line \o [k \in DOMAIN result.sent |->
                                  [from |-> port, frame |-> result.sent[k]]]]

\* The frame at the front of segment s reaches the interfaces on it
Deliver(s) ==
    /\ wire[s] # <<>>
    /\ LET sender == Head(wire[s]).from
           frame  == Parsed(Head(wire[s]).frame)
           Take(acc, port) == IF port = sender THEN acc
                              ELSE TakenBy(acc, port, frame)
           after  == FoldLeft(Take, [node |-> node, line |-> Tail(wire[s])],
                              Attached[s])
       IN  /\ node' = after.node
           /\ wire' = [wire EXCEPT ![s] = after.line]
    /\ UNCHANGED <<handed, delivered, losses>>

Lose(s) ==
    /\ wire[s] # <<>> /\ losses < MaxLosses
    /\ wire' = [wire EXCEPT ![s] = Tail(@)]
    /\ losses' = losses + 1
    /\ UNCHANGED <<node, handed, delivered>>

Received(n) == {i \in DOMAIN node[n].interfaces :
                   node[n].interfaces[i].datagrams_received # <<>>}

\* Router::route
Route(r) ==
    /\ r \in Routers /\ Received(r) # {}
    /\ Transmitting(r, RouterRoute(node[r]))
    /\ UNCHANGED <<handed, delivered, losses>>

HostReads(h) ==
    /\ h \in Hosts /\ Received(h) # {}
    /\ delivered' = [delivered EXCEPT ![h] =
                        @ \o node[h].interfaces[1].datagrams_received]
    /\ node' = [node EXCEPT ![h].interfaces[1].datagrams_received = <<>>]
    /\ UNCHANGED <<wire, handed, losses>>

Tick(n, ms) ==
    /\ \A i \in DOMAIN node[n].interfaces :
          node[n].interfaces[i].current_time + ms <= MaxTime
    /\ node' = [node EXCEPT ![n].interfaces =
                   [i \in DOMAIN @ |-> InterfaceTick(@[i], ms)]]
    /\ UNCHANGED <<wire, handed, delivered, losses>>

Next ==
    \/ \E h \in Hosts :
          \/ \E dest \in Dests[h] : HostSend(h, dest)
          \/ HostReads(h)
    \/ \E s \in Segments : Deliver(s) \/ Lose(s)
    \/ \E r \in Routers : Route(r)
    \/ \E n \in Nodes, ms \in Ticks : Tick(n, ms)

(***************************************************************************)
(* Frames that are not lost arrive, and a router calls route() after every *)
(* event (fun_router.cc:197-209): weak fairness of these actions, with the *)
(* conditions under which they are enabled written out.                    *)
(***************************************************************************)
Fairness ==
    /\ \A s \in Segments : []<>(wire[s] = <<>>) \/ []<><<Deliver(s)>>_vars
    /\ \A n \in Nodes :
          []<>(Received(n) = {}) \/ []<><<Route(n) \/ HostReads(n)>>_vars

Spec == Init /\ [][Next]_vars /\ Fairness
-----------------------------------------------------------------------------
\* The datagrams in a sequence of frames with their senders
InFrames(line) ==
    LET IPv4(f) == f.frame.type = "IPv4"
        frames  == SelectSeq(line, IPv4)
    IN  [k \in DOMAIN frames |-> frames[k].frame.payload]

\* Everywhere a datagram can be, as sequences of datagrams
Places ==
    UNION {{<<"wire", s, InFrames(wire[s])>> : s \in Segments},
           {<<"host", h, delivered[h]>> : h \in Hosts},
           UNION {{<<"in", <<n, i>>, node[n].interfaces[i].datagrams_received>> :
                     i \in DOMAIN node[n].interfaces} : n \in Nodes},
           UNION {UNION {{<<"waiting", <<n, i, hop>>,
                            node[n].interfaces[i].datagrams_waiting[hop]>> :
                            hop \in DOMAIN node[n].interfaces[i].datagrams_waiting} :
                         i \in DOMAIN node[n].interfaces} : n \in Nodes}}

Same(d, e) == d.src = e.src /\ d.number = e.number

(***************************************************************************)
(* A datagram is in one place at most: on a wire, in an inbound queue, in  *)
(* a queue of those that wait for an address, or at its destination.  No   *)
(* step on its way leaves a copy behind (router.cc:44-47,                  *)
(* network_interface.cc:115-131).                                          *)
(***************************************************************************)
OneCopy ==
    \A p, q \in Places : \A k \in DOMAIN p[3], l \in DOMAIN q[3] :
        Same(p[3][k], q[3][l]) => p = q /\ k = l

(***************************************************************************)
(* A host gets datagrams for its own address, from each source in the      *)
(* order they were sent, with the TTL they have after as many routers as   *)
(* are on their way, and only with a checksum that is right.               *)
(***************************************************************************)
DeliveredInOrder ==
    \A h \in Hosts : \A k, l \in DOMAIN delivered[h] :
        LET d == delivered[h][k]
            e == delivered[h][l]
        IN  /\ d.dst = OwnIP(h) /\ ChecksumValid(d)
            /\ d.ttl = InitialTTL - Hops[d.src, d.dst]
            /\ k < l /\ d.src = e.src => d.number < e.number

(***************************************************************************)
(* No datagram circulates for ever, not even one for an address that two   *)
(* routers expect behind each other: in the end no datagram is on a wire   *)
(* or waits for a router.                                                  *)
(***************************************************************************)
NothingCirculates ==
    <>[](/\ \A s \in Segments : InFrames(wire[s]) = <<>>
         /\ \A r \in Routers : Received(r) = {})

\* Datagram number k of host h has reached the host it is for
HasArrived(h, k) ==
    \E g \in Hosts : \E l \in DOMAIN delivered[g] :
        delivered[g][l].src = OwnIP(h) /\ delivered[g][l].number = k

Undisturbed ==
    /\ losses = 0
    /\ \A n \in Nodes : \A i \in DOMAIN node[n].interfaces :
          node[n].interfaces[i].current_time = 0

(***************************************************************************)
(* When no frame is lost and nothing expires, every datagram for a host    *)
(* that exists arrives, also those that had to wait for the addresses of   *)
(* the hops on their way.                                                  *)
(***************************************************************************)
EverythingArrives ==
    []Undisturbed =>
        []<>(\A h \in Hosts : \A k \in DOMAIN handed[h] :
                handed[h][k] \in {OwnIP(g) : g \in Hosts} => HasArrived(h, k))
=============================================================================
