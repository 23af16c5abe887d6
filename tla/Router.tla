------------------------------- MODULE Router -------------------------------
(***************************************************************************)
(* src/router: takes datagrams from its interfaces, finds for each the     *)
(* route with the longest prefix that matches, and hands it to an          *)
(* interface again.  Indices into routes_ and interfaces_ start from 1     *)
(* here.  A method that transmits returns the router and a sequence of     *)
(* pairs, the interface's number and the frame.                            *)
(***************************************************************************)
EXTENDS NetworkInterface, SequencesExt

CONSTANTS
    AddressBits,   \* bits of an IP address: 32
    NoHop          \* the empty optional: the network is attached directly

ASSUME AddressAssumption == AddressBits \in Nat

NewRouter == [interfaces |-> <<>>, routes |-> <<>>]

AddInterface(r, interface) ==
    [r EXCEPT !.interfaces = Append(@, interface)]

AddRoute(r, route_prefix, prefix_length, next_hop, interface_num) ==
    [r EXCEPT !.routes =
        Append(@, [route_prefix |-> route_prefix,
                   prefix_length |-> prefix_length,
                   next_hop |-> next_hop, interface_num |-> interface_num])]

\* An IP datagram; of its checksum only what the router changes, the TTL
\* under the sum, is told apart
IPDatagram(src, dst, ttl, number) ==
    [src |-> src, dst |-> dst, ttl |-> ttl, cksum |-> ttl, number |-> number]

ChecksumValid(d) == d.cksum = d.ttl

\* Mutated form of Masked: no case of its own for prefix_length 0, and a
\* shift by 32 that leaves its operand as it is
MaskedShiftedBy32(address, prefix_length) ==
    IF prefix_length = 0 THEN address
    ELSE address - (address % 2 ^ (AddressBits - prefix_length))

\* address & mask
Masked(address, prefix_length) ==
    IF prefix_length = 0 THEN 0
    ELSE address - (address % 2 ^ (AddressBits - prefix_length))

Matches(route, dest) ==
    Masked(dest, route.prefix_length) =
        Masked(route.route_prefix, route.prefix_length)

\* One round of the loop over routes_
Longer(best, route) ==
    IF route.matches /\ route.prefix_length > best.max_length
    THEN [best_index |-> route.index, max_length |-> route.prefix_length]
    ELSE best

\* The loop over routes_: the index of the best route, 0 if none matches
BestIndex(routes, dest) ==
    FoldLeft(Longer, [best_index |-> 0, max_length |-> -1],
             [i \in DOMAIN routes |->
                [index |-> i, matches |-> Matches(routes[i], dest),
                 prefix_length |-> routes[i].prefix_length]]).best_index

\* Is the TTL used up?
Expired(d) == d.ttl <= 1

\* Mutated form of Decremented: the TTL is left as it is
DecrementedNot(d) == d

\* Mutated form of Decremented: the checksum is that of the old header
DecrementedOldChecksum(d) == [d EXCEPT !.ttl = @ - 1]

\* The datagram with the header that goes out
Decremented(d) == [d EXCEPT !.ttl = @ - 1, !.cksum = d.ttl - 1]

\* The router after interface i returned result from send_datagram
SentOn(acc, i, result) ==
    [router |-> [acc.router EXCEPT !.interfaces[i] = result.interface],
     sent   |-> acc.sent \o [k \in DOMAIN result.sent |->
                                <<i, result.sent[k]>>]]

\* One round of route()'s inner loop.  Whether there is a route is asked
\* before the TTL is looked at; both drop the datagram.
Forward(acc, d) ==
    LET r     == acc.router
        best  == BestIndex(r.routes, d.dst)
        route == r.routes[best]
        hop   == IF route.next_hop = NoHop THEN d.dst ELSE route.next_hop
    IN  IF best = 0 \/ Expired(d) THEN acc
        ELSE SentOn(acc, route.interface_num,
                    SendDatagram(r.interfaces[route.interface_num],
                                 Decremented(d), hop))

\* Mutated form of Drained: the queue is read and not emptied
DrainedKept(acc, i) ==
    FoldLeft(Forward, acc, acc.router.interfaces[i].datagrams_received)

\* All datagrams interface i has received are forwarded
Drained(acc, i) ==
    LET queue == acc.router.interfaces[i].datagrams_received
    IN  FoldLeft(Forward,
                 [acc EXCEPT !.router.interfaces[i].datagrams_received = <<>>],
                 queue)

\* Router::route
RouterRoute(r) ==
    FoldLeft(Drained, [router |-> r, sent |-> <<>>],
             [i \in DOMAIN r.interfaces |-> i])
=============================================================================
