----------------------------- MODULE MCNetwork -----------------------------
\* Segment s0 holds host A and routers R1 and R2, segment s1 holds R2 and host
\* B.  The routers have default routes to each other: address 7 is nowhere, and
\* a datagram for it goes to and fro until its TTL is used up.
EXTENDS RoutedNetwork

CONSTANTS A, B, R1, R2, s0, s1

MCPorts ==
    [n \in {A, B, R1, R2} |->
        CASE n = A  -> <<[ether |-> "a", ip |-> 1]>>
          [] n = R1 -> <<[ether |-> "r1", ip |-> 2]>>
          [] n = R2 -> <<[ether |-> "r2a", ip |-> 3], [ether |-> "r2b", ip |-> 4]>>
          [] n = B  -> <<[ether |-> "b", ip |-> 5]>>]

MCAttached ==
    [s \in {s0, s1} |-> IF s = s0 THEN <<<<A, 1>>, <<R1, 1>>, <<R2, 1>>>>
                        ELSE <<<<R2, 2>>, <<B, 1>>>>]

ARoute(prefix, len, hop, i) ==
    [route_prefix |-> prefix, prefix_length |-> len, next_hop |-> hop,
     interface_num |-> i]

MCRoutes ==
    [r \in {R1, R2} |->
        IF r = R1 THEN <<ARoute(0, 0, 3, 1), ARoute(0, 1, NoHop, 1)>>
        ELSE <<ARoute(0, 1, NoHop, 1), ARoute(4, 2, NoHop, 2), ARoute(0, 0, 2, 1)>>]

MCGateway == [h \in {A, B} |-> IF h = A THEN 2 ELSE 4]
MCDests   == [h \in {A, B} |-> IF h = A THEN {5, 7} ELSE {1}]
MCHops    == [p \in {<<1, 5>>, <<5, 1>>} |-> IF p[1] = 1 THEN 2 ELSE 1]
MCMaxSent == [h \in {A, B} |-> IF h = A THEN 2 ELSE 0]
=============================================================================
