\* Host A sends two datagrams; one frame is lost; once in its life each node lets
\* so much time pass that all it has learnt and asked expires
CONSTANTS
    MAP_TTL = 1
    ARP_TTL = 1
    BROADCAST = BROADCAST
    Malformed = Malformed
    NoHop = NoHop
    AddressBits = 3
    A = A
    B = B
    R1 = R1
    R2 = R2
    s0 = s0
    s1 = s1
    Hosts = {A, B}
    Routers = {R1, R2}
    Segments = {s0, s1}
    Ports <- MCPorts
    Attached <- MCAttached
    Routes <- MCRoutes
    Gateway <- MCGateway
    Dests <- MCDests
    Hops <- MCHops
    MaxSent <- MCMaxSent
    InitialTTL = 4
    MaxLosses = 1
    Ticks = {2}
    MaxTime = 2
SPECIFICATION Spec
INVARIANTS
    OneCopy
    DeliveredInOrder
PROPERTIES
    NothingCirculates
    EverythingArrives
CHECK_DEADLOCK FALSE
