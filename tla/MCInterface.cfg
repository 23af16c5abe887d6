\* Two neighbours; a request is waited for one millisecond, a mapping is kept
\* for two.
CONSTANTS
    MAP_TTL = 2
    ARP_TTL = 1
    BROADCAST = BROADCAST
    Malformed = Malformed
    OwnIP = OwnIP
    OwnEther = OwnEther
    Hops = {h1, h2}
    Ethers = {e1, e2}
    Incoming = Incoming
    Ticks = {1, 2}
    MaxDatagrams = 2
    MaxTime = 5
SYMMETRY Interchangeable
SPECIFICATION Spec
INVARIANTS
    TypeOK
    WaitingIsAsked
    RightAddress
PROPERTIES
    RequestsSpaced
    QueuesSpec
