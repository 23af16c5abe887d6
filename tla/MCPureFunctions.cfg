\* Every uint64 number, zero point and checkpoint of 3-bit and 5-bit integers;
\* addresses of three bits and every table of at most three routes; TCP and ARP
\* messages in frames cut at up to two places
CONSTANTS
    Mod16 = 4
    Mod32 = 8
    Mod64 = 32
    MAP_TTL = 2
    ARP_TTL = 1
    BROADCAST = BROADCAST
    Malformed = Malformed
    NoHop = NoHop
    AddressBits = 3
    MaxRoutes = 3
    MAX_PAYLOAD_SIZE = 3
    Messages <- MCMessages
    Samples <- MCSamples
    ARPMessages <- MCARPMessages
    Padding <- MCPadding
    Damages = {1, 128, 255}
SPECIFICATION Spec
INVARIANTS
    UnwrapIsClosest
    RoundTrip
    LongestPrefixChosen
    ArrivesAsSent
    DamageIsFound
CHECK_DEADLOCK FALSE
