CONSTANTS
    Mod16 = 8
    Mod32 = 16
    Mod64 = 64
    MAX_PAYLOAD_SIZE = 1
    NotTCP = NotTCP
    Room = 1
    kReadBufferSize = 2
    Roles = {"connect", "listen"}
    Config <- MCConfig
    RemoteConfig <- MCRemoteConfig
    OwnEndpoint <- MCOwnEndpoint
    RemoteEndpoint <- MCRemoteEndpoint
    Strays <- MCStrays
    OwnerBytes = 1
    RemoteBytes = 2
    TickMs = {5}
    MaxRetx = 1
    ResetLimit = 1
    Advised = TRUE
SPECIFICATION FairSpec
INVARIANTS
    BytesInOrder
    OverIsDelivered
    NothingFails
PROPERTIES
    LocalPipes
    JoinReturns
CHECK_DEADLOCK FALSE
