CONSTANTS
    Mod16 = 8
    Mod32 = 16
    Mod64 = 64
    MAX_PAYLOAD_SIZE = 1
    Client = client
    Server = server
    Config <- MCConfig
    ToWrite <- MCToWrite
    TickMs = {10}
    MaxRetx = 1
    NetSize <- MCNetSize
SPECIFICATION Spec
INVARIANTS
    StreamIntact
    AckedWasReceived
    OverIsComplete
    SomebodyLingers
PROPERTIES
    PipeSpec
CHECK_DEADLOCK FALSE
