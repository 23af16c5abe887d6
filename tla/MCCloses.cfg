CONSTANTS
    Mod16 = 8
    Mod32 = 16
    Mod64 = 64
    MAX_PAYLOAD_SIZE = 1
    Client = client
    Server = server
    Config <- MCConfig
    ToWrite <- MCToWrite
    TickMs = {1}
    MaxRetx = 1
    NetSize <- MCNetSize
    MaxLosses = 2
SPECIFICATION TimedSpec
PROPERTIES
    AllReadAndFinished
CHECK_DEADLOCK FALSE
