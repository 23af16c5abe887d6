\* Five bytes through a buffer of three, in payloads of at most two bytes.
CONSTANTS
    Mod16 = 8
    Mod32 = 32
    Mod64 = 128
    MAX_PAYLOAD_SIZE = 2
    Capacity = 3
    ISN = 7
    InitialRTO = 2
    StreamLength = 5
    Windows = {0, 1, 3, 6}
    Ticks = {1, 3}
    MaxRetx = 2
    Beyond = 0
    FirstAcknos = {0}
SPECIFICATION Spec
INVARIANTS
    SeqnosAccounted
    OutstandingContiguous
    UnackedIsOutstanding
    TimerFollowsQueue
    PushSendsAll
PROPERTIES
    WindowRespected
