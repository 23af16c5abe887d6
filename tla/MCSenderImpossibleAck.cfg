\* As MCSender, and an ackno may lie one beyond what was sent.
CONSTANTS
    Mod16 = 8
    Mod32 = 32
    Mod64 = 128
    MAX_PAYLOAD_SIZE = 2
    Capacity = 3
    ISN = 7
    InitialRTO = 2
    StreamLength = 5
    Windows = {0, 1, 3, 6}
    Ticks = {1, 3}
    MaxRetx = 2
    Beyond = 1
    FirstAcknos = {0}
SPECIFICATION Spec
INVARIANTS
    AcknoInRangeOfSent
