CONSTANTS
    Mod16 = 8
    Mod32 = 8
    Mod64 = 32
    Stream <- MCStream
    Capacity = 4
SPECIFICATION Spec
INVARIANTS
    TypeOK
    BytesInPlace
    PendingInsideWindow
    ClosedAtEnd
PROPERTIES
    WindowSpec
CHECK_DEADLOCK FALSE
