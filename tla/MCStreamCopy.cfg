CONSTANTS
    Mod16 = 8
    Mod32 = 16
    Mod64 = 64
    Room = 1
    kReadBufferSize = 2
    buffer_size = 2
    UserBytes = 3
    FarBytes = 3
SPECIFICATION FairSpec
INVARIANTS
    ExitIsComplete
    FailsOnlyWhenLeft
PROPERTIES
    CopyPipes
    CopyEnds
CHECK_DEADLOCK FALSE
