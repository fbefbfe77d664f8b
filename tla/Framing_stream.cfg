SPECIFICATION FairSpec
CONSTANTS
    Base = 3
    BufferSize = 4
    InPlay = FALSE
    MaxBytes = 6
CHECK_DEADLOCK FALSE
INVARIANTS
    IInv
    RoomToRecv
    BufferHoldsTail
    CutsDoNotMatter
PROPERTIES
    OnRecvReturns
    ReadsTheStream
