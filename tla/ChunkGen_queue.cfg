SPECIFICATION FairSpec
CONSTANTS
    Positions = {p1, p2, p3, p4}
    Workers = {w1, w2}
    Max = 2
    Wrap = 2
    None = None
CHECK_DEADLOCK FALSE
INVARIANTS
    AssertsHold
    GeneratedOnce
    IInv
PROPERTIES
    IsAQueue
    ChunksArrive
