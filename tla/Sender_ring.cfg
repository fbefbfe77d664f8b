SPECIFICATION FairSpec
CONSTANTS
    None = None
    Fds = {f1}
    MaxConns = 1
    Entries = 2
    MaxPackets = 3
    MaxRefusals = 1
CHECK_DEADLOCK FALSE
INVARIANTS
    TypeOK
    IInv
PROPERTIES
    LeavesInOrder
    OnlyOverlapTears
    PacketsAreFreed
