SPECIFICATION Spec
CONSTANTS
    None = None
    SegmentBits = 2
    IntBits = 7
    Sections = 2
    Edge = 5
    LongBits = 30
    BlockBits = 4
    Placeholder = 3
    Coordinates <- MCCoordinates
    Numbers <- MCNumbers
    Lengths <- MCLengths
    MaxSent = 2
CHECK_DEADLOCK FALSE
INVARIANTS
    ClientUnderstands
    AnswersFillTheirMemory
    ConfirmIsExact
