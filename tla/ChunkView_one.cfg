SPECIFICATION FairSpec
CONSTANTS
    Players = {p1}
    Positions <- Line
    Spawn <- SpawnAt
    Distances = {0, 2}
    MAX_VIEW_DISTANCE = 1
    Width = 2
    TooFast = 2
    Area <- Row
    None = None
INVARIANTS
    ViewIsCovered
    HasWhatIsShown
    IInv
PROPERTIES
    NeedsAreServed
