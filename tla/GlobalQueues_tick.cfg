SPECIFICATION FairSpec
CONSTANTS
    Threads = {frontend, backend}
    Backend = backend
    Events = {e1, e2}
    Packets = {p1, p2}
    None = None
INVARIANTS
    IInv
    EntriesOwnTheirSlots
    FlipIsClean
PROPERTIES
    DeliversEachTick
    EveryPostIsHandled
