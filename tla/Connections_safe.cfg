SPECIFICATION Spec
CONSTANTS
    Conns = {c1, c2}
    None = None
    Backlog = 2
    NextStates = {"STATUS", "LOGIN"}
    PlayPackets = {"bad"}
    Faults = {"answer"}
    MaxSends = 1
    MaxPackets = 1
SYMMETRY ConnSymmetry
CHECK_DEADLOCK FALSE
INVARIANTS
    NoDangling
    RefCoversHolders
    OnlyPlayersTear
