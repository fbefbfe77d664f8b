SPECIFICATION Spec
CONSTANTS
    Conns = {c1}
    None = None
    Backlog = 1
    NextStates = {"LOGIN"}
    PlayPackets = {"ok", "bad"}
    Faults = {}
    MaxSends = 1
    MaxPackets = 1
CHECK_DEADLOCK FALSE
INVARIANTS
    NoUseAfterFree
