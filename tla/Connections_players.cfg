SPECIFICATION LeavingSpec
CONSTANTS
    Conns = {c1}
    None = None
    Backlog = 2
    NextStates = {"LOGIN"}
    PlayPackets = {"ok", "bad", "fast", "kill"}
    Faults = {"send", "accept", "alloc", "answer"}
    MaxSends = 1
    MaxPackets = 1
CHECK_DEADLOCK FALSE
INVARIANTS
    IInv
PROPERTIES
    LoginReachesWorld
    PlayersLeaveWorld
