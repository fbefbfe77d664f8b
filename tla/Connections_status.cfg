SPECIFICATION LeavingSpec
CONSTANTS
    Conns = {c1, c2, c3}
    None = None
    Backlog = 2
    NextStates = {"STATUS"}
    PlayPackets = {}
    Faults = {"alloc"}
    MaxSends = 1
    MaxPackets = 0
CHECK_DEADLOCK FALSE
INVARIANTS
    NoLeak
    BacklogRespected
    AcceptMatchesFlag
PROPERTIES
    AcceptsAgain
    ConnectionsEnd
