SPECIFICATION Spec
CONSTANTS
    None = None
    Fds = {f1}
    MaxConns = 1
    Entries = 2
    MaxPackets = 2
    MaxRefusals = 0
CHECK_DEADLOCK FALSE
INVARIANT OnlyPreparedIsTaken
