SPECIFICATION Spec
CONSTANTS
    None = None
    Fds = {f1}
    MaxConns = 2
    Entries = 2
    MaxPackets = 3
    MaxRefusals = 0
CHECK_DEADLOCK FALSE
INVARIANT OnlyOverdueGoAstray
