SPECIFICATION Spec
CONSTANTS
    p1 = p1
    p2 = p2
    c1 = c1
    c2 = c2
    None = None
    Empty = Empty
    Pid <- TwoPids
    Client <- TwoShells
    Commands <- Managed
    MemoryLimited = FALSE
    Crashes = FALSE
INVARIANT Reachable
CHECK_DEADLOCK FALSE
