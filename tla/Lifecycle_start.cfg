SPECIFICATION Spec
CONSTANTS
    p1 = p1
    p2 = p2
    c1 = c1
    c2 = c2
    None = None
    Empty = Empty
    Pid <- TwoPids
    Client <- OneShell
    Commands <- Starts
    MemoryLimited = FALSE
    Crashes = FALSE
INVARIANT OneHealer
CHECK_DEADLOCK FALSE
