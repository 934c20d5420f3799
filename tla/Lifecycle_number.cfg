SPECIFICATION Spec
CONSTANTS
    p1 = p1
    p2 = p2
    c1 = c1
    c2 = c2
    None = None
    Empty = Empty
    Pid <- OnePid
    Client <- TwoShells
    Commands <- Requests
    MemoryLimited = TRUE
    Crashes = FALSE
PROPERTY OthersAreSpared
CHECK_DEADLOCK FALSE
