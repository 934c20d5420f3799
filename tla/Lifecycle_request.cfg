SPECIFICATION Spec
CONSTANTS
    p1 = p1
    p2 = p2
    c1 = c1
    c2 = c2
    None = None
    Empty = Empty
    Pid <- TwoPids
    Client <- TwoShells
    Commands <- Requests
    MemoryLimited = FALSE
    Crashes = FALSE
PROPERTY RequestsAreHarmless
CHECK_DEADLOCK FALSE
