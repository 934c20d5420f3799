SPECIFICATION FairSpec
CONSTANTS
    p1 = p1
    p2 = p2
    c1 = c1
    c2 = c2
    None = None
    Empty = Empty
    Pid <- OnePid
    Client <- TwoShells
    Commands <- TwoStops
    MemoryLimited = TRUE
    Crashes = TRUE
INVARIANT TypeOK
PROPERTY StopMeansStopped
PROPERTY CleanupServed
PROPERTY TermServed
