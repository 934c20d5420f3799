SPECIFICATION Spec
CONSTANTS
    o1 = o1
    o2 = o2
    k1 = k1
    k2 = k2
    ticker = ticker
    ticker2 = ticker2
    usr1 = usr1
    g1 = g1
    g2 = g2
    None = None
    Obj <- TwoObj
    Key <- TwoKeys
    KeyOf <- OwnKeys
    AgeOnly <- OnlyO2
    Pass <- TwoTickers
    KeysOf <- OwnPlurals
    Goroutine <- TwoG
    PassOf <- TickerEach
    Lists <- Apart
    HealCooldown = 1
    StaleAge = 0
    VMMaxAge = 0
    TrackedLimit = 1
    TrackedTenths = 5
    MaxRetries = 1
    CleanupFinalizers = FALSE
    Finalized <- OnlyO2
    Excluded <- NoObjects
    CallsFail = FALSE
    RateLimited = FALSE
    OthersDelete = TRUE
    MemoryLimited = FALSE
VIEW WithoutGate
INVARIANT ListInv
PROPERTY LoggedOnce
PROPERTY OnlyStaleCleaned
