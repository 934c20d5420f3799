SPECIFICATION Spec
CONSTANTS
    o1 = o1
    o2 = o2
    k1 = k1
    k2 = k2
    ticker = ticker
    ticker2 = ticker2
    usr1 = usr1
    g1 = g1
    g2 = g2
    None = None
    Obj <- OneObj
    Key <- OneKey
    KeyOf <- OneKeyOf
    AgeOnly <- NoObjects
    Pass <- TickerOnly
    KeysOf <- TickerKeys
    Goroutine <- OneG
    PassOf <- TickerG
    Lists <- AllInOne
    HealCooldown = 2
    StaleAge = 1
    VMMaxAge = 1
    TrackedLimit = 2
    TrackedTenths = 10
    MaxRetries = 2
    CleanupFinalizers = TRUE
    Finalized <- NoObjects
    Excluded <- OneObj
    CallsFail = FALSE
    RateLimited = FALSE
    OthersDelete = FALSE
    MemoryLimited = FALSE
PROPERTY ExcludedSpared
