SPECIFICATION FairSpec
CONSTANTS
    p1 = p1
    i1 = i1
    i2 = i2
    None = None
    Pod <- OnePod
    Owned <- OnePod
    Informer <- TwoInformers
    Watches <- SameNamespace
    HealCooldown = 2
    RestartThreshold = 2
    QueueBound = 2
    MemoryLimited = TRUE
    OthersDelete = TRUE
INVARIANT CooldownInv
PROPERTY CooldownRespected
PROPERTY HealedEventually
