SPECIFICATION FairSpec
CONSTANTS
    n1 = n1
    n2 = n2
    p1 = p1
    None = None
    Node <- TwoNodes
    Fragile <- OneNode
    Pod <- OnePod
    Evictable <- OnePod
    Threshold <- AllConditions
    HealCooldown = 1
    QueueBound = 1
    CallsFail = TRUE
    OthersDelete = TRUE
    MemoryLimited = TRUE
INVARIANT CooldownInv
PROPERTY CooldownRespected
PROPERTY OnlyFailingDeleted
PROPERTY DrainedBeforeDeleted
PROPERTY FailingNodeGoes
