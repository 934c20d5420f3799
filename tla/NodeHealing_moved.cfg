SPECIFICATION Spec
CONSTANTS
    n1 = n1
    n2 = n2
    p1 = p1
    None = None
    Node <- TwoNodes
    Fragile <- OneNode
    Pod <- OnePod
    Evictable <- OnePod
    Threshold <- AllConditions
    HealCooldown = 2
    QueueBound = 1
    CallsFail = FALSE
    OthersDelete = FALSE
    MemoryLimited = FALSE
PROPERTY DrainStaysOnNode
