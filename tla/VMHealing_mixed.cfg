SPECIFICATION VMSpec
CONSTANTS
    test1 = test1
    prod = prod
    other = other
    vt = vt
    TestPrefix = TestPrefix
    All = All
    None = None
    Ns <- ForeignNs
    Explicit <- NoNames
    Wildcard <- OnlyTest
    PatternMatch <- OnlyTest
    PollingOn = TRUE
    PrefixOf <- PrefixOfNs
    HasPrefix <- PrefixedNs
    Excluded <- NoNames
    StaleAge = 0
    CleanupFinalizers = TRUE
    Finalized <- NoNames
    CallsFail = FALSE
    OthersDelete = FALSE
    InformerBound = 1
    VM <- OneVM
    NsOf <- NsOfVMs
    VMMaxAge = 0
    HealCooldown = 2
    VMCallsFail = FALSE
    VMFinalized <- OneVM
    DeletedElsewhere <- OneVM
    MemoryLimited = FALSE
PROPERTY CooldownRespected
