SPECIFICATION FairSpec
CONSTANTS
    test1 = test1
    test2 = test2
    prod = prod
    appDev = appDev
    appProd = appProd
    TestPrefix = TestPrefix
    AppPrefix = AppPrefix
    All = All
    None = None
    Ns <- TestNs
    Explicit <- OnlyTest1
    Wildcard <- NoNames
    PatternMatch <- NoNames
    PollingOn = FALSE
    PrefixOf <- TestPrefixOf
    HasPrefix <- TestHasPrefix
    Excluded <- NoNames
    StaleAge = 1
    CleanupFinalizers = TRUE
    Finalized <- OnlyTest1
    CallsFail = FALSE
    OthersDelete = FALSE
    InformerBound = 2
PROPERTY DiscoveredEventually
