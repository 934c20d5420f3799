SPECIFICATION FairSpec
CONSTANTS
    test1 = test1
    test2 = test2
    prod = prod
    appDev = appDev
    appProd = appProd
    TestPrefix = TestPrefix
    AppPrefix = AppPrefix
    All = All
    None = None
    Ns <- TestNs
    Explicit <- NoNames
    Wildcard <- TestNames
    PatternMatch <- TestNames
    PollingOn = TRUE
    PrefixOf <- TestPrefixOf
    HasPrefix <- TestHasPrefix
    Excluded <- OnlyTest2
    StaleAge = 1
    CleanupFinalizers = TRUE
    Finalized <- OnlyTest1
    CallsFail = FALSE
    OthersDelete = TRUE
    InformerBound = 2
PROPERTY YoungSpared
