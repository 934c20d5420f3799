SPECIFICATION Spec
CONSTANTS
    test1 = test1
    test2 = test2
    prod = prod
    appDev = appDev
    appProd = appProd
    TestPrefix = TestPrefix
    AppPrefix = AppPrefix
    All = All
    None = None
    Ns <- AppNs
    Explicit <- NoNames
    Wildcard <- OnlyDev
    PatternMatch <- OnlyDev
    PollingOn = TRUE
    PrefixOf <- AppPrefixOf
    HasPrefix <- AppHasPrefix
    Excluded <- NoNames
    StaleAge = 1
    CleanupFinalizers = TRUE
    Finalized <- NoNames
    CallsFail = TRUE
    OthersDelete = TRUE
    InformerBound = 2
INVARIANT StaysConfigured
