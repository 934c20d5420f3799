SPECIFICATION Spec
CONSTANTS
    test1 = test1
    test2 = test2
    prod = prod
    appDev = appDev
    appProd = appProd
    TestPrefix = TestPrefix
    AppPrefix = AppPrefix
    All = All
    None = None
    Ns <- MixedBagNs
    Explicit <- OnlyProd
    Wildcard <- OnlyTest1
    PatternMatch <- OnlyTest1
    PollingOn = TRUE
    PrefixOf <- MixedBagPrefixOf
    HasPrefix <- MixedBagHasPrefix
    Excluded <- NoNames
    StaleAge = 1
    CleanupFinalizers = TRUE
    Finalized <- OnlyTest1
    CallsFail = TRUE
    OthersDelete = TRUE
    InformerBound = 2
INVARIANT TypeOK
INVARIANT TrackingAgrees
INVARIANT StaysConfigured
INVARIANT ExplicitKept
PROPERTY OnlyStaleDeleted
