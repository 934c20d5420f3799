SPECIFICATION Spec
CONSTANTS
    n1 = n1
    n2 = n2
    low = low
    high = high
    critical = critical
    bare = bare
    tested = tested
    TestStar = TestStar
    None = None
    Given <- ByNamespaces
    Daemon = TRUE
    Wildcard <- Wildcards
    Node <- TwoNodes
    Pod <- AllPods
    NsOf <- Home
    PriorityClass <- Classes
    Owned <- NotBare
    Fickle <- OnlyLow
    Symptom <- OOMKills
    Matching <- Matches
    MaxEvictions = 1
    CallsFail = TRUE
INVARIANT StrainExceeds
