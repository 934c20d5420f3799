---------------------- MODULE MCResourceOptimization ----------------------
(* Small instances of ResourceOptimization. *)
EXTENDS ResourceOptimization

CONSTANTS n1, n2, low, high, critical, bare, tested, TestStar

TwoNodes == {n1, n2}
AllPods == {low, high, critical, bare, tested}
OnlyLow == {low}
NotBare == AllPods \ {bare}
Home == [p \in AllPods |-> IF p = tested THEN "test-1" ELSE "app"]
Classes == [p \in AllPods |-> IF p = high THEN "high"
                              ELSE IF p = critical THEN "system-node-critical" ELSE "low"]
OOMKills == {"OOMKilled"}

Wildcards == {TestStar}
Matches == [x \in {TestStar, ""} |-> IF x = TestStar THEN {"test-1"} ELSE {}]

\* k8s-healer start -n 'test-*' --heal-cooldown 1 --strain-threshold 50
ByNamespaces == [namespaces |-> <<TestStar>>, healCooldown |-> 1, strainThreshold |-> 5000]
\* The same with a threshold of two digits, --strain-threshold 50.04
ByFineThreshold == [namespaces |-> <<TestStar>>, healCooldown |-> 1, strainThreshold |-> 5004]
\* k8s-healer start --namespace-pattern 'test-*' --heal-cooldown 1
ByPattern == [namespacePattern |-> TestStar, healCooldown |-> 1]
=============================================================================
