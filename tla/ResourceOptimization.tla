------------------------ MODULE ResourceOptimization ------------------------
(***************************************************************************)
(* Resource optimization (checkAndOptimizeResources): every 30 seconds the *)
(* nodes are listed, and when enough of them are under pressure the pods   *)
(* of all namespaces are, in a goroutine for each namespace; of those that *)
(* are worth evicting the least important few are evicted, one after the   *)
(* other, or deleted when the eviction fails.                              *)
(*                                                                         *)
(* The test pods that are collected too decide nothing: their needs are    *)
(* looked at only under strain, which is reason enough.  Percentages are   *)
(* exact here; the float64 arithmetic of the code first differs at 40      *)
(* nodes, where 23 are less than 57.5 %.                                   *)
(***************************************************************************)
EXTENDS DaemonArgs, FiniteSets, SequencesExt

CONSTANTS
    Node,           \* node names
    Pod,            \* pods, "namespace/name"
    NsOf,           \* NsOf[p]: the namespace of p
    PriorityClass,  \* PriorityClass[p]: the name of its priority class
    Owned,          \* pods with owner references
    Fickle,         \* the pods that come, go and get into trouble; others stay
    Symptom,        \* troubles of pods: "OOMKilled", "Restarts" (five or more),
                    \* "Pending" (five minutes), "Unschedulable"
    Matching,       \* Matching[x]: the namespaces that match pattern x
    MaxEvictions,   \* the five evictions at a time
    CallsFail,      \* API calls may fail
    None            \* no entry

ASSUME OptimizationAssumption ==
    /\ IsFiniteSet(Node) /\ IsFiniteSet(Pod)
    /\ DOMAIN NsOf = Pod /\ DOMAIN PriorityClass = Pod
    /\ Owned \cup Fickle \subseteq Pod
    /\ Symptom \subseteq {"OOMKilled", "Restarts", "Pending", "Unschedulable"}
    /\ \A f \in {Flags, Effective} : NamespacePattern(f) \in DOMAIN Matching
    /\ {Flags.healCooldown, MaxEvictions} \subseteq Nat \ {0}
    /\ Flags.strainThreshold \in Nat
    /\ CallsFail \in BOOLEAN
    /\ None \notin Nat

VARIABLES
    node,           \* "ok", "pressed" (disk, memory or PIDs) or "absent"
    pod,            \* "fine", a symptom, or "absent"
    pc,             \* where checkAndOptimizeResources is
    strainInfo,     \* its local variable: nodes under pressure, and all nodes
    listing,        \* the namespaces whose goroutine has not returned
    nonTestPods,    \* the pods these have collected
    podsToEvict,    \* what is left to evict, in order
    CurrentClusterStrain,   \* "strained" or "healthy", or "nil"
    OptimizedPods,  \* the age of the entry of each pod, or None
    since, odd      \* history, as in CooldownGate, of the evictions that succeed

vars == <<node, pod, pc, strainInfo, listing, nonTestPods, podsToEvict,
          CurrentClusterStrain, OptimizedPods, since, odd>>
local == <<strainInfo, listing, nonTestPods, podsToEvict>>
gateHistory == <<since, odd>>

HealCooldown == Effective.healCooldown
OldAge == 2 * HealCooldown + 1
Ns == {NsOf[p] : p \in Pod}
Exists(p) == pod[p] # "absent"
NoStrain == [strained |-> 0, total |-> 0]

-----------------------------------------------------------------------------
(* util.IsClusterUnderStrain, isNodeUnderResourcePressure *)

Strain == [strained |-> Cardinality({n \in Node : node[n] = "pressed"}),
           total    |-> Cardinality({n \in Node : node[n] # "absent"})]

\* At least Threshold hundredths of a percent; no nodes count as 0 %.
HasStrain(s) ==
    IF s.total = 0 THEN Effective.strainThreshold = 0
    ELSE s.strained * 10000 >= Effective.strainThreshold * s.total

-----------------------------------------------------------------------------
(* util.GetPodPriority, IsPodResourceConstrained, ShouldEvictPodForResourceOptimization *)

GetPodPriority(p) ==
    CASE PriorityClass[p] = "system-cluster-critical" -> 100
      [] PriorityClass[p] = "system-node-critical" -> 90
      [] PriorityClass[p] = "high" -> 70
      [] PriorityClass[p] = "medium" -> 50
      [] PriorityClass[p] = "low" -> 20
      [] OTHER -> 30    \* "" and unknown classes

\* A pod that cannot be scheduled has an issue, but not one it is evicted for.
ShouldEvictForResources(p) ==
    GetPodPriority(p) < 90 /\ pod[p] \in {"OOMKilled", "Restarts", "Pending"}

ShouldEvict(p) == ShouldEvictForResources(p) \/ GetPodPriority(p) < 50

IsTestNamespace(n) == n \in Matching[NamespacePattern(Effective)]

RecentlyOptimizedMut(p) == OptimizedPods[p] # None
RecentlyOptimized(p) == OptimizedPods[p] # None /\ OptimizedPods[p] < HealCooldown

\* The pods of namespace n that its goroutine collects.
Candidates(n) ==
    {p \in Owned : NsOf[p] = n /\ Exists(p) /\ ~RecentlyOptimized(p)
                     /\ ~IsTestNamespace(n) /\ ShouldEvict(p)}

-----------------------------------------------------------------------------
(* The sort by priority, as the code has it *)

Swap(s, i, j) == [s EXCEPT ![i] = s[j], ![j] = s[i]]

\* Where the inner loop puts the pods at j and at i, one pass for each j.
SortedFromMut(s, i) ==
    LET pass[j \in Nat] ==
          IF j = 0 THEN s
          ELSE LET t == pass[j - 1] IN
               IF j \in (i + 1)..(Len(s) - 1) /\ GetPodPriority(t[i]) > GetPodPriority(t[j])
               THEN Swap(t, i, j) ELSE t
    IN pass[Len(s)]

SortedFrom(s, i) ==
    LET pass[j \in Nat] ==
          IF j = 0 THEN s
          ELSE LET t == pass[j - 1] IN
               IF j \in (i + 1)..Len(s) /\ GetPodPriority(t[i]) > GetPodPriority(t[j])
               THEN Swap(t, i, j) ELSE t
    IN pass[Len(s)]

SortedByPriority(s) ==
    LET round[i \in Nat] == IF i = 0 THEN s ELSE SortedFrom(round[i - 1], i)
    IN round[Len(s)]

-----------------------------------------------------------------------------
(* The cluster *)

NodeChanges(n, state) ==
    /\ node[n] # state
    /\ node' = [node EXCEPT ![n] = state]
    /\ UNCHANGED <<pod, pc, local, CurrentClusterStrain, OptimizedPods, gateHistory>>

\* A pod of this name is created, gets into another trouble, or is deleted.
PodChanges(p, state) ==
    /\ p \in Fickle /\ pod[p] # state
    /\ pod' = [pod EXCEPT ![p] = state]
    /\ UNCHANGED <<node, pc, local, CurrentClusterStrain, OptimizedPods, gateHistory>>

Tick ==
    /\ OptimizedPods' = [p \in Pod |-> IF OptimizedPods[p] # None /\ OptimizedPods[p] < OldAge
                                       THEN OptimizedPods[p] + 1 ELSE OptimizedPods[p]]
    /\ since' = [p \in Pod |-> IF since[p] < HealCooldown THEN since[p] + 1 ELSE since[p]]
    /\ UNCHANGED <<node, pod, pc, local, CurrentClusterStrain, odd>>

-----------------------------------------------------------------------------
(* checkAndOptimizeResources *)

Return ==
    /\ pc' = "idle"
    /\ strainInfo' = NoStrain /\ listing' = {} /\ nonTestPods' = {} /\ podsToEvict' = <<>>

CheckStrain ==
    /\ Effective.enableResourceOptimization /\ pc = "idle"
    /\ CurrentClusterStrain' = IF HasStrain(Strain) THEN "strained" ELSE "healthy"
    /\ IF HasStrain(Strain)
       THEN pc' = "namespaces" /\ strainInfo' = Strain /\ UNCHANGED <<listing, nonTestPods, podsToEvict>>
       ELSE Return
    /\ UNCHANGED <<node, pod, OptimizedPods, gateHistory>>

ListNamespaces ==
    /\ pc = "namespaces"
    /\ listing' = Ns
    /\ pc' = "collect"
    /\ UNCHANGED <<node, pod, strainInfo, nonTestPods, podsToEvict, CurrentClusterStrain,
                   OptimizedPods, gateHistory>>

ListNamespacesFails ==
    /\ CallsFail /\ pc = "namespaces"
    /\ Return
    /\ UNCHANGED <<node, pod, CurrentClusterStrain, OptimizedPods, gateHistory>>

Collect(n) ==
    /\ n \in listing
    /\ nonTestPods' = nonTestPods \cup Candidates(n)
    /\ listing' = listing \ {n}
    /\ UNCHANGED <<node, pod, pc, strainInfo, podsToEvict, CurrentClusterStrain,
                   OptimizedPods, gateHistory>>

CollectFails(n) ==
    /\ CallsFail /\ n \in listing
    /\ listing' = listing \ {n}
    /\ UNCHANGED <<node, pod, pc, strainInfo, nonTestPods, podsToEvict, CurrentClusterStrain,
                   OptimizedPods, gateHistory>>

First(s) == SubSeq(s, 1, IF Len(s) > MaxEvictions THEN MaxEvictions ELSE Len(s))

\* wg.Wait returns.  The goroutines appended in any order, and the sort leaves
\* pods of one priority in any order.
SelectPodsToEvictMut ==
    /\ pc = "collect"
    /\ \E order \in SetToSeqs(nonTestPods) :
         podsToEvict' = First(SortedByPriority(order))
    /\ pc' = "evict"
    /\ UNCHANGED <<node, pod, strainInfo, listing, nonTestPods, CurrentClusterStrain,
                   OptimizedPods, gateHistory>>

SelectPodsToEvict ==
    /\ pc = "collect" /\ listing = {}
    /\ \E order \in SetToSeqs(nonTestPods) :
         podsToEvict' = First(SortedByPriority(order))
    /\ pc' = "evict"
    /\ UNCHANGED <<node, pod, strainInfo, listing, nonTestPods, CurrentClusterStrain,
                   OptimizedPods, gateHistory>>

AllEvicted ==
    /\ pc = "evict" /\ podsToEvict = <<>>
    /\ Return
    /\ UNCHANGED <<node, pod, CurrentClusterStrain, OptimizedPods, gateHistory>>

-----------------------------------------------------------------------------
(* evictPodForOptimization; a pod in a test namespace is not among them *)

Goes(to) == /\ pc' = to /\ UNCHANGED local
Victim == Head(podsToEvict)

\* The pod of that name is gone, by an eviction or a deletion.
Disappears(p) ==
    /\ Exists(p)
    /\ pod' = [pod EXCEPT ![p] = "absent"]
    /\ since' = [since EXCEPT ![p] = 0]
    /\ odd' = [odd EXCEPT ![p] = ~odd[p]]

Evict ==
    /\ pc = "evict" /\ podsToEvict # <<>>
    /\ Disappears(Victim)
    /\ Goes("record")
    /\ UNCHANGED <<node, CurrentClusterStrain, OptimizedPods>>

\* A disruption budget, a missing pod, or another error.
EvictFails ==
    /\ pc = "evict" /\ podsToEvict # <<>> /\ (CallsFail \/ ~Exists(Victim))
    /\ Goes("delete")
    /\ UNCHANGED <<node, pod, CurrentClusterStrain, OptimizedPods, gateHistory>>

\* "Fallback to direct deletion if eviction fails"
DeleteMut ==
    /\ pc = "delete"
    /\ Disappears(Victim)
    /\ pc' = "evict" /\ podsToEvict' = Tail(podsToEvict)
    /\ UNCHANGED <<node, strainInfo, listing, nonTestPods, CurrentClusterStrain, OptimizedPods>>

Delete ==
    /\ pc = "delete"
    /\ Disappears(Victim)
    /\ Goes("record")
    /\ UNCHANGED <<node, CurrentClusterStrain, OptimizedPods>>

\* Nothing is recorded: the pod is a candidate of the next check again.
DeleteFails ==
    /\ pc = "delete" /\ (CallsFail \/ ~Exists(Victim))
    /\ pc' = "evict" /\ podsToEvict' = Tail(podsToEvict)
    /\ UNCHANGED <<node, pod, strainInfo, listing, nonTestPods, CurrentClusterStrain,
                   OptimizedPods, gateHistory>>

RecordOptimization ==
    /\ pc = "record"
    /\ OptimizedPods' = [OptimizedPods EXCEPT ![Victim] = 0]
    /\ pc' = "evict" /\ podsToEvict' = Tail(podsToEvict)
    /\ UNCHANGED <<node, pod, strainInfo, listing, nonTestPods, CurrentClusterStrain, gateHistory>>

-----------------------------------------------------------------------------
(* The goroutines that share the map *)

Forgotten(p) == OptimizedPods[p] # None /\ OptimizedPods[p] > 2 * HealCooldown

CleanOptimizedPods ==
    /\ \E p \in Pod : Forgotten(p)
    /\ OptimizedPods' = [p \in Pod |-> IF Forgotten(p) THEN None ELSE OptimizedPods[p]]
    /\ UNCHANGED <<node, pod, pc, local, CurrentClusterStrain, gateHistory>>

SanitizeReferences ==
    /\ Effective.memoryLimitMB > 0
    /\ OptimizedPods' = [p \in Pod |-> None]
    /\ CurrentClusterStrain' = "nil"
    /\ since' = [p \in Pod |-> HealCooldown]
    /\ UNCHANGED <<node, pod, pc, local, odd>>

-----------------------------------------------------------------------------

Init ==
    /\ node = [n \in Node |-> "ok"]
    /\ \E s \in Symptom : pod = [p \in Pod |-> s]
    /\ pc = "idle" /\ strainInfo = NoStrain
    /\ listing = {} /\ nonTestPods = {} /\ podsToEvict = <<>>
    /\ CurrentClusterStrain = "nil"
    /\ OptimizedPods = [p \in Pod |-> None]
    /\ since = [p \in Pod |-> HealCooldown]
    /\ odd = [p \in Pod |-> FALSE]

Cluster ==
    \/ Tick
    \/ \E n \in Node, state \in {"ok", "pressed", "absent"} : NodeChanges(n, state)
    \/ \E p \in Pod, state \in Symptom \cup {"fine", "absent"} : PodChanges(p, state)

CheckAndOptimizeResources ==
    \/ CheckStrain \/ ListNamespaces \/ ListNamespacesFails
    \/ \E n \in Ns : Collect(n) \/ CollectFails(n)
    \/ SelectPodsToEvict \/ AllEvicted
    \/ Evict \/ EvictFails \/ Delete \/ DeleteFails \/ RecordOptimization

Next == Cluster \/ CheckAndOptimizeResources \/ CleanOptimizedPods \/ SanitizeReferences

Spec == Init /\ [][Next]_vars

\* Time passes, checks go on (each of them ends), and a call that is repeated
\* for ever succeeds some time.
Fairness ==
    /\ WF_vars(Tick) /\ WF_vars(CheckAndOptimizeResources)
    /\ SF_vars(ListNamespaces)
    /\ \A n \in Ns : SF_vars(Collect(n))
    /\ \A p \in Fickle : SF_vars(Evict /\ Victim = p)

FairSpec == Spec /\ Fairness

-----------------------------------------------------------------------------
(* Properties *)

\* The state has its shape: goroutines run only while pods are collected, and
\* what is evicted was collected.
TypeOK ==
    /\ node \in [Node -> {"ok", "pressed", "absent"}]
    /\ pod \in [Pod -> Symptom \cup {"fine", "absent"}]
    /\ pc \in {"idle", "namespaces", "collect", "evict", "delete", "record"}
    /\ strainInfo \in [strained : 0..Cardinality(Node), total : 0..Cardinality(Node)]
    /\ listing \subseteq Ns /\ (listing # {} => pc = "collect")
    /\ nonTestPods \subseteq Owned
    /\ podsToEvict \in Seq(nonTestPods)
    /\ CurrentClusterStrain \in {"strained", "healthy", "nil"}
    /\ OptimizedPods \in [Pod -> 0..OldAge \cup {None}]
    /\ since \in [Pod -> 0..HealCooldown] /\ odd \in [Pod -> BOOLEAN]

\* Time cannot run out between the check of a cooldown and the eviction: no pod
\* is evicted twice in one check, and what is still to be evicted is due.
PendingEvictionIsDue ==
    /\ pc \in {"idle", "namespaces"} => nonTestPods = {}
    /\ pc \notin {"evict", "delete", "record"} => podsToEvict = <<>>
    /\ pc \in {"delete", "record"} => podsToEvict # <<>>
    /\ pc = "collect" => \A p \in nonTestPods : since[p] = HealCooldown
    /\ \A k \in DOMAIN podsToEvict :
         /\ since[podsToEvict[k]] = HealCooldown \/ (pc = "record" /\ k = 1)
         /\ \A j \in DOMAIN podsToEvict : podsToEvict[j] = podsToEvict[k] => j = k

\* A pod that went within the cooldown has an entry no older than that, or is
\* about to get it.
RecentEvictionIsRecorded ==
    \A p \in Pod : since[p] < HealCooldown =>
        \/ OptimizedPods[p] # None /\ OptimizedPods[p] <= since[p]
        \/ pc = "record" /\ p = Victim

\* The inductive invariant behind CooldownRespected: between the look at
\* OptimizedPods (healer.go:1514) and the entry (healer.go:1658) lie the other
\* namespaces, the sort, and the evictions of the pods before.
CooldownInv == TypeOK /\ PendingEvictionIsDue /\ RecentEvictionIsRecorded

\* The hypotheses under which the flags are those of the command line where it
\* matters: a threshold of whole tenths, and no pattern but that of --namespaces.
WholeTenths == ~Daemon \/ Flags.strainThreshold % 10 = 0
PatternKept ==
    \/ ~Daemon
    \/ \A f \in {"enableNamespacePolling", "namespacePattern"} : Flags[f] = Default[f]

\* "Percentage of nodes under resource pressure to trigger optimization"
\* (cmd/main.go:112): pods are listed and evicted only after a list of nodes of
\* which at least the percentage on the command line and, for a threshold above 0,
\* at least one was under pressure.
OnlyUnderStrain ==
    pc # "idle" => /\ strainInfo.strained * 10000 >= Flags.strainThreshold * strainInfo.total
                   /\ Flags.strainThreshold > 0 => strainInfo.strained > 0

\* "When the percentage of nodes under pressure exceeds the configured threshold"
\* (README.md:162).
StrainExceeds ==
    pc # "idle" => strainInfo.strained * 10000 > Flags.strainThreshold * strainInfo.total

\* "Test namespace pods (matching the namespace pattern) are never evicted"
\* (README.md:174), "ensuring critical system pods are protected" (README.md:180),
\* and pods without owner, which nobody would create anew, stay: for the
\* pattern on the command line, whichever process works with it.
Evicts(p) == pc \in {"evict", "delete"} /\ pc' = "record" /\ Victim = p
TestPod(p) == NsOf[p] \in Matching[NamespacePattern(Flags)]
ProtectedSpared ==
    [][\A p \in Pod : Evicts(p) =>
         p \in Owned /\ ~TestPod(p) /\ GetPodPriority(p) < 90]_vars

\* "Lower priority non-test pods are evicted first" (README.md:181): those that
\* are chosen are no more important than those that are not, they are in order,
\* and they are as many as can be.
LeastImportantFirst ==
    [][pc = "collect" /\ pc' = "evict" =>
         LET chosen == {podsToEvict'[k] : k \in DOMAIN podsToEvict'} IN
         /\ \A p \in chosen, q \in nonTestPods \ chosen : GetPodPriority(p) <= GetPodPriority(q)
         /\ \A j, k \in DOMAIN podsToEvict' :
              j < k => GetPodPriority(podsToEvict'[j]) <= GetPodPriority(podsToEvict'[k])
         /\ Cardinality(chosen) \in {MaxEvictions, Cardinality(nonTestPods)}]_vars

\* "Prevents repeatedly evicting the same pods by maintaining a cooldown period"
\* (README.md:189): pods of one name are evicted or deleted a cooldown apart,
\* though only success is recorded.  (A call that fails has no effect here.)
Gate == INSTANCE CooldownGate WITH Key <- Pod, HealCooldown <- Flags.healCooldown
CooldownRespected == Gate!Spec

\* In a cluster that stays under strain a pod that is among the least important
\* goes, whatever fails.  (Others may wait for ever: those whose eviction fails
\* are not recorded, and come first in every check.)
AmongTheLeast(p) ==
    Cardinality({q \in Owned : ~TestPod(q) /\ GetPodPriority(q) <= GetPodPriority(p)}) <= MaxEvictions
LeastImportantGo ==
    \A p \in Owned : ~TestPod(p) /\ GetPodPriority(p) < 50 /\ AmongTheLeast(p) =>
        (Exists(p) ~> ~Exists(p) \/ ~HasStrain(Strain))
=============================================================================
