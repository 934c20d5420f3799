--------------------- MODULE ResourceOptimizationProofs ---------------------
(***************************************************************************)
(* Resource optimization for any number of nodes, pods and evictions: what *)
(* of the flags reaches the child of start, the cooldown, that evictions   *)
(* happen only under strain, that protected pods are spared, and that the  *)
(* least important go first.                                               *)
(***************************************************************************)
EXTENDS SortingProofs, SequenceTheorems

-----------------------------------------------------------------------------
(* The flags of the child *)

\* The flags the proofs speak of are flags.
LEMMA FlagNames ==
  /\ DOMAIN Flags = DOMAIN Default
  /\ DOMAIN Effective = DOMAIN Default
  /\ Reconstructed \subseteq DOMAIN Default
  /\ {"healCooldown", "strainThreshold", "namespaces", "enableNamespacePolling",
      "namespacePattern"} \subseteq DOMAIN Default
  BY DEF Default, Flags, Effective, Reconstructed

\* A reconstructed flag (main.go:412) that is not the threshold is effective, a flag
\* left at its default by being left out.
LEMMA FlagsSurviveStart ==
  \A f \in Reconstructed \ {"strainThreshold"} : Effective[f] = Flags[f]
  <1> SUFFICES ASSUME NEW f \in Reconstructed \ {"strainThreshold"}
               PROVE  Effective[f] = Flags[f]
    OBVIOUS
  <1>1. f \in DOMAIN Default
    BY FlagNames
  <1>2. CASE ~Daemon
    BY <1>2 DEF Effective
  <1>3. CASE Daemon
    <2>1. Effective[f] = IF f \in getDaemonArgs THEN Printed(f) ELSE Default[f]
      BY <1>1, <1>3 DEF Effective
    <2>2. Printed(f) = Flags[f]
      BY DEF Printed
    <2>3. f \notin getDaemonArgs => Flags[f] = Default[f]
      BY DEF getDaemonArgs
    <2>4. QED
      BY <2>1, <2>2, <2>3
  <1>4. QED
    BY <1>2, <1>3

\* Hence the child has the cooldown that was asked for (main.go:422),
LEMMA CooldownSurvives == Effective.healCooldown = Flags.healCooldown
  BY FlagsSurviveStart DEF Reconstructed

\* the threshold, when printing it with one digit loses nothing,
LEMMA ThresholdSurvives ==
  ASSUME WholeTenths
  PROVE  Effective.strainThreshold = Flags.strainThreshold
  <1> DEFINE x == Flags.strainThreshold
  <1>1. CASE ~Daemon
    BY <1>1 DEF Effective
  <1>2. CASE Daemon
    <2>1. Effective.strainThreshold
            = IF "strainThreshold" \in getDaemonArgs THEN Printed("strainThreshold")
              ELSE Default.strainThreshold
      BY <1>2, FlagNames DEF Effective
    <2>2. "strainThreshold" \notin getDaemonArgs => x = Default.strainThreshold
      BY DEF getDaemonArgs, Reconstructed
    <2>3. Printed("strainThreshold") = 10 * ((x + 5) \div 10)
      BY DEF Printed
    <2>4. 10 * ((x + 5) \div 10) = x
      <3>1. x \in Nat /\ x % 10 = 0
        BY <1>2, OptimizationAssumption DEF WholeTenths
      <3> HIDE DEF x
      <3>2. QED
        BY <3>1
    <2>5. QED
      BY <2>1, <2>2, <2>3, <2>4
  <1>3. QED
    BY <1>1, <1>2

\* and the test namespaces, when the flags that are not handed over had been left
\* at their defaults.
LEMMA PatternSurvives ==
  ASSUME PatternKept
  PROVE  NamespacePattern(Effective) = NamespacePattern(Flags)
  <1>1. CASE ~Daemon
    BY <1>1 DEF Effective
  <1>2. CASE Daemon
    <2>1. Effective.namespaces = Flags.namespaces
      BY FlagsSurviveStart DEF Reconstructed
    <2>2. /\ Effective.enableNamespacePolling = Default.enableNamespacePolling
          /\ Effective.namespacePattern = Default.namespacePattern
      BY <1>2, FlagNames DEF Effective, getDaemonArgs, Reconstructed
    <2>3. /\ Effective.enableNamespacePolling = Flags.enableNamespacePolling
          /\ Effective.namespacePattern = Flags.namespacePattern
      BY <1>2, <2>2 DEF PatternKept
    <2>4. QED
      BY <2>1, <2>3, Zenon DEF NamespacePattern
  <1>3. QED
    BY <1>1, <1>2

-----------------------------------------------------------------------------
(* Types, and the invariant of the cooldown *)

\* The cooldown is not zero and an entry is kept longer than that.
LEMMA Ages ==
  /\ HealCooldown \in Nat \ {0}
  /\ OldAge \in Nat /\ OldAge > HealCooldown
  /\ None \notin Nat
  <1>1. HealCooldown \in Nat \ {0}
    BY CooldownSurvives, OptimizationAssumption DEF HealCooldown
  <1>2. QED
    BY <1>1, OptimizationAssumption DEF OldAge

\* The strain counts nodes.
LEMMA StrainType ==
  ASSUME TypeOK
  PROVE  Strain \in [strained : 0..Cardinality(Node), total : 0..Cardinality(Node)]
  <1>1. ASSUME NEW S \in SUBSET Node
        PROVE  Cardinality(S) \in 0..Cardinality(Node)
    BY OptimizationAssumption, FS_Subset, FS_CardinalityType
  <1>2. QED
    BY <1>1 DEF Strain

\* The pods that compete are finitely many.
LEMMA CollectedAreFinite == TypeOK => IsFiniteSet(nonTestPods)
  BY OptimizationAssumption, FS_Subset DEF TypeOK

\* The first pods of an order.
LEMMA SelectionType ==
  ASSUME NEW T, IsFiniteSet(T), NEW s \in SetToSeqs(T)
  PROVE  /\ First(s) \in Seq(T)
         /\ Len(First(s)) = IF Cardinality(T) > MaxEvictions THEN MaxEvictions ELSE Cardinality(T)
         /\ DOMAIN First(s) = 1..Len(First(s))
         /\ \A k \in DOMAIN First(s) : k \in DOMAIN s /\ First(s)[k] = s[k]
  <1> DEFINE m == IF Len(s) > MaxEvictions THEN MaxEvictions ELSE Len(s)
  <1>1. /\ s \in Seq(T) /\ Len(s) = Cardinality(T) /\ Len(s) \in Nat
        /\ DOMAIN s = 1..Len(s)
    BY OrderType
  <1>2. m \in 0..Len(s)
    BY <1>1, OptimizationAssumption
  <1> HIDE DEF m
  <1>3. /\ SubSeq(s, 1, m) \in Seq(T)
        /\ Len(SubSeq(s, 1, m)) = m
        /\ \A k \in 1..m : SubSeq(s, 1, m)[k] = s[k]
    BY <1>1, <1>2
  <1>4. First(s) = SubSeq(s, 1, m)
    BY DEF First, m
  <1>5. DOMAIN First(s) = 1..m
    BY <1>3, <1>4
  <1>6. QED
    BY <1>1, <1>2, <1>3, <1>4, <1>5 DEF m

\* The pod whose turn it is, and those after it.
LEMMA QueueHead ==
  ASSUME TypeOK, podsToEvict # <<>>
  PROVE  /\ Victim \in nonTestPods /\ Victim \in Pod
         /\ 1 \in DOMAIN podsToEvict /\ Victim = podsToEvict[1]
         /\ Tail(podsToEvict) \in Seq(nonTestPods)
         /\ \A k \in DOMAIN Tail(podsToEvict) :
              /\ k \in Nat \ {0} /\ k + 1 \in DOMAIN podsToEvict
              /\ Tail(podsToEvict)[k] = podsToEvict[k + 1]
  <1>1. podsToEvict \in Seq(nonTestPods) /\ nonTestPods \subseteq Pod
    BY OptimizationAssumption DEF TypeOK
  <1>2. /\ Len(podsToEvict) \in Nat \ {0} /\ DOMAIN podsToEvict = 1..Len(podsToEvict)
    BY <1>1, EmptySeq, LenProperties
  <1>3. /\ Head(podsToEvict) \in nonTestPods /\ Head(podsToEvict) = podsToEvict[1]
        /\ Tail(podsToEvict) \in Seq(nonTestPods)
        /\ Len(Tail(podsToEvict)) = Len(podsToEvict) - 1
        /\ \A k \in 1..Len(Tail(podsToEvict)) : Tail(podsToEvict)[k] = podsToEvict[k + 1]
    BY <1>1, HeadTailProperties
  <1>4. DOMAIN Tail(podsToEvict) = 1..Len(Tail(podsToEvict))
    BY <1>3, LenProperties
  <1>5. QED
    BY <1>1, <1>2, <1>3, <1>4 DEF Victim

\* What is still to be evicted is pods.
LEMMA QueueType ==
  ASSUME TypeOK, NEW k \in DOMAIN podsToEvict
  PROVE  podsToEvict[k] \in nonTestPods /\ podsToEvict[k] \in Pod
  <1>1. podsToEvict \in Seq(nonTestPods) /\ nonTestPods \subseteq Pod
    BY OptimizationAssumption DEF TypeOK
  <1>2. DOMAIN podsToEvict = 1..Len(podsToEvict)
    BY <1>1, LenProperties
  <1>3. QED
    BY <1>1, <1>2, ElementOfSeq

\* At first there is no entry and no eviction.
LEMMA CooldownInvInit == Init => CooldownInv
  <1> SUFFICES ASSUME Init PROVE CooldownInv
    OBVIOUS
  <1>1. NoStrain \in [strained : 0..Cardinality(Node), total : 0..Cardinality(Node)]
    BY OptimizationAssumption, FS_CardinalityType DEF NoStrain
  <1>2. TypeOK
    BY <1>1, Ages DEF Init, TypeOK
  <1>3. PendingEvictionIsDue
    BY DEF Init, PendingEvictionIsDue
  <1>4. RecentEvictionIsRecorded
    BY Ages DEF Init, RecentEvictionIsRecorded
  <1>5. QED
    BY <1>2, <1>3, <1>4 DEF CooldownInv

\* Steps that leave the cooldown's variables alone.
LEMMA OtherStepsKeepCooldownInv ==
  ASSUME PendingEvictionIsDue, RecentEvictionIsRecorded,
         UNCHANGED <<pc, nonTestPods, podsToEvict, OptimizedPods, since>>
  PROVE  PendingEvictionIsDue' /\ RecentEvictionIsRecorded'
  BY DEF PendingEvictionIsDue, RecentEvictionIsRecorded, Victim

\* The steps of pods, nodes and the clock.
LEMMA ClusterStep ==
  ASSUME CooldownInv, Cluster
  PROVE  CooldownInv'
  <1>0. TypeOK /\ PendingEvictionIsDue /\ RecentEvictionIsRecorded
    BY DEF CooldownInv
  <1>1. CASE Tick
    <2>1. TypeOK'
      BY <1>0, <1>1, Ages DEF Tick, TypeOK, local
    <2>2. PendingEvictionIsDue'
      <3>1. \A p \in Pod : since[p] = HealCooldown => since'[p] = HealCooldown
        BY <1>1, Ages DEF Tick
      <3>2. UNCHANGED <<pc, nonTestPods, podsToEvict>>
        BY <1>1 DEF Tick, local
      <3>3. \A p \in nonTestPods : p \in Pod
        BY <1>0, OptimizationAssumption DEF TypeOK
      <3>4. QED
        BY <1>0, <3>1, <3>2, <3>3, QueueType DEF PendingEvictionIsDue
    <2>3. RecentEvictionIsRecorded'
      <3>1. ASSUME NEW p \in Pod, since'[p] < HealCooldown
            PROVE  \/ OptimizedPods'[p] # None /\ OptimizedPods'[p] <= since'[p]
                   \/ pc' = "record" /\ p = Victim'
        <4>1. since[p] \in 0..HealCooldown /\ OptimizedPods[p] \in 0..OldAge \cup {None}
          BY <1>0 DEF TypeOK
        <4>2. since[p] < HealCooldown /\ since'[p] = since[p] + 1
          BY <1>1, <3>1, <4>1, Ages DEF Tick
        <4>3. CASE OptimizedPods[p] # None /\ OptimizedPods[p] <= since[p]
          <5>1. /\ OptimizedPods[p] \in Nat /\ OptimizedPods[p] < OldAge
                /\ OptimizedPods'[p] = OptimizedPods[p] + 1
            BY <1>1, <4>1, <4>2, <4>3, Ages DEF Tick
          <5>2. QED
            BY <4>1, <4>2, <4>3, <5>1, Ages
        <4>4. CASE pc = "record" /\ p = Victim
          BY <1>1, <4>4 DEF Tick, local, Victim
        <4>5. QED
          BY <1>0, <4>2, <4>3, <4>4 DEF RecentEvictionIsRecorded
      <3>2. QED
        BY <3>1 DEF RecentEvictionIsRecorded
    <2>4. QED
      BY <2>1, <2>2, <2>3 DEF CooldownInv
  <1>2. CASE \E n \in Node, state \in {"ok", "pressed", "absent"} : NodeChanges(n, state)
    <2>1. TypeOK'
      BY <1>0, <1>2 DEF NodeChanges, TypeOK, local, gateHistory
    <2>2. PendingEvictionIsDue' /\ RecentEvictionIsRecorded'
      BY <1>0, <1>2, OtherStepsKeepCooldownInv DEF NodeChanges, local, gateHistory
    <2>3. QED
      BY <2>1, <2>2 DEF CooldownInv
  <1>3. CASE \E p \in Pod, state \in Symptom \cup {"fine", "absent"} : PodChanges(p, state)
    <2>1. TypeOK'
      BY <1>0, <1>3 DEF PodChanges, TypeOK, local, gateHistory
    <2>2. PendingEvictionIsDue' /\ RecentEvictionIsRecorded'
      BY <1>0, <1>3, OtherStepsKeepCooldownInv DEF PodChanges, local, gateHistory
    <2>3. QED
      BY <2>1, <2>2 DEF CooldownInv
  <1>4. QED
    BY <1>1, <1>2, <1>3 DEF Cluster

\* The steps up to the choice, and the end.
LEMMA CollectingStep ==
  ASSUME CooldownInv,
         \/ CheckStrain \/ ListNamespaces \/ ListNamespacesFails
         \/ \E n \in Ns : Collect(n) \/ CollectFails(n)
         \/ AllEvicted
  PROVE  CooldownInv'
  <1>0. TypeOK /\ PendingEvictionIsDue /\ RecentEvictionIsRecorded
    BY DEF CooldownInv
  <1>1. NoStrain \in [strained : 0..Cardinality(Node), total : 0..Cardinality(Node)]
    BY OptimizationAssumption, FS_CardinalityType DEF NoStrain
  <1>2. \A S : <<>> \in Seq(S)
    BY EmptySeq
  <1>3. ASSUME Return, UNCHANGED <<node, pod, OptimizedPods, since, odd>>, pc # "record",
               CurrentClusterStrain' \in {"strained", "healthy", "nil"}
        PROVE  CooldownInv'
    <2>1. TypeOK'
      BY <1>0, <1>1, <1>2, <1>3 DEF Return, TypeOK
    <2>2. PendingEvictionIsDue'
      BY <1>3 DEF Return, PendingEvictionIsDue
    <2>3. RecentEvictionIsRecorded'
      BY <1>0, <1>3 DEF Return, RecentEvictionIsRecorded
    <2>4. QED
      BY <2>1, <2>2, <2>3 DEF CooldownInv
  <1>4. CASE CheckStrain
    <2>1. CASE HasStrain(Strain)
      <3>1. TypeOK'
        BY <1>0, <1>4, <2>1, StrainType DEF CheckStrain, TypeOK, gateHistory
      <3>2. PendingEvictionIsDue'
        BY <1>0, <1>4, <2>1 DEF CheckStrain, PendingEvictionIsDue, gateHistory
      <3>3. RecentEvictionIsRecorded'
        BY <1>0, <1>4, <2>1 DEF CheckStrain, RecentEvictionIsRecorded, gateHistory
      <3>4. QED
        BY <3>1, <3>2, <3>3 DEF CooldownInv
    <2>2. CASE ~HasStrain(Strain)
      BY <1>3, <1>4, <2>2 DEF CheckStrain, gateHistory
    <2>3. QED
      BY <2>1, <2>2
  <1>5. CASE ListNamespaces
    <2>1. TypeOK'
      BY <1>0, <1>5 DEF ListNamespaces, TypeOK, gateHistory
    <2>2. PendingEvictionIsDue'
      BY <1>0, <1>5 DEF ListNamespaces, PendingEvictionIsDue, gateHistory
    <2>3. RecentEvictionIsRecorded'
      BY <1>0, <1>5 DEF ListNamespaces, RecentEvictionIsRecorded, gateHistory
    <2>4. QED
      BY <2>1, <2>2, <2>3 DEF CooldownInv
  <1>6. CASE ListNamespacesFails \/ AllEvicted
    BY <1>0, <1>3, <1>6 DEF ListNamespacesFails, AllEvicted, TypeOK, gateHistory
  <1>7. ASSUME NEW n \in Ns, Collect(n) \/ CollectFails(n)
        PROVE  CooldownInv'
    <2>1. /\ UNCHANGED <<node, pod, pc, strainInfo, podsToEvict, CurrentClusterStrain,
                         OptimizedPods, since, odd>>
          /\ listing' = listing \ {n} /\ listing # {}
          /\ nonTestPods' = nonTestPods \cup Candidates(n) \/ nonTestPods' = nonTestPods
      BY <1>7 DEF Collect, CollectFails, gateHistory
    <2>2. Candidates(n) \subseteq Owned /\ \A p \in Candidates(n) : ~RecentlyOptimized(p)
      BY DEF Candidates
    <2>3. pc = "collect"
      BY <1>0, <2>1 DEF TypeOK
    <2>4. podsToEvict = <<>>
      BY <1>0, <2>3 DEF PendingEvictionIsDue
    <2>5. TypeOK'
      BY <1>0, <1>2, <2>1, <2>2, <2>4 DEF TypeOK
    <2>6. ASSUME NEW p \in Candidates(n)
          PROVE  since[p] = HealCooldown
      <3>1. p \in Pod
        BY <2>2, OptimizationAssumption
      <3>2. /\ since[p] \in 0..HealCooldown
            /\ OptimizedPods[p] = None \/ OptimizedPods[p] \in Nat
        BY <1>0, <3>1 DEF TypeOK
      <3>3. OptimizedPods[p] = None \/ OptimizedPods[p] >= HealCooldown
        BY <2>2, <3>2, Ages DEF RecentlyOptimized
      <3>4. since[p] < HealCooldown => OptimizedPods[p] # None /\ OptimizedPods[p] <= since[p]
        BY <1>0, <2>3, <3>1 DEF RecentEvictionIsRecorded
      <3>5. QED
        BY <3>2, <3>3, <3>4, Ages
    <2>7. PendingEvictionIsDue'
      BY <1>0, <2>1, <2>3, <2>4, <2>6 DEF PendingEvictionIsDue
    <2>8. RecentEvictionIsRecorded'
      BY <1>0, <2>1 DEF RecentEvictionIsRecorded, Victim
    <2>9. QED
      BY <2>5, <2>7, <2>8 DEF CooldownInv
  <1>8. QED
    BY <1>4, <1>5, <1>6, <1>7

\* What is chosen: some of the pods that were collected, each of them once.
LEMMA Chosen ==
  ASSUME TypeOK, SelectPodsToEvict
  PROVE  \E t \in SetToSeqs(nonTestPods) :
           /\ InPlace(t, Cardinality(nonTestPods))
           /\ podsToEvict' = First(t)
  <1>1. PICK order \in SetToSeqs(nonTestPods) : podsToEvict' = First(SortedByPriority(order))
    BY DEF SelectPodsToEvict
  <1>2. IsFiniteSet(nonTestPods)
    BY CollectedAreFinite
  <1>3. QED
    BY <1>1, <1>2, SortedByPrioritySorts

\* The choice: who is chosen was collected, hence past the cooldown.
LEMMA SelectionStep ==
  ASSUME CooldownInv, SelectPodsToEvict
  PROVE  CooldownInv'
  <1>0. TypeOK /\ PendingEvictionIsDue /\ RecentEvictionIsRecorded
    BY DEF CooldownInv
  <1>1. PICK t \in SetToSeqs(nonTestPods) : podsToEvict' = First(t)
    BY <1>0, Chosen
  <1>2. IsFiniteSet(nonTestPods)
    BY <1>0, CollectedAreFinite
  <1>3. /\ pc = "collect" /\ pc' = "evict" /\ listing = {}
        /\ UNCHANGED <<node, pod, strainInfo, listing, nonTestPods, CurrentClusterStrain,
                       OptimizedPods, since, odd>>
    BY DEF SelectPodsToEvict, gateHistory
  <1>4. podsToEvict' \in Seq(nonTestPods)
    BY <1>1, <1>2, SelectionType
  <1>5. TypeOK'
    BY <1>0, <1>3, <1>4 DEF TypeOK
  <1>6. PendingEvictionIsDue'
    <2>1. ASSUME NEW k \in DOMAIN podsToEvict'
          PROVE  /\ k \in 1..Cardinality(nonTestPods) /\ podsToEvict'[k] = t[k]
                 /\ podsToEvict'[k] \in nonTestPods
      BY <1>1, <1>2, SelectionType, OrderType
    <2>2. \A a, b \in 1..Cardinality(nonTestPods) : t[a] = t[b] => a = b
      BY <1>2, OrderType
    <2>3. \A p \in nonTestPods : since[p] = HealCooldown
      BY <1>0, <1>3 DEF PendingEvictionIsDue
    <2>4. QED
      BY <1>3, <2>1, <2>2, <2>3 DEF PendingEvictionIsDue
  <1>7. RecentEvictionIsRecorded'
    BY <1>0, <1>3 DEF RecentEvictionIsRecorded
  <1>8. QED
    BY <1>5, <1>6, <1>7 DEF CooldownInv

\* An eviction or a deletion that succeeds.
LEMMA DisappearanceStep ==
  ASSUME CooldownInv, Evict \/ Delete
  PROVE  /\ CooldownInv'
         /\ Victim \in Pod /\ since[Victim] = HealCooldown
  <1>0. TypeOK /\ PendingEvictionIsDue /\ RecentEvictionIsRecorded
    BY DEF CooldownInv
  <1>1. /\ pc \in {"evict", "delete"} /\ podsToEvict # <<>> /\ pc' = "record"
        /\ Disappears(Victim)
        /\ UNCHANGED <<node, strainInfo, listing, nonTestPods, podsToEvict,
                       CurrentClusterStrain, OptimizedPods>>
    BY <1>0 DEF Evict, Delete, Goes, local, PendingEvictionIsDue
  <1>2. /\ Victim \in Pod /\ Victim \in nonTestPods
        /\ 1 \in DOMAIN podsToEvict /\ Victim = podsToEvict[1] /\ Victim' = Victim
    BY <1>0, <1>1, QueueHead DEF Victim
  <1>3. since[Victim] = HealCooldown
    BY <1>0, <1>1, <1>2 DEF PendingEvictionIsDue
  <1>4. /\ pod' = [pod EXCEPT ![Victim] = "absent"]
        /\ since' = [since EXCEPT ![Victim] = 0]
        /\ odd' = [odd EXCEPT ![Victim] = ~odd[Victim]]
    BY <1>1 DEF Disappears
  <1>5. TypeOK'
    <2>1. /\ pod' \in [Pod -> Symptom \cup {"fine", "absent"}]
          /\ since' \in [Pod -> 0..HealCooldown]
          /\ odd' \in [Pod -> BOOLEAN]
      BY <1>0, <1>2, <1>4, Ages DEF TypeOK
    <2>2. listing = {}
      BY <1>0, <1>1 DEF TypeOK
    <2>3. QED
      BY <1>0, <1>1, <2>1, <2>2 DEF TypeOK
  <1>6. PendingEvictionIsDue'
    <2>1. ASSUME NEW k \in DOMAIN podsToEvict, k # 1
          PROVE  since'[podsToEvict[k]] = HealCooldown
      <3>1. podsToEvict[k] # Victim /\ podsToEvict[k] \in Pod
        BY <1>0, <1>2, <2>1, QueueType DEF PendingEvictionIsDue
      <3>2. since[podsToEvict[k]] = HealCooldown
        BY <1>0, <1>1, <2>1 DEF PendingEvictionIsDue
      <3>3. QED
        BY <1>0, <1>4, <3>1, <3>2 DEF TypeOK
    <2>2. QED
      BY <1>0, <1>1, <2>1 DEF PendingEvictionIsDue
  <1>7. RecentEvictionIsRecorded'
    <2>1. ASSUME NEW p \in Pod, p # Victim
          PROVE  since'[p] = since[p]
      BY <1>0, <1>4, <2>1 DEF TypeOK
    <2>2. QED
      BY <1>0, <1>1, <1>2, <2>1 DEF RecentEvictionIsRecorded
  <1>8. QED
    BY <1>2, <1>3, <1>5, <1>6, <1>7 DEF CooldownInv

\* The calls that fail, and the entry.
LEMMA AfterCallStep ==
  ASSUME CooldownInv, EvictFails \/ DeleteFails \/ RecordOptimization
  PROVE  CooldownInv'
  <1>0. TypeOK /\ PendingEvictionIsDue /\ RecentEvictionIsRecorded
    BY DEF CooldownInv
  <1>1. CASE EvictFails
    <2>1. /\ pc = "evict" /\ pc' = "delete" /\ podsToEvict # <<>>
          /\ UNCHANGED <<node, pod, strainInfo, listing, nonTestPods, podsToEvict,
                         CurrentClusterStrain, OptimizedPods, since, odd>>
      BY <1>1 DEF EvictFails, Goes, local, gateHistory
    <2>2. TypeOK'
      BY <1>0, <2>1 DEF TypeOK
    <2>3. PendingEvictionIsDue'
      BY <1>0, <2>1 DEF PendingEvictionIsDue
    <2>4. RecentEvictionIsRecorded'
      BY <1>0, <2>1 DEF RecentEvictionIsRecorded
    <2>5. QED
      BY <2>2, <2>3, <2>4 DEF CooldownInv
  <1>2. CASE DeleteFails \/ RecordOptimization
    <2>1. /\ pc \in {"delete", "record"} /\ pc' = "evict"
          /\ podsToEvict' = Tail(podsToEvict)
          /\ UNCHANGED <<node, pod, strainInfo, listing, nonTestPods, CurrentClusterStrain,
                         since, odd>>
          /\ \/ pc = "delete" /\ OptimizedPods' = OptimizedPods
             \/ pc = "record" /\ OptimizedPods' = [OptimizedPods EXCEPT ![Victim] = 0]
      BY <1>2 DEF DeleteFails, RecordOptimization, gateHistory
    <2>2. /\ Victim \in Pod
          /\ 1 \in DOMAIN podsToEvict /\ Victim = podsToEvict[1]
          /\ Tail(podsToEvict) \in Seq(nonTestPods)
          /\ \A k \in DOMAIN Tail(podsToEvict) :
               /\ k \in Nat \ {0} /\ k + 1 \in DOMAIN podsToEvict
               /\ Tail(podsToEvict)[k] = podsToEvict[k + 1]
      BY <1>0, <2>1, QueueHead DEF PendingEvictionIsDue
    <2>3. TypeOK'
      <3>1. OptimizedPods' \in [Pod -> 0..OldAge \cup {None}]
        BY <1>0, <2>1, <2>2, Ages DEF TypeOK
      <3>2. listing = {}
        BY <1>0, <2>1 DEF TypeOK
      <3>3. QED
        BY <1>0, <2>1, <2>2, <3>1, <3>2 DEF TypeOK
    <2>4. PendingEvictionIsDue'
      <3>1. ASSUME NEW k \in DOMAIN Tail(podsToEvict)
            PROVE  since[Tail(podsToEvict)[k]] = HealCooldown
        BY <1>0, <2>2, <3>1 DEF PendingEvictionIsDue
      <3>2. ASSUME NEW k \in DOMAIN Tail(podsToEvict), NEW j \in DOMAIN Tail(podsToEvict),
                   Tail(podsToEvict)[j] = Tail(podsToEvict)[k]
            PROVE  j = k
        <4>1. j + 1 = k + 1
          BY <1>0, <2>2, <3>2 DEF PendingEvictionIsDue
        <4>2. QED
          BY <2>2, <4>1
      <3>3. QED
        BY <2>1, <3>1, <3>2 DEF PendingEvictionIsDue
    <2>5. RecentEvictionIsRecorded'
      <3>1. ASSUME NEW p \in Pod, since[p] < HealCooldown
            PROVE  OptimizedPods'[p] # None /\ OptimizedPods'[p] <= since[p]
        <4>1. CASE pc = "record" /\ p = Victim
          <5>1. OptimizedPods'[p] = 0 /\ since[p] \in Nat
            BY <1>0, <2>1, <3>1, <4>1 DEF TypeOK
          <5>2. QED
            BY <5>1, Ages
        <4>2. CASE ~(pc = "record" /\ p = Victim)
          <5>1. OptimizedPods[p] # None /\ OptimizedPods[p] <= since[p]
            BY <1>0, <3>1, <4>2 DEF RecentEvictionIsRecorded
          <5>2. OptimizedPods'[p] = OptimizedPods[p]
            BY <1>0, <2>1, <2>2, <4>2 DEF TypeOK
          <5>3. QED
            BY <5>1, <5>2
        <4>3. QED
          BY <4>1, <4>2
      <3>2. QED
        BY <2>1, <3>1 DEF RecentEvictionIsRecorded
    <2>6. QED
      BY <2>3, <2>4, <2>5 DEF CooldownInv
  <1>3. QED
    BY <1>1, <1>2

\* The cleaner and the memory guard.
LEMMA SharedMapStep ==
  ASSUME CooldownInv, CleanOptimizedPods \/ SanitizeReferences
  PROVE  CooldownInv'
  <1>0. TypeOK /\ PendingEvictionIsDue /\ RecentEvictionIsRecorded
    BY DEF CooldownInv
  <1>1. CASE CleanOptimizedPods
    <2>1. UNCHANGED <<node, pod, pc, strainInfo, listing, nonTestPods, podsToEvict,
                      CurrentClusterStrain, since, odd>>
      BY <1>1 DEF CleanOptimizedPods, local, gateHistory
    <2>2. OptimizedPods' = [p \in Pod |-> IF Forgotten(p) THEN None ELSE OptimizedPods[p]]
      BY <1>1 DEF CleanOptimizedPods
    <2>3. TypeOK'
      BY <1>0, <2>1, <2>2 DEF TypeOK
    <2>4. PendingEvictionIsDue'
      BY <1>0, <2>1 DEF PendingEvictionIsDue
    <2>5. RecentEvictionIsRecorded'
      <3>1. ASSUME NEW p \in Pod, since[p] < HealCooldown,
                   OptimizedPods[p] # None, OptimizedPods[p] <= since[p]
            PROVE  OptimizedPods'[p] = OptimizedPods[p]
        <4>1. OptimizedPods[p] \in Nat /\ since[p] \in Nat
          BY <1>0, <3>1 DEF TypeOK
        <4>2. ~(OptimizedPods[p] > 2 * HealCooldown)
          BY <3>1, <4>1, Ages
        <4>3. QED
          BY <2>2, <4>2 DEF Forgotten
      <3>2. QED
        BY <1>0, <2>1, <3>1 DEF RecentEvictionIsRecorded, Victim
    <2>6. QED
      BY <2>3, <2>4, <2>5 DEF CooldownInv
  <1>2. CASE SanitizeReferences
    <2>1. /\ UNCHANGED <<node, pod, pc, strainInfo, listing, nonTestPods, podsToEvict, odd>>
          /\ OptimizedPods' = [p \in Pod |-> None]
          /\ CurrentClusterStrain' = "nil"
          /\ since' = [p \in Pod |-> HealCooldown]
      BY <1>2 DEF SanitizeReferences, local
    <2>2. TypeOK'
      BY <1>0, <2>1, Ages DEF TypeOK
    <2>3. PendingEvictionIsDue'
      <3>1. \A p \in nonTestPods : since'[p] = HealCooldown
        BY <1>0, <2>1, OptimizationAssumption DEF TypeOK
      <3>2. \A k \in DOMAIN podsToEvict : since'[podsToEvict[k]] = HealCooldown
        BY <1>0, <2>1, QueueType
      <3>3. QED
        BY <1>0, <2>1, <3>1, <3>2 DEF PendingEvictionIsDue
    <2>4. RecentEvictionIsRecorded'
      BY <2>1, Ages DEF RecentEvictionIsRecorded
    <2>5. QED
      BY <2>2, <2>3, <2>4 DEF CooldownInv
  <1>3. QED
    BY <1>1, <1>2

\* Every step preserves the invariant.
LEMMA CooldownInvStep ==
  ASSUME CooldownInv, [Next]_vars
  PROVE  CooldownInv'
  <1>1. CASE Cluster
    BY <1>1, ClusterStep
  <1>2. CASE CheckAndOptimizeResources
    BY <1>2, CollectingStep, SelectionStep, DisappearanceStep, AfterCallStep
       DEF CheckAndOptimizeResources
  <1>3. CASE CleanOptimizedPods \/ SanitizeReferences
    BY <1>3, SharedMapStep
  <1>4. CASE UNCHANGED vars
    <2>1. UNCHANGED <<node, pod, pc, strainInfo, listing, nonTestPods, podsToEvict,
                      CurrentClusterStrain, OptimizedPods, since, odd>>
      BY <1>4 DEF vars
    <2>2. TypeOK /\ PendingEvictionIsDue /\ RecentEvictionIsRecorded
      BY DEF CooldownInv
    <2>3. TypeOK'
      BY <2>1, <2>2 DEF TypeOK
    <2>4. QED
      BY <2>1, <2>2, <2>3, OtherStepsKeepCooldownInv DEF CooldownInv
  <1>5. QED
    BY <1>1, <1>2, <1>3, <1>4 DEF Next

\* The pods that are still to be evicted are different ones past their cooldown,
\* and a recent eviction is recorded in OptimizedPods or about to be
\* (healer.go:1658), however the check, the cleaner and the memory guard interleave.
THEOREM CooldownInvariant == Spec => []CooldownInv
  BY CooldownInvInit, CooldownInvStep, PTL DEF Spec

\* The type invariant of the checks, the choice and the evictions.
THEOREM TypeCorrect == Spec => []TypeOK
  <1>1. CooldownInv => TypeOK
    BY DEF CooldownInv
  <1>2. QED
    BY <1>1, CooldownInvariant, PTL

-----------------------------------------------------------------------------
(* The cooldown *)

\* A step is an eviction that the gate admits, a tick, a loss of memory, or no
\* concern of the gate.
LEMMA StepOfGate ==
  ASSUME CooldownInv, [Next]_vars
  PROVE  [Gate!Next]_<<since, odd>>
  <1>1. HealCooldown = Flags.healCooldown
    BY CooldownSurvives DEF HealCooldown
  <1>2. CASE Tick
    BY <1>1, <1>2 DEF Tick, Gate!Next, Gate!Elapse, Gate!Older
  <1>3. CASE Evict \/ Delete
    <2>1. Victim \in Pod /\ since[Victim] = HealCooldown
      BY <1>3, DisappearanceStep
    <2>2. Disappears(Victim)
      BY <1>3 DEF Evict, Delete
    <2>3. Gate!Act(Victim)
      BY <1>1, <2>1, <2>2 DEF Disappears, Gate!Act
    <2>4. QED
      BY <2>1, <2>3 DEF Gate!Next
  <1>4. CASE SanitizeReferences
    BY <1>1, <1>4 DEF SanitizeReferences, Gate!Next, Gate!Forget
  <1>5. CASE \/ \E n \in Node, state \in {"ok", "pressed", "absent"} : NodeChanges(n, state)
             \/ \E p \in Pod, state \in Symptom \cup {"fine", "absent"} : PodChanges(p, state)
             \/ CleanOptimizedPods
    BY <1>5 DEF NodeChanges, PodChanges, CleanOptimizedPods, gateHistory
  <1>6. CASE \/ CheckStrain \/ ListNamespaces \/ ListNamespacesFails
             \/ \E n \in Ns : Collect(n) \/ CollectFails(n)
             \/ SelectPodsToEvict \/ AllEvicted
             \/ EvictFails \/ DeleteFails \/ RecordOptimization
    BY <1>6 DEF CheckStrain, ListNamespaces, ListNamespacesFails, Collect, CollectFails,
                SelectPodsToEvict, AllEvicted, EvictFails, DeleteFails, RecordOptimization,
                gateHistory
  <1>7. CASE UNCHANGED vars
    BY <1>7 DEF vars
  <1>8. QED
    BY <1>2, <1>3, <1>4, <1>5, <1>6, <1>7 DEF Next, Cluster, CheckAndOptimizeResources

\* Two evictions of a pod are a cooldown of the given flags apart, in the process
\* that was started and in the child of start alike (healer.go:1513, 1658): the
\* checks implement CooldownGate for each pod.
THEOREM CooldownIsRespected == Spec => CooldownRespected
  <1>1. Init => Gate!Init
    BY CooldownSurvives DEF Init, Gate!Init, HealCooldown
  <1>2. CooldownInv /\ [Next]_vars => [Gate!Next]_<<since, odd>>
    BY StepOfGate
  <1>3. QED
    BY <1>1, <1>2, CooldownInvariant, PTL DEF Spec, CooldownRespected, Gate!Spec

-----------------------------------------------------------------------------
(* Under strain only *)

\* What HasStrain finds (checks.go:549) is what the given threshold means.
LEMMA StrainedNodes ==
  ASSUME WholeTenths, TypeOK, HasStrain(Strain)
  PROVE  /\ Strain.strained * 10000 >= Flags.strainThreshold * Strain.total
         /\ Flags.strainThreshold > 0 => Strain.strained > 0
  <1> DEFINE x == Flags.strainThreshold
             a == Strain.strained
             b == Strain.total
  <1>1. x \in Nat /\ Effective.strainThreshold = x
    BY OptimizationAssumption, ThresholdSurvives
  <1>2. a \in Nat /\ b \in Nat
    BY StrainType, OptimizationAssumption, FS_CardinalityType
  <1>3. IF b = 0 THEN x = 0 ELSE a * 10000 >= x * b
    BY <1>1 DEF HasStrain
  <1> HIDE DEF x, a, b
  <1>4. x > 0 /\ b > 0 => x * b > 0
    BY <1>1, <1>2
  <1>5. a * 10000 >= x * b
    BY <1>1, <1>2, <1>3
  <1>6. x > 0 => a > 0
    BY <1>1, <1>2, <1>3, <1>4
  <1>7. QED
    BY <1>5, <1>6 DEF x, a, b

\* Every step preserves that evictions go on only in a check that found strain.
LEMMA UnderStrainStep ==
  ASSUME WholeTenths, TypeOK, OnlyUnderStrain, [Next]_vars
  PROVE  OnlyUnderStrain'
  <1>1. CASE CheckStrain
    <2>1. CASE HasStrain(Strain)
      BY <1>1, <2>1, StrainedNodes DEF CheckStrain, OnlyUnderStrain
    <2>2. CASE ~HasStrain(Strain)
      BY <1>1, <2>2 DEF CheckStrain, Return, OnlyUnderStrain
    <2>3. QED
      BY <2>1, <2>2
  <1>2. CASE ListNamespacesFails \/ AllEvicted
    BY <1>2 DEF ListNamespacesFails, AllEvicted, Return, OnlyUnderStrain
  <1>3. CASE \/ ListNamespaces \/ SelectPodsToEvict
             \/ \E n \in Ns : Collect(n) \/ CollectFails(n)
             \/ Evict \/ EvictFails \/ Delete \/ DeleteFails \/ RecordOptimization
    <2>1. pc # "idle" /\ strainInfo' = strainInfo
      BY <1>3 DEF ListNamespaces, SelectPodsToEvict, Collect, CollectFails, Evict, EvictFails,
                  Delete, DeleteFails, RecordOptimization, Goes, local, TypeOK
    <2>2. QED
      BY <2>1 DEF OnlyUnderStrain
  <1>4. CASE Cluster \/ CleanOptimizedPods \/ SanitizeReferences \/ UNCHANGED vars
    <2>1. pc' = pc /\ strainInfo' = strainInfo
      BY <1>4 DEF Cluster, Tick, NodeChanges, PodChanges, CleanOptimizedPods,
                  SanitizeReferences, local, vars
    <2>2. QED
      BY <2>1 DEF OnlyUnderStrain
  <1>5. QED
    BY <1>1, <1>2, <1>3, <1>4 DEF Next, CheckAndOptimizeResources

\* Evictions happen only in a check that has counted as many strained nodes as the
\* given threshold asks for (healer.go:1463), when the threshold has whole tenths:
\* the child gets it printed with one digit (main.go:444).
THEOREM NoEvictionWithoutStrain ==
  ASSUME WholeTenths
  PROVE  Spec => []OnlyUnderStrain
  <1>1. Init => OnlyUnderStrain
    BY DEF Init, OnlyUnderStrain
  <1>2. TypeOK /\ OnlyUnderStrain /\ [Next]_vars => OnlyUnderStrain'
    BY UnderStrainStep
  <1>3. QED
    BY <1>1, <1>2, TypeCorrect, PTL DEF Spec

-----------------------------------------------------------------------------
(* Which pods go *)

\* What has been collected may go, by the flags of the process.
CollectedMayGo ==
  \A p \in nonTestPods :
    p \in Owned /\ ~IsTestNamespace(NsOf[p]) /\ GetPodPriority(p) < 90

\* No step collects another kind of pod.
LEMMA MayGoStep ==
  ASSUME CollectedMayGo, [Next]_vars
  PROVE  CollectedMayGo'
  <1>1. CASE \E n \in Ns : Collect(n)
    <2>1. PICK n \in Ns : nonTestPods' = nonTestPods \cup Candidates(n)
      BY <1>1 DEF Collect
    <2>2. ASSUME NEW p \in Candidates(n)
          PROVE  p \in Owned /\ ~IsTestNamespace(NsOf[p]) /\ GetPodPriority(p) < 90
      <3>1. p \in Owned /\ NsOf[p] = n /\ ~IsTestNamespace(n) /\ ShouldEvict(p)
        BY DEF Candidates
      <3>2. GetPodPriority(p) < 90
        BY <3>1, PriorityType DEF ShouldEvict, ShouldEvictForResources
      <3>3. QED
        BY <3>1, <3>2
    <2>3. QED
      BY <2>1, <2>2 DEF CollectedMayGo
  <1>2. CASE CheckStrain \/ ListNamespacesFails \/ AllEvicted
    BY <1>2 DEF CheckStrain, ListNamespacesFails, AllEvicted, Return, CollectedMayGo
  <1>3. CASE \/ Cluster \/ CleanOptimizedPods \/ SanitizeReferences \/ UNCHANGED vars
             \/ ListNamespaces \/ SelectPodsToEvict \/ (\E n \in Ns : CollectFails(n))
             \/ Evict \/ EvictFails \/ Delete \/ DeleteFails \/ RecordOptimization
    <2>1. nonTestPods' = nonTestPods
      BY <1>3 DEF Cluster, Tick, NodeChanges, PodChanges, CleanOptimizedPods, SanitizeReferences,
                  ListNamespaces, SelectPodsToEvict, CollectFails, Evict, EvictFails, Delete,
                  DeleteFails, RecordOptimization, Goes, local, vars
    <2>2. QED
      BY <2>1 DEF CollectedMayGo
  <1>4. QED
    BY <1>1, <1>2, <1>3 DEF Next, CheckAndOptimizeResources

\* Pods without an owner, of critical priority or in test namespaces are never
\* evicted (healer.go:1507-1556), when polling and pattern were left at their
\* defaults: the child of start is not told of them.
THEOREM ProtectedPodsStay ==
  ASSUME PatternKept
  PROVE  Spec => ProtectedSpared
  <1>1. Init => CollectedMayGo
    BY DEF Init, CollectedMayGo
  <1>2. CollectedMayGo /\ [Next]_vars => CollectedMayGo'
    BY MayGoStep
  <1>3. ASSUME CooldownInv, CollectedMayGo, NEW p \in Pod, Evicts(p), [Next]_vars
        PROVE  p \in Owned /\ ~TestPod(p) /\ GetPodPriority(p) < 90
    <2>1. CASE podsToEvict # <<>>
      <3>1. p \in nonTestPods
        BY <1>3, <2>1, QueueHead DEF Evicts, CooldownInv
      <3>2. p \in Owned /\ ~IsTestNamespace(NsOf[p]) /\ GetPodPriority(p) < 90
        BY <1>3, <3>1 DEF CollectedMayGo
      <3>3. TestPod(p) => IsTestNamespace(NsOf[p])
        BY PatternSurvives DEF TestPod, IsTestNamespace
      <3>4. QED
        BY <3>2, <3>3
    <2>2. CASE podsToEvict = <<>>
      <3>1. pc = "evict" /\ pc' = "record"
        BY <1>3, <2>2 DEF Evicts, CooldownInv, PendingEvictionIsDue
      <3>2. FALSE
        BY <1>3, <2>2, <3>1 DEF Next, Cluster, Tick, NodeChanges, PodChanges,
           CheckAndOptimizeResources, CheckStrain, ListNamespaces, ListNamespacesFails,
           Collect, CollectFails, SelectPodsToEvict, AllEvicted, Evict, EvictFails, Delete,
           DeleteFails, RecordOptimization, CleanOptimizedPods, SanitizeReferences, Return,
           Goes, vars
      <3>3. QED
        BY <3>2
    <2>3. QED
      BY <2>1, <2>2
  <1>4. CooldownInv /\ CollectedMayGo /\ [Next]_vars
          => [\A p \in Pod : Evicts(p) =>
                p \in Owned /\ ~TestPod(p) /\ GetPodPriority(p) < 90]_vars
    BY <1>3
  <1>5. QED
    BY <1>1, <1>2, <1>4, CooldownInvariant, PTL DEF Spec, ProtectedSpared

-----------------------------------------------------------------------------
(* The least important first *)

\* An order of a set holds all of it.
LEMMA OrderCovers ==
  ASSUME NEW T, IsFiniteSet(T), NEW s \in SetToSeqs(T)
  PROVE  \A q \in T : \E k \in 1..Cardinality(T) : s[k] = q
  <1> DEFINE n == Cardinality(T)
  <1>1. /\ n \in Nat /\ s \in [1..n -> T]
        /\ \A a, b \in 1..n : a # b => s[a] # s[b]
    BY OrderType
  <1>2. s \in Injection(1..n, T)
    BY <1>1 DEF Injection, IsInjective
  <1>3. Cardinality(1..n) = n
    BY <1>1, FS_Interval
  <1>4. s \in Surjection(1..n, T)
    BY <1>2, <1>3, FS_Injection
  <1>5. QED
    BY <1>4 DEF Surjection

\* The first m of an order are m.
LEMMA CountFirst ==
  ASSUME NEW T, IsFiniteSet(T), NEW s \in SetToSeqs(T), NEW m \in 0..Cardinality(T)
  PROVE  Cardinality({s[k] : k \in 1..m}) = m
  <1> DEFINE S == {s[k] : k \in 1..m}
             f == [k \in 1..m |-> s[k]]
  <1>1. /\ Cardinality(T) \in Nat /\ s \in [1..Cardinality(T) -> T]
        /\ \A a, b \in 1..Cardinality(T) : a # b => s[a] # s[b]
    BY OrderType
  <1>2. m \in Nat /\ \A k \in 1..m : k \in 1..Cardinality(T)
    BY <1>1
  <1>3. f \in [1..m -> S] /\ \A a, b \in 1..m : f[a] = f[b] => a = b
    BY <1>1, <1>2
  <1>4. \A q \in S : \E k \in 1..m : f[k] = q
    OBVIOUS
  <1>5. f \in Bijection(1..m, S)
    <2> HIDE DEF f, S
    <2> QED
      BY <1>3, <1>4 DEF Bijection, Injection, Surjection, IsInjective
  <1>6. QED
    BY <1>2, <1>5, FS_CountingElements DEF ExistsBijection

\* A choice (healer.go:1597-1610) leaves no pod out that is less important than one it
\* takes, and takes as many as it may, for any number of pods and whatever order
\* they were collected in.
THEOREM LeastImportantGoFirst == Spec => LeastImportantFirst
  <1> DEFINE Choice ==
        LET chosen == {podsToEvict'[k] : k \in DOMAIN podsToEvict'} IN
        /\ \A p \in chosen, q \in nonTestPods \ chosen : GetPodPriority(p) <= GetPodPriority(q)
        /\ \A j, k \in DOMAIN podsToEvict' :
             j < k => GetPodPriority(podsToEvict'[j]) <= GetPodPriority(podsToEvict'[k])
        /\ Cardinality(chosen) \in {MaxEvictions, Cardinality(nonTestPods)}
  <1>1. ASSUME TypeOK, SelectPodsToEvict
        PROVE  Choice
    <2> DEFINE n == Cardinality(nonTestPods)
               m == Len(podsToEvict')
               chosen == {podsToEvict'[k] : k \in DOMAIN podsToEvict'}
    <2>1. PICK t \in SetToSeqs(nonTestPods) : InPlace(t, n) /\ podsToEvict' = First(t)
      BY <1>1, Chosen
    <2>2. IsFiniteSet(nonTestPods)
      BY <1>1, CollectedAreFinite
    <2>3. /\ n \in Nat /\ DOMAIN t = 1..n
          /\ m = IF n > MaxEvictions THEN MaxEvictions ELSE n
          /\ DOMAIN podsToEvict' = 1..m
          /\ \A k \in 1..m : podsToEvict'[k] = t[k]
      BY <2>1, <2>2, OrderType, SelectionType
    <2>4. m \in 0..n
      BY <2>3, OptimizationAssumption
    <2> HIDE DEF m, n
    <2>5. \A a, b \in 1..n : a <= b => GetPodPriority(t[a]) <= GetPodPriority(t[b])
      BY <2>1, <2>3 DEF InPlace
    <2>6. chosen = {t[k] : k \in 1..m}
      BY <2>3
    <2>7. ASSUME NEW p \in chosen, NEW q \in nonTestPods \ chosen
          PROVE  GetPodPriority(p) <= GetPodPriority(q)
      <3>1. PICK a \in 1..m : p = t[a]
        BY <2>6, <2>7
      <3>2. PICK b \in 1..n : q = t[b]
        BY <2>2, <2>7, OrderCovers DEF n
      <3>3. b \notin 1..m
        BY <2>6, <2>7, <3>2
      <3>4. a \in 1..n /\ a <= b
        BY <2>3, <2>4, <3>1, <3>2, <3>3
      <3>5. QED
        BY <2>5, <3>1, <3>2, <3>4
    <2>8. ASSUME NEW j \in DOMAIN podsToEvict', NEW k \in DOMAIN podsToEvict', j < k
          PROVE  GetPodPriority(podsToEvict'[j]) <= GetPodPriority(podsToEvict'[k])
      <3>1. j \in 1..m /\ k \in 1..m
        BY <2>3
      <3>2. j \in 1..n /\ k \in 1..n /\ j <= k
        BY <2>3, <2>4, <2>8, <3>1
      <3>3. QED
        BY <2>3, <2>5, <3>1, <3>2
    <2>9. Cardinality(chosen) \in {MaxEvictions, n}
      <3>1. Cardinality({t[k] : k \in 1..m}) = m
        BY <2>2, <2>4, CountFirst DEF n
      <3>2. QED
        BY <2>3, <2>6, <3>1
    <2>10. QED
      BY <2>7, <2>8, <2>9 DEF n
  <1> HIDE DEF Choice
  <1>2. ASSUME [Next]_vars, pc = "collect", pc' = "evict"
        PROVE  SelectPodsToEvict
    BY <1>2 DEF Next, Cluster, Tick, NodeChanges, PodChanges, CheckAndOptimizeResources,
       CheckStrain, ListNamespaces, ListNamespacesFails, Collect, CollectFails, AllEvicted, Evict,
       EvictFails, Delete, DeleteFails, RecordOptimization, CleanOptimizedPods,
       SanitizeReferences, Return, Goes, local, vars
  <1>3. TypeOK /\ [Next]_vars => [pc = "collect" /\ pc' = "evict" => Choice]_vars
    BY <1>1, <1>2
  <1>4. QED
    BY <1>3, TypeCorrect, PTL DEF Spec, LeastImportantFirst, Choice
=============================================================================
