------------------------- MODULE NodeHealingProofs -------------------------
(***************************************************************************)
(* Type correctness of NodeHealing, and the heal cooldown for any number   *)
(* of nodes and pods: a drain of any length lies between the look-up and   *)
(* the recording.                                                          *)
(***************************************************************************)
EXTENDS NodeHealing, TLAPS, SequenceTheorems

\* The types of what the actions compute.
LEMMA TroubleTypes ==
  /\ Well \in Trouble
  /\ \A t \in Trouble : Older(t) \in Trouble
  BY NodeAssumption DEF Well, Trouble, Older, Condition

LEMMA NodeType ==
  ASSUME TypeOK, NEW n \in Node
  PROVE  node[n] \in [exists : BOOLEAN, trouble : Trouble] /\ node[n].trouble \in Trouble
  BY DEF TypeOK

\* Events that were overtaken are events.
LEMMA OvertakeType ==
  ASSUME NEW n \in Node, NEW q \in Seq(Event)
  PROVE  Overtake(n, q) \in Seq(Event)
  <1>1. DOMAIN q = 1..Len(q) /\ Len(q) \in Nat
    BY LenProperties
  <1>2. ASSUME NEW k \in 1..Len(q)
        PROVE  Overtake(n, q)[k] \in Event
    <2>1. q[k] \in Event
      BY <1>2, ElementOfSeq
    <2>2. QED
      BY <1>1, <2>1 DEF Overtake, Event
  <1>3. Overtake(n, q) = [k \in 1..Len(q) |-> Overtake(n, q)[k]]
    BY <1>1 DEF Overtake
  <1>4. Overtake(n, q) \in [1..Len(q) -> Event]
    BY <1>2, <1>3
  <1>5. QED
    BY <1>1, <1>4, SeqDef

\* So is a handler that was, and it is where it was before.
LEMMA OvertakeHandlerType ==
  ASSUME TypeOK, NEW n \in Node
  PROVE  /\ OvertakeHandler(n) \in Handler
         /\ OvertakeHandler(n).pc = handler.pc
         /\ OvertakeHandler(n).node = handler.node
  BY DEF TypeOK, OvertakeHandler, Handler

\* Turns keeps the types whatever the new troubles are.
LEMMA TurnsType ==
  ASSUME TypeOK, NEW n \in Node, NEW t \in Trouble, Turns(n, t)
  PROVE  TypeOK'
  <1> DEFINE e == [node |-> n, trouble |-> t, outdated |-> FALSE]
  <1>1. e \in Event
    BY DEF Event
  <1>2. node' \in [Node -> [exists : BOOLEAN, trouble : Trouble]]
    BY NodeType DEF Turns, TypeOK
  <1>3. queue' = Append(queue, e) \/ queue' = Append(Overtake(n, queue), e)
    BY DEF Turns
  <1>4. queue' \in Seq(Event)
    <2>1. queue \in Seq(Event) /\ Overtake(n, queue) \in Seq(Event)
      BY OvertakeType DEF TypeOK
    <2> HIDE DEF e
    <2>2. Append(queue, e) \in Seq(Event) /\ Append(Overtake(n, queue), e) \in Seq(Event)
      BY <1>1, <2>1, AppendProperties
    <2>3. QED
      BY <1>3, <2>2
  <1>5. handler' = handler \/ handler' = OvertakeHandler(n)
    BY DEF Turns
  <1>6. handler' \in Handler /\ handler'.pc = handler.pc /\ handler'.node = handler.node
    BY <1>5, OvertakeHandlerType DEF TypeOK
  <1>7. QED
    BY <1>2, <1>4, <1>6 DEF TypeOK, Turns, pods, drain, gateHistory

\* What Vanishes leaves is of the right type.
LEMMA VanishesType ==
  ASSUME TypeOK, NEW n \in Node, Vanishes(n)
  PROVE  /\ node' \in [Node -> [exists : BOOLEAN, trouble : Trouble]]
         /\ home' \in [Pod -> Node \cup {None}]
         /\ leaving' \subseteq {p \in Pod : home'[p] # None}
         /\ queue' \in Seq(Event)
  <1>1. node' \in [Node -> [exists : BOOLEAN, trouble : Trouble]]
    BY TroubleTypes DEF Vanishes, TypeOK
  <1>2. queue' \in Seq(Event)
    BY OvertakeType DEF Vanishes, TypeOK
  <1>3. leaving' \subseteq {p \in Pod : home'[p] # None}
    BY DEF Vanishes, TypeOK
  <1>4. QED
    BY <1>1, <1>2, <1>3 DEF Vanishes, TypeOK

\* What a call does to the history.
LEMMA CallType ==
  ASSUME TypeOK, NEW n \in Node, Called(n)
  PROVE  since' \in [Node -> 0..HealCooldown] /\ odd' \in [Node -> BOOLEAN]
  BY NodeAssumption DEF TypeOK, Called

\* A handler that is not idle is busy with a node.
LEMMA BusyHandler == TypeOK /\ handler.pc # "idle" => handler.node \in Node
  BY DEF TypeOK, Handler

-----------------------------------------------------------------------------

\* The steps of the cluster keep the types.
LEMMA ClusterType ==
  ASSUME TypeOK, Cluster
  PROVE  TypeOK'
  <1>1. CASE Tick
    <2>1. node' \in [Node -> [exists : BOOLEAN, trouble : Trouble]]
      <3>1. ASSUME NEW n \in Node
            PROVE  [node[n] EXCEPT !.trouble = Older(@)] \in [exists : BOOLEAN, trouble : Trouble]
        BY NodeType, TroubleTypes
      <3>2. QED
        BY <1>1, <3>1 DEF Tick
    <2>2. queue' \in Seq(Event)
      <3>1. DOMAIN queue = 1..Len(queue) /\ Len(queue) \in Nat
        BY LenProperties DEF TypeOK
      <3>2. ASSUME NEW k \in 1..Len(queue)
            PROVE  [queue[k] EXCEPT !.trouble = Older(@)] \in Event
        <4>1. queue[k] \in Event
          BY <3>2, ElementOfSeq DEF TypeOK
        <4>2. QED
          BY <4>1, TroubleTypes DEF Event
      <3>3. queue' \in [1..Len(queue) -> Event]
        BY <1>1, <3>1, <3>2 DEF Tick
      <3>4. QED
        BY <3>1, <3>3, SeqDef
    <2>3. HealedNodes' \in [Node -> 0..OldAge \cup {None}]
      BY <1>1, NodeAssumption DEF Tick, TypeOK, OldAge
    <2>4. since' \in [Node -> 0..HealCooldown]
      BY <1>1, NodeAssumption DEF Tick, TypeOK
    <2>5. QED
      BY <1>1, <2>1, <2>2, <2>3, <2>4 DEF Tick, TypeOK, pods, drain
  <1>2. ASSUME NEW n \in Node, NEW c \in Condition, GetsWorse(n, c)
        PROVE  TypeOK'
    <2> DEFINE t == [d \in Condition |->
                       IF d = c THEN 0
                       ELSE IF {c, d} = {"NotReady", "Unknown"} THEN None ELSE node[n].trouble[d]]
    <2>1. t \in Trouble
      <3>1. ASSUME NEW d \in Condition PROVE node[n].trouble[d] \in Nat \cup {None}
        BY <3>1, NodeType DEF Trouble
      <3>2. QED
        BY <3>1 DEF Trouble
    <2>2. Turns(n, t)
      BY <1>2 DEF GetsWorse
    <2> HIDE DEF t
    <2>3. QED
      BY <2>1, <2>2, TurnsType
  <1>3. ASSUME NEW n \in Node, NEW c \in Condition, Recovers(n, c)
        PROVE  TypeOK'
    <2>1. [node[n].trouble EXCEPT ![c] = None] \in Trouble
      BY NodeType DEF Trouble
    <2>2. QED
      BY <1>3, <2>1, TurnsType DEF Recovers
  <1>4. ASSUME NEW n \in Node, Joins(n)
        PROVE  TypeOK'
    <2>1. node' \in [Node -> [exists : BOOLEAN, trouble : Trouble]]
      BY <1>4, TroubleTypes DEF Joins, TypeOK
    <2>2. QED
      BY <1>4, <2>1 DEF Joins, TypeOK, pods, drain, gateHistory
  <1>5. ASSUME NEW n \in Node, DeletedByOthers(n)
        PROVE  TypeOK'
    <2>1. Vanishes(n) /\ handler' = OvertakeHandler(n)
      BY <1>5 DEF DeletedByOthers
    <2>2. QED
      BY <1>5, <2>1, VanishesType, OvertakeHandlerType
      DEF DeletedByOthers, TypeOK, pods, drain, gateHistory
  <1>6. ASSUME NEW n \in Node, NEW p \in Pod, Schedule(p, n)
        PROVE  TypeOK'
    <2>1. \A r \in Pod : home'[r] = IF r = p THEN n ELSE home[r]
      BY <1>6 DEF Schedule, TypeOK
    <2>2. home' \in [Pod -> Node \cup {None}] /\ kept' \in SUBSET Pod
      BY <1>6 DEF Schedule, TypeOK
    <2>3. leaving' \subseteq {r \in Pod : home'[r] # None}
      BY <1>6, <2>1, NodeAssumption DEF Schedule, TypeOK
    <2>4. QED
      BY <1>6, <2>2, <2>3 DEF Schedule, TypeOK, pods, gateHistory
  <1>7. ASSUME NEW p \in Pod, Stops(p)
        PROVE  TypeOK'
    <2>1. \A r \in Pod : home'[r] = IF r = p THEN None ELSE home[r]
      BY <1>7 DEF Stops, TypeOK
    <2>2. home' \in [Pod -> Node \cup {None}]
      BY <1>7 DEF Stops, TypeOK
    <2>3. leaving' \subseteq {r \in Pod : home'[r] # None}
      BY <1>7, <2>1 DEF Stops, TypeOK
    <2>4. QED
      BY <1>7, <2>2, <2>3 DEF Stops, TypeOK, pods, drain, gateHistory
  <1>8. QED
    BY <1>1, <1>2, <1>3, <1>4, <1>5, <1>6, <1>7 DEF Cluster

\* So do those of checkAndHealNode.
LEMMA HandlingType ==
  ASSUME TypeOK, Handling \/ DeadlineExceeded \/ \E p \in Pod : EvictionReturns(p)
  PROVE  TypeOK'
  <1>1. CASE CheckAndHealNode
    <2> DEFINE e == Head(queue)
    <2>1. e \in Event /\ queue' \in Seq(Event)
      BY <1>1, HeadTailProperties DEF CheckAndHealNode, TypeOK
    <2>2. handler' \in Handler /\ (handler'.pc = "idle" <=> handler'.node = None)
      <3>1. e.node \in Node /\ e.outdated \in BOOLEAN /\ e.node # None
        BY <2>1, NodeAssumption DEF Event
      <3>2. handler' = Idle
            \/ handler' = [pc |-> "list", node |-> e.node, expired |-> FALSE, outdated |-> e.outdated]
        BY <1>1 DEF CheckAndHealNode
      <3> HIDE DEF e
      <3>3. QED
        <4>1. CASE handler' = Idle
          BY <4>1 DEF Idle, Handler
        <4>2. CASE handler' = [pc |-> "list", node |-> e.node, expired |-> FALSE, outdated |-> e.outdated]
          <5>1. handler'.pc = "list" /\ handler'.node = e.node
            BY <4>2
          <5>2. handler' \in Handler
            BY <3>1, <4>2 DEF Handler
          <5>3. QED
            BY <3>1, <5>1, <5>2
        <4>3. QED
          BY <3>2, <4>1, <4>2
    <2>3. evicting = {}
      BY <1>1 DEF CheckAndHealNode, TypeOK
    <2>4. QED
      BY <1>1, <2>1, <2>2, <2>3 DEF CheckAndHealNode, TypeOK, pods, drain, gateHistory
  <1>2. CASE DeadlineExceeded
    BY <1>2 DEF DeadlineExceeded, TypeOK, Handler, pods, drain, gateHistory
  <1>3. CASE ListPods
    <2>1. evicting' \in SUBSET Evictable
      BY <1>3 DEF ListPods, Drainables
    <2>2. handler' \in Handler /\ handler'.pc = "evict" /\ handler'.node = handler.node
      BY <1>3 DEF ListPods, Goes, TypeOK, Handler
    <2>3. QED
      BY <1>3, <2>1, <2>2 DEF ListPods, TypeOK, pods, gateHistory
  <1>4. CASE ListPodsFails
    BY <1>4 DEF ListPodsFails, Goes, TypeOK, Handler, pods, gateHistory
  <1>5. ASSUME NEW p \in Pod, EvictionReturns(p)
        PROVE  TypeOK'
    BY <1>5 DEF EvictionReturns, Evict, EvictFails, TypeOK, pods, gateHistory
  <1>6. CASE Drained
    BY <1>6 DEF Drained, Goes, TypeOK, Handler, pods, drain, gateHistory
  <1>7. CASE DeleteNode
    <2>1. Vanishes(handler.node) /\ Called(handler.node) /\ handler.node \in Node
      BY <1>7, BusyHandler DEF DeleteNode
    <2>2. handler' \in Handler /\ handler'.pc = "record" /\ handler'.node = handler.node
      BY <1>7 DEF DeleteNode, Goes, TypeOK, Handler
    <2>3. QED
      BY <1>7, <2>1, <2>2, VanishesType, CallType DEF DeleteNode, TypeOK, pods, drain
  <1>8. CASE DeleteNodeFails
    <2>1. Called(handler.node) /\ handler.node \in Node
      BY <1>8, BusyHandler DEF DeleteNodeFails
    <2>2. handler' \in Handler /\ handler'.pc = "record" /\ handler'.node = handler.node
      BY <1>8 DEF DeleteNodeFails, Goes, TypeOK, Handler
    <2>3. QED
      BY <1>8, <2>1, <2>2, CallType DEF DeleteNodeFails, TypeOK, pods, drain
  <1>9. CASE RecordHeal
    <2>1. handler.node \in Node /\ evicting = {}
      BY <1>9, BusyHandler DEF RecordHeal, TypeOK
    <2>2. HealedNodes' \in [Node -> 0..OldAge \cup {None}]
      BY <1>9, <2>1, NodeAssumption DEF RecordHeal, TypeOK, OldAge
    <2>3. QED
      BY <1>9, <2>1, <2>2 DEF RecordHeal, Idle, TypeOK, Handler, pods, drain, gateHistory
  <1>10. QED
    BY <1>1, <1>2, <1>3, <1>4, <1>5, <1>6, <1>7, <1>8, <1>9 DEF Handling

\* TypeOK holds of every behaviour: goroutines that evict exist only while
\* drainNode waits for them.
THEOREM TypeCorrect == Spec => []TypeOK
  <1>1. Init => TypeOK
    <2> SUFFICES ASSUME Init PROVE TypeOK
      OBVIOUS
    <2>1. queue \in Seq(Event)
      BY EmptySeq DEF Init
    <2>2. handler \in Handler /\ (handler.pc = "idle" <=> handler.node = None)
      BY DEF Init, Idle, Handler
    <2>3. /\ node \in [Node -> [exists : BOOLEAN, trouble : Trouble]]
          /\ home \in [Pod -> Node \cup {None}]
      BY TroubleTypes DEF Init
    <2>4. /\ HealedNodes \in [Node -> 0..OldAge \cup {None}]
          /\ since \in [Node -> 0..HealCooldown]
      BY NodeAssumption DEF Init
    <2>5. QED
      BY <2>1, <2>2, <2>3, <2>4 DEF Init, TypeOK
  <1>2. TypeOK /\ [Next]_vars => TypeOK'
    <2> SUFFICES ASSUME TypeOK, [Next]_vars PROVE TypeOK'
      OBVIOUS
    <2>1. ASSUME NEW n \in Node, Resync(n)
          PROVE  TypeOK'
      <3>1. [node |-> n, trouble |-> node[n].trouble, outdated |-> FALSE] \in Event
        BY NodeType DEF Event
      <3>2. queue' \in Seq(Event)
        BY <2>1, <3>1, AppendProperties DEF Resync, TypeOK
      <3>3. QED
        BY <2>1, <3>2 DEF Resync, TypeOK, pods, drain, gateHistory
    <2>2. CASE CleanHealedNodes
      BY <2>2 DEF CleanHealedNodes, TypeOK, pods, drain, gateHistory
    <2>3. CASE SanitizeReferences
      BY <2>3, NodeAssumption DEF SanitizeReferences, Forget, TypeOK, pods, drain
    <2>4. CASE Restart
      <3>1. queue' \in Seq(Event)
        BY <2>4, EmptySeq DEF Restart
      <3>2. QED
        BY <2>4, <3>1, NodeAssumption DEF Restart, Forget, Idle, TypeOK, Handler, pods
    <2>5. CASE UNCHANGED vars
      BY <2>5 DEF vars, pods, TypeOK
    <2>6. QED
      BY <2>1, <2>2, <2>3, <2>4, <2>5, ClusterType, HandlingType DEF Next
  <1>3. QED
    BY <1>1, <1>2, PTL DEF Spec

-----------------------------------------------------------------------------

\* The initial state satisfies the strengthened invariant.
LEMMA CooldownInvInit == ASSUME Init PROVE PendingDeletionIsDue /\ RecentCallIsRecorded
  BY NodeAssumption DEF Init, Idle, PendingDeletionIsDue, RecentCallIsRecorded

\* Steps that neither call nor record, nor let time pass, keep it as long as
\* the handler stays with its node and does not leave "record".
LEMMA OtherStepsKeepCooldownInv ==
  ASSUME PendingDeletionIsDue, RecentCallIsRecorded, HealedNodes' = HealedNodes, since' = since,
         handler'.node = handler.node,
         handler'.pc = handler.pc
           \/ (handler.pc \in {"list", "evict"} /\ handler'.pc \in {"evict", "delete"})
  PROVE  PendingDeletionIsDue' /\ RecentCallIsRecorded'
  BY DEF PendingDeletionIsDue, RecentCallIsRecorded

\* One step preserves it.
LEMMA CooldownInvStep ==
  ASSUME CooldownInv, [Next]_vars
  PROVE  PendingDeletionIsDue' /\ RecentCallIsRecorded'
  <1>0. TypeOK /\ PendingDeletionIsDue /\ RecentCallIsRecorded
    BY DEF CooldownInv
  <1>1. CASE Tick
    <2>1. ASSUME NEW n \in Node
          PROVE  /\ since'[n] = IF since[n] < HealCooldown THEN since[n] + 1 ELSE since[n]
                 /\ since[n] \in 0..HealCooldown
                 /\ HealedNodes'[n] = IF HealedNodes[n] # None /\ HealedNodes[n] < OldAge
                                      THEN HealedNodes[n] + 1 ELSE HealedNodes[n]
                 /\ HealedNodes[n] \in 0..OldAge \cup {None}
      BY <1>0, <1>1 DEF Tick, TypeOK
    <2>2. handler' = handler
      BY <1>1 DEF Tick
    <2>3. PendingDeletionIsDue'
      <3> SUFFICES ASSUME handler.pc \in {"list", "evict", "delete"}
                   PROVE  since'[handler.node] = HealCooldown
        BY <2>2 DEF PendingDeletionIsDue
      <3>1. handler.node \in Node /\ since[handler.node] = HealCooldown
        BY <1>0, BusyHandler DEF PendingDeletionIsDue
      <3>2. QED
        BY <2>1, <3>1, NodeAssumption
    <2>4. RecentCallIsRecorded'
      <3> SUFFICES ASSUME NEW n \in Node, since'[n] < HealCooldown
                   PROVE  \/ HealedNodes'[n] # None /\ HealedNodes'[n] <= since'[n]
                          \/ handler.pc = "record" /\ handler.node = n
        BY <2>2 DEF RecentCallIsRecorded
      <3>1. since[n] < HealCooldown /\ since'[n] = since[n] + 1
        BY <2>1, NodeAssumption
      <3>2. CASE HealedNodes[n] # None /\ HealedNodes[n] <= since[n]
        <4>1. HealedNodes'[n] \in Nat /\ HealedNodes'[n] <= since[n] + 1
          BY <2>1, <3>1, <3>2, NodeAssumption DEF OldAge
        <4>2. QED
          BY <3>1, <4>1, NodeAssumption
      <3>3. QED
        BY <1>0, <3>1, <3>2 DEF RecentCallIsRecorded
    <2>5. QED
      BY <2>3, <2>4
  <1>2. ASSUME NEW n \in Node,
               Resync(n) \/ Joins(n) \/ DeletedByOthers(n)
                 \/ (\E c \in Condition : GetsWorse(n, c) \/ Recovers(n, c))
                 \/ (\E p \in Pod : Schedule(p, n))
        PROVE  PendingDeletionIsDue' /\ RecentCallIsRecorded'
    <2>1. HealedNodes' = HealedNodes /\ since' = since
      BY <1>2 DEF Resync, Joins, DeletedByOthers, GetsWorse, Recovers, Turns, Schedule, pods, gateHistory
    <2>2. handler' = handler \/ handler' = OvertakeHandler(n)
      BY <1>2 DEF Resync, Joins, DeletedByOthers, GetsWorse, Recovers, Turns, Schedule
    <2>3. handler'.node = handler.node /\ handler'.pc = handler.pc
      BY <1>0, <2>2, OvertakeHandlerType
    <2>4. QED
      BY <1>0, <2>1, <2>3, OtherStepsKeepCooldownInv
  <1>3. CASE CheckAndHealNode
    <2> DEFINE e == Head(queue)
    <2>1. e \in Event
      BY <1>0, <1>3, HeadTailProperties DEF CheckAndHealNode, TypeOK
    <2>2. e.node \in Node
      BY <2>1 DEF Event
    <2>3. HealedNodes' = HealedNodes /\ since' = since /\ handler.pc = "idle"
      BY <1>3 DEF CheckAndHealNode, pods, gateHistory
    <2>4. handler' = IF NeedsHealing(e)
                     THEN [pc |-> "list", node |-> e.node, expired |-> FALSE, outdated |-> e.outdated]
                     ELSE Idle
      BY <1>3 DEF CheckAndHealNode
    <2> HIDE DEF e
    <2>5. NeedsHealing(e) => since[e.node] = HealCooldown
      <3> SUFFICES ASSUME NeedsHealing(e), since[e.node] # HealCooldown PROVE FALSE
        OBVIOUS
      <3>1. since[e.node] \in 0..HealCooldown /\ since[e.node] < HealCooldown
        BY <1>0, <2>2, NodeAssumption DEF TypeOK
      <3>2. HealedNodes[e.node] # None /\ HealedNodes[e.node] <= since[e.node]
        BY <1>0, <2>2, <2>3, <3>1 DEF RecentCallIsRecorded
      <3>3. HealedNodes[e.node] \in Nat
        BY <1>0, <2>2, <3>2, NodeAssumption DEF TypeOK, OldAge
      <3>4. QED
        BY <3>1, <3>2, <3>3, NodeAssumption DEF NeedsHealing, RecentlyHealed
    <2>6. PendingDeletionIsDue'
      BY <2>3, <2>4, <2>5 DEF PendingDeletionIsDue, Idle
    <2>7. RecentCallIsRecorded'
      BY <1>0, <2>3 DEF RecentCallIsRecorded
    <2>8. QED
      BY <2>6, <2>7
  <1>4. CASE ListPods \/ ListPodsFails \/ Drained \/ DeadlineExceeded
    <2>1. HealedNodes' = HealedNodes /\ since' = since
      BY <1>4 DEF ListPods, ListPodsFails, Drained, DeadlineExceeded, pods, gateHistory
    <2>2. /\ handler'.node = handler.node
          /\ handler'.pc = handler.pc
               \/ (handler.pc \in {"list", "evict"} /\ handler'.pc \in {"evict", "delete"})
      <3>1. handler \in Handler
        BY <1>0 DEF TypeOK
      <3>2. CASE DeadlineExceeded
        BY <3>1, <3>2 DEF DeadlineExceeded, Handler
      <3>3. CASE ListPods \/ ListPodsFails \/ Drained
        BY <3>1, <3>3 DEF ListPods, ListPodsFails, Drained, Goes, Handler
      <3>4. QED
        BY <1>4, <3>2, <3>3
    <2>3. QED
      BY <1>0, <2>1, <2>2, OtherStepsKeepCooldownInv
  <1>5. ASSUME NEW p \in Pod, EvictionReturns(p)
        PROVE  PendingDeletionIsDue' /\ RecentCallIsRecorded'
    <2>1. HealedNodes' = HealedNodes /\ since' = since /\ handler' = handler
      BY <1>5 DEF EvictionReturns, Evict, EvictFails, pods, gateHistory
    <2>2. QED
      BY <1>0, <2>1, OtherStepsKeepCooldownInv
  <1>6. CASE DeleteNode \/ DeleteNodeFails
    <2>1. Called(handler.node) /\ HealedNodes' = HealedNodes /\ handler.pc = "delete"
      BY <1>6 DEF DeleteNode, DeleteNodeFails
    <2>2. handler'.pc = "record" /\ handler'.node = handler.node
      BY <1>0, <1>6 DEF DeleteNode, DeleteNodeFails, Goes, TypeOK, Handler
    <2>3. \A n \in Node : n # handler.node => since'[n] = since[n]
      BY <1>0, <2>1 DEF Called, TypeOK
    <2>4. RecentCallIsRecorded'
      BY <1>0, <2>1, <2>2, <2>3 DEF RecentCallIsRecorded
    <2>5. PendingDeletionIsDue'
      BY <2>2 DEF PendingDeletionIsDue
    <2>6. QED
      BY <2>4, <2>5
  <1>7. CASE RecordHeal
    <2>1. /\ handler' = Idle /\ since' = since /\ handler.node \in Node
          /\ HealedNodes' = [HealedNodes EXCEPT ![handler.node] = 0]
      BY <1>0, <1>7, BusyHandler DEF RecordHeal, pods, gateHistory
    <2>2. PendingDeletionIsDue'
      BY <2>1 DEF PendingDeletionIsDue, Idle
    <2>3. RecentCallIsRecorded'
      <3> SUFFICES ASSUME NEW n \in Node, since[n] < HealCooldown
                   PROVE  HealedNodes'[n] # None /\ HealedNodes'[n] <= since[n]
        BY <2>1 DEF RecentCallIsRecorded
      <3>1. since[n] \in 0..HealCooldown
        BY <1>0 DEF TypeOK
      <3>2. CASE n = handler.node
        BY <1>0, <2>1, <3>1, <3>2, NodeAssumption DEF TypeOK
      <3>3. CASE n # handler.node
        BY <1>0, <2>1, <3>3 DEF TypeOK, RecentCallIsRecorded
      <3>4. QED
        BY <3>2, <3>3
    <2>4. QED
      BY <2>2, <2>3
  <1>8. CASE CleanHealedNodes
    <2>1. handler' = handler /\ since' = since
      BY <1>8 DEF CleanHealedNodes, pods, gateHistory
    <2>2. ASSUME NEW n \in Node, since[n] < HealCooldown,
                 HealedNodes[n] # None, HealedNodes[n] <= since[n]
          PROVE  HealedNodes'[n] = HealedNodes[n]
      <3>1. HealedNodes[n] \in Nat /\ since[n] \in Nat
        BY <1>0, <2>2, NodeAssumption DEF TypeOK, OldAge
      <3>2. ~Forgotten(n)
        BY <2>2, <3>1, NodeAssumption DEF Forgotten
      <3>3. QED
        BY <1>8, <3>2 DEF CleanHealedNodes
    <2>3. QED
      BY <1>0, <2>1, <2>2 DEF PendingDeletionIsDue, RecentCallIsRecorded
  <1>9. CASE SanitizeReferences \/ Restart
    <2>1. \A n \in Node : since'[n] = HealCooldown
      BY <1>9 DEF SanitizeReferences, Restart, Forget
    <2>2. handler' = handler \/ handler' = Idle
      BY <1>9 DEF SanitizeReferences, Restart
    <2>3. handler'.pc \in {"list", "evict", "delete"} => handler'.node \in Node
      BY <1>0, <2>2, BusyHandler DEF Idle
    <2>4. QED
      BY <2>1, <2>3, NodeAssumption DEF PendingDeletionIsDue, RecentCallIsRecorded
  <1>10. CASE UNCHANGED vars \/ \E p \in Pod : Stops(p)
    BY <1>0, <1>10
    DEF vars, Stops, pods, gateHistory, PendingDeletionIsDue, RecentCallIsRecorded
  <1>11. QED
    BY <1>1, <1>2, <1>3, <1>4, <1>5, <1>6, <1>7, <1>8, <1>9, <1>10
    DEF Next, Cluster, Handling

\* CooldownInv holds for any number of nodes and pods: a drain under way is for
\* a node past its cooldown, and no recent deletion is forgotten.
THEOREM CooldownInvariant == Spec => []CooldownInv
  <1>1. Init /\ TypeOK => CooldownInv
    BY CooldownInvInit DEF CooldownInv
  <1>2. CooldownInv /\ TypeOK' /\ [Next]_vars => CooldownInv'
    BY CooldownInvStep DEF CooldownInv
  <1>3. QED
    BY <1>1, <1>2, TypeCorrect, PTL DEF Spec

-----------------------------------------------------------------------------

\* A step of NodeHealing is a step of the gate, or changes nothing it sees.
LEMMA StepOfGate ==
  ASSUME CooldownInv, [Next]_vars
  PROVE  [Gate!Next]_<<since, odd>>
  <1>0. TypeOK /\ PendingDeletionIsDue
    BY DEF CooldownInv
  <1>1. ASSUME Tick PROVE Gate!Elapse
    BY <1>1 DEF Tick, Gate!Elapse, Gate!Older
  <1>2. ASSUME NEW n \in Node,
               Resync(n) \/ Joins(n) \/ DeletedByOthers(n)
                 \/ (\E c \in Condition : GetsWorse(n, c) \/ Recovers(n, c))
                 \/ (\E p \in Pod : Schedule(p, n))
        PROVE  UNCHANGED <<since, odd>>
    BY <1>2 DEF Resync, Joins, DeletedByOthers, GetsWorse, Recovers, Turns, Schedule, pods, gateHistory
  <1>3. ASSUME CheckAndHealNode \/ ListPods \/ ListPodsFails \/ Drained \/ DeadlineExceeded
                 \/ RecordHeal \/ CleanHealedNodes \/ (\E p \in Pod : EvictionReturns(p))
        PROVE  UNCHANGED <<since, odd>>
    BY <1>3 DEF CheckAndHealNode, ListPods, ListPodsFails, Drained, DeadlineExceeded, RecordHeal,
                CleanHealedNodes, EvictionReturns, Evict, EvictFails, gateHistory
  <1>4. ASSUME DeleteNode \/ DeleteNodeFails
        PROVE  \E n \in Node : Gate!Act(n)
    <2>1. handler.pc = "delete" /\ Called(handler.node)
      BY <1>4 DEF DeleteNode, DeleteNodeFails
    <2>2. handler.node \in Node /\ since[handler.node] = HealCooldown
      BY <1>0, <2>1, BusyHandler DEF PendingDeletionIsDue
    <2>3. QED
      BY <2>1, <2>2 DEF Called, Gate!Act
  <1>5. ASSUME SanitizeReferences \/ Restart PROVE Gate!Forget
    BY <1>5 DEF SanitizeReferences, Restart, Forget, Gate!Forget
  <1>6. ASSUME UNCHANGED vars \/ \E p \in Pod : Stops(p)
        PROVE  UNCHANGED <<since, odd>>
    BY <1>6 DEF vars, Stops, gateHistory
  <1>7. QED
    BY <1>1, <1>2, <1>3, <1>4, <1>5, <1>6 DEF Next, Cluster, Handling, Gate!Next

\* The deletions of a node are at least HealCooldown apart: checkAndHealNode,
\* with a drain of any length before the call, implements the gate.
THEOREM CooldownIsRespected == Spec => CooldownRespected
  <1>1. Init => Gate!Init
    BY DEF Init, Gate!Init
  <1>2. CooldownInv /\ [Next]_vars => [Gate!Next]_<<since, odd>>
    BY StepOfGate
  <1>3. QED
    BY <1>1, <1>2, CooldownInvariant, PTL DEF Spec, CooldownRespected, Gate!Spec

-----------------------------------------------------------------------------

\* What an event knows of its node: the failure it reports lasts, or the node
\* was well since, or the troubles are still the ones it shows.
FailsIn(nodes, n) == nodes[n].exists /\ IsNodeUnhealthy(nodes[n].trouble)

StillRight(nodes, e) ==
  \/ e.outdated
  \/ FailsIn(nodes, e.node)
  \/ nodes[e.node].exists /\ nodes[e.node].trouble = e.trouble

KnowledgeHolds ==
  /\ handler.pc \in {"list", "evict", "delete"} => FailsIn(node, handler.node) \/ handler.outdated
  /\ \A k \in DOMAIN queue : StillRight(node, queue[k])

\* Where the evictable pods are while their node is drained.
DrainInv ==
  /\ handler.pc = "evict" =>
       \A p \in Evictable : home[p] = handler.node => p \in evicting \cup kept \cup leaving
  /\ handler.pc = "delete" =>
       \A p \in Evictable : home[p] = handler.node => p \in kept \cup leaving

\* Time cures no failure.
LEMMA OlderIsNoBetter ==
  ASSUME NEW t \in Trouble, IsNodeUnhealthy(t)
  PROVE  IsNodeUnhealthy(Older(t))
  <1>1. PICK c \in Condition : t[c] # None /\ t[c] > Threshold[c]
    BY DEF IsNodeUnhealthy
  <1>2. t[c] \in Nat /\ Threshold[c] \in Nat
    BY <1>1, NodeAssumption DEF Trouble
  <1>3. Older(t)[c] = t[c]
    BY <1>1, <1>2 DEF Older
  <1>4. QED
    BY <1>1, <1>3 DEF IsNodeUnhealthy

\* Overtaking marks every event of the node, and no other.
LEMMA OvertakeElements ==
  ASSUME NEW n \in Node, NEW q \in Seq(Event)
  PROVE  /\ DOMAIN Overtake(n, q) = DOMAIN q
         /\ \A k \in DOMAIN q : \/ q[k].node = n /\ Overtake(n, q)[k].outdated
                                \/ q[k].node # n /\ Overtake(n, q)[k] = q[k]
  <1>1. DOMAIN Overtake(n, q) = DOMAIN q
    BY DEF Overtake
  <1>2. ASSUME NEW k \in DOMAIN q
        PROVE  \/ q[k].node = n /\ Overtake(n, q)[k].outdated
               \/ q[k].node # n /\ Overtake(n, q)[k] = q[k]
    <2>1. q[k] \in Event
      BY <1>2, LenProperties, ElementOfSeq
    <2>2. Overtake(n, q)[k] = IF q[k].node = n THEN [q[k] EXCEPT !.outdated = TRUE] ELSE q[k]
      BY <1>2 DEF Overtake
    <2>3. QED
      BY <2>1, <2>2 DEF Event
  <1>3. QED
    BY <1>1, <1>2

\* The same of the handler.
LEMMA OvertakeHandlerMark ==
  ASSUME TypeOK, NEW n \in Node
  PROVE  /\ handler.node = n => OvertakeHandler(n).outdated
         /\ handler.node # n => OvertakeHandler(n) = handler
         /\ handler.outdated => OvertakeHandler(n).outdated
  BY DEF TypeOK, OvertakeHandler, Handler

\* The elements of a queue that got, or lost, an event.
LEMMA AppendedElements ==
  ASSUME NEW q \in Seq(Event), NEW e \in Event, NEW k \in DOMAIN Append(q, e)
  PROVE  Append(q, e)[k] = e \/ (k \in DOMAIN q /\ Append(q, e)[k] = q[k])
  <1>1. DOMAIN q = 1..Len(q) /\ Len(q) \in Nat
    BY LenProperties
  <1>2. Append(q, e) \in Seq(Event) /\ Len(Append(q, e)) = Len(q) + 1
    BY AppendProperties
  <1>3. k \in 1..(Len(q) + 1)
    BY <1>2, LenProperties
  <1>4. CASE k = Len(q) + 1
    BY <1>4, AppendProperties
  <1>5. CASE k # Len(q) + 1
    <2>1. k \in 1..Len(q)
      BY <1>1, <1>3, <1>5
    <2>2. QED
      BY <1>1, <2>1, AppendProperties
  <1>6. QED
    BY <1>4, <1>5

LEMMA TailElements ==
  ASSUME NEW q \in Seq(Event), q # <<>>, NEW k \in DOMAIN Tail(q)
  PROVE  k + 1 \in DOMAIN q /\ Tail(q)[k] = q[k + 1]
  <1>1. DOMAIN q = 1..Len(q) /\ Len(q) \in Nat
    BY LenProperties
  <1>2. Tail(q) \in Seq(Event) /\ Len(Tail(q)) = Len(q) - 1
    BY HeadTailProperties
  <1>3. k \in 1..Len(Tail(q))
    BY <1>2, LenProperties
  <1>4. Tail(q)[k] = q[k + 1]
    BY <1>3, HeadTailProperties
  <1>5. QED
    BY <1>1, <1>2, <1>3, <1>4

\* The events are right of their nodes after a step that changes no node.
LEMMA QuietNodes ==
  ASSUME KnowledgeHolds, node' = node,
         \A k \in DOMAIN queue' :
           \/ \E j \in DOMAIN queue : queue'[k] = queue[j]
           \/ node[queue'[k].node].exists /\ node[queue'[k].node].trouble = queue'[k].trouble
  PROVE  \A k \in DOMAIN queue' : StillRight(node', queue'[k])
  BY DEF KnowledgeHolds, StillRight, FailsIn

\* A step that changes node n only: where n still fails nothing is out of date,
\* and where it does not its events are marked.
LEMMA NodeChanges ==
  ASSUME TypeOK, KnowledgeHolds, NEW n \in Node,
         \A m \in Node : m # n => node'[m] = node[m],
         \A k \in DOMAIN queue' :
           \/ \E j \in DOMAIN queue : queue'[k] = queue[j] /\ (queue[j].node = n => FailsIn(node', n))
           \/ queue'[k].outdated
           \/ node'[queue'[k].node].exists /\ node'[queue'[k].node].trouble = queue'[k].trouble
  PROVE  \A k \in DOMAIN queue' : StillRight(node', queue'[k])
  <1> SUFFICES ASSUME NEW k \in DOMAIN queue' PROVE StillRight(node', queue'[k])
    OBVIOUS
  <1>1. ASSUME NEW j \in DOMAIN queue, queue'[k] = queue[j], queue[j].node = n => FailsIn(node', n)
        PROVE  StillRight(node', queue'[k])
    <2>1. queue[j].node \in Node
      <3>1. queue[j] \in Event
        BY LenProperties, ElementOfSeq DEF TypeOK
      <3>2. QED
        BY <3>1 DEF Event
    <2>2. StillRight(node, queue[j])
      BY DEF KnowledgeHolds
    <2>3. QED
      BY <1>1, <2>1, <2>2 DEF StillRight, FailsIn
  <1>2. QED
    BY <1>1 DEF StillRight

\* A change of node n that leaves it failing, or marks what is known of it.
LEMMA TurnsKeepsKnowledge ==
  ASSUME TypeOK, KnowledgeHolds, NEW n \in Node, NEW t \in Trouble, Turns(n, t)
  PROVE  KnowledgeHolds'
  <1> DEFINE e == [node |-> n, trouble |-> t, outdated |-> FALSE]
  <1>0. e \in Event /\ queue \in Seq(Event) /\ Overtake(n, queue) \in Seq(Event)
    BY OvertakeType DEF Event, TypeOK
  <1>1. /\ \A m \in Node : m # n => node'[m] = node[m]
        /\ node'[n].exists /\ node'[n].trouble = t
    BY NodeType DEF Turns, TypeOK
  <1>2. CASE IsNodeUnhealthy(t)
    <2>1. queue' = Append(queue, e) /\ handler' = handler
      BY <1>2 DEF Turns
    <2>2. FailsIn(node', n)
      BY <1>1, <1>2 DEF FailsIn
    <2>3. \A k \in DOMAIN queue' :
            \/ \E j \in DOMAIN queue : queue'[k] = queue[j]
            \/ queue'[k] = e
      <3> HIDE DEF e
      <3>1. QED
        BY <1>0, <2>1, AppendedElements
    <2>4. \A k \in DOMAIN queue' : StillRight(node', queue'[k])
      BY <1>1, <2>2, <2>3, NodeChanges
    <2>5. handler.pc \in {"list", "evict", "delete"} => FailsIn(node', handler.node) \/ handler.outdated
      BY <1>1, <2>2, BusyHandler DEF KnowledgeHolds, FailsIn
    <2>6. QED
      BY <2>1, <2>4, <2>5 DEF KnowledgeHolds
  <1>3. CASE ~IsNodeUnhealthy(t)
    <2>1. queue' = Append(Overtake(n, queue), e) /\ handler' = OvertakeHandler(n)
      BY <1>3 DEF Turns
    <2>2. \A k \in DOMAIN queue' :
            \/ \E j \in DOMAIN queue : queue'[k] = queue[j] /\ queue[j].node # n
            \/ queue'[k].outdated
            \/ queue'[k] = e
      <3> HIDE DEF e
      <3>1. ASSUME NEW k \in DOMAIN queue', queue'[k] # e
            PROVE  k \in DOMAIN Overtake(n, queue) /\ queue'[k] = Overtake(n, queue)[k]
        BY <1>0, <2>1, <3>1, AppendedElements
      <3>2. QED
        BY <1>0, <3>1, OvertakeElements
    <2>3. \A k \in DOMAIN queue' : StillRight(node', queue'[k])
      BY <1>1, <2>2, NodeChanges
    <2>4. handler.pc \in {"list", "evict", "delete"} => FailsIn(node', handler.node) \/ handler'.outdated
      BY <1>1, <2>1, BusyHandler, OvertakeHandlerMark DEF KnowledgeHolds, FailsIn
    <2>5. QED
      BY <2>1, <2>3, <2>4, OvertakeHandlerType DEF KnowledgeHolds
  <1>4. QED
    BY <1>2, <1>3

\* The same when node n disappears.
LEMMA VanishesKeepsEvents ==
  ASSUME TypeOK, KnowledgeHolds, NEW n \in Node, Vanishes(n)
  PROVE  \A k \in DOMAIN queue' : StillRight(node', queue'[k])
  <1>1. \A m \in Node : m # n => node'[m] = node[m]
    BY DEF Vanishes, TypeOK
  <1>2. \A k \in DOMAIN queue' :
          \/ \E j \in DOMAIN queue : queue'[k] = queue[j] /\ queue[j].node # n
          \/ queue'[k].outdated
    BY OvertakeElements DEF Vanishes, TypeOK
  <1>3. QED
    BY <1>1, <1>2, NodeChanges

\* One step preserves what is known.
LEMMA KnowledgeStep ==
  ASSUME TypeOK, KnowledgeHolds, [Next]_vars
  PROVE  KnowledgeHolds'
  <1>1. CASE Tick
    <2>1. ASSUME NEW n \in Node
          PROVE  node'[n].exists = node[n].exists /\ node'[n].trouble = Older(node[n].trouble)
      BY <1>1, NodeType DEF Tick
    <2>2. ASSUME NEW n \in Node, FailsIn(node, n) PROVE FailsIn(node', n)
      BY <2>1, <2>2, NodeType, OlderIsNoBetter DEF FailsIn
    <2>3. handler.pc \in {"list", "evict", "delete"} => FailsIn(node', handler.node) \/ handler.outdated
      BY <2>2, BusyHandler DEF KnowledgeHolds
    <2>4. ASSUME NEW k \in DOMAIN queue'
          PROVE  StillRight(node', queue'[k])
      <3>1. k \in DOMAIN queue /\ queue'[k] = [queue[k] EXCEPT !.trouble = Older(@)]
        BY <1>1, <2>4 DEF Tick
      <3>2. queue[k] \in Event
        BY <3>1, LenProperties, ElementOfSeq DEF TypeOK
      <3>3. /\ queue'[k].node = queue[k].node /\ queue[k].node \in Node
            /\ queue'[k].trouble = Older(queue[k].trouble)
            /\ queue'[k].outdated = queue[k].outdated
        BY <3>1, <3>2 DEF Event
      <3>4. StillRight(node, queue[k])
        BY <3>1 DEF KnowledgeHolds
      <3>5. QED
        BY <2>1, <2>2, <3>3, <3>4 DEF StillRight
    <2>5. handler' = handler
      BY <1>1 DEF Tick
    <2>6. QED
      BY <2>3, <2>4, <2>5 DEF KnowledgeHolds
  <1>2. ASSUME NEW n \in Node, NEW c \in Condition, GetsWorse(n, c)
        PROVE  KnowledgeHolds'
    <2> DEFINE t == [d \in Condition |->
                       IF d = c THEN 0
                       ELSE IF {c, d} = {"NotReady", "Unknown"} THEN None ELSE node[n].trouble[d]]
    <2>1. t \in Trouble
      <3>1. ASSUME NEW d \in Condition PROVE node[n].trouble[d] \in Nat \cup {None}
        BY <3>1, NodeType DEF Trouble
      <3>2. QED
        BY <3>1 DEF Trouble
    <2>2. Turns(n, t)
      BY <1>2 DEF GetsWorse
    <2> HIDE DEF t
    <2>3. QED
      BY <2>1, <2>2, TurnsKeepsKnowledge
  <1>3. ASSUME NEW n \in Node, NEW c \in Condition, Recovers(n, c)
        PROVE  KnowledgeHolds'
    <2>1. [node[n].trouble EXCEPT ![c] = None] \in Trouble
      BY NodeType DEF Trouble
    <2>2. QED
      BY <1>3, <2>1, TurnsKeepsKnowledge DEF Recovers
  <1>4. ASSUME NEW n \in Node, Joins(n)
        PROVE  KnowledgeHolds'
    <2>1. \A m \in Node : m # n => node'[m] = node[m]
      BY <1>4 DEF Joins, TypeOK
    <2>2. ~node[n].exists /\ queue' = queue /\ handler' = handler
      BY <1>4 DEF Joins
    <2>3. ASSUME NEW k \in DOMAIN queue
          PROVE  queue[k].node # n \/ queue[k].outdated
      BY <2>2 DEF KnowledgeHolds, StillRight, FailsIn
    <2>4. \A k \in DOMAIN queue' : StillRight(node', queue'[k])
      BY <2>1, <2>2, <2>3, NodeChanges
    <2>5. handler.pc \in {"list", "evict", "delete"} => FailsIn(node', handler.node) \/ handler.outdated
      BY <2>1, <2>2, BusyHandler DEF KnowledgeHolds, FailsIn
    <2>6. QED
      BY <2>2, <2>4, <2>5 DEF KnowledgeHolds
  <1>5. ASSUME NEW n \in Node, DeletedByOthers(n)
        PROVE  KnowledgeHolds'
    <2>1. Vanishes(n) /\ handler' = OvertakeHandler(n)
      BY <1>5 DEF DeletedByOthers
    <2>2. \A m \in Node : m # n => node'[m] = node[m]
      BY <2>1 DEF Vanishes, TypeOK
    <2>3. handler.pc \in {"list", "evict", "delete"} => FailsIn(node', handler.node) \/ handler'.outdated
      BY <2>1, <2>2, BusyHandler, OvertakeHandlerMark DEF KnowledgeHolds, FailsIn
    <2>4. QED
      BY <2>1, <2>3, VanishesKeepsEvents, OvertakeHandlerType DEF KnowledgeHolds
  <1>6. ASSUME NEW n \in Node, NEW p \in Pod, Schedule(p, n)
        PROVE  KnowledgeHolds'
    BY <1>6 DEF Schedule, KnowledgeHolds, StillRight, FailsIn
  <1>7. ASSUME NEW n \in Node, Resync(n)
        PROVE  KnowledgeHolds'
    <2> DEFINE e == [node |-> n, trouble |-> node[n].trouble, outdated |-> FALSE]
    <2>1. e \in Event /\ queue \in Seq(Event)
      BY NodeType DEF Event, TypeOK
    <2>2. queue' = Append(queue, e) /\ node' = node /\ handler' = handler /\ node[n].exists
      BY <1>7 DEF Resync
    <2>3. \A k \in DOMAIN queue' :
            (\E j \in DOMAIN queue : queue'[k] = queue[j]) \/ queue'[k] = e
      <3> HIDE DEF e
      <3>1. QED
        BY <2>1, <2>2, AppendedElements
    <2>4. \A k \in DOMAIN queue' : StillRight(node', queue'[k])
      <3>1. node[e.node].exists /\ node[e.node].trouble = e.trouble
        BY <2>2
      <3> HIDE DEF e
      <3>2. QED
        BY <2>2, <2>3, <3>1, QuietNodes
    <2>5. QED
      BY <2>2, <2>4 DEF KnowledgeHolds, FailsIn
  <1>8. CASE CheckAndHealNode
    <2> DEFINE e == Head(queue)
    <2>1. /\ queue \in Seq(Event) /\ queue # <<>> /\ queue' = Tail(queue) /\ node' = node
          /\ handler' = IF NeedsHealing(e)
                        THEN [pc |-> "list", node |-> e.node, expired |-> FALSE, outdated |-> e.outdated]
                        ELSE Idle
      BY <1>8 DEF CheckAndHealNode, TypeOK
    <2>2. \A k \in DOMAIN queue' : \E j \in DOMAIN queue : queue'[k] = queue[j]
      BY <2>1, TailElements
    <2>3. \A k \in DOMAIN queue' : StillRight(node', queue'[k])
      BY <2>1, <2>2, QuietNodes
    <2>4. StillRight(node, e)
      <3>1. 1 \in DOMAIN queue /\ e = queue[1]
        BY <2>1, LenProperties, EmptySeq
      <3>2. QED
        BY <3>1 DEF KnowledgeHolds
    <2> HIDE DEF e
    <2>5. NeedsHealing(e) => FailsIn(node, e.node) \/ e.outdated
      BY <2>4 DEF NeedsHealing, StillRight, FailsIn
    <2>6. handler'.pc \in {"list", "evict", "delete"} => FailsIn(node', handler'.node) \/ handler'.outdated
      BY <2>1, <2>5 DEF Idle, FailsIn
    <2>7. QED
      BY <2>3, <2>6 DEF KnowledgeHolds
  <1>9. CASE ListPods \/ ListPodsFails \/ Drained \/ DeadlineExceeded \/ DeleteNodeFails
               \/ (\E p \in Pod : EvictionReturns(p))
    <2>1. node' = node /\ queue' = queue
      BY <1>9 DEF ListPods, ListPodsFails, Drained, DeadlineExceeded, DeleteNodeFails,
                  EvictionReturns, Evict, EvictFails
    <2>2. /\ handler'.node = handler.node /\ handler'.outdated = handler.outdated
          /\ handler'.pc \in {"list", "evict", "delete"} => handler.pc \in {"list", "evict", "delete"}
      <3>1. handler \in Handler
        BY DEF TypeOK
      <3>2. CASE DeadlineExceeded
        BY <3>1, <3>2 DEF DeadlineExceeded, Handler
      <3>3. CASE ListPods \/ ListPodsFails \/ Drained \/ DeleteNodeFails
        BY <3>1, <3>3 DEF ListPods, ListPodsFails, Drained, DeleteNodeFails, Goes, Handler
      <3>4. CASE \E p \in Pod : EvictionReturns(p)
        BY <3>4 DEF EvictionReturns, Evict, EvictFails
      <3>5. QED
        BY <1>9, <3>2, <3>3, <3>4
    <2>3. QED
      BY <2>1, <2>2 DEF KnowledgeHolds, StillRight, FailsIn
  <1>10. CASE DeleteNode
    <2>1. handler.node \in Node /\ Vanishes(handler.node)
      BY <1>10, BusyHandler DEF DeleteNode
    <2>2. handler'.pc = "record"
      BY <1>10 DEF DeleteNode, Goes, TypeOK, Handler
    <2>3. QED
      BY <2>1, <2>2, VanishesKeepsEvents DEF KnowledgeHolds
  <1>11. CASE RecordHeal
    BY <1>11 DEF RecordHeal, Idle, KnowledgeHolds, StillRight, FailsIn
  <1>12. CASE CleanHealedNodes \/ SanitizeReferences
    BY <1>12 DEF CleanHealedNodes, SanitizeReferences, KnowledgeHolds, StillRight, FailsIn
  <1>13. CASE Restart
    BY <1>13 DEF Restart, Idle, KnowledgeHolds
  <1>14. CASE UNCHANGED vars \/ \E p \in Pod : Stops(p)
    BY <1>14 DEF vars, Stops, KnowledgeHolds, StillRight, FailsIn
  <1>15. QED
    BY <1>1, <1>2, <1>3, <1>4, <1>5, <1>6, <1>7, <1>8, <1>9, <1>10, <1>11, <1>12, <1>13, <1>14
    DEF Next, Cluster, Handling

\* One step preserves what the drain does.
LEMMA DrainStep ==
  ASSUME TypeOK, DrainInv, [Next]_vars
  PROVE  DrainInv'
  <1>1. ASSUME NEW n \in Node,
               Resync(n) \/ (\E c \in Condition : GetsWorse(n, c) \/ Recovers(n, c)) \/ Joins(n)
        PROVE  DrainInv'
    <2>1. home' = home /\ leaving' = leaving /\ evicting' = evicting /\ kept' = kept
      BY <1>1 DEF Resync, GetsWorse, Recovers, Turns, Joins, pods, drain
    <2>2. handler' = handler \/ handler' = OvertakeHandler(n)
      BY <1>1 DEF Resync, GetsWorse, Recovers, Turns, Joins
    <2>3. QED
      BY <2>1, <2>2, OvertakeHandlerType DEF DrainInv
  <1>2. ASSUME NEW n \in Node, DeletedByOthers(n)
        PROVE  DrainInv'
    <2>1. /\ home' = [p \in Pod |-> IF home[p] = n THEN None ELSE home[p]]
          /\ leaving' = {p \in leaving : home[p] # n}
          /\ evicting' = evicting /\ kept' = kept /\ handler' = OvertakeHandler(n)
      BY <1>2 DEF DeletedByOthers, Vanishes, drain
    <2>2. handler'.pc = handler.pc /\ handler'.node = handler.node
      BY <2>1, OvertakeHandlerType
    <2>3. ASSUME NEW p \in Evictable, handler.node # None, home'[p] = handler.node
          PROVE  home[p] = handler.node /\ (p \in leaving => p \in leaving')
      <3>1. home'[p] = IF home[p] = n THEN None ELSE home[p]
        BY <2>1, NodeAssumption
      <3>2. QED
        BY <2>1, <2>3, <3>1
    <2>4. handler.pc \in {"evict", "delete"} => handler.node # None
      BY DEF TypeOK
    <2>5. QED
      BY <2>1, <2>2, <2>3, <2>4 DEF DrainInv
  <1>3. ASSUME NEW n \in Node, NEW p \in Pod, Schedule(p, n)
        PROVE  DrainInv'
    <2>1. /\ \A r \in Pod : home'[r] = IF r = p THEN n ELSE home[r]
          /\ evicting' = evicting /\ handler' = handler /\ leaving' = leaving
          /\ kept' = IF handler.node = n THEN kept \cup {p} ELSE kept
      BY <1>3 DEF Schedule, TypeOK
    <2>2. QED
      BY <2>1, NodeAssumption DEF DrainInv
  <1>4. ASSUME NEW p \in Pod, Stops(p)
        PROVE  DrainInv'
    <2>1. /\ \A r \in Pod : home'[r] = IF r = p THEN None ELSE home[r]
          /\ evicting' = evicting /\ handler' = handler /\ kept' = kept
          /\ leaving' = leaving \ {p}
      BY <1>4 DEF Stops, TypeOK, drain
    <2>2. handler.pc \in {"evict", "delete"} => handler.node # None
      BY DEF TypeOK
    <2>3. ASSUME NEW r \in Evictable, handler.node # None, home'[r] = handler.node
          PROVE  r # p /\ home[r] = handler.node
      BY <2>1, <2>3, NodeAssumption
    <2>4. QED
      BY <2>1, <2>2, <2>3 DEF DrainInv
  <1>5. CASE CheckAndHealNode
    <2>1. handler'.pc \in {"idle", "list"}
      BY <1>5 DEF CheckAndHealNode, Idle
    <2>2. QED
      BY <2>1 DEF DrainInv
  <1>6. CASE ListPods
    <2>1. /\ evicting' = Drainables(handler.node) /\ home' = home
          /\ handler'.pc = "evict" /\ handler'.node = handler.node
      BY <1>6 DEF ListPods, Goes, TypeOK, Handler, pods
    <2>2. QED
      BY <2>1 DEF DrainInv, Drainables
  <1>7. CASE ListPodsFails
    <2>1. kept' = Pod /\ handler'.pc = "delete"
      BY <1>7 DEF ListPodsFails, Goes, TypeOK, Handler
    <2>2. QED
      BY <2>1, NodeAssumption DEF DrainInv
  <1>8. ASSUME NEW p \in Pod, Evict(p)
        PROVE  DrainInv'
    BY <1>8 DEF Evict, DrainInv, TypeOK
  <1>9. ASSUME NEW p \in Pod, EvictFails(p)
        PROVE  DrainInv'
    BY <1>9 DEF EvictFails, DrainInv, TypeOK, pods
  <1>10. CASE Drained
    <2>1. /\ evicting = {} /\ UNCHANGED <<home, leaving, kept>> /\ handler.pc = "evict"
          /\ handler'.pc = "delete" /\ handler'.node = handler.node
      BY <1>10 DEF Drained, Goes, TypeOK, Handler, pods, drain
    <2>2. QED
      BY <2>1 DEF DrainInv
  <1>11. CASE DeadlineExceeded
    <2>1. /\ UNCHANGED <<home, leaving, evicting, kept>>
          /\ handler'.pc = handler.pc /\ handler'.node = handler.node
      BY <1>11 DEF DeadlineExceeded, TypeOK, Handler, pods, drain
    <2>2. QED
      BY <2>1 DEF DrainInv
  <1>12. CASE DeleteNode \/ DeleteNodeFails \/ RecordHeal \/ Restart
    <2>1. handler'.pc \in {"idle", "record"}
      BY <1>12 DEF DeleteNode, DeleteNodeFails, RecordHeal, Restart, Goes, Idle, TypeOK, Handler
    <2>2. QED
      BY <2>1 DEF DrainInv
  <1>13. CASE Tick \/ CleanHealedNodes \/ SanitizeReferences
    BY <1>13 DEF Tick, CleanHealedNodes, SanitizeReferences, DrainInv, pods, drain
  <1>14. CASE UNCHANGED vars
    BY <1>14 DEF vars, pods, DrainInv
  <1>15. QED
    BY <1>1, <1>2, <1>3, <1>4, <1>5, <1>6, <1>7, <1>8, <1>9, <1>10, <1>11, <1>12, <1>13, <1>14
    DEF Next, Cluster, Handling, EvictionReturns

\* What the handler, its events and its goroutines know of nodes and pods lasts,
\* or they are marked as overtaken.
LEMMA KnowledgeInvariant == Spec => [](TypeOK /\ KnowledgeHolds /\ DrainInv)
  <1>1. Init => KnowledgeHolds /\ DrainInv
    BY DEF Init, Idle, KnowledgeHolds, DrainInv
  <1>2. TypeOK /\ KnowledgeHolds /\ DrainInv /\ [Next]_vars => KnowledgeHolds' /\ DrainInv'
    BY KnowledgeStep, DrainStep
  <1>3. QED
    BY <1>1, <1>2, TypeCorrect, PTL DEF Spec

\* A node that works is deleted only when it recovered, or was replaced, after
\* the event that condemned it was queued: however long the event waited and
\* the drain took, and whatever its conditions did meanwhile.
THEOREM WorkingNodesAreSafe == Spec => OnlyFailingDeleted
  <1>1. ASSUME KnowledgeHolds, NEW n \in Node, Deletes(n)
        PROVE  Failing(n) \/ handler.outdated
    BY <1>1 DEF KnowledgeHolds, Deletes, Failing, FailsIn
  <1>2. KnowledgeHolds =>
          [\A n \in Node : Deletes(n) /\ handler'.pc = "record" => Failing(n) \/ handler.outdated]_vars
    BY <1>1
  <1>3. QED
    BY <1>2, KnowledgeInvariant, PTL DEF OnlyFailingDeleted

\* Every evictable pod that is on the node when the DELETE goes out had its eviction
\* accepted or refused, or came after the list (all did when the list failed): also
\* when pods stop, are placed elsewhere and come back between list and evictions.
THEOREM DrainComesFirst == Spec => DrainedBeforeDeleted
  <1>1. ASSUME DrainInv, NEW n \in Node, Deletes(n)
        PROVE  OnNode(n) \subseteq kept \cup leaving
    BY <1>1 DEF DrainInv, Deletes, OnNode
  <1>2. DrainInv =>
          [\A n \in Node : Deletes(n) /\ handler'.pc = "record" =>
             OnNode(n) \subseteq kept \cup leaving]_vars
    BY <1>1
  <1>3. QED
    BY <1>2, KnowledgeInvariant, PTL DEF DrainedBeforeDeleted

=============================================================================
