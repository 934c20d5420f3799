-------------------------- MODULE PodHealingProofs --------------------------
(***************************************************************************)
(* Type correctness of PodHealing, and the heal cooldown for any number of *)
(* pods and informers, whichever watch what: it holds of each informer and *)
(* pod, up to what the memory guard makes the process forget.              *)
(***************************************************************************)
EXTENDS PodHealing, TLAPS, SequenceTheorems

LEMMA EventOfType == \A i \in Informer : EventOf(i) \subseteq Event
  BY DEF EventOf

\* What a handler is told of a pod it watches is an event of its own.
LEMMA UpdateEventType ==
  ASSUME NEW i \in Informer, NEW p \in Watches[i], NEW st \in Status
  PROVE  UpdateEvent(p, st) \in EventOf(i)
  BY PodAssumption DEF UpdateEvent, EventOf, Event, IsUnhealthy, Status

\* Notify and Resync append an event of the informer's own.
LEMMA NotifyType ==
  ASSUME TypeOK, NEW p \in Pod, NEW st \in Status, Notify(p, st)
  PROVE  \A i \in Informer : queue'[i] \in Seq(EventOf(i))
  <1> SUFFICES ASSUME NEW i \in Informer PROVE queue'[i] \in Seq(EventOf(i))
    OBVIOUS
  <1>1. queue[i] \in Seq(EventOf(i))
    BY DEF TypeOK
  <1>2. CASE p \in Watches[i]
    BY <1>1, <1>2, UpdateEventType, AppendProperties DEF Notify
  <1>3. CASE p \notin Watches[i]
    BY <1>1, <1>3 DEF Notify
  <1>4. QED
    BY <1>2, <1>3

\* A sequence of an informer's own events is a sequence of events, and queue
\* is a function: what TypeOK says of it twice follows from the first.
LEMMA QueueType ==
  ASSUME NEW q, q = [i \in Informer |-> q[i]], \A i \in Informer : q[i] \in Seq(EventOf(i))
  PROVE  q \in [Informer -> Seq(Event)]
  <1>1. \A i \in Informer : q[i] \in Seq(Event)
    BY EventOfType, SeqMonotonic
  <1>2. QED
    BY <1>1

\* What a call does to the history.
LEMMA CallType ==
  ASSUME NEW i \in Informer, handler[i].key \in Pod, Called(i),
         since \in [Informer \X Pod -> 0..HealCooldown], odd \in [Informer \X Pod -> BOOLEAN]
  PROVE  since' \in [Informer \X Pod -> 0..HealCooldown] /\ odd' \in [Informer \X Pod -> BOOLEAN]
  <1>1. <<i, handler[i].key>> \in Informer \X Pod
    OBVIOUS
  <1>2. 0 \in 0..HealCooldown
    BY PodAssumption
  <1>3. QED
    BY <1>1, <1>2 DEF Called

-----------------------------------------------------------------------------

\* The type invariant of the pod healing path holds from the start and is kept
\* by every step of the cluster, the informers and the goroutines.
THEOREM TypeCorrect == Spec => []TypeOK
  <1>1. Init => TypeOK
    <2> SUFFICES ASSUME Init PROVE TypeOK
      OBVIOUS
    <2>1. \A i \in Informer : queue[i] \in Seq(EventOf(i))
      BY EmptySeq DEF Init
    <2>2. queue \in [Informer -> Seq(Event)]
      BY <2>1, QueueType DEF Init
    <2>3. pod \in [Pod -> Status] /\ HealedPods \in [Pod -> Age \cup {None}]
      BY PodAssumption DEF Init, Fresh, Status
    <2>4. since \in [Informer \X Pod -> 0..HealCooldown] /\ odd \in [Informer \X Pod -> BOOLEAN]
      BY PodAssumption DEF Init
    <2>5. handler \in [Informer -> Handler]
      BY DEF Init, Idle, Handler
    <2>6. QED
      BY <2>1, <2>2, <2>3, <2>4, <2>5 DEF Init, Idle, TypeOK
  <1>2. TypeOK /\ [Next]_vars => TypeOK'
    <2> SUFFICES ASSUME TypeOK, [Next]_vars PROVE TypeOK'
      OBVIOUS
    <2> USE DEF TypeOK
    <2>1. ASSUME NEW p \in Pod, Restarts(p) PROVE TypeOK'
      <3> DEFINE st == [pod[p] EXCEPT !.backOff = FALSE,
                          !.restarts = IF @ < RestartThreshold THEN @ + 1 ELSE @]
      <3>1. st \in Status /\ pod' = [pod EXCEPT ![p] = st] /\ Notify(p, st)
        <4>1. /\ pod[p] \in [exists : BOOLEAN, backOff : BOOLEAN, restarts : 0..RestartThreshold]
              /\ RestartThreshold \in Nat
          BY PodAssumption DEF Status
        <4>2. (IF pod[p].restarts < RestartThreshold THEN pod[p].restarts + 1 ELSE pod[p].restarts)
                \in 0..RestartThreshold
          BY <4>1
        <4>3. st \in Status
          BY <4>1, <4>2 DEF Status
        <4>4. QED
          BY <2>1, <4>3 DEF Restarts
      <3> HIDE DEF st
      <3>2. \A i \in Informer : queue'[i] \in Seq(EventOf(i))
        BY <3>1, NotifyType
      <3>3. queue' \in [Informer -> Seq(Event)]
        BY <3>1, <3>2, QueueType DEF Notify
      <3>4. QED
        BY <2>1, <3>1, <3>2, <3>3 DEF Restarts, history
    <2>2. ASSUME NEW p \in Pod, Crashes(p) PROVE TypeOK'
      <3> DEFINE st == [pod[p] EXCEPT !.backOff = TRUE]
      <3>1. st \in Status /\ pod' = [pod EXCEPT ![p] = st] /\ Notify(p, st)
        BY <2>2 DEF Crashes, Status
      <3> HIDE DEF st
      <3>2. \A i \in Informer : queue'[i] \in Seq(EventOf(i))
        BY <3>1, NotifyType
      <3>3. queue' \in [Informer -> Seq(Event)]
        BY <3>1, <3>2, QueueType DEF Notify
      <3>4. QED
        BY <2>2, <3>1, <3>2, <3>3 DEF Crashes, history
    <2>3. ASSUME NEW p \in Pod, Recreate(p) PROVE TypeOK'
      BY <2>3, PodAssumption DEF Recreate, Fresh, Status, history
    <2>4. ASSUME NEW p \in Pod, DeletedByOthers(p) PROVE TypeOK'
      BY <2>4, PodAssumption DEF DeletedByOthers, Gone, Status, history
    <2>5. CASE Tick
      BY <2>5, PodAssumption DEF Tick, Age, OldAge
    <2>6. ASSUME NEW i \in Informer, NEW p \in Watches[i], Resync(i, p) PROVE TypeOK'
      <3>1. p \in Pod /\ UpdateEvent(p, pod[p]) \in EventOf(i)
        BY PodAssumption, UpdateEventType
      <3>2. \A j \in Informer : queue'[j] \in Seq(EventOf(j))
        BY <2>6, <3>1, AppendProperties DEF Resync
      <3>3. queue' = [j \in Informer |-> queue'[j]]
        BY <2>6 DEF Resync
      <3>4. queue' \in [Informer -> Seq(Event)]
        BY <3>2, <3>3, QueueType
      <3>5. QED
        BY <2>6, <3>2, <3>4 DEF Resync, history
    <2>7. ASSUME NEW i \in Informer, CheckAndHealPod(i) PROVE TypeOK'
      <3>1. queue[i] \in Seq(EventOf(i)) /\ queue[i] # <<>>
        BY <2>7 DEF CheckAndHealPod
      <3>2. Head(queue[i]) \in EventOf(i) /\ Tail(queue[i]) \in Seq(EventOf(i))
        BY <3>1, HeadTailProperties
      <3>3. \A j \in Informer : queue'[j] \in Seq(EventOf(j))
        BY <2>7, <3>2 DEF CheckAndHealPod
      <3>4. queue' \in [Informer -> Seq(Event)]
        BY <2>7, <3>3, QueueType DEF CheckAndHealPod
      <3>5. /\ handler' \in [Informer -> Handler]
            /\ \A j \in Informer :
                 /\ handler'[j].pc = "idle" <=> handler'[j].key = None
                 /\ handler'[j].key \in Watches[j] \cup {None}
        BY <2>7, <3>2, PodAssumption DEF CheckAndHealPod, EventOf, Event, Handler, Idle
      <3>6. QED
        BY <2>7, <3>3, <3>4, <3>5 DEF CheckAndHealPod, history
    <2>8. ASSUME NEW i \in Informer, TriggerPodDeletionApplied(i) PROVE TypeOK'
      <3>0. handler[i].key \in Pod
        BY <2>8, PodAssumption DEF TriggerPodDeletionApplied
      <3>1. pod' \in [Pod -> Status]
        <4>1. Gone \in Status
          BY PodAssumption DEF Gone, Status
        <4>2. QED
          BY <2>8, <3>0, <4>1 DEF TriggerPodDeletionApplied
      <3>2. since' \in [Informer \X Pod -> 0..HealCooldown] /\ odd' \in [Informer \X Pod -> BOOLEAN]
        BY <2>8, <3>0, CallType DEF TriggerPodDeletionApplied
      <3>3. QED
        BY <2>8, <3>1, <3>2 DEF TriggerPodDeletionApplied, Handler
    <2>9. ASSUME NEW i \in Informer, TriggerPodDeletionFailed(i) PROVE TypeOK'
      <3>0. handler[i].key \in Pod
        BY <2>9, PodAssumption DEF TriggerPodDeletionFailed
      <3>1. since' \in [Informer \X Pod -> 0..HealCooldown] /\ odd' \in [Informer \X Pod -> BOOLEAN]
        BY <2>9, <3>0, CallType DEF TriggerPodDeletionFailed
      <3>2. QED
        BY <2>9, <3>1 DEF TriggerPodDeletionFailed, Handler
    <2>10. ASSUME NEW i \in Informer, RecordHeal(i) PROVE TypeOK'
      <3>1. HealedPods' \in [Pod -> Age \cup {None}]
        <4>1. handler[i].key \in Pod
          BY <2>10, PodAssumption DEF RecordHeal
        <4>2. 0 \in Age
          BY PodAssumption DEF Age, OldAge
        <4>3. QED
          BY <2>10, <4>1, <4>2 DEF RecordHeal
      <3>2. QED
        BY <2>10, <3>1 DEF RecordHeal, Idle, Handler, history
    <2>11. CASE CleanHealedPods
      BY <2>11 DEF CleanHealedPods, history
    <2>12. CASE SanitizeReferences
      BY <2>12, PodAssumption DEF SanitizeReferences, Forget
    <2>13. CASE Restart
      <3>1. \A i \in Informer : queue'[i] \in Seq(EventOf(i))
        BY <2>13, EmptySeq DEF Restart
      <3>2. queue' \in [Informer -> Seq(Event)]
        BY <2>13, <3>1, QueueType DEF Restart
      <3>3. /\ handler' \in [Informer -> Handler]
            /\ \A i \in Informer : handler'[i] = Idle
        BY <2>13 DEF Restart, Idle, Handler
      <3>4. since' \in [Informer \X Pod -> 0..HealCooldown] /\ HealedPods' \in [Pod -> Age \cup {None}]
        BY <2>13, PodAssumption DEF Restart, Forget
      <3>5. QED
        BY <2>13, <3>1, <3>2, <3>3, <3>4 DEF Restart, Forget, Idle
    <2>14. CASE UNCHANGED vars
      BY <2>14 DEF vars
    <2>15. QED
      BY <2>1, <2>2, <2>3, <2>4, <2>5, <2>6, <2>7, <2>8, <2>9, <2>10, <2>11, <2>12, <2>13, <2>14
      DEF Next, Cluster, Handling
  <1>3. QED
    BY <1>1, <1>2, PTL DEF Spec

-----------------------------------------------------------------------------

\* The initial state satisfies the strengthened invariant.
LEMMA CooldownInvInit == ASSUME Init PROVE PendingDeletionIsDue /\ RecentCallIsRecorded
  BY PodAssumption DEF Init, Idle, PendingDeletionIsDue, RecentCallIsRecorded

\* A deletion call, applied or not: the caller becomes the one that is about to
\* record, and what the other informers do is about other pairs.
LEMMA DeletionKeepsCooldownInv ==
  ASSUME CooldownInv, NEW i \in Informer, handler[i].pc = "delete",
         Called(i), UNCHANGED HealedPods,
         \A j \in Informer : /\ handler'[j].key = handler[j].key
                            /\ handler'[j].pc = IF j = i THEN "record" ELSE handler[j].pc
  PROVE  PendingDeletionIsDue' /\ RecentCallIsRecorded'
  <1> DEFINE w == <<i, handler[i].key>>
  <1>0. TypeOK /\ PendingDeletionIsDue /\ RecentCallIsRecorded
    BY DEF CooldownInv
  <1>1. \A v \in Informer \X Pod : since'[v] = IF v = w THEN 0 ELSE since[v]
    BY <1>0 DEF Called, TypeOK
  <1>2. PendingDeletionIsDue'
    <2> SUFFICES ASSUME NEW j \in Informer, handler'[j].pc = "delete"
                 PROVE  since'[<<j, handler'[j].key>>] = HealCooldown
      BY DEF PendingDeletionIsDue
    <2>1. j # i /\ handler[j].pc = "delete" /\ handler'[j].key = handler[j].key
      OBVIOUS
    <2>2. handler[j].key \in Pod /\ since[<<j, handler[j].key>>] = HealCooldown
      BY <1>0, <2>1, PodAssumption DEF TypeOK, PendingDeletionIsDue
    <2>3. <<j, handler[j].key>> # w /\ <<j, handler[j].key>> \in Informer \X Pod
      BY <2>1, <2>2
    <2>4. QED
      BY <1>1, <2>1, <2>2, <2>3
  <1>3. RecentCallIsRecorded'
    <2> SUFFICES ASSUME NEW j \in Informer, NEW q \in Pod, since'[<<j, q>>] < HealCooldown
                 PROVE  \/ HealedPods'[q] # None /\ HealedPods'[q] <= since'[<<j, q>>]
                        \/ handler'[j].pc = "record" /\ handler'[j].key = q
      BY DEF RecentCallIsRecorded
    <2>1. CASE <<j, q>> = w
      BY <2>1
    <2>2. CASE <<j, q>> # w
      <3>1. since'[<<j, q>>] = since[<<j, q>>]
        BY <1>1, <2>2
      <3>2. \/ HealedPods[q] # None /\ HealedPods[q] <= since[<<j, q>>]
            \/ handler[j].pc = "record" /\ handler[j].key = q
        BY <1>0, <3>1 DEF RecentCallIsRecorded
      <3>3. QED
        BY <3>1, <3>2
    <2>3. QED
      BY <2>1, <2>2
  <1>4. QED
    BY <1>2, <1>3

\* One step preserves it.
LEMMA CooldownInvStep ==
  ASSUME CooldownInv, [Next]_vars
  PROVE  PendingDeletionIsDue' /\ RecentCallIsRecorded'
  <1> USE DEF PendingDeletionIsDue, RecentCallIsRecorded
  <1>0. TypeOK /\ PendingDeletionIsDue /\ RecentCallIsRecorded
    BY DEF CooldownInv
  <1>1. ASSUME NEW p \in Pod, Restarts(p) \/ Crashes(p) \/ Recreate(p) \/ DeletedByOthers(p)
        PROVE  PendingDeletionIsDue' /\ RecentCallIsRecorded'
    BY <1>0, <1>1 DEF Restarts, Crashes, Recreate, DeletedByOthers, history
  <1>2. CASE Tick
    <2>1. handler' = handler
      BY <1>2 DEF Tick
    <2>2. ASSUME NEW i \in Informer, NEW p \in Pod
          PROVE  /\ since'[<<i, p>>] = IF since[<<i, p>>] < HealCooldown
                                       THEN since[<<i, p>>] + 1 ELSE since[<<i, p>>]
                 /\ since[<<i, p>>] \in 0..HealCooldown
                 /\ HealedPods'[p] = IF HealedPods[p] \in 0..(OldAge - 1)
                                     THEN HealedPods[p] + 1 ELSE HealedPods[p]
                 /\ HealedPods[p] \in Age \cup {None}
      <3>1. <<i, p>> \in Informer \X Pod
        OBVIOUS
      <3>2. QED
        BY <1>0, <1>2, <3>1 DEF Tick, TypeOK
    <2>3. PendingDeletionIsDue'
      <3> SUFFICES ASSUME NEW j \in Informer, handler[j].pc = "delete"
                   PROVE  since'[<<j, handler[j].key>>] = HealCooldown
        BY <2>1
      <3>1. handler[j].key \in Pod /\ since[<<j, handler[j].key>>] = HealCooldown
        BY <1>0, PodAssumption DEF TypeOK
      <3>2. QED
        BY <3>1, <2>2, PodAssumption
    <2>4. RecentCallIsRecorded'
      <3> SUFFICES ASSUME NEW i \in Informer, NEW p \in Pod, since'[<<i, p>>] < HealCooldown
                   PROVE  \/ HealedPods'[p] # None /\ HealedPods'[p] <= since'[<<i, p>>]
                          \/ handler[i].pc = "record" /\ handler[i].key = p
        BY <2>1
      <3>1. since[<<i, p>>] < HealCooldown /\ since'[<<i, p>>] = since[<<i, p>>] + 1
        BY <2>2, PodAssumption
      <3>2. CASE HealedPods[p] # None /\ HealedPods[p] <= since[<<i, p>>]
        <4>1. HealedPods'[p] \in Nat /\ HealedPods'[p] <= since[<<i, p>>] + 1
          BY <2>2, <3>1, <3>2, PodAssumption DEF Age, OldAge
        <4>2. QED
          BY <3>1, <4>1, PodAssumption
      <3>3. CASE handler[i].pc = "record" /\ handler[i].key = p
        BY <3>3
      <3>4. QED
        BY <1>0, <3>1, <3>2, <3>3
    <2>5. QED
      BY <2>3, <2>4
  <1>3. ASSUME NEW i \in Informer, NEW p \in Watches[i], Resync(i, p)
        PROVE  PendingDeletionIsDue' /\ RecentCallIsRecorded'
    BY <1>0, <1>3 DEF Resync, history
  <1>4. ASSUME NEW i \in Informer, CheckAndHealPod(i)
        PROVE  PendingDeletionIsDue' /\ RecentCallIsRecorded'
    <2> DEFINE e == Head(queue[i])
    <2>1. e \in EventOf(i)
      <3>1. queue[i] \in Seq(EventOf(i)) /\ queue[i] # <<>>
        BY <1>0, <1>4 DEF CheckAndHealPod, TypeOK
      <3>2. QED
        BY <3>1, HeadTailProperties
    <2>2. e.key \in Pod
      BY <2>1 DEF EventOf, Event
    <2>3. HealedPods' = HealedPods /\ since' = since
      BY <1>4 DEF CheckAndHealPod, history
    <2>4. handler' = [handler EXCEPT ![i] =
                        IF NeedsHealing(e)
                        THEN [pc |-> "delete", key |-> e.key] ELSE Idle]
      BY <1>4 DEF CheckAndHealPod
    <2>5. handler[i].pc = "idle"
      BY <1>0, <1>4 DEF CheckAndHealPod, TypeOK
    <2>6. NeedsHealing(e) => since[<<i, e.key>>] = HealCooldown
      <3> SUFFICES ASSUME NeedsHealing(e), since[<<i, e.key>>] # HealCooldown PROVE FALSE
        OBVIOUS
      <3>1. since[<<i, e.key>>] < HealCooldown /\ since[<<i, e.key>>] \in Nat
        <4>1. <<i, e.key>> \in Informer \X Pod
          BY <2>2
        <4>2. since[<<i, e.key>>] \in 0..HealCooldown
          BY <1>0, <4>1 DEF TypeOK
        <4>3. QED
          BY <4>2, PodAssumption
      <3>2. HealedPods[e.key] # None /\ HealedPods[e.key] <= since[<<i, e.key>>]
        BY <1>0, <2>2, <2>5, <3>1
      <3>3. HealedPods[e.key] \in Nat
        BY <1>0, <2>2, <3>2, PodAssumption DEF TypeOK, Age, OldAge
      <3>4. QED
        BY <3>1, <3>2, <3>3, PodAssumption DEF NeedsHealing, RecentlyHealed
    <2> HIDE DEF e
    <2>7. PendingDeletionIsDue'
      BY <1>0, <2>3, <2>4, <2>6 DEF TypeOK, Idle
    <2>8. RecentCallIsRecorded'
      BY <1>0, <2>3, <2>4, <2>5 DEF TypeOK, Idle
    <2>9. QED
      BY <2>7, <2>8
  <1>5. ASSUME NEW i \in Informer, TriggerPodDeletionApplied(i) \/ TriggerPodDeletionFailed(i)
        PROVE  PendingDeletionIsDue' /\ RecentCallIsRecorded'
    <2>1. ASSUME NEW j \in Informer
          PROVE  /\ handler'[j].key = handler[j].key
                 /\ handler'[j].pc = IF j = i THEN "record" ELSE handler[j].pc
      BY <1>0, <1>5 DEF TriggerPodDeletionApplied, TriggerPodDeletionFailed, TypeOK, Handler
    <2>2. handler[i].pc = "delete" /\ Called(i) /\ UNCHANGED HealedPods
      BY <1>5 DEF TriggerPodDeletionApplied, TriggerPodDeletionFailed
    <2>3. QED
      BY <2>1, <2>2, DeletionKeepsCooldownInv
  <1>6. ASSUME NEW i \in Informer, RecordHeal(i)
        PROVE  PendingDeletionIsDue' /\ RecentCallIsRecorded'
    <2> DEFINE p == handler[i].key
    <2>1. p \in Pod
      BY <1>0, <1>6, PodAssumption DEF RecordHeal, TypeOK
    <2>2. /\ handler' = [handler EXCEPT ![i] = Idle]
          /\ HealedPods' = [HealedPods EXCEPT ![p] = 0]
          /\ since' = since
      BY <1>6 DEF RecordHeal, history
    <2>3. PendingDeletionIsDue'
      BY <1>0, <2>2 DEF TypeOK, Idle
    <2>4. RecentCallIsRecorded'
      <3> SUFFICES ASSUME NEW j \in Informer, NEW q \in Pod, since[<<j, q>>] < HealCooldown
                   PROVE  \/ HealedPods'[q] # None /\ HealedPods'[q] <= since[<<j, q>>]
                          \/ handler'[j].pc = "record" /\ handler'[j].key = q
        BY <2>2
      <3>1. CASE q = p
        <4>1. HealedPods'[q] = 0 /\ since[<<j, q>>] \in 0..HealCooldown
          <5>1. <<j, q>> \in Informer \X Pod
            OBVIOUS
          <5>2. QED
            BY <1>0, <2>1, <2>2, <3>1, <5>1 DEF TypeOK
        <4>2. QED
          BY <4>1, PodAssumption
      <3>2. CASE q # p
        <4>1. HealedPods'[q] = HealedPods[q]
          BY <1>0, <2>2, <3>2 DEF TypeOK
        <4>2. ASSUME handler[j].key = q PROVE handler'[j] = handler[j]
          BY <1>0, <2>2, <3>2, <4>2 DEF TypeOK
        <4>3. QED
          BY <1>0, <4>1, <4>2
      <3>3. QED
        BY <3>1, <3>2
    <2>5. QED
      BY <2>3, <2>4
  <1>7. CASE CleanHealedPods
    <2>1. handler' = handler /\ since' = since
      BY <1>7 DEF CleanHealedPods, history
    <2>2. ASSUME NEW i \in Informer, NEW p \in Pod, since[<<i, p>>] < HealCooldown,
                 HealedPods[p] # None, HealedPods[p] <= since[<<i, p>>]
          PROVE  HealedPods'[p] = HealedPods[p]
      <3>1. HealedPods[p] \in Nat /\ since[<<i, p>>] \in Nat
        <4>1. <<i, p>> \in Informer \X Pod
          OBVIOUS
        <4>2. since[<<i, p>>] \in 0..HealCooldown
          BY <1>0, <4>1 DEF TypeOK
        <4>3. QED
          BY <1>0, <2>2, <4>2, PodAssumption DEF TypeOK, Age, OldAge
      <3>2. ~Forgotten(p)
        BY <2>2, <3>1, PodAssumption DEF Forgotten
      <3>3. QED
        BY <1>7, <3>2 DEF CleanHealedPods
    <2>3. QED
      BY <1>0, <2>1, <2>2
  <1>8. ASSUME Forget, handler' = handler \/ \A i \in Informer : handler'[i] = Idle
        PROVE  PendingDeletionIsDue' /\ RecentCallIsRecorded'
    <2>1. \A v \in Informer \X Pod : since'[v] = HealCooldown
      BY <1>8 DEF Forget
    <2>2. ASSUME NEW j \in Informer, handler'[j].pc = "delete"
          PROVE  handler'[j].key \in Pod
      BY <1>0, <1>8, <2>2, PodAssumption DEF TypeOK, Idle
    <2>3. PendingDeletionIsDue'
      BY <2>1, <2>2
    <2>4. RecentCallIsRecorded'
      BY <2>1, PodAssumption
    <2>5. QED
      BY <2>3, <2>4
  <1>9. CASE SanitizeReferences \/ Restart
    BY <1>8, <1>9 DEF SanitizeReferences, Restart
  <1>10. CASE UNCHANGED vars
    BY <1>0, <1>10 DEF vars
  <1>11. QED
    BY <1>1, <1>2, <1>3, <1>4, <1>5, <1>6, <1>7, <1>9, <1>10
    DEF Next, Cluster, Handling

\* CooldownInv holds for any number of pods and informers: a handler that is
\* about to delete is past the cooldown of its own calls, and no recent call of
\* an informer is forgotten, whoever else watches the pod.
THEOREM CooldownInvariant == Spec => []CooldownInv
  <1>1. Init /\ TypeOK => CooldownInv
    BY CooldownInvInit DEF CooldownInv
  <1>2. CooldownInv /\ TypeOK' /\ [Next]_vars => CooldownInv'
    BY CooldownInvStep DEF CooldownInv
  <1>3. QED
    BY <1>1, <1>2, TypeCorrect, PTL DEF Spec

-----------------------------------------------------------------------------

\* A step of PodHealing is a step of the gate, or changes nothing the gate sees.
LEMMA StepOfGate ==
  ASSUME CooldownInv, [Next]_vars
  PROVE  [Gate!Next]_<<since, odd>>
  <1>0. TypeOK /\ PendingDeletionIsDue
    BY DEF CooldownInv
  <1>1. ASSUME NEW p \in Pod, Restarts(p) \/ Crashes(p) \/ Recreate(p) \/ DeletedByOthers(p)
        PROVE  UNCHANGED <<since, odd>>
    BY <1>1 DEF Restarts, Crashes, Recreate, DeletedByOthers, history
  <1>2. ASSUME Tick PROVE Gate!Elapse
    BY <1>2 DEF Tick, Gate!Elapse, Gate!Older
  <1>3. ASSUME NEW i \in Informer, NEW p \in Watches[i], Resync(i, p)
        PROVE  UNCHANGED <<since, odd>>
    BY <1>3 DEF Resync, history
  <1>4. ASSUME NEW i \in Informer, CheckAndHealPod(i) \/ RecordHeal(i)
        PROVE  UNCHANGED <<since, odd>>
    BY <1>4 DEF CheckAndHealPod, RecordHeal, history
  <1>5. ASSUME NEW i \in Informer,
               TriggerPodDeletionApplied(i) \/ TriggerPodDeletionFailed(i)
        PROVE  \E w \in Informer \X Pod : Gate!Act(w)
    <2>1. handler[i].pc = "delete" /\ Called(i)
      BY <1>5 DEF TriggerPodDeletionApplied, TriggerPodDeletionFailed
    <2>2. <<i, handler[i].key>> \in Informer \X Pod /\ since[<<i, handler[i].key>>] = HealCooldown
      BY <1>0, <2>1, PodAssumption DEF TypeOK, PendingDeletionIsDue
    <2>3. QED
      BY <2>1, <2>2 DEF Called, Gate!Act
  <1>6. ASSUME CleanHealedPods PROVE UNCHANGED <<since, odd>>
    BY <1>6 DEF CleanHealedPods, history
  <1>7. ASSUME SanitizeReferences \/ Restart PROVE Gate!Forget
    BY <1>7 DEF SanitizeReferences, Restart, Forget, Gate!Forget
  <1>8. ASSUME UNCHANGED vars PROVE UNCHANGED <<since, odd>>
    BY <1>8 DEF vars
  <1>9. QED
    BY <1>1, <1>2, <1>3, <1>4, <1>5, <1>6, <1>7, <1>8 DEF Next, Cluster, Handling, Gate!Next

\* The deletion calls of an informer for a pod are at least HealCooldown apart:
\* checkAndHealPod, with its look-up, its call and its recording apart and with
\* other informers that watch the same pods, implements the gate.
THEOREM CooldownIsRespected == Spec => CooldownRespected
  <1>1. Init => Gate!Init
    BY DEF Init, Gate!Init
  <1>2. CooldownInv /\ [Next]_vars => [Gate!Next]_<<since, odd>>
    BY StepOfGate
  <1>3. QED
    BY <1>1, <1>2, CooldownInvariant, PTL DEF Spec, CooldownRespected, Gate!Spec

=============================================================================
