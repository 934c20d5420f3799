----------------------- MODULE NamespacePollingProofs -----------------------
(***************************************************************************)
(* The bookkeeping of NamespacePolling for any set of names: the list and  *)
(* the map differ by what is in hand alone, discovery does not leave the   *)
(* configuration if no configured name has a prefix that leads out of it,  *)
(* and a poll deletes what its own list showed to be stale.                *)
(***************************************************************************)
EXTENDS NamespacePolling, TLAPS

USE DEF tracking, poll

\* The state keeps its shape, for any names, prefixes and bounds.
THEOREM TypeCorrect == Spec => []TypeOK
  <1>1. Init => TypeOK
    <2> SUFFICES ASSUME Init PROVE TypeOK
      OBVIOUS
    <2>1. PICK existing \in SUBSET Ns :
            /\ ns = [n \in Ns |-> IF n \in existing THEN Created(n) ELSE Absent]
            /\ Started(Resolved(existing))
      BY DEF Init
    <2>2. Resolved(existing) \subseteq Ns
      BY NamespaceAssumption DEF Resolved
    <2>3. ns \in [Ns -> Object]
      BY <2>1, NamespaceAssumption DEF Object, Created, Absent
    <2>4. QED
      BY <2>1, <2>2, <2>3, NamespaceAssumption DEF Init, Started, TypeOK
  <1>2. TypeOK /\ [Next]_vars => TypeOK'
    <2> SUFFICES ASSUME TypeOK, [Next]_vars PROVE TypeOK'
      OBVIOUS
    <2> USE DEF TypeOK
    <2>1. CASE Tick
      <3>1. ns' \in [Ns -> Object]
        <4>1. ASSUME NEW n \in Ns, ns[n].age <= StaleAge
              PROVE  [ns[n] EXCEPT !.age = ns[n].age + 1] \in Object
          <5>1. ns[n] \in Object
            OBVIOUS
          <5>2. ns[n].age + 1 \in 0..(StaleAge + 1)
            BY <5>1, <4>1, NamespaceAssumption DEF Object
          <5>3. QED
            BY <5>1, <5>2 DEF Object
        <4> DEFINE older(n) == IF Exists(n) /\ ns[n].age <= StaleAge
                               THEN [ns[n] EXCEPT !.age = ns[n].age + 1] ELSE ns[n]
        <4>2. ns' = [n \in Ns |-> older(n)]
          BY <2>1 DEF Tick
        <4>3. ASSUME NEW n \in Ns PROVE older(n) \in Object
          <5>1. CASE Exists(n) /\ ns[n].age <= StaleAge
            BY <4>1, <5>1
          <5>2. CASE ~(Exists(n) /\ ns[n].age <= StaleAge)
            BY <5>2
          <5>3. QED
            BY <5>1, <5>2
        <4> HIDE DEF older
        <4>4. QED
          BY <4>2, <4>3
      <3>2. QED
        BY <2>1, <3>1 DEF Tick
    <2>2. ASSUME NEW n \in Ns, Create(n) \/ DeletedByOthers(n) \/ Removed(n) PROVE TypeOK'
      <3>1. ns' \in [Ns -> Object]
        <4>1. Created(n) \in Object /\ Absent \in Object
          BY NamespaceAssumption DEF Created, Absent, Object
        <4>2. [ns[n] EXCEPT !.phase = "Terminating"] \in Object
          BY DEF Object
        <4>3. \/ ns' = [ns EXCEPT ![n] = Created(n)]
              \/ ns' = [ns EXCEPT ![n].phase = "Terminating"]
              \/ ns' = [ns EXCEPT ![n] = Absent]
          BY <2>2 DEF Create, DeletedByOthers, Removed
        <4>4. QED
          BY <4>1, <4>2, <4>3
      <3>2. replaced' \in SUBSET Ns
        BY <2>2 DEF Create, DeletedByOthers, Removed
      <3>3. QED
        BY <2>2, <3>1, <3>2 DEF Create, DeletedByOthers, Removed
    <2>3. CASE DiscoverNewNamespaces
      <3>1. Vanished \subseteq Ns /\ Undiscovered \subseteq Ns
        BY DEF Vanished, Undiscovered
      <3>2. worker' \in [Ns -> {"none", "finalizers", "delete"}]
        BY <2>3 DEF DiscoverNewNamespaces
      <3>3. QED
        BY <2>3, <3>1, <3>2 DEF DiscoverNewNamespaces
    <2>4. CASE ForgetVanished \/ UnlistVanished
      BY <2>4, NamespaceAssumption DEF ForgetVanished, UnlistVanished
    <2>5. CASE StartDeletions \/ DeletionsDone \/ PollCompleted
      BY <2>5 DEF StartDeletions, DeletionsDone, PollCompleted
    <2>6. CASE Track
      BY <2>6, NamespaceAssumption DEF Track
    <2>7. CASE StartWatching
      <3>1. informers' \in [Ns \cup {All} -> 0..InformerBound] /\ current \in Ns
        BY <2>7, NamespaceAssumption DEF StartWatching
      <3>2. QED
        BY <2>7, <3>1 DEF StartWatching
    <2>8. ASSUME NEW n \in Ns, TriggerNamespaceDeletion(n) PROVE TypeOK'
      <3>1. ns' \in [Ns -> Object]
        <4>1. \/ ns' = ns
              \/ ns' = [ns EXCEPT ![n].finalizers = FALSE]
              \/ ns' = [ns EXCEPT ![n].phase = "Terminating"]
          BY <2>8 DEF TriggerNamespaceDeletion, RemoveFinalizers, AlreadyGone,
                      DeleteNamespace, DeleteFails, Untrack, Unlist
        <4>2. ns[n] \in Object
          OBVIOUS
        <4>3. /\ [ns[n] EXCEPT !.finalizers = FALSE] \in Object
              /\ [ns[n] EXCEPT !.phase = "Terminating"] \in Object
          BY <4>2 DEF Object
        <4>4. QED
          BY <4>1, <4>3
      <3>2. /\ worker' \in [Ns -> {"none", "finalizers", "delete", "untrack", "unlist"}]
            /\ poller = "delete" /\ UNCHANGED <<informers, poll, replaced>>
        BY <2>8 DEF TriggerNamespaceDeletion, RemoveFinalizers, AlreadyGone, DeleteNamespace,
                    DeleteFails, Untrack, Unlist
      <3>3. WatchedNamespaces' \in SUBSET Ns /\ Namespaces' \in SUBSET (Ns \cup {All})
        BY <2>8 DEF TriggerNamespaceDeletion, RemoveFinalizers, AlreadyGone, DeleteNamespace,
                    DeleteFails, Untrack, Unlist
      <3>4. QED
        BY <3>1, <3>2, <3>3 DEF poll
    <2>9. CASE UNCHANGED vars
      BY <2>9 DEF vars, poll
    <2>10. QED
      BY <2>1, <2>2, <2>3, <2>4, <2>5, <2>6, <2>7, <2>8, <2>9
         DEF Next, Cluster, Poller, Discovery
  <1>3. QED
    BY <1>1, <1>2, PTL DEF Spec

-----------------------------------------------------------------------------

\* What is about to leave the list has left the map, what is about to enter the list
\* has entered the map, and what is still to be tracked is in neither.
MapIsFirst ==
    /\ (Leaving \cup newNamespaces) \cap WatchedNamespaces = {}
    /\ Entering \subseteq WatchedNamespaces

\* The goroutines of a poll change the map and the list of one name each.
LEMMA OneNameStep ==
  ASSUME TypeOK, NEW n \in Ns, TriggerNamespaceDeletion(n)
  PROVE  /\ poller = "delete" /\ UNCHANGED <<informers, poll>>
         /\ \A m \in Ns \ {n} : worker'[m] = worker[m]
         /\ worker'[n] # "none" => worker[n] # "none"
         /\ \/ UNCHANGED tracking /\ worker[n] # "unlist" /\ worker'[n] # "unlist"
            \/ /\ WatchedNamespaces' = WatchedNamespaces \ {n} /\ Namespaces' = Namespaces
               /\ worker[n] = "untrack" /\ worker'[n] = "unlist"
            \/ /\ Namespaces' = Namespaces \ {n} /\ WatchedNamespaces' = WatchedNamespaces
               /\ worker[n] = "unlist" /\ worker'[n] = "none"
  BY DEF TypeOK, poll, TriggerNamespaceDeletion, RemoveFinalizers, AlreadyGone, DeleteNamespace,
         DeleteFails, Untrack, Unlist

LEMMA TrackingStep ==
  ASSUME TrackingAgrees, MapIsFirst, TypeOK, [Next]_vars
  PROVE  TrackingAgrees' /\ MapIsFirst'
  <1> USE NamespaceAssumption
  <1>0. WatchedNamespaces \subseteq Ns /\ Namespaces \subseteq Ns \cup {All} /\ All \notin Ns
    BY DEF TypeOK
  <1>a. ASSUME poller # "delete" PROVE \A m \in Ns : worker[m] # "unlist"
    BY <1>a DEF TypeOK
  <1>1. CASE Cluster
    BY <1>1 DEF Cluster, Tick, Create, DeletedByOthers, Removed, TrackingAgrees, MapIsFirst,
                Leaving, Entering, poll
  <1>2. CASE DiscoverNewNamespaces
    <2>1. \A m \in Ns : worker'[m] # "unlist"
      BY <1>2 DEF DiscoverNewNamespaces
    <2>2. Leaving = {} /\ Leaving' = {} /\ Entering = {} /\ Entering' = {}
      BY <1>2, <1>a, <2>1 DEF DiscoverNewNamespaces, Leaving, Entering
    <2>3. UNCHANGED <<tracking, informers>> /\ newNamespaces' \cap WatchedNamespaces = {}
      BY <1>2 DEF DiscoverNewNamespaces, Undiscovered
    <2>4. QED
      BY <2>2, <2>3 DEF TrackingAgrees, MapIsFirst
  <1>3. CASE ForgetVanished
    <2>1. PICK n \in deletedNamespaces :
            WatchedNamespaces' = WatchedNamespaces \ {n} /\ current' = n
      BY <1>3 DEF ForgetVanished
    <2>2. Leaving = {} /\ Entering = {} /\ Entering' = {} /\ Leaving' = {n} /\ n \in Ns
      BY <1>3, <1>a, <2>1 DEF ForgetVanished, Leaving, Entering, TypeOK
    <2>3. UNCHANGED <<Namespaces, informers, newNamespaces>>
      BY <1>3 DEF ForgetVanished
    <2>4. QED
      BY <1>0, <2>1, <2>2, <2>3 DEF TrackingAgrees, MapIsFirst
  <1>4. CASE UnlistVanished
    <2>1. Leaving = {current} /\ Entering = {} /\ Entering' = {} /\ Leaving' = {}
      BY <1>4, <1>a DEF UnlistVanished, Leaving, Entering, TypeOK
    <2>2. Namespaces' = Namespaces \ {current} /\ UNCHANGED <<WatchedNamespaces, informers, newNamespaces>>
      BY <1>4 DEF UnlistVanished
    <2>3. QED
      BY <1>0, <2>1, <2>2 DEF TrackingAgrees, MapIsFirst
  <1>5. CASE StartDeletions \/ DeletionsDone \/ PollCompleted
    <2>1. Leaving' = Leaving /\ Entering = {} /\ Entering' = {}
      BY <1>5 DEF StartDeletions, DeletionsDone, PollCompleted, Leaving, Entering
    <2>2. UNCHANGED <<tracking, informers, newNamespaces>>
      BY <1>5 DEF StartDeletions, DeletionsDone, PollCompleted
    <2>3. QED
      BY <2>1, <2>2 DEF TrackingAgrees, MapIsFirst
  <1>6. CASE Track
    <2>1. PICK n \in newNamespaces :
            WatchedNamespaces' = WatchedNamespaces \cup {n} /\ current' = n
      BY <1>6 DEF Track
    <2>2. Leaving = {} /\ Leaving' = {} /\ Entering = {} /\ Entering' = {n} /\ n \in Ns
      BY <1>6, <1>a, <2>1 DEF Track, Leaving, Entering, TypeOK
    <2>3. UNCHANGED <<Namespaces, informers>>
      BY <1>6 DEF Track
    <2>4. n \notin Namespaces /\ n \notin newNamespaces'
      BY <1>6, <2>1, <2>2 DEF Track, TypeOK, TrackingAgrees, MapIsFirst
    <2>5. QED
      BY <1>0, <1>6, <2>1, <2>2, <2>3, <2>4 DEF Track, TrackingAgrees, MapIsFirst
  <1>7. CASE StartWatching
    <2>1. Leaving = {} /\ Leaving' = {} /\ Entering = {current} /\ Entering' = {} /\ current \in Ns
      BY <1>7, <1>a DEF StartWatching, Leaving, Entering, TypeOK
    <2>2. Namespaces' = Namespaces \cup {current} /\ UNCHANGED <<WatchedNamespaces, newNamespaces>>
      BY <1>7 DEF StartWatching
    <2>3. ASSUME NEW n \in Namespaces' PROVE informers'[n] > 0
      <3>1. n \in Ns \cup {All} /\ informers[n] \in 0..InformerBound /\ InformerBound \in Nat \ {0}
        BY <2>1, <2>2 DEF TypeOK
      <3>2. informers'[n] = IF n = current /\ informers[n] < InformerBound
                            THEN informers[n] + 1 ELSE informers[n]
        BY <1>7, <3>1 DEF StartWatching, TypeOK
      <3>3. n = current \/ informers[n] > 0
        BY <2>2 DEF TrackingAgrees
      <3>4. QED
        BY <3>1, <3>2, <3>3
    <2>4. QED
      BY <1>0, <2>1, <2>2, <2>3 DEF TrackingAgrees, MapIsFirst
  <1>8. ASSUME NEW n \in Ns, TriggerNamespaceDeletion(n)
        PROVE  TrackingAgrees' /\ MapIsFirst'
    <2>1. /\ poller = "delete" /\ UNCHANGED <<informers, poll>>
          /\ \A m \in Ns \ {n} : worker'[m] = worker[m]
      BY <1>8, OneNameStep
    <2>2. Entering = {} /\ Entering' = {}
      BY <2>1 DEF Entering, poll
    <2>3. \A m \in Ns \ {n} : m \in Leaving' <=> m \in Leaving
      BY <2>1 DEF Leaving, poll
    <2>4. n \in Leaving <=> worker[n] = "unlist"
      BY <2>1 DEF Leaving
    <2>5. n \in Leaving' <=> worker'[n] = "unlist"
      BY <2>1 DEF Leaving, poll
    <2>6. Leaving \subseteq Ns /\ Leaving' \subseteq Ns
      BY DEF Leaving
    <2>7. CASE UNCHANGED tracking /\ worker[n] # "unlist" /\ worker'[n] # "unlist"
      <3>1. Leaving' = Leaving
        <4>1. \A m \in Ns : m \in Leaving' <=> m \in Leaving
          BY <2>3, <2>4, <2>5, <2>7
        <4>2. QED
          BY <4>1, <2>6
      <3>2. QED
        BY <2>1, <2>2, <2>7, <3>1 DEF TrackingAgrees, MapIsFirst
    <2>8. CASE /\ WatchedNamespaces' = WatchedNamespaces \ {n} /\ Namespaces' = Namespaces
               /\ worker[n] = "untrack" /\ worker'[n] = "unlist"
      <3>1. Leaving' = Leaving \cup {n}
        BY <2>3, <2>5, <2>6, <2>8
      <3>2. QED
        BY <1>0, <2>1, <2>2, <2>8, <3>1 DEF TrackingAgrees, MapIsFirst
    <2>9. CASE /\ Namespaces' = Namespaces \ {n} /\ WatchedNamespaces' = WatchedNamespaces
               /\ worker[n] = "unlist" /\ worker'[n] = "none"
      <3>1. Leaving' = Leaving \ {n} /\ n \in Leaving
        BY <2>3, <2>4, <2>5, <2>6, <2>9
      <3>2. QED
        BY <1>0, <2>1, <2>2, <2>9, <3>1 DEF TrackingAgrees, MapIsFirst
    <2>10. QED
      BY <1>8, <2>7, <2>8, <2>9, OneNameStep
  <1>9. CASE UNCHANGED vars
    BY <1>9 DEF vars, poll, TrackingAgrees, MapIsFirst, Leaving, Entering
  <1>10. QED
    BY <1>1, <1>2, <1>3, <1>4, <1>5, <1>6, <1>7, <1>8, <1>9 DEF Next, Poller, Discovery

\* Whatever goroutines and readers come in between, the map and the list differ by
\* what a critical section has taken out of one, or put into it, and has still to take
\* out of, or put into, the other; and what is in the list has an informer.
THEOREM TrackingAlwaysAgrees == Spec => []TrackingAgrees
  <1>1. Init => TrackingAgrees /\ MapIsFirst
    <2> SUFFICES ASSUME Init PROVE TrackingAgrees /\ MapIsFirst
      OBVIOUS
    <2>1. PICK existing \in SUBSET Ns : Started(Resolved(existing))
      BY DEF Init
    <2>2. Resolved(existing) \subseteq Ns
      BY NamespaceAssumption DEF Resolved
    <2>3. Namespaces \ {All} = WatchedNamespaces /\ Leaving = {} /\ Entering = {}
      BY <2>1, <2>2, NamespaceAssumption DEF Started, Init, Leaving, Entering
    <2>4. \A n \in Namespaces : informers[n] = 1
      BY <2>1, <2>2, NamespaceAssumption DEF Started
    <2>5. QED
      BY <2>3, <2>4 DEF TrackingAgrees, MapIsFirst, Init
  <1>2. TrackingAgrees /\ MapIsFirst /\ TypeOK /\ [Next]_vars => TrackingAgrees' /\ MapIsFirst'
    BY TrackingStep
  <1>3. QED
    BY <1>1, <1>2, TypeCorrect, PTL DEF Spec

-----------------------------------------------------------------------------

\* In a prefix-closed configuration a name that matches is a configured one as
\* long as the list holds nothing else.
LEMMA MatchIsConfigured ==
  ASSUME PrefixClosed, Namespaces \subseteq Configured \cup {All},
         NEW n \in Ns, Matches(n)
  PROVE  n \in Configured
  <1>1. CASE n \in PatternMatch
    BY <1>1 DEF Configured
  <1>2. CASE Prefixed(n, Prefixes(Namespaces))
    <2>1. PICK m \in Namespaces \cap Ns : PrefixOf[m] # None /\ n \in HasPrefix[PrefixOf[m]]
      BY <1>2 DEF Prefixed, Prefixes
    <2>2. m \in Configured
      BY <2>1, NamespaceAssumption
    <2>3. QED
      BY <2>1, <2>2 DEF PrefixClosed
  <1>3. QED
    BY <1>1, <1>2 DEF Matches

\* Whatever is watched or deleted was asked for on the command line, for every
\* configuration that is closed under its prefixes.
THEOREM ScopeDoesNotDrift ==
  ASSUME PrefixClosed
  PROVE  Spec => []StaysConfigured
  <1> DEFINE Inv == StaysConfigured /\ deletedNamespaces \subseteq Configured
  <1>1. Init => Inv
    <2> SUFFICES ASSUME Init PROVE Inv
      OBVIOUS
    <2>1. PICK existing \in SUBSET Ns : Started(Resolved(existing))
      BY DEF Init
    <2>2. Resolved(existing) \subseteq Configured
      BY NamespaceAssumption DEF Resolved, Configured
    <2>3. QED
      BY <2>1, <2>2 DEF Init, Started, StaysConfigured, Leaving
  <1>2. Inv /\ TypeOK /\ TrackingAgrees /\ [Next]_vars => Inv'
    <2> SUFFICES ASSUME Inv, TrackingAgrees, TypeOK, [Next]_vars PROVE Inv'
      OBVIOUS
    <2>0. Namespaces \subseteq Configured \cup {All}
      BY DEF StaysConfigured, TrackingAgrees
    <2>1. CASE Cluster
      BY <2>1 DEF Cluster, Tick, Create, DeletedByOthers, Removed, StaysConfigured, Leaving
    <2>2. CASE DiscoverNewNamespaces
      <3>1. \A n \in Ns : Matches(n) => n \in Configured
        BY <2>0, MatchIsConfigured
      <3>2. newNamespaces' \subseteq Configured /\ deletedNamespaces' \subseteq Configured
        BY <2>2, <3>1 DEF DiscoverNewNamespaces, Undiscovered, Vanished, TypeOK
      <3>3. \A n \in Ns : worker'[n] # "none" => n \in Configured /\ worker'[n] # "unlist"
        BY <2>2, <3>1 DEF DiscoverNewNamespaces, Stale
      <3>4. Leaving' = {} /\ UNCHANGED WatchedNamespaces
        BY <2>2, <3>3 DEF DiscoverNewNamespaces, Leaving
      <3>5. QED
        BY <3>2, <3>3, <3>4 DEF StaysConfigured
    <2>3. CASE Discovery /\ ~DiscoverNewNamespaces
      <3>1. WatchedNamespaces' \subseteq WatchedNamespaces \cup newNamespaces
        BY <2>3 DEF Discovery, ForgetVanished, UnlistVanished, StartDeletions, DeletionsDone,
                    Track, StartWatching, PollCompleted
      <3>2. /\ newNamespaces' \subseteq newNamespaces /\ UNCHANGED worker
            /\ deletedNamespaces' \subseteq deletedNamespaces
        BY <2>3 DEF Discovery, ForgetVanished, UnlistVanished, StartDeletions, DeletionsDone,
                    Track, StartWatching, PollCompleted
      <3>3. poller' = "unlist" => current' \in deletedNamespaces
        BY <2>3 DEF Discovery, ForgetVanished, UnlistVanished, StartDeletions, DeletionsDone,
                    Track, StartWatching, PollCompleted
      <3>4. QED
        BY <3>1, <3>2, <3>3 DEF StaysConfigured, Leaving
    <2>4. ASSUME NEW n \in Ns, TriggerNamespaceDeletion(n) PROVE Inv'
      <3>1. /\ poller = "delete" /\ UNCHANGED poll
            /\ worker'[n] # "none" => worker[n] # "none"
            /\ \A m \in Ns \ {n} : worker'[m] = worker[m]
            /\ WatchedNamespaces' \subseteq WatchedNamespaces
        BY <2>4, OneNameStep
      <3>2. \A m \in Ns : worker'[m] # "none" => m \in Configured
        BY <3>1 DEF StaysConfigured
      <3>3. Leaving' \subseteq Configured
        BY <3>1, <3>2 DEF Leaving
      <3>4. QED
        BY <3>1, <3>2, <3>3 DEF StaysConfigured
    <2>5. CASE UNCHANGED vars
      BY <2>5 DEF vars, StaysConfigured, Leaving
    <2>6. QED
      BY <2>1, <2>2, <2>3, <2>4, <2>5 DEF Next, Poller
  <1>3. QED
    BY <1>1, <1>2, TypeCorrect, TrackingAlwaysAgrees, PTL DEF Spec

-----------------------------------------------------------------------------

\* An explicit name that does not match the pattern stays in the list for ever,
\* existing or not, when no prefix of the configuration leads to it: no poll counts it
\* as vanished, and none deletes it.
THEOREM ExplicitNamesAreKept ==
  ASSUME PrefixClosed, ExplicitApart
  PROVE  Spec => []ExplicitKept
  <1> DEFINE Kept == Explicit \ PatternMatch
             Unlisted == deletedNamespaces \cup (IF poller = "unlist" THEN {current} ELSE {})
             Inv == /\ ExplicitKept /\ Unlisted \cap Kept = {}
                    /\ \A n \in Kept : worker[n] = "none"
  <1>1. Init => Inv
    <2> SUFFICES ASSUME Init PROVE Inv
      OBVIOUS
    <2>1. PICK existing \in SUBSET Ns : Started(Resolved(existing))
      BY DEF Init
    <2>2. Explicit \subseteq Resolved(existing) /\ Explicit \subseteq Ns
      BY NamespaceAssumption DEF Resolved
    <2>3. QED
      BY <2>1, <2>2 DEF Init, Started, ExplicitKept
  <1>2. Inv /\ TypeOK /\ StaysConfigured /\ TrackingAgrees /\ [Next]_vars => Inv'
    <2> SUFFICES ASSUME Inv, TypeOK, StaysConfigured, TrackingAgrees, [Next]_vars PROVE Inv'
      OBVIOUS
    <2>0. ASSUME NEW n \in Kept PROVE n \in Ns /\ ~Matches(n)
      <3>1. Namespaces \cap Ns \subseteq Configured
        BY NamespaceAssumption DEF StaysConfigured, TrackingAgrees
      <3>2. ~Prefixed(n, Prefixes(Namespaces))
        BY <2>0, <3>1 DEF Prefixed, Prefixes, ExplicitApart
      <3>3. QED
        BY <2>0, <3>2, NamespaceAssumption DEF Matches
    <2>1. CASE Cluster
      BY <2>1 DEF Cluster, Tick, Create, DeletedByOthers, Removed, ExplicitKept
    <2>2. CASE DiscoverNewNamespaces
      <3>1. \A n \in Kept : n \notin Vanished /\ n \notin Stale
        BY <2>0 DEF Vanished, Stale
      <3>2. \A n \in Kept : worker'[n] = "none"
        BY <2>0, <2>2, <3>1 DEF DiscoverNewNamespaces
      <3>3. Unlisted' = Vanished /\ UNCHANGED Namespaces
        BY <2>2 DEF DiscoverNewNamespaces
      <3>4. QED
        BY <3>1, <3>2, <3>3 DEF ExplicitKept
    <2>3. CASE Discovery /\ ~DiscoverNewNamespaces
      <3>1. Namespaces \ Unlisted \subseteq Namespaces' /\ UNCHANGED worker
        BY <2>3 DEF Discovery, ForgetVanished, UnlistVanished, StartDeletions, DeletionsDone,
                    Track, StartWatching, PollCompleted
      <3>2. Unlisted' \subseteq Unlisted
        BY <2>3 DEF Discovery, ForgetVanished, UnlistVanished, StartDeletions, DeletionsDone,
                    Track, StartWatching, PollCompleted
      <3>3. QED
        BY <3>1, <3>2 DEF ExplicitKept
    <2>4. ASSUME NEW n \in Ns, TriggerNamespaceDeletion(n) PROVE Inv'
      <3>1. worker[n] # "none"
        BY <2>4 DEF TriggerNamespaceDeletion, RemoveFinalizers, AlreadyGone, DeleteNamespace,
                    DeleteFails, Untrack, Unlist
      <3>2. n \notin Kept
        BY <3>1
      <3>3. /\ Namespaces \ {n} \subseteq Namespaces' /\ UNCHANGED poll
            /\ \A m \in Ns : m # n => worker'[m] = worker[m]
        BY <2>4, OneNameStep
      <3>4. QED
        BY <2>0, <3>2, <3>3 DEF ExplicitKept
    <2>5. CASE UNCHANGED vars
      BY <2>5 DEF vars, ExplicitKept
    <2>6. QED
      BY <2>1, <2>2, <2>3, <2>4, <2>5 DEF Next, Poller
  <1>3. QED
    BY <1>1, <1>2, TypeCorrect, TrackingAlwaysAgrees, ScopeDoesNotDrift, PTL DEF Spec

-----------------------------------------------------------------------------

\* What a goroutine is to delete exists and is past the stale age, from the list
\* (healer.go:1982) to its DELETE, or its name has been set free since the list.
StaleSinceList ==
    \A n \in Ns : worker[n] \in {"finalizers", "delete"} =>
        n \in replaced \/ (Exists(n) /\ ns[n].age > StaleAge)

LEMMA StaleSinceListStep ==
  ASSUME TypeOK, StaleSinceList, [Next]_vars
  PROVE  StaleSinceList'
  <1>0. ns \in [Ns -> Object] /\ worker \in [Ns -> {"none", "finalizers", "delete", "untrack", "unlist"}]
    BY DEF TypeOK
  <1>1. CASE Tick
    <2>1. ASSUME NEW n \in Ns, ns[n].age > StaleAge PROVE ns'[n] = ns[n]
      <3>1. ns[n].age \in Nat /\ StaleAge \in Nat
        BY <1>0, NamespaceAssumption DEF Object
      <3>2. ~(ns[n].age <= StaleAge)
        BY <2>1, <3>1
      <3>3. QED
        BY <1>1, <3>2 DEF Tick
    <2>2. QED
      BY <1>1, <2>1 DEF Tick, StaleSinceList, Exists
  <1>2. ASSUME NEW n \in Ns, Create(n) \/ DeletedByOthers(n) \/ Removed(n)
        PROVE  StaleSinceList'
    <2>1. \A m \in Ns : m # n => ns'[m] = ns[m]
      BY <1>0, <1>2 DEF Create, DeletedByOthers, Removed
    <2>2. UNCHANGED worker /\ replaced \subseteq replaced'
      BY <1>2 DEF Create, DeletedByOthers, Removed
    <2>3. worker[n] \in {"finalizers", "delete"} =>
            n \in replaced' \/ (Exists(n)' /\ ns'[n].age > StaleAge)
      BY <1>0, <1>2 DEF Create, DeletedByOthers, Removed, StaleSinceList, Exists, Object
    <2>4. QED
      BY <2>1, <2>2, <2>3 DEF StaleSinceList, Exists
  <1>3. CASE DiscoverNewNamespaces
    BY <1>0, <1>3 DEF DiscoverNewNamespaces, Stale, StaleSinceList, Exists
  <1>4. CASE Discovery /\ ~DiscoverNewNamespaces
    BY <1>4 DEF Discovery, ForgetVanished, UnlistVanished, StartDeletions, DeletionsDone,
                Track, StartWatching, PollCompleted, StaleSinceList, Exists
  <1>5. ASSUME NEW n \in Ns, TriggerNamespaceDeletion(n)
        PROVE  StaleSinceList'
    <2>1. \A m \in Ns : m # n => ns'[m] = ns[m] /\ worker'[m] = worker[m]
      BY <1>0, <1>5 DEF TriggerNamespaceDeletion, RemoveFinalizers, AlreadyGone, DeleteNamespace,
                        DeleteFails, Untrack, Unlist
    <2>2. UNCHANGED replaced
      BY <1>5 DEF TriggerNamespaceDeletion, RemoveFinalizers, AlreadyGone, DeleteNamespace,
                  DeleteFails, Untrack, Unlist
    <2>3. worker'[n] \in {"finalizers", "delete"} =>
            /\ worker[n] \in {"finalizers", "delete"}
            /\ ns'[n].phase = ns[n].phase /\ ns'[n].age = ns[n].age
      BY <1>0, <1>5 DEF TriggerNamespaceDeletion, RemoveFinalizers, AlreadyGone, DeleteNamespace,
                        DeleteFails, Untrack, Unlist, Object
    <2>4. QED
      BY <2>1, <2>2, <2>3 DEF StaleSinceList, Exists
  <1>6. CASE UNCHANGED vars
    BY <1>6 DEF vars, StaleSinceList, Exists
  <1>7. QED
    BY <1>1, <1>2, <1>3, <1>4, <1>5, <1>6 DEF Next, Cluster, Poller

\* However long the goroutines and their failing calls take, and whoever else deletes
\* and creates namespaces, a poll deletes a namespace that is past the stale age, or
\* one that took the name of such a namespace after the poll's list.
THEOREM YoungNamespacesAreSafe == Spec => OnlyStaleDeleted
  <1>1. Init => StaleSinceList
    BY DEF Init, StaleSinceList
  <1>2. TypeOK /\ StaleSinceList /\ [Next]_vars => StaleSinceList'
    BY StaleSinceListStep
  <1>3. StaleSinceList =>
          [\A n \in Ns : Deletes(n) => ns[n].age > StaleAge \/ n \in replaced]_vars
    BY DEF StaleSinceList, Deletes
  <1>4. QED
    BY <1>1, <1>2, <1>3, TypeCorrect, PTL DEF Spec, OnlyStaleDeleted
=============================================================================
