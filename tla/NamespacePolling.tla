-------------------------- MODULE NamespacePolling --------------------------
(***************************************************************************)
(* Namespace discovery and clean-up: which namespaces the healer watches.  *)
(*                                                                         *)
(* main.resolveWildcardNamespaces makes the initial list, Healer.Watch     *)
(* starts one pod informer for each of its entries, and the polling        *)
(* goroutine (discoverNewNamespaces) then compares the list with the       *)
(* cluster: it forgets watched namespaces that are gone, deletes matching  *)
(* ones older than StaleAge, and starts an informer for each new match.    *)
(*                                                                         *)
(* A name is a model value.  What strings.HasPrefix, filepath.Match and    *)
(* the extraction of a prefix say of names is given by the constants.      *)
(* A poll computes all it will do from one list of the cluster and then    *)
(* does it, name by name: the map and the list of namespaces are under two *)
(* mutexes and change in two critical sections, and each deletion runs in  *)
(* a goroutine of its own.                                                 *)
(***************************************************************************)
EXTENDS Naturals

CONSTANTS
    Ns,             \* namespace names
    All,            \* metav1.NamespaceAll, the empty name
    None,           \* no prefix, no name
    Explicit,       \* names in --namespaces without a wildcard
    Wildcard,       \* names that match a wildcard in --namespaces
    PatternMatch,   \* names that match Healer.NamespacePattern
    PollingOn,      \* EnableNamespacePolling and a NamespacePattern
    PrefixOf,       \* PrefixOf[n]: n up to its last separator, or None
    HasPrefix,      \* HasPrefix[x]: the names that start with prefix x
    Excluded,       \* Healer.ExcludedNamespaces
    StaleAge,       \* Healer.StaleAge, in ticks
    CleanupFinalizers,  \* Healer.CleanupFinalizers
    Finalized,      \* names whose namespaces are created with finalizers
    CallsFail,      \* API calls may fail
    OthersDelete,   \* somebody else deletes namespaces too
    InformerBound   \* bound: informers of one namespace are counted up to it

ASSUME NamespaceAssumption ==
    /\ All \notin Ns /\ None \notin Ns
    /\ Explicit \cup Wildcard \cup PatternMatch \cup Excluded \cup Finalized \subseteq Ns
    /\ PrefixOf \in [Ns -> DOMAIN HasPrefix \cup {None}]
    /\ HasPrefix \in [DOMAIN HasPrefix -> SUBSET Ns]
    /\ \A n \in Ns : PrefixOf[n] # None => n \in HasPrefix[PrefixOf[n]]
    /\ StaleAge \in Nat
    /\ {PollingOn, CleanupFinalizers, CallsFail, OthersDelete} \subseteq BOOLEAN
    /\ InformerBound \in Nat \ {0}

VARIABLES
    ns,                 \* the cluster: ns[n]
    WatchedNamespaces,  \* the map of that name, as the set of its keys
    Namespaces,         \* the list of that name, as a set
    informers,          \* how many pod informers of each namespace run
    poller,             \* where discoverNewNamespaces is
    deletedNamespaces,  \* its local variables of these names, what is left to do
    newNamespaces,
    current,            \* the name it has changed the map for, but not yet the list
    worker,             \* worker[n]: where triggerNamespaceDeletion(n) is
    replaced            \* history: names whose namespace has gone since the list

tracking == <<WatchedNamespaces, Namespaces>>
poll == <<poller, deletedNamespaces, newNamespaces, current>>
vars == <<ns, tracking, informers, poll, worker, replaced>>

Object == [phase : {"Absent", "Active", "Terminating"}, age : 0..(StaleAge + 1),
           finalizers : BOOLEAN]

Absent == [phase |-> "Absent", age |-> 0, finalizers |-> FALSE]
Created(n) == [phase |-> "Active", age |-> 0, finalizers |-> n \in Finalized]

Exists(n) == ns[n].phase # "Absent"

-----------------------------------------------------------------------------
(* The namespaces of the cluster *)

Create(n) ==
    /\ ~Exists(n)
    /\ ns' = [ns EXCEPT ![n] = Created(n)]
    /\ UNCHANGED <<tracking, informers, poll, worker, replaced>>

DeletedByOthers(n) ==
    /\ OthersDelete /\ ns[n].phase = "Active"
    /\ ns' = [ns EXCEPT ![n].phase = "Terminating"]
    /\ UNCHANGED <<tracking, informers, poll, worker, replaced>>

\* The namespace controller removes a terminating namespace once nothing
\* holds a finalizer on it.
Removed(n) ==
    /\ ns[n].phase = "Terminating" /\ ~ns[n].finalizers
    /\ ns' = [ns EXCEPT ![n] = Absent]
    /\ replaced' = replaced \cup {n}
    /\ UNCHANGED <<tracking, informers, poll, worker>>

Tick ==
    /\ ns' = [n \in Ns |-> IF Exists(n) /\ ns[n].age <= StaleAge
                           THEN [ns[n] EXCEPT !.age = @ + 1] ELSE ns[n]]
    /\ UNCHANGED <<tracking, informers, poll, worker, replaced>>

-----------------------------------------------------------------------------
(* Start-up *)

\* main.extractPrefixesFromNamespaces and its twin in the healer.
PrefixesMut(names) == {PrefixOf[n] : n \in (names \cap Ns) \cup {m \in Ns : Exists(m)}} \ {None}
Prefixes(names) == {PrefixOf[n] : n \in names \cap Ns} \ {None}

Prefixed(n, prefixes) == \E x \in prefixes : n \in HasPrefix[x]

\* main.resolveWildcardNamespaces: the explicit names, existing or not, and the
\* existing ones that match a wildcard or share a prefix with an explicit name.
Resolved(existing) ==
    Explicit \cup (existing \cap Wildcard)
             \cup {n \in existing : Prefixed(n, Prefixes(Explicit))}

\* NewHealer marks the resolved namespaces as watched; Watch turns an empty
\* list into NamespaceAll and starts an informer for each entry.
Started(resolved) ==
    /\ WatchedNamespaces = resolved
    /\ Namespaces = IF resolved = {} THEN {All} ELSE resolved
    /\ informers = [n \in Ns \cup {All} |-> IF n \in Namespaces THEN 1 ELSE 0]

-----------------------------------------------------------------------------
(* discoverNewNamespaces *)

\* A name matches the pattern or a prefix of a namespace now in the list.
Matches(n) == n \in PatternMatch \/ Prefixed(n, Prefixes(Namespaces))

UndiscoveredMut == {n \in Ns \ Excluded : Exists(n) /\ Matches(n) /\ n \notin WatchedNamespaces}

Undiscovered ==
    {n \in Ns : Exists(n) /\ Matches(n) /\ n \notin WatchedNamespaces}

VanishedMut == {n \in WatchedNamespaces : ~Exists(n)}
Vanished == {n \in WatchedNamespaces : ~Exists(n) /\ Matches(n)}

\* What checkAndDeleteStaleNamespaces collects.
StaleMut == {n \in Ns \ Excluded : Matches(n) /\ ns[n].phase = "Active"}
Stale == {n \in Ns \ Excluded : Matches(n) /\ ns[n].phase = "Active" /\ ns[n].age > StaleAge}

\* The list call and all that is computed from it.
DiscoverNewNamespaces ==
    /\ PollingOn /\ poller = "idle"
    /\ deletedNamespaces' = Vanished
    /\ newNamespaces' = Undiscovered
    /\ worker' = [n \in Ns |->
                    IF n \notin Stale THEN "none"
                    ELSE IF CleanupFinalizers /\ ns[n].finalizers THEN "finalizers" ELSE "delete"]
    /\ replaced' = {}
    /\ poller' = "forget"
    /\ UNCHANGED <<ns, tracking, informers, current>>

\* The removal of a vanished namespace, from the map and then from the list.
ForgetVanished ==
    /\ poller = "forget"
    /\ \E n \in deletedNamespaces :
         /\ WatchedNamespaces' = WatchedNamespaces \ {n}
         /\ deletedNamespaces' = deletedNamespaces \ {n}
         /\ current' = n
    /\ poller' = "unlist"
    /\ UNCHANGED <<ns, Namespaces, informers, newNamespaces, worker, replaced>>

UnlistVanished ==
    /\ poller = "unlist"
    /\ Namespaces' = Namespaces \ {current}
    /\ poller' = "forget" /\ current' = None
    /\ UNCHANGED <<ns, WatchedNamespaces, informers, deletedNamespaces, newNamespaces, worker, replaced>>

\* checkAndDeleteStaleNamespaces: the goroutines start, and all return (wg.Wait).
StartDeletions ==
    /\ poller = "forget" /\ deletedNamespaces = {}
    /\ poller' = "delete"
    /\ UNCHANGED <<ns, tracking, informers, deletedNamespaces, newNamespaces, current, worker, replaced>>

DeletionsDoneMut ==
    /\ poller = "delete"
    /\ poller' = "track"
    /\ UNCHANGED <<ns, tracking, informers, deletedNamespaces, newNamespaces, current, worker, replaced>>

DeletionsDone ==
    /\ poller = "delete" /\ \A n \in Ns : worker[n] = "none"
    /\ poller' = "track"
    /\ UNCHANGED <<ns, tracking, informers, deletedNamespaces, newNamespaces, current, worker, replaced>>

\* What was new in the list enters the map, then the list, and gets an informer.
Track ==
    /\ poller = "track"
    /\ \E n \in newNamespaces :
         /\ WatchedNamespaces' = WatchedNamespaces \cup {n}
         /\ newNamespaces' = newNamespaces \ {n}
         /\ current' = n
    /\ poller' = "enlist"
    /\ UNCHANGED <<ns, Namespaces, informers, deletedNamespaces, worker, replaced>>

StartWatching ==
    /\ poller = "enlist"
    /\ Namespaces' = Namespaces \cup {current}
    /\ informers' = [informers EXCEPT ![current] = IF @ < InformerBound THEN @ + 1 ELSE @]
    /\ poller' = "track" /\ current' = None
    /\ UNCHANGED <<ns, WatchedNamespaces, deletedNamespaces, newNamespaces, worker, replaced>>

PollCompleted ==
    /\ poller = "track" /\ newNamespaces = {}
    /\ poller' = "idle"
    /\ UNCHANGED <<ns, tracking, informers, deletedNamespaces, newNamespaces, current, worker, replaced>>

Discovery ==
    \/ DiscoverNewNamespaces \/ ForgetVanished \/ UnlistVanished \/ StartDeletions
    \/ DeletionsDone \/ Track \/ StartWatching \/ PollCompleted

-----------------------------------------------------------------------------
(* triggerNamespaceDeletion, one goroutine per stale namespace *)

\* Get finds the namespace and Update clears its finalizers, or one of them
\* fails and the deletion goes on all the same.
RemoveFinalizersMut(n) ==
    /\ poller = "delete" /\ worker[n] = "finalizers" /\ Exists(n)
    /\ worker' = [worker EXCEPT ![n] = "delete"]
    /\ UNCHANGED <<ns, tracking, informers, poll, replaced>>

RemoveFinalizers(n) ==
    /\ poller = "delete" /\ worker[n] = "finalizers" /\ Exists(n)
    /\ \/ ns' = [ns EXCEPT ![n].finalizers = FALSE]
       \/ CallsFail /\ UNCHANGED ns
    /\ worker' = [worker EXCEPT ![n] = "delete"]
    /\ UNCHANGED <<tracking, informers, poll, replaced>>

\* Get, Update or Delete answers NotFound.
AlreadyGone(n) ==
    /\ poller = "delete" /\ worker[n] \in {"finalizers", "delete"} /\ ~Exists(n)
    /\ worker' = [worker EXCEPT ![n] = "untrack"]
    /\ UNCHANGED <<ns, tracking, informers, poll, replaced>>

\* The namespace of that name, whichever it is by now, starts to terminate.
DeleteNamespace(n) ==
    /\ poller = "delete" /\ worker[n] = "delete" /\ Exists(n)
    /\ ns' = [ns EXCEPT ![n].phase = "Terminating"]
    /\ worker' = [worker EXCEPT ![n] = "untrack"]
    /\ UNCHANGED <<tracking, informers, poll, replaced>>

DeleteFails(n) ==
    /\ CallsFail /\ poller = "delete" /\ worker[n] = "delete" /\ Exists(n)
    /\ worker' = [worker EXCEPT ![n] = "none"]
    /\ UNCHANGED <<ns, tracking, informers, poll, replaced>>

\* removeNamespaceFromTracking, in two critical sections.
UntrackMut(n) ==
    /\ worker[n] = "untrack"
    /\ WatchedNamespaces' = WatchedNamespaces \ {n}
    /\ worker' = [worker EXCEPT ![n] = "none"]
    /\ UNCHANGED <<ns, Namespaces, informers, poll, replaced>>

Untrack(n) ==
    /\ worker[n] = "untrack"
    /\ WatchedNamespaces' = WatchedNamespaces \ {n}
    /\ worker' = [worker EXCEPT ![n] = "unlist"]
    /\ UNCHANGED <<ns, Namespaces, informers, poll, replaced>>

Unlist(n) ==
    /\ worker[n] = "unlist"
    /\ Namespaces' = Namespaces \ {n}
    /\ worker' = [worker EXCEPT ![n] = "none"]
    /\ UNCHANGED <<ns, WatchedNamespaces, informers, poll, replaced>>

-----------------------------------------------------------------------------

Init ==
    /\ \E existing \in SUBSET Ns :
         /\ ns = [n \in Ns |-> IF n \in existing THEN Created(n) ELSE Absent]
         /\ Started(Resolved(existing))
    /\ poller = "idle" /\ current = None
    /\ deletedNamespaces = {} /\ newNamespaces = {}
    /\ worker = [n \in Ns |-> "none"]
    /\ replaced = {}

Cluster == Tick \/ \E n \in Ns : Create(n) \/ DeletedByOthers(n) \/ Removed(n)

TriggerNamespaceDeletion(n) ==
    \/ RemoveFinalizers(n) \/ AlreadyGone(n) \/ DeleteNamespace(n) \/ DeleteFails(n)
    \/ Untrack(n) \/ Unlist(n)

Poller == Discovery \/ \E n \in Ns : TriggerNamespaceDeletion(n)

Next == Cluster \/ Poller

Spec == Init /\ [][Next]_vars

\* The poll ticker fires, goroutines run, calls that are repeated for ever do
\* not fail for ever, and the namespace controller does its work.
Fairness ==
    /\ WF_vars(Tick)
    /\ WF_vars(Discovery)
    /\ \A n \in Ns :
         /\ WF_vars(TriggerNamespaceDeletion(n))
         /\ SF_vars(DeleteNamespace(n))
         /\ WF_vars(Removed(n))

FairSpec == Spec /\ Fairness

-----------------------------------------------------------------------------
(* Properties *)

\* The state has its shape: what a poll has in hand is of its phase.
TypeOK ==
    /\ ns \in [Ns -> Object]
    /\ WatchedNamespaces \in SUBSET Ns
    /\ Namespaces \in SUBSET (Ns \cup {All})
    /\ informers \in [Ns \cup {All} -> 0..InformerBound]
    /\ poller \in {"idle", "forget", "unlist", "delete", "track", "enlist"}
    /\ {deletedNamespaces, newNamespaces, replaced} \subseteq SUBSET Ns
    /\ current \in Ns \cup {None}
    /\ current # None <=> poller \in {"unlist", "enlist"}
    /\ worker \in [Ns -> {"none", "finalizers", "delete", "untrack", "unlist"}]
    /\ deletedNamespaces # {} => poller \in {"forget", "unlist"}
    /\ newNamespaces # {} => poller # "idle"
    /\ poller \in {"idle", "track", "enlist"} => \A n \in Ns : worker[n] = "none"
    /\ poller # "delete" => \A n \in Ns : worker[n] \in {"none", "finalizers", "delete"}

\* What a goroutine has taken from the map and is about to take from the list, and
\* what the poll has put into the map and is about to put into the list.
Leaving == {n \in Ns : worker[n] = "unlist" \/ (poller = "unlist" /\ n = current)}
Entering == {n \in Ns : poller = "enlist" /\ n = current}

\* The map that decides what is new (healer.go:1820) and the list that the VM, CRD
\* and optimization loops read (healer.go:910) are changed from three places, each in
\* two critical sections, and read in between: they differ by what is in hand and by
\* nothing else, so that they agree when no poll is under way and no name is appended
\* to the list twice; and what the list holds has a pod informer.
TrackingAgrees ==
    /\ Namespaces \ {All} = (WatchedNamespaces \cup (Leaving \cap Namespaces)) \ Entering
    /\ \A n \in Namespaces : informers[n] > 0

\* What the command line asks for: its names, what its wildcards and its
\* pattern match, and what shares a prefix with one of its names.
Configured == Explicit \cup Wildcard \cup PatternMatch
                \cup {n \in Ns : Prefixed(n, Prefixes(Explicit))}

\* A discovered namespace becomes the seed of a prefix of its own, so the scope
\* can grow from poll to poll.  It does not when no configured name has a prefix
\* that leads out of the configuration (as for "test-*").
PrefixClosed == \A n \in Configured : PrefixOf[n] # None => HasPrefix[PrefixOf[n]] \subseteq Configured

\* "(derived from provided namespaces)" (README.md:293): whatever is watched, about to
\* be watched or being deleted was asked for.
StaysConfigured ==
    /\ WatchedNamespaces \cup Leaving \cup newNamespaces \subseteq Configured
    /\ \A n \in Ns : worker[n] # "none" => n \in Configured

\* "Namespaces that don't match the pattern were explicitly specified and
\* should be kept" (healer.go:1872).
ExplicitKept == Explicit \ PatternMatch \subseteq Namespaces

\* It takes that no prefix of the configuration leads to them: a name that shares
\* one matches it, and is dropped when it is absent (healer.go:1873).
ExplicitApart ==
    \A n \in Explicit \ PatternMatch, m \in Configured :
        PrefixOf[m] # None => n \notin HasPrefix[PrefixOf[m]]

\* A poll deletes what is past the stale age by then, or has taken the name of
\* such a namespace since the list (the deletion carries the name alone,
\* healer.go:2064): never for what an earlier poll, or another name, showed.
Deletes(n) == worker[n] = "delete" /\ worker'[n] = "untrack"
                /\ ns[n].phase = "Active" /\ ns'[n].phase = "Terminating"
OnlyStaleDeleted ==
    [][\A n \in Ns : Deletes(n) => ns[n].age > StaleAge \/ n \in replaced]_vars

\* "Automatically deletes namespaces that match the pattern and are older than the
\* stale age threshold" (README.md:310-311).
YoungSpared == [][\A n \in Ns : Deletes(n) => ns[n].age > StaleAge]_vars

\* A namespace that matches the pattern is watched in the end, or goes.
DiscoveredEventually ==
    \A n \in Configured : Exists(n) ~> n \in WatchedNamespaces \/ ~Exists(n)

\* A matching namespace past the stale age that is not excluded goes in the end,
\* its finalizers notwithstanding: clean-up is there for those that would stay.
StaleEventuallyGone ==
    \A n \in PatternMatch \ Excluded : ns[n].age > StaleAge ~> ~Exists(n)
=============================================================================
