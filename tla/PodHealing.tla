----------------------------- MODULE PodHealing -----------------------------
(***************************************************************************)
(* The pod healing path of pkg/healer: pod informers deliver update events *)
(* to Healer.checkAndHealPod, which force-deletes an owned pod that is in  *)
(* CrashLoopBackOff with DefaultRestartThreshold restarts, at most once a  *)
(* cooldown per "namespace/name" key.                                      *)
(*                                                                         *)
(* An informer calls its handler for one event at a time, but the handler  *)
(* holds healedPodsMu only to read the map and, later, to write it: the    *)
(* look-up, the API call and the recording are three steps here, and other *)
(* informers, the cache cleaner, the memory guard and the cluster move     *)
(* between them.  An event carries the pod as it was when the event was    *)
(* queued; the deletion names the pod only by its key.                     *)
(*                                                                         *)
(* HealedPods holds ages instead of time stamps (now - lastHeal): the code *)
(* compares them with HealCooldown and 2*HealCooldown and with nothing     *)
(* else, so an age saturates one past the larger.                          *)
(***************************************************************************)
EXTENDS Naturals, Sequences

CONSTANTS
    Pod,                \* the pod keys, "namespace/name"
    Owned,              \* those with an owner reference
    Informer,           \* the pod informers that are running
    Watches,            \* Watches[i]: the pods of the namespace of informer i
    HealCooldown,       \* Healer.HealCooldown, in ticks
    RestartThreshold,   \* util.DefaultRestartThreshold
    QueueBound,         \* bound: events waiting at one informer
    MemoryLimited,      \* MemoryLimitMB > 0: the memory guard may sanitize
    OthersDelete,       \* somebody else deletes pods too
    None                \* "no entry in the map"

ASSUME PodAssumption ==
    /\ Owned \subseteq Pod
    /\ Watches \in [Informer -> SUBSET Pod]
    /\ HealCooldown \in Nat \ {0}
    /\ RestartThreshold \in Nat
    /\ QueueBound \in Nat
    /\ {MemoryLimited, OthersDelete} \subseteq BOOLEAN
    /\ None \notin Nat \cup Pod

VARIABLES
    pod,        \* the cluster: pod[p], the incarnation that has the key p
    queue,      \* queue[i]: update events informer i has yet to handle
    handler,    \* handler[i]: where checkAndHealPod of informer i is
    HealedPods, \* the age of the entry of each key, or None
    since, odd  \* history, as in CooldownGate, of the deletion calls of each
                \* informer for each key

vars == <<pod, queue, handler, HealedPods, since, odd>>
history == <<since, odd>>

OldAge == 2 * HealCooldown + 1
Age == 0..OldAge

Status == [exists : BOOLEAN, backOff : BOOLEAN, restarts : 0..RestartThreshold]

Event == [key : Pod, unhealthy : BOOLEAN]

EventOf(i) == {e \in Event : e.key \in Watches[i]}

Handler == [pc : {"idle", "delete", "record"}, key : Pod \cup {None}]
Idle == [pc |-> "idle", key |-> None]

Fresh == [exists |-> TRUE, backOff |-> FALSE, restarts |-> 0]
Gone  == [exists |-> FALSE, backOff |-> FALSE, restarts |-> 0]

-----------------------------------------------------------------------------
(* util.IsUnhealthy *)

IsUnhealthy(st) == st.backOff /\ st.restarts >= RestartThreshold

-----------------------------------------------------------------------------
(* Events *)

UpdateEvent(p, st) == [key |-> p, unhealthy |-> IsUnhealthy(st)]

HasRoom(p) == \A i \in Informer : p \in Watches[i] => Len(queue[i]) < QueueBound

\* Every informer of p's namespace hears that p now has status st.
Notify(p, st) ==
    queue' = [i \in Informer |->
                IF p \in Watches[i] THEN Append(queue[i], UpdateEvent(p, st))
                                    ELSE queue[i]]

-----------------------------------------------------------------------------
(* The cluster *)

\* The container runs again: kubelet counts one more restart.
Restarts(p) ==
    /\ pod[p].exists /\ pod[p].backOff /\ HasRoom(p)
    /\ LET st == [pod[p] EXCEPT !.backOff = FALSE,
                                !.restarts = IF @ < RestartThreshold THEN @ + 1 ELSE @]
       IN  pod' = [pod EXCEPT ![p] = st] /\ Notify(p, st)
    /\ UNCHANGED <<handler, HealedPods, history>>

\* The container fails and waits in CrashLoopBackOff.
Crashes(p) ==
    /\ pod[p].exists /\ ~pod[p].backOff /\ HasRoom(p)
    /\ LET st == [pod[p] EXCEPT !.backOff = TRUE]
       IN  pod' = [pod EXCEPT ![p] = st] /\ Notify(p, st)
    /\ UNCHANGED <<handler, HealedPods, history>>

\* The controller creates the pod anew under its old name.  The informer calls
\* AddFunc, which heals nothing.
Recreate(p) ==
    /\ ~pod[p].exists
    /\ pod' = [pod EXCEPT ![p] = Fresh]
    /\ UNCHANGED <<queue, handler, HealedPods, history>>

DeletedByOthers(p) ==
    /\ OthersDelete /\ pod[p].exists
    /\ pod' = [pod EXCEPT ![p] = Gone]
    /\ UNCHANGED <<queue, handler, HealedPods, history>>

Tick ==
    /\ HealedPods' = [p \in Pod |-> IF HealedPods[p] \in 0..(OldAge - 1)
                                    THEN HealedPods[p] + 1 ELSE HealedPods[p]]
    /\ since' = [w \in Informer \X Pod |->
                   IF since[w] < HealCooldown THEN since[w] + 1 ELSE since[w]]
    /\ UNCHANGED <<pod, queue, handler, odd>>

-----------------------------------------------------------------------------
(* The informers: watchSingleNamespace *)

\* The five-minute resync hands the cached pod to UpdateFunc again.
ResyncMut(i, p) ==
    /\ p \in Watches[i] /\ pod[p].exists /\ HealedPods[p] # None
    /\ Len(queue[i]) < QueueBound
    /\ queue' = [queue EXCEPT ![i] = Append(@, UpdateEvent(p, pod[p]))]
    /\ UNCHANGED <<pod, handler, HealedPods, history>>

Resync(i, p) ==
    /\ p \in Watches[i] /\ pod[p].exists
    /\ Len(queue[i]) < QueueBound
    /\ queue' = [queue EXCEPT ![i] = Append(@, UpdateEvent(p, pod[p]))]
    /\ UNCHANGED <<pod, handler, HealedPods, history>>

-----------------------------------------------------------------------------
(* checkAndHealPod *)

RecentlyHealedMut(p) == HealedPods[p] # None /\ HealedPods[p] + 1 < HealCooldown
RecentlyHealed(p) == HealedPods[p] # None /\ HealedPods[p] < HealCooldown

NeedsHealing(e) == e.key \in Owned /\ ~RecentlyHealed(e.key) /\ e.unhealthy

\* The owner test, the cooldown look-up under RLock and IsUnhealthy.
CheckAndHealPod(i) ==
    /\ handler[i].pc = "idle" /\ queue[i] # <<>>
    /\ LET e == Head(queue[i]) IN
         handler' = [handler EXCEPT ![i] =
                       IF NeedsHealing(e)
                       THEN [pc |-> "delete", key |-> e.key] ELSE Idle]
    /\ queue' = [queue EXCEPT ![i] = Tail(@)]
    /\ UNCHANGED <<pod, HealedPods, history>>

Called(i) ==
    LET w == <<i, handler[i].key>> IN
    /\ since' = [since EXCEPT ![w] = 0]
    /\ odd' = [odd EXCEPT ![w] = ~odd[w]]

\* The API server removes the pod at once (no grace period) whatever
\* incarnation now has the name.  A call that times out may have been applied:
\* the caller does not look at the outcome.
TriggerPodDeletionApplied(i) ==
    /\ handler[i].pc = "delete"
    /\ pod' = [pod EXCEPT ![handler[i].key] = Gone]
    /\ handler' = [handler EXCEPT ![i].pc = "record"]
    /\ Called(i)
    /\ UNCHANGED <<queue, HealedPods>>

TriggerPodDeletionFailed(i) ==
    /\ handler[i].pc = "delete"
    /\ handler' = [handler EXCEPT ![i].pc = "record"]
    /\ Called(i)
    /\ UNCHANGED <<pod, queue, HealedPods>>

RecordHealMut(i) ==
    /\ handler[i].pc = "record"
    /\ handler' = [handler EXCEPT ![i] = Idle]
    /\ UNCHANGED <<pod, queue, HealedPods, history>>

RecordHeal(i) ==
    /\ handler[i].pc = "record"
    /\ HealedPods' = [HealedPods EXCEPT ![handler[i].key] = 0]
    /\ handler' = [handler EXCEPT ![i] = Idle]
    /\ UNCHANGED <<pod, queue, history>>

-----------------------------------------------------------------------------
(* The goroutines that share the map *)

\* The key is forgotten once its age is past twice the cooldown.
ForgottenMut(p) == HealedPods[p] # None /\ HealedPods[p] < 2 * HealCooldown
Forgotten(p) == HealedPods[p] # None /\ HealedPods[p] > 2 * HealCooldown

\* startHealCacheCleaner, one pass over HealedPods under its lock.
CleanHealedPods ==
    /\ \E p \in Pod : Forgotten(p)
    /\ HealedPods' = [p \in Pod |-> IF Forgotten(p) THEN None ELSE HealedPods[p]]
    /\ UNCHANGED <<pod, queue, handler, history>>

\* checkMemory found the heap over the limit: the cooldowns are forgotten with
\* the entries.
Forget ==
    /\ MemoryLimited
    /\ HealedPods' = [p \in Pod |-> None]
    /\ since' = [w \in Informer \X Pod |-> HealCooldown]
    /\ UNCHANGED <<pod, odd>>

SanitizeReferences ==
    /\ Forget
    /\ UNCHANGED <<queue, handler>>

\* Over the limit all the same the process exits, whatever its handlers are
\* doing, and is started again.  The first list calls AddFunc.
Restart ==
    /\ Forget
    /\ queue' = [i \in Informer |-> <<>>]
    /\ handler' = [i \in Informer |-> Idle]

-----------------------------------------------------------------------------

Init ==
    /\ pod = [p \in Pod |-> Fresh]
    /\ queue = [i \in Informer |-> <<>>]
    /\ handler = [i \in Informer |-> Idle]
    /\ HealedPods = [p \in Pod |-> None]
    /\ since = [w \in Informer \X Pod |-> HealCooldown]
    /\ odd = [w \in Informer \X Pod |-> FALSE]

Cluster ==
    \/ \E p \in Pod : Restarts(p) \/ Crashes(p) \/ Recreate(p) \/ DeletedByOthers(p)
    \/ Tick

Handling(i) ==
    CheckAndHealPod(i) \/ TriggerPodDeletionApplied(i) \/ TriggerPodDeletionFailed(i) \/ RecordHeal(i)

Next ==
    \/ Cluster
    \/ \E i \in Informer : Handling(i) \/ \E p \in Watches[i] : Resync(i, p)
    \/ CleanHealedPods
    \/ SanitizeReferences \/ Restart

Spec == Init /\ [][Next]_vars

\* Goroutines run, tickers tick.  A deletion that is attempted for ever succeeds
\* some time.  Resync is strongly fair only because QueueBound can disable it;
\* the informer's own buffer is unbounded.  Nothing is asked of the cluster.
Fairness ==
    /\ WF_vars(Tick)
    /\ \A i \in Informer :
         /\ WF_vars(Handling(i))
         /\ SF_vars(TriggerPodDeletionApplied(i))
         /\ \A p \in Watches[i] : SF_vars(Resync(i, p))

FairSpec == Spec /\ Fairness

-----------------------------------------------------------------------------
(* Properties *)

\* The state has its shape: handlers are busy with pods they watch, and ages
\* and queues stay within their bounds.
TypeOK ==
    /\ pod \in [Pod -> Status]
    /\ queue \in [Informer -> Seq(Event)]
    /\ \A i \in Informer : queue[i] \in Seq(EventOf(i))
    /\ handler \in [Informer -> Handler]
    /\ \A i \in Informer :
         /\ handler[i].pc = "idle" <=> handler[i].key = None
         /\ handler[i].key \in Watches[i] \cup {None}
    /\ HealedPods \in [Pod -> Age \cup {None}]
    /\ since \in [Informer \X Pod -> 0..HealCooldown]
    /\ odd \in [Informer \X Pod -> BOOLEAN]

\* "Minimum time between healing the same Pod" (cmd/main.go, the heal-cooldown
\* flag): the deletion calls of one informer for one key are at least a cooldown
\* apart, although the map is read before the call and written after it, other
\* informers of the namespace write it too, and the cleaner removes entries.  A
\* pod that k informers watch is deleted k times in a cooldown at most, and one
\* whose deletion is in flight is not deleted for the events queued before it.
Gate == INSTANCE CooldownGate WITH Key <- Informer \X Pod
CooldownRespected == Gate!Spec

\* The same words, of all informers together.
CooldownOfPod ==
    [][\A w \in Informer \X Pod : odd'[w] # odd[w] =>
         \A i \in Informer : since[<<i, w[2]>>] = HealCooldown]_vars

\* The strengthening that makes the above inductive: a handler about to delete
\* is past the cooldown, and a recent call is in HealedPods or about to be.
PendingDeletionIsDue ==
    \A i \in Informer :
        handler[i].pc = "delete" => since[<<i, handler[i].key>>] = HealCooldown

RecentCallIsRecorded ==
    \A i \in Informer, p \in Pod : since[<<i, p>>] < HealCooldown =>
        \/ HealedPods[p] # None /\ HealedPods[p] <= since[<<i, p>>]
        \/ handler[i].pc = "record" /\ handler[i].key = p

CooldownInv == TypeOK /\ PendingDeletionIsDue /\ RecentCallIsRecorded

\* A watched, owned pod does not stay past the restart threshold in
\* CrashLoopBackOff for ever: events skipped during the cooldown and deletions
\* that failed are made up for by a resync after it, unless the process restarts
\* for ever.
Unhealthy(p) == pod[p].exists /\ IsUnhealthy(pod[p])
HealedEventually ==
    \A i \in Informer : \A p \in Watches[i] \cap Owned :
        (Unhealthy(p) ~> ~Unhealthy(p)) \/ []<><<Restart>>_vars

=============================================================================
