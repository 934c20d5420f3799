----------------------------- MODULE NodeHealing -----------------------------
(***************************************************************************)
(* The node healing path of pkg/healer: one node informer delivers update  *)
(* events to Healer.checkAndHealNode, which drains a node that has been in *)
(* trouble for too long, deletes it and records the time.                  *)
(*                                                                         *)
(* The handler runs for one event at a time, for up to 30 seconds: the     *)
(* list of the node's pods, the evictions (a goroutine each) and the DELETE *)
(* share one context.  The event shows the node as it was when the event   *)
(* was queued; pods and node are addressed by name.  An eviction that is   *)
(* accepted only starts: the pod stays on its node for its grace period.   *)
(*                                                                         *)
(* HealedNodes holds ages, as in PodHealing; trouble is kept as the age of *)
(* the condition's LastTransitionTime, saturated one past its threshold.   *)
(***************************************************************************)
EXTENDS Naturals, Sequences

CONSTANTS
    Node,           \* node names
    Fragile,        \* the nodes that get into trouble
    Pod,            \* the pods that can run on them
    Evictable,      \* those with an owner, none of them a DaemonSet
    Threshold,      \* Threshold[c]: ticks that condition c is tolerated, for
                    \* c = "NotReady", "Unknown", "Pressure"
    HealCooldown,   \* Healer.HealCooldown, in ticks
    QueueBound,     \* bound: events waiting at the informer
    CallsFail,      \* API calls may fail or use up the 30 seconds
    OthersDelete,   \* somebody else deletes nodes too
    MemoryLimited,  \* MemoryLimitMB > 0: sanitizing and restarting for memory
    None            \* no entry, no trouble, no node

Condition == DOMAIN Threshold

ASSUME NodeAssumption ==
    /\ Evictable \subseteq Pod
    /\ Fragile \subseteq Node
    /\ Condition \subseteq {"NotReady", "Unknown", "Pressure"}
    /\ Threshold \in [Condition -> Nat]
    /\ HealCooldown \in Nat \ {0}
    /\ QueueBound \in Nat
    /\ {CallsFail, OthersDelete, MemoryLimited} \subseteq BOOLEAN
    /\ None \notin Nat \cup Node

VARIABLES
    node,       \* node[n]: does it exist, and how long its troubles last
    home,       \* home[p]: the node pod p runs on, or None
    leaving,    \* pods whose eviction was accepted and that are still there
    queue,      \* update events the informer has yet to hand over
    handler,    \* where checkAndHealNode is
    evicting,   \* the pods whose eviction goroutine has not returned
    HealedNodes,    \* the age of the entry of each node, or None
    since, odd, \* history, as in CooldownGate, of the deletions of a node
    kept        \* history: pods the drain under way need not have removed

pods == <<home, leaving>>
vars == <<node, pods, queue, handler, evicting, HealedNodes, since, odd, kept>>
gateHistory == <<since, odd>>
drain == <<evicting, kept>>

OldAge == 2 * HealCooldown + 1
Trouble == [Condition -> Nat \cup {None}]
Well == [c \in Condition |-> None]
Older(t) == [c \in Condition |-> IF t[c] # None /\ t[c] <= Threshold[c] THEN t[c] + 1 ELSE t[c]]

\* outdated (history): the node was well, or absent, at some time since the
\* event was queued.
Event == [node : Node, trouble : Trouble, outdated : BOOLEAN]

Handler == [pc : {"idle", "list", "evict", "delete", "record"}, node : Node \cup {None},
            expired : BOOLEAN, outdated : BOOLEAN]
Idle == [pc |-> "idle", node |-> None, expired |-> FALSE, outdated |-> FALSE]

-----------------------------------------------------------------------------
(* util.IsNodeUnhealthy: isNodeNotReady, isNodeUnknown, hasNodePressureConditions *)

IsNodeUnhealthy(trouble) == \E c \in Condition : trouble[c] # None /\ trouble[c] > Threshold[c]

Failing(n) == node[n].exists /\ IsNodeUnhealthy(node[n].trouble)

-----------------------------------------------------------------------------
(* The cluster *)

\* Events and handler that are about n show a node of the past.
Overtake(n, events) == [k \in DOMAIN events |->
    IF events[k].node = n THEN [events[k] EXCEPT !.outdated = TRUE] ELSE events[k]]
OvertakeHandler(n) ==
    IF handler.node = n THEN [handler EXCEPT !.outdated = TRUE] ELSE handler

\* Node n now has these troubles, and the informer hears of it.
Turns(n, trouble) ==
    /\ node[n].exists /\ Len(queue) < QueueBound
    /\ node' = [node EXCEPT ![n].trouble = trouble]
    /\ IF IsNodeUnhealthy(trouble)
       THEN queue' = Append(queue, [node |-> n, trouble |-> trouble, outdated |-> FALSE])
            /\ UNCHANGED handler
       ELSE queue' = Append(Overtake(n, queue), [node |-> n, trouble |-> trouble, outdated |-> FALSE])
            /\ handler' = OvertakeHandler(n)
    /\ UNCHANGED <<pods, drain, HealedNodes, gateHistory>>

\* A condition turns bad; NotReady and Unknown are states of one condition.
GetsWorse(n, c) ==
    /\ n \in Fragile /\ node[n].trouble[c] = None
    /\ Turns(n, [d \in Condition |->
                   IF d = c THEN 0
                   ELSE IF {c, d} = {"NotReady", "Unknown"} THEN None ELSE node[n].trouble[d]])

Recovers(n, c) ==
    /\ node[n].trouble[c] # None
    /\ Turns(n, [node[n].trouble EXCEPT ![c] = None])

\* The machine controller adds a node of that name; AddFunc is not set.
Joins(n) ==
    /\ ~node[n].exists
    /\ node' = [node EXCEPT ![n] = [exists |-> TRUE, trouble |-> Well]]
    /\ UNCHANGED <<pods, queue, handler, drain, HealedNodes, gateHistory>>

\* The node object disappears, and its pods with it.
Vanishes(n) ==
    /\ node' = [node EXCEPT ![n] = [exists |-> FALSE, trouble |-> Well]]
    /\ home' = [p \in Pod |-> IF home[p] = n THEN None ELSE home[p]]
    /\ leaving' = {p \in leaving : home[p] # n}
    /\ queue' = Overtake(n, queue)

DeletedByOthers(n) ==
    /\ OthersDelete /\ node[n].exists
    /\ Vanishes(n)
    /\ handler' = OvertakeHandler(n)
    /\ UNCHANGED <<drain, HealedNodes, gateHistory>>

\* The scheduler places a new pod of this name; a node that is being drained
\* is not cordoned.
Schedule(p, n) ==
    /\ home[p] = None /\ node[n].exists
    /\ home' = [home EXCEPT ![p] = n]
    /\ kept' = IF handler.node = n THEN kept \cup {p} ELSE kept
    /\ UNCHANGED <<node, leaving, queue, handler, evicting, HealedNodes, gateHistory>>

\* The pod stops and its object goes: the grace period of its eviction is over, or
\* somebody deletes it, the pod path of this program among them.
Stops(p) ==
    /\ home[p] # None
    /\ home' = [home EXCEPT ![p] = None]
    /\ leaving' = leaving \ {p}
    /\ UNCHANGED <<node, queue, handler, drain, HealedNodes, gateHistory>>

Tick ==
    /\ node' = [n \in Node |-> [node[n] EXCEPT !.trouble = Older(@)]]
    /\ queue' = [k \in DOMAIN queue |-> [queue[k] EXCEPT !.trouble = Older(@)]]
    /\ HealedNodes' = [n \in Node |-> IF HealedNodes[n] # None /\ HealedNodes[n] < OldAge
                                      THEN HealedNodes[n] + 1 ELSE HealedNodes[n]]
    /\ since' = [n \in Node |-> IF since[n] < HealCooldown THEN since[n] + 1 ELSE since[n]]
    /\ UNCHANGED <<pods, handler, drain, odd>>

\* The five-minute resync of the informer.
Resync(n) ==
    /\ node[n].exists /\ Len(queue) < QueueBound
    /\ queue' = Append(queue, [node |-> n, trouble |-> node[n].trouble, outdated |-> FALSE])
    /\ UNCHANGED <<node, pods, handler, drain, HealedNodes, gateHistory>>

-----------------------------------------------------------------------------
(* checkAndHealNode *)

RecentlyHealedMut(n) == HealedNodes[n] # None /\ HealedNodes[n] + 1 < HealCooldown
RecentlyHealed(n) == HealedNodes[n] # None /\ HealedNodes[n] < HealCooldown

NeedsHealingMut(e) == ~RecentlyHealed(e.node) /\ \E c \in Condition : e.trouble[c] # None
NeedsHealing(e) == ~RecentlyHealed(e.node) /\ IsNodeUnhealthy(e.trouble)

\* The cooldown look-up under RLock and IsNodeUnhealthy.
CheckAndHealNode ==
    /\ handler.pc = "idle" /\ queue # <<>>
    /\ LET e == Head(queue) IN
         handler' = IF NeedsHealing(e)
                    THEN [pc |-> "list", node |-> e.node, expired |-> FALSE, outdated |-> e.outdated]
                    ELSE Idle
    /\ queue' = Tail(queue)
    /\ UNCHANGED <<node, pods, drain, HealedNodes, gateHistory>>

Goes(pc) == handler' = [handler EXCEPT !.pc = pc]

\* The context of the drain and the deletion is 30 seconds old.
DeadlineExceeded ==
    /\ CallsFail /\ handler.pc \in {"list", "evict", "delete"} /\ ~handler.expired
    /\ handler' = [handler EXCEPT !.expired = TRUE]
    /\ UNCHANGED <<node, pods, queue, drain, HealedNodes, gateHistory>>

\* drainNode: the pods of the node, without those that have no owner and those
\* of DaemonSets; each gets a goroutine.
Drainables(n) == {p \in Evictable : home[p] = n}

ListPods ==
    /\ handler.pc = "list" /\ ~handler.expired
    /\ evicting' = Drainables(handler.node)
    /\ kept' = {}
    /\ Goes("evict")
    /\ UNCHANGED <<node, pods, queue, HealedNodes, gateHistory>>

\* "Proceeding with node deletion anyway"
ListPodsFailsMut ==
    /\ CallsFail /\ handler.pc = "list"
    /\ kept' = Pod
    /\ Goes("record")
    /\ UNCHANGED <<node, pods, queue, evicting, HealedNodes, gateHistory>>

ListPodsFails ==
    /\ CallsFail /\ handler.pc = "list"
    /\ kept' = Pod
    /\ Goes("delete")
    /\ UNCHANGED <<node, pods, queue, evicting, HealedNodes, gateHistory>>

\* EvictV1 is accepted for the pod of that name, on whichever node it is by now.
Evict(p) ==
    /\ p \in evicting /\ home[p] # None /\ ~handler.expired
    /\ leaving' = leaving \cup {p}
    /\ evicting' = evicting \ {p}
    /\ UNCHANGED <<node, home, queue, handler, kept, HealedNodes, gateHistory>>

\* A disruption budget, a missing pod, the deadline, or another error.
EvictFails(p) ==
    /\ p \in evicting /\ (CallsFail \/ home[p] = None)
    /\ evicting' = evicting \ {p}
    /\ kept' = kept \cup {p}
    /\ UNCHANGED <<node, pods, queue, handler, HealedNodes, gateHistory>>

\* wg.Wait returns.
DrainedMut ==
    /\ handler.pc = "evict"
    /\ Goes("delete")
    /\ UNCHANGED <<node, pods, queue, drain, HealedNodes, gateHistory>>

Drained ==
    /\ handler.pc = "evict" /\ evicting = {}
    /\ Goes("delete")
    /\ UNCHANGED <<node, pods, queue, drain, HealedNodes, gateHistory>>

Called(n) ==
    /\ since' = [since EXCEPT ![n] = 0]
    /\ odd' = [odd EXCEPT ![n] = ~odd[n]]

\* The node of that name is deleted whether it still fails or not.
DeleteNode ==
    /\ handler.pc = "delete" /\ ~handler.expired /\ node[handler.node].exists
    /\ Vanishes(handler.node)
    /\ Called(handler.node)
    /\ Goes("record")
    /\ UNCHANGED <<drain, HealedNodes>>

DeleteNodeFails ==
    /\ handler.pc = "delete" /\ (CallsFail \/ ~node[handler.node].exists)
    /\ Called(handler.node)
    /\ Goes("record")
    /\ UNCHANGED <<node, pods, queue, drain, HealedNodes>>

\* The time is recorded whatever became of the drain and the deletion.
RecordHealMut ==
    /\ handler.pc = "record"
    /\ HealedNodes' = IF handler.expired THEN HealedNodes ELSE [HealedNodes EXCEPT ![handler.node] = 0]
    /\ handler' = Idle
    /\ UNCHANGED <<node, pods, queue, drain, gateHistory>>

RecordHeal ==
    /\ handler.pc = "record"
    /\ HealedNodes' = [HealedNodes EXCEPT ![handler.node] = 0]
    /\ handler' = Idle
    /\ UNCHANGED <<node, pods, queue, drain, gateHistory>>

-----------------------------------------------------------------------------
(* The goroutines that share the map, and the process *)

Forgotten(n) == HealedNodes[n] # None /\ HealedNodes[n] > 2 * HealCooldown

CleanHealedNodes ==
    /\ \E n \in Node : Forgotten(n)
    /\ HealedNodes' = [n \in Node |-> IF Forgotten(n) THEN None ELSE HealedNodes[n]]
    /\ UNCHANGED <<node, pods, queue, handler, drain, gateHistory>>

Forget ==
    /\ HealedNodes' = [n \in Node |-> None]
    /\ since' = [n \in Node |-> HealCooldown]
    /\ UNCHANGED odd

SanitizeReferences ==
    /\ MemoryLimited
    /\ Forget
    /\ UNCHANGED <<node, pods, queue, handler, drain>>

\* The process exits for memory, whatever its handler is doing, and is started
\* again: the maps are empty, and the first list calls no UpdateFunc.
Restart ==
    /\ MemoryLimited
    /\ Forget
    /\ queue' = <<>> /\ handler' = Idle /\ evicting' = {} /\ kept' = {}
    /\ UNCHANGED <<node, pods>>

-----------------------------------------------------------------------------

Init ==
    /\ node = [n \in Node |-> [exists |-> TRUE, trouble |-> Well]]
    /\ home \in [Pod -> Node] /\ leaving = {}
    /\ queue = <<>> /\ handler = Idle /\ evicting = {} /\ kept = {}
    /\ HealedNodes = [n \in Node |-> None]
    /\ since = [n \in Node |-> HealCooldown]
    /\ odd = [n \in Node |-> FALSE]

Cluster ==
    \/ Tick
    \/ \E n \in Node :
         \/ \E c \in Condition : GetsWorse(n, c) \/ Recovers(n, c)
         \/ Joins(n) \/ DeletedByOthers(n)
         \/ \E p \in Pod : Schedule(p, n)
    \/ \E p \in Pod : Stops(p)

EvictionReturns(p) == Evict(p) \/ EvictFails(p)

Handling ==
    \/ CheckAndHealNode \/ ListPods \/ ListPodsFails \/ Drained
    \/ DeleteNode \/ DeleteNodeFails \/ RecordHeal

Next ==
    \/ Cluster
    \/ \E n \in Node : Resync(n)
    \/ Handling \/ DeadlineExceeded
    \/ \E p \in Pod : EvictionReturns(p)
    \/ CleanHealedNodes \/ SanitizeReferences \/ Restart

Spec == Init /\ [][Next]_vars

\* Time passes, the informer resyncs (strongly fair only because QueueBound can
\* disable it), goroutines run, and every call returns by its deadline.  A
\* deletion that is attempted for ever within its deadline succeeds some time.
Fairness ==
    /\ WF_vars(Tick)
    /\ \A n \in Node : SF_vars(Resync(n)) /\ SF_vars(handler.node = n /\ DeleteNode)
    /\ WF_vars(Handling)
    /\ \A p \in Pod : WF_vars(EvictionReturns(p))

FairSpec == Spec /\ Fairness

-----------------------------------------------------------------------------
(* Properties *)

\* The state has its shape: goroutines exist only during a drain.
TypeOK ==
    /\ node \in [Node -> [exists : BOOLEAN, trouble : Trouble]]
    /\ home \in [Pod -> Node \cup {None}]
    /\ leaving \subseteq {p \in Pod : home[p] # None}
    /\ queue \in Seq(Event)
    /\ handler \in Handler
    /\ handler.pc = "idle" <=> handler.node = None
    /\ evicting \in SUBSET Evictable
    /\ evicting # {} => handler.pc = "evict"
    /\ HealedNodes \in [Node -> 0..OldAge \cup {None}]
    /\ since \in [Node -> 0..HealCooldown]
    /\ odd \in [Node -> BOOLEAN]
    /\ kept \in SUBSET Pod

\* "Minimum time between healing the same Pod/Node/Machine" (cmd/main.go, the
\* heal-cooldown flag): DELETE calls for one node are a cooldown apart, however
\* long the drain between the look-up and the recording takes, and whether or
\* not the calls fail; a restart costs each node one early deletion at most.
Gate == INSTANCE CooldownGate WITH Key <- Node
CooldownRespected == Gate!Spec

\* The strengthening that makes it inductive, as in PodHealing.
PendingDeletionIsDue ==
    handler.pc \in {"list", "evict", "delete"} => since[handler.node] = HealCooldown

RecentCallIsRecorded ==
    \A n \in Node : since[n] < HealCooldown =>
        \/ HealedNodes[n] # None /\ HealedNodes[n] <= since[n]
        \/ handler.pc = "record" /\ handler.node = n

CooldownInv == TypeOK /\ PendingDeletionIsDue /\ RecentCallIsRecorded

\* "Deletes failing nodes" (README.md:148): a node that works is deleted only
\* when it recovered, or was replaced, after the event that condemned it was
\* queued.  (Nothing looks at the node again after the drain, healer.go:821.)
Deletes(n) == handler.pc = "delete" /\ handler.node = n /\ node[n].exists /\ ~node'[n].exists
OnlyFailingDeleted ==
    [][\A n \in Node : Deletes(n) /\ handler'.pc = "record" => Failing(n) \/ handler.outdated]_vars

\* "Before deleting a failing node, attempts to safely drain it by evicting all
\* non-DaemonSet pods" (README.md:144-145): when the DELETE goes out, each pod on the
\* node has had its eviction accepted, or refused, or was spared, or came after the
\* list, whatever pods stop, move and come back while the goroutines run.
OnNode(n) == {p \in Evictable : home[p] = n}
DrainedBeforeDeleted ==
    [][\A n \in Node : Deletes(n) /\ handler'.pc = "record" => OnNode(n) \subseteq kept \cup leaving]_vars

\* The same for "safely": no pod whose eviction was accepted goes down with the node.
SafelyDrained ==
    [][\A n \in Node : Deletes(n) /\ handler'.pc = "record" => OnNode(n) \subseteq kept]_vars

\* "Get all pods on the node" (healer.go:831), "Evict each pod" (healer.go:839): a drain
\* evicts pods from no other node.
DrainStaysOnNode ==
    [][\A p \in leaving' \ leaving : home[p] = handler.node]_vars

\* A failing node does not stay for ever, unless its drains run out of the 30
\* seconds that the deletion needs too (healer.go:807) or the process is
\* restarted for ever.
FailingNodeGoes ==
    \A n \in Node : (Failing(n) ~> ~Failing(n) \/ handler.expired)
                      \/ []<><<Restart>>_vars
=============================================================================
