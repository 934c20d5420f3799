----------------------------- MODULE CRDCleanup -----------------------------
(***************************************************************************)
(* The clean-up of custom resources.  A pass (checkCRDResources) runs every *)
(* 30 seconds for each type, and once more when SIGUSR1 asks for a full    *)
(* clean-up (RunFullCRDCleanup), beside the ticker's.  It lists each       *)
(* namespace in a goroutine of its own, cleans the stale objects of the    *)
(* list one after the other with up to MaxRetries attempts each, and, when *)
(* every goroutine is done, prunes TrackedCRDs.                            *)
(*                                                                         *)
(* The maps are keyed by "plural/namespace/name", without the group, and   *)
(* every API call names the object and not its incarnation.  A listed      *)
(* object is handled long after it was listed; what was read in the list   *)
(* (its creation time, its status, its finalizers) is kept with the item.  *)
(* logCRDCreation and the cooldown check are one step: they lock twice, but *)
(* in the passes of one goroutine nothing can come between.                *)
(***************************************************************************)
EXTENDS Naturals, FiniteSets

CONSTANTS
    Obj,            \* custom resource objects, by type, namespace and name
    Key,            \* the keys "plural/namespace/name"
    KeyOf,          \* KeyOf[o]
    AgeOnly,        \* the objects of type virtualmachines.kubevirt.io
    Pass,           \* passes that can run at one time: the ticker's, SIGUSR1's
    KeysOf,         \* KeysOf[w]: the keys that begin with the plural of w's type
    Goroutine,      \* the goroutines of the passes
    PassOf,         \* PassOf[g]
    Lists,          \* Lists[g]: the objects of the namespace g lists
    HealCooldown,   \* Healer.HealCooldown, in ticks
    StaleAge,       \* Healer.StaleAge, in ticks
    VMMaxAge,       \* the six minutes of checkAndCleanupCRDResource
    TrackedLimit,   \* the 5000 of startHealCacheCleaner
    TrackedTenths,  \* its 3, in tenths of the entries
    MaxRetries,     \* maxRetries of triggerCRDCleanup
    CleanupFinalizers,  \* Healer.CleanupFinalizers
    Excluded,       \* objects in namespaces of Healer.ExcludedNamespaces
    Finalized,      \* objects that are created with finalizers
    CallsFail,      \* API calls may fail
    RateLimited,    \* API calls may run into the client's rate limiter
    OthersDelete,   \* other clients delete objects too
    MemoryLimited,  \* the memory guard may sanitize
    None            \* no item, no entry

MaxAge == IF VMMaxAge > StaleAge THEN VMMaxAge ELSE StaleAge

ASSUME CRDAssumption ==
    /\ KeyOf \in [Obj -> Key]
    /\ AgeOnly \cup Finalized \cup Excluded \subseteq Obj
    /\ KeysOf \in [Pass -> SUBSET Key]
    /\ PassOf \in [Goroutine -> Pass]
    /\ Lists \in [Goroutine -> SUBSET Obj]
    /\ HealCooldown \in Nat \ {0}
    /\ StaleAge \in Nat /\ VMMaxAge \in Nat
    /\ TrackedLimit \in Nat /\ TrackedTenths \in 0..10
    /\ MaxRetries \in Nat \ {0}
    /\ {CleanupFinalizers, CallsFail, RateLimited, OthersDelete, MemoryLimited} \subseteq BOOLEAN
    /\ None \notin Nat \cup Obj

VARIABLES
    obj,            \* the cluster: obj[o]
    HealedCRDs,     \* the age of the entry of each key, or None
    TrackedCRDs,    \* the map of that name, as a set of keys
    pass,           \* pass[w]: is pass w running, and existingResources
    worker,         \* worker[g]: where goroutine g is
    since, odd,     \* history, as in CooldownGate, of the clean-ups of a key
    outdated,       \* history: outdated[g], listed by g, but gone since
    logged,         \* history: objects whose creation has been logged and whose
                    \* key has not been dropped for lack of memory
    counted         \* history: objects counted as cleaned

cluster == <<obj, outdated, logged, counted>>
gateHistory == <<since, odd>>
vars == <<obj, HealedCRDs, TrackedCRDs, pass, worker, since, odd, outdated, logged, counted>>

Object == [phase : {"Absent", "Live", "Terminating"}, age : 0..(MaxAge + 1),
           failed : BOOLEAN, finalizers : BOOLEAN]

Absent == [phase |-> "Absent", age |-> 0, failed |-> FALSE, finalizers |-> FALSE]
Created(o) == [phase |-> "Live", age |-> 0, failed |-> FALSE, finalizers |-> o \in Finalized]
Exists(o) == obj[o].phase # "Absent"

\* An object of the list: its age by its listed creation time, its listed
\* status, and whether its finalizers are to be removed.
Item == [obj : Obj, age : 0..(MaxAge + 1), failed : BOOLEAN, force : BOOLEAN]
NoItem == [obj |-> None, age |-> 0, failed |-> FALSE, force |-> FALSE]
Older(i) == IF i.age <= MaxAge THEN [i EXCEPT !.age = @ + 1] ELSE i

Worker == [pc : {"off", "list", "next", "finalizers", "get", "delete", "record"},
           todo : SUBSET Item, item : Item \cup {NoItem}, attempt : 0..MaxRetries]
Off == [pc |-> "off", todo |-> {}, item |-> NoItem, attempt |-> 0]

Target(g) == worker[g].item.obj
TargetKey(g) == KeyOf[Target(g)]

-----------------------------------------------------------------------------
(* The cluster *)

\* The incarnation of o disappears: its history ends with it, and whoever has
\* it listed now has an object of the past.
Vanishes(o) ==
    /\ obj' = [obj EXCEPT ![o] = Absent]
    /\ outdated' = [g \in Goroutine |->
                      IF Target(g) = o \/ \E i \in worker[g].todo : i.obj = o
                      THEN outdated[g] \cup {o} ELSE outdated[g]]
    /\ logged' = logged \ {o}
    /\ counted' = counted \ {o}

\* What a DELETE call with no grace period does.
Deletes(o) ==
    IF obj[o].finalizers
    THEN obj' = [obj EXCEPT ![o].phase = "Terminating"] /\ UNCHANGED <<outdated, logged, counted>>
    ELSE Vanishes(o)

\* What an UPDATE that clears the finalizers does.
Unfinalizes(o) ==
    IF obj[o].phase = "Terminating"
    THEN Vanishes(o)
    ELSE obj' = [obj EXCEPT ![o].finalizers = FALSE] /\ UNCHANGED <<outdated, logged, counted>>

Create(o) ==
    /\ ~Exists(o)
    /\ obj' = [obj EXCEPT ![o] = Created(o)]
    /\ UNCHANGED <<outdated, logged, counted, HealedCRDs, TrackedCRDs, pass, worker, gateHistory>>

Fails(o) ==
    /\ obj[o].phase = "Live" /\ ~obj[o].failed
    /\ obj' = [obj EXCEPT ![o].failed = TRUE]
    /\ UNCHANGED <<outdated, logged, counted, HealedCRDs, TrackedCRDs, pass, worker, gateHistory>>

Recovers(o) ==
    /\ obj[o].failed
    /\ obj' = [obj EXCEPT ![o].failed = FALSE]
    /\ UNCHANGED <<outdated, logged, counted, HealedCRDs, TrackedCRDs, pass, worker, gateHistory>>

\* The loop over virtual machines of the same process (triggerVirtualMachineHealing)
\* looks at the same objects; module VMHealing says which of them it deletes.
VirtualMachineHealed(o) ==
    /\ o \in AgeOnly /\ obj[o].phase = "Live"
    /\ Deletes(o)
    /\ UNCHANGED <<HealedCRDs, TrackedCRDs, pass, worker, gateHistory>>

DeletedByOthers(o) ==
    /\ OthersDelete /\ obj[o].phase = "Live"
    /\ Deletes(o)
    /\ UNCHANGED <<HealedCRDs, TrackedCRDs, pass, worker, gateHistory>>

OldEntry == 2 * HealCooldown + 1

Tick ==
    /\ obj' = [o \in Obj |-> IF Exists(o) THEN Older(obj[o]) ELSE obj[o]]
    /\ worker' = [g \in Goroutine |-> [worker[g] EXCEPT !.todo = {Older(i) : i \in @}]]
    /\ HealedCRDs' = [k \in Key |-> IF HealedCRDs[k] \in 0..(OldEntry - 1)
                                    THEN HealedCRDs[k] + 1 ELSE HealedCRDs[k]]
    /\ since' = [k \in Key |-> IF since[k] < HealCooldown THEN since[k] + 1 ELSE since[k]]
    /\ UNCHANGED <<odd, outdated, logged, counted, TrackedCRDs, pass>>

-----------------------------------------------------------------------------
(* checkCRDResources *)

\* util.IsCRDResourceStale, and the age-only rule for virtual machines.
\* (A deletion older than StaleAge is of an object older than StaleAge.)
IsCRDResourceStaleMut(i) ==
    IF i.obj \in AgeOnly THEN i.age > VMMaxAge \/ i.failed ELSE i.age > StaleAge \/ i.failed
IsCRDResourceStale(i) ==
    IF i.obj \in AgeOnly THEN i.age > VMMaxAge ELSE i.age > StaleAge \/ i.failed

ListedMut(o) == [obj |-> o, age |-> obj[o].age, failed |-> obj[o].failed,
                 force |-> obj[o].finalizers /\ CleanupFinalizers]
Listed(o) == [obj |-> o, age |-> obj[o].age, failed |-> obj[o].failed,
              force |-> obj[o].finalizers /\ (CleanupFinalizers \/ obj[o].phase = "Terminating")]

\* The ticker fires, or SIGUSR1 arrives.  In a pass of a type that is still
\* running the ticker is not looked at.
StartPass(w) ==
    /\ ~pass[w].running
    /\ pass' = [pass EXCEPT ![w] = [running |-> TRUE, existing |-> {}]]
    /\ worker' = [g \in Goroutine |-> IF PassOf[g] = w THEN [Off EXCEPT !.pc = "list"] ELSE worker[g]]
    /\ UNCHANGED <<cluster, HealedCRDs, TrackedCRDs, gateHistory>>

List(g) ==
    /\ worker[g].pc = "list"
    /\ worker' = [worker EXCEPT ![g].pc = "next",
                                ![g].todo = {Listed(o) : o \in {x \in Lists[g] : Exists(x)}}]
    /\ outdated' = [outdated EXCEPT ![g] = {}]
    /\ UNCHANGED <<obj, logged, counted, HealedCRDs, TrackedCRDs, pass, gateHistory>>

\* The goroutine returns with nothing.
ListFails(g) ==
    /\ CallsFail /\ worker[g].pc = "list"
    /\ worker' = [worker EXCEPT ![g] = Off]
    /\ UNCHANGED <<cluster, HealedCRDs, TrackedCRDs, pass, gateHistory>>

\* Where an attempt of doCRDCleanup begins.
First(item) == IF item.force THEN "finalizers" ELSE "get"

RecentlyCleaned(k) == HealedCRDs[k] # None /\ HealedCRDs[k] < HealCooldown

\* One more item: mark it as existing, log it if it is not tracked
\* (logCRDCreation), and look whether it needs clean-up now; if so,
\* triggerCRDCleanup begins.
TakeItem(g, i) ==
    LET k == KeyOf[i.obj] IN
    /\ worker[g].pc = "next" /\ i \in worker[g].todo
    /\ pass' = [pass EXCEPT ![PassOf[g]].existing = @ \cup {k}]
    /\ TrackedCRDs' = TrackedCRDs \cup {k}
    /\ logged' = IF i.obj \in outdated[g] THEN logged ELSE logged \cup {i.obj}
    /\ IF IsCRDResourceStale(i) /\ ~RecentlyCleaned(k)
       THEN /\ worker' = [worker EXCEPT ![g].pc = First(i),
                                        ![g].todo = @ \ {i}, ![g].item = [i EXCEPT !.age = 0], ![g].attempt = 1]
            /\ since' = [since EXCEPT ![k] = 0]
            /\ odd' = [odd EXCEPT ![k] = ~odd[k]]
       ELSE worker' = [worker EXCEPT ![g].todo = @ \ {i}] /\ UNCHANGED gateHistory
    /\ UNCHANGED <<obj, outdated, counted, HealedCRDs>>

\* The list is done.
Finish(g) ==
    /\ worker[g].pc = "next" /\ worker[g].todo = {}
    /\ worker' = [worker EXCEPT ![g] = Off]
    /\ UNCHANGED <<cluster, HealedCRDs, TrackedCRDs, pass, gateHistory>>

\* wg.Wait is over: forget the keys of this plural that no list contained.
PrunedMut(w) == TrackedCRDs \ pass[w].existing
Pruned(w) == (TrackedCRDs \cap KeysOf[w]) \ pass[w].existing

FinishPassMut(w) ==
    /\ pass[w].running
    /\ TrackedCRDs' = TrackedCRDs \ Pruned(w)
    /\ pass' = [pass EXCEPT ![w] = [running |-> FALSE, existing |-> {}]]
    /\ UNCHANGED <<cluster, HealedCRDs, worker, gateHistory>>

FinishPass(w) ==
    /\ pass[w].running /\ \A g \in Goroutine : PassOf[g] = w => worker[g].pc = "off"
    /\ TrackedCRDs' = TrackedCRDs \ Pruned(w)
    /\ pass' = [pass EXCEPT ![w] = [running |-> FALSE, existing |-> {}]]
    /\ UNCHANGED <<cluster, HealedCRDs, worker, gateHistory>>

-----------------------------------------------------------------------------
(* triggerCRDCleanup and doCRDCleanup *)

\* Get and Update: the finalizers go, or the deletion proceeds anyway.
RemoveFinalizers(g) ==
    /\ worker[g].pc = "finalizers" /\ Exists(Target(g))
    /\ Unfinalizes(Target(g))
    /\ worker' = [worker EXCEPT ![g].pc = "get"]
    /\ UNCHANGED <<HealedCRDs, TrackedCRDs, pass, gateHistory>>

RemoveFinalizersFails(g) ==
    /\ CallsFail /\ worker[g].pc = "finalizers"
    /\ worker' = [worker EXCEPT ![g].pc = "get"]
    /\ UNCHANGED <<cluster, HealedCRDs, TrackedCRDs, pass, gateHistory>>

\* The object is there, or the call failed for another reason than NotFound.
CheckExists(g) ==
    /\ worker[g].pc = "get" /\ (Exists(Target(g)) \/ CallsFail)
    /\ worker' = [worker EXCEPT ![g].pc = "delete"]
    /\ UNCHANGED <<cluster, HealedCRDs, TrackedCRDs, pass, gateHistory>>

\* One of the calls answers NotFound.
AlreadyGone(g) ==
    /\ worker[g].pc \in {"finalizers", "get", "delete"} /\ ~Exists(Target(g))
    /\ TrackedCRDs' = TrackedCRDs \ {TargetKey(g)}
    /\ worker' = [worker EXCEPT ![g].pc = "record"]
    /\ UNCHANGED <<cluster, HealedCRDs, pass, gateHistory>>

\* The deletion is accepted: RecordCRDCleanup counts it, the key is untracked.
Delete(g) ==
    LET o == Target(g) IN
    /\ worker[g].pc = "delete" /\ Exists(o)
    /\ IF obj[o].finalizers
       THEN /\ obj' = [obj EXCEPT ![o].phase = "Terminating"]
            /\ counted' = counted \cup {o}
            /\ UNCHANGED <<outdated, logged>>
       ELSE Vanishes(o)
    /\ TrackedCRDs' = TrackedCRDs \ {TargetKey(g)}
    /\ worker' = [worker EXCEPT ![g].pc = "record"]
    /\ UNCHANGED <<HealedCRDs, pass, gateHistory>>

DeleteFails(g) ==
    /\ CallsFail /\ worker[g].pc = "delete"
    /\ worker' = [worker EXCEPT ![g].pc = "record"]
    /\ UNCHANGED <<cluster, HealedCRDs, TrackedCRDs, pass, gateHistory>>

\* isRateLimitError: back off and begin again, unless it was the last attempt.
RateLimit(g) ==
    /\ RateLimited /\ worker[g].pc \in {"finalizers", "get", "delete"}
    /\ worker' = IF worker[g].attempt < MaxRetries
                 THEN [worker EXCEPT ![g].pc = First(worker[g].item), ![g].attempt = @ + 1]
                 ELSE [worker EXCEPT ![g].pc = "record"]
    /\ UNCHANGED <<cluster, HealedCRDs, TrackedCRDs, pass, gateHistory>>

\* Back in checkAndCleanupCRDResource: the clean-up is recorded, whatever came of it.
RecordMut(g) ==
    /\ worker[g].pc = "record"
    /\ HealedCRDs' = [HealedCRDs EXCEPT ![TargetKey(g)] = IF Exists(Target(g)) THEN @ ELSE 0]
    /\ worker' = [worker EXCEPT ![g].pc = "next", ![g].item = NoItem, ![g].attempt = 0]
    /\ UNCHANGED <<cluster, TrackedCRDs, pass, gateHistory>>

Record(g) ==
    /\ worker[g].pc = "record"
    /\ HealedCRDs' = [HealedCRDs EXCEPT ![TargetKey(g)] = 0]
    /\ worker' = [worker EXCEPT ![g].pc = "next", ![g].item = NoItem, ![g].attempt = 0]
    /\ UNCHANGED <<cluster, TrackedCRDs, pass, gateHistory>>

-----------------------------------------------------------------------------
(* The goroutines that share the maps *)

Forgotten(k) == HealedCRDs[k] # None /\ HealedCRDs[k] > 2 * HealCooldown

\* startHealCacheCleaner, its pass over HealedCRDs.
CleanHealedCRDs ==
    /\ \E k \in Key : Forgotten(k)
    /\ HealedCRDs' = [k \in Key |-> IF Forgotten(k) THEN None ELSE HealedCRDs[k]]
    /\ UNCHANGED <<cluster, TrackedCRDs, pass, worker, gateHistory>>

\* The same, when TrackedCRDs is too large: some entries go, in map order, and
\* with them the memory that their creation has been logged.
LimitTrackedCRDs ==
    /\ Cardinality(TrackedCRDs) > TrackedLimit
    /\ \E dropped \in SUBSET TrackedCRDs :
         /\ Cardinality(dropped) = (Cardinality(TrackedCRDs) * TrackedTenths) \div 10
         /\ TrackedCRDs' = TrackedCRDs \ dropped
         /\ logged' = {o \in logged : KeyOf[o] \notin dropped}
    /\ UNCHANGED <<obj, outdated, counted, HealedCRDs, pass, worker, gateHistory>>

\* checkMemory found the heap over the limit: the cooldowns and what has been
\* logged are forgotten with the entries.
SanitizeReferences ==
    /\ MemoryLimited
    /\ HealedCRDs' = [k \in Key |-> None]
    /\ TrackedCRDs' = {}
    /\ since' = [k \in Key |-> HealCooldown]
    /\ logged' = {}
    /\ UNCHANGED <<obj, outdated, counted, pass, worker, odd>>

-----------------------------------------------------------------------------

Init ==
    /\ obj = [o \in Obj |-> Absent]
    /\ HealedCRDs = [k \in Key |-> None]
    /\ TrackedCRDs = {}
    /\ pass = [w \in Pass |-> [running |-> FALSE, existing |-> {}]]
    /\ worker = [g \in Goroutine |-> Off]
    /\ since = [k \in Key |-> HealCooldown]
    /\ odd = [k \in Key |-> FALSE]
    /\ outdated = [g \in Goroutine |-> {}]
    /\ logged = {} /\ counted = {}

Changes(o) == \/ Create(o) \/ Fails(o) \/ Recovers(o)
              \/ VirtualMachineHealed(o) \/ DeletedByOthers(o)

Cluster == Tick \/ \E o \in Obj : Changes(o)

Cleaning(g) ==
    \/ RemoveFinalizers(g) \/ RemoveFinalizersFails(g) \/ CheckExists(g) \/ AlreadyGone(g)
    \/ Delete(g) \/ DeleteFails(g) \/ RateLimit(g) \/ Record(g)

Checking(g) ==
    \/ List(g) \/ ListFails(g) \/ Finish(g)
    \/ \E i \in worker[g].todo : TakeItem(g, i)

Next ==
    \/ Cluster
    \/ \E w \in Pass : StartPass(w) \/ FinishPass(w)
    \/ \E g \in Goroutine : Checking(g) \/ Cleaning(g)
    \/ CleanHealedCRDs \/ LimitTrackedCRDs \/ SanitizeReferences

Spec == Init /\ [][Next]_vars

\* Goroutines run and tickers fire.  Calls that are made again and again
\* succeed some time.
Fairness ==
    /\ WF_vars(Tick)
    /\ \A w \in Pass : WF_vars(StartPass(w)) /\ WF_vars(FinishPass(w))
    /\ \A g \in Goroutine :
         /\ WF_vars(Checking(g)) /\ WF_vars(Cleaning(g))
         /\ SF_vars(List(g)) /\ SF_vars(RemoveFinalizers(g))
         /\ SF_vars(CheckExists(g)) /\ SF_vars(Delete(g))

FairSpec == Spec /\ Fairness

-----------------------------------------------------------------------------
(* Properties *)

\* The state has its shape: a goroutine runs only within its pass, and has an
\* item exactly while it cleans.
TypeOK ==
    /\ obj \in [Obj -> Object]
    /\ HealedCRDs \in [Key -> 0..OldEntry \cup {None}]
    /\ TrackedCRDs \in SUBSET Key
    /\ pass \in [Pass -> [running : BOOLEAN, existing : SUBSET Key]]
    /\ worker \in [Goroutine -> Worker]
    /\ since \in [Key -> 0..HealCooldown] /\ odd \in [Key -> BOOLEAN]
    /\ outdated \in [Goroutine -> SUBSET Obj]
    /\ logged \in SUBSET Obj /\ counted \in SUBSET Obj
    /\ \A g \in Goroutine :
         /\ worker[g].pc # "off" => pass[PassOf[g]].running
         /\ worker[g].item = NoItem <=> worker[g].pc \in {"off", "list", "next"}
         /\ Target(g) \in Lists[g] \cup {None}
         /\ \A i \in worker[g].todo : i.obj \in Lists[g]

\* A key whose clean-up began within the cooldown has an entry no older than
\* that, or its clean-up goes on.
CleanUpIsRecorded ==
    \A k \in Key : since[k] < HealCooldown =>
        \/ HealedCRDs[k] # None /\ HealedCRDs[k] <= since[k]
        \/ \E g \in Goroutine : worker[g].item # NoItem /\ TargetKey(g) = k

\* The inductive invariant behind CooldownRespected: the entry that the check of
\* the cooldown (healer.go:1176) looks for is written only when the clean-up with
\* all its attempts is over (healer.go:1219).
CooldownInv == TypeOK /\ CleanUpIsRecorded

\* Where the lists of goroutines share nothing: no SIGUSR1 beside the ticker, and
\* no two types with one plural.
KeysApart ==
    \A g, h \in Goroutine : \A o \in Lists[g], q \in Lists[h] :
        KeyOf[o] = KeyOf[q] => g = h
ObjectsApart == \A g, h \in Goroutine : g # h => Lists[g] \cap Lists[h] = {}

\* One key for each object, and passes whose plurals are not each other's.
NamesDiffer == \A o, q \in Obj : KeyOf[o] = KeyOf[q] => o = q
PluralsApart ==
    \A g \in Goroutine, w \in Pass : \A o \in Lists[g] : KeyOf[o] \in KeysOf[w] => PassOf[g] = w

\* "the cooldown prevents repeatedly attempting to clean the same resource if it
\* keeps getting recreated or if cleanup fails" (README.md:1081): clean-ups of
\* one key, with all their attempts, begin at least a cooldown apart.
Gate == INSTANCE CooldownGate
CooldownRespected == Gate!Spec

\* "VM older than age threshold" (healer.go:1189), "Resource age exceeds" and "error
\* conditions" (healer.go:1209): names are deleted up to minutes after the list, after
\* calls that were retried.  What loses its finalizers or is deleted is too old by
\* now, or was listed as failed and is no virtual machine, or took the name of what
\* was listed.
TooOld(o) == obj[o].age > IF o \in AgeOnly THEN VMMaxAge ELSE StaleAge
Condemned(g) == TooOld(Target(g)) \/ (worker[g].item.failed /\ Target(g) \notin AgeOnly)
OnlyStaleCleaned ==
    [][\A g \in Goroutine :
         worker[g].pc \in {"finalizers", "delete"} /\ obj' # obj /\ worker'[g].pc # worker[g].pc
           => Condemned(g) \/ Target(g) \in outdated[g]]_vars

ToDo(g) == {i.obj : i \in worker[g].todo}
Terminating(o) == obj[o].phase = "Terminating"
Attempting(g) == worker[g].pc \in {"finalizers", "get", "delete"}

\* An object is once in a list, an attempt begins with the finalizers only of
\* those that are to lose them, and who is still to be handled and has not gone
\* since the list is there.
ListedOnce ==
    \A g \in Goroutine :
        /\ \A i, j \in worker[g].todo : i.obj = j.obj => i = j
        /\ Target(g) \notin ToDo(g)
        /\ worker[g].pc \in {"off", "list"} => ToDo(g) = {}
        /\ worker[g].pc = "finalizers" => worker[g].item.force
        /\ \A o \in ToDo(g) \ outdated[g] : Exists(o)

\* The listed age is the age of what was listed, and what is being cleaned was
\* condemned rightly.
AgesAgree ==
    \A g \in Goroutine :
        /\ \A i \in worker[g].todo : i.obj \notin outdated[g] => i.age = obj[i.obj].age
        /\ Attempting(g) => (Exists(Target(g)) /\ Condemned(g)) \/ Target(g) \in outdated[g]

\* Counted is only what finalizers hold up; whoever is to handle it again will clear
\* those first.
CountedIsHeldUp ==
    /\ \A o \in counted : Terminating(o) /\ obj[o].finalizers
    /\ \A g \in Goroutine :
         /\ \A i \in worker[g].todo : i.obj \in counted => i.force
         /\ Attempting(g) /\ Target(g) \in counted => worker[g].item.force

\* What has been logged is tracked, and in a pass that will prune it the goroutine
\* that lists it has not got to it or has marked it as existing.
LoggedIsTracked ==
    \A o \in logged :
        /\ Exists(o) /\ \E g \in Goroutine : o \in Lists[g]
        /\ Terminating(o) \/ KeyOf[o] \in TrackedCRDs
        /\ \A g \in Goroutine :
             o \in Lists[g] /\ pass[PassOf[g]].running =>
                 \/ worker[g].pc = "list" \/ o \in ToDo(g)
                 \/ KeyOf[o] \in pass[PassOf[g]].existing

\* The inductive invariant behind OnlyStaleCleaned, CountedOnce and LoggedOnce.
ListInv == TypeOK /\ ListedOnce /\ AgesAgree /\ CountedIsHeldUp /\ LoggedIsTracked

\* "Log CRD creation if it's a new resource we haven't seen before"
\* (healer.go:1108): the creation of an object is logged once, until it is deleted
\* (a deletion that finalizers hold up untracks it, and it is logged again).
LoggedOnce ==
    [][\A g \in Goroutine : \A o \in ToDo(g) :
         o \notin ToDo(g)' /\ KeyOf[o] \notin TrackedCRDs /\ o \notin outdated[g]
           => o \notin logged \/ obj[o].phase = "Terminating"]_vars

\* "how many CRDs were cleaned per type" (README.md:87): a resource whose deletion
\* finalizers hold up is in the list again, and is counted a second time only if
\* clearing its finalizers was tried before.
CountedOnce ==
    [][\A g \in Goroutine : Delete(g) /\ Target(g) \in counted => worker[g].item.force]_vars

\* And the other way round: what goes because a clean-up cleared its finalizers has
\* been counted.
RemovalIsCounted ==
    [][\A g \in Goroutine : RemoveFinalizers(g) /\ Terminating(Target(g)) => Target(g) \in counted]_vars

\* "resources within them are never deleted" (README.md:316): no object in an
\* excluded namespace is deleted or loses its finalizers by a clean-up.
ExcludedSpared ==
    [][\A g \in Goroutine :
         worker[g].pc \in {"finalizers", "delete"} /\ obj' # obj /\ worker'[g].pc # worker[g].pc
           => Target(g) \notin Excluded]_vars

\* A stale object that stays where it is listed is removed in the end: failed
\* lists and calls, rate limits, finalizers and the cooldown only delay it.
StaleEventuallyCleaned ==
    \A g \in Goroutine : \A o \in Lists[g] :
        Exists(o) /\ IsCRDResourceStale(Listed(o)) ~> ~Exists(o)
=============================================================================
