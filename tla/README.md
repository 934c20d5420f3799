# k8s-healer in TLA+

This directory holds a specification of k8s-healer, a Go program that watches a
Kubernetes cluster from outside and repairs it by deleting things: pods in a
crash loop, failing nodes, old virtual machines, stale custom resources, stale
namespaces, and pods in the way of a cluster under strain. All of its safety lies
in *what it deletes, how often, and on the strength of which, possibly outdated,
observation*. The modules model these decisions with the goroutines, informers,
signals and processes that make them; TLC checks them on small instances and
TLAPS proves every safety property among them for every value of the constants.

Paths such as `healer.go:519` are relative to `src/pkg/healer/`, `main.go` is
`src/cmd/main.go`, `daemon.go` is `src/pkg/daemon/daemon.go` and `checks.go` is
`src/pkg/util/checks.go`. `PROJECT.json` maps each definition to its lines.

## 1. The system

| Component | State | Operations | Interacts through |
|---|---|---|---|
| Pod healing (`healer.go:478-545, 731-744`) | `HealedPods` | `watchSingleNamespace`, `checkAndHealPod`, `triggerPodDeletion` | events of informers, one goroutine per namespace; the map with the cleaner and the guard |
| Namespace discovery and clean-up (`healer.go:390-475, 1672-2093`, `main.go:144-302, 500-526`) | `Namespaces`, `WatchedNamespaces`, the informers that run | resolution at start, the poll, deletion goroutines, untracking | starts informers of pod healing; its list is the scope of the VM and CRD loops |
| Node healing (`healer.go:747-879`) | `HealedNodes` | `checkAndHealNode`, drain, delete | node informer; pods of the cluster |
| Virtual machine healing (`healer.go:888-1016`) | `HealedVMs` | 30 s loop, delete past six minutes | reads `Namespaces`; deletes the same objects as the clean-up of `virtualmachines.kubevirt.io` |
| Custom resource clean-up (`healer.go:1019-1395`) | `HealedCRDs`, `TrackedCRDs`, `CRDCleanupCounts` | a pass per type and ticker, the pass of SIGUSR1, listing goroutines, clean-up with retries | the list of namespaces; the maps with the other passes, the cleaner, the guard |
| Resource optimization (`healer.go:1426-1669`) | `OptimizedPods`, `CurrentClusterStrain` | strain check, choice of up to five pods, eviction or deletion | strain warns on creations (`handleResourceCreation`) |
| Cleaner and memory guard (`healer.go:547-728`) | all `Healed*` maps, the restart flag | one pass per map, `SanitizeReferences`, restart request | shared maps; the main `select` |
| Process life cycle (`main.go:471-659`) | process, pending signals, summary file | warm-up, PID file, signal set-up, `select`, shutdown | signals, PID file, summary file |
| Daemon commands (`daemon.go`, `main.go:305-402`) | PID file | start, stop, status, cleanup, summary | PID file, signals |
| Flags of the child (`main.go:412-468`) | none | `getDaemonArgs` | command line of the daemon |
| Predicates (`checks.go`) | none | `IsUnhealthy`, `IsNodeUnhealthy`, `IsCRDResourceStale`, strain, priority | called by all of the above |
| Warm-up, health check, discovery, scripts | none | read the cluster and print | none |

What is hard about it:

* **Check, act, record.** Every path reads a `Healed*` map under its lock,
  releases it, makes API calls that last up to minutes, and writes the map at the
  end. Two goroutines that see one key pass the check together.
* **Names, not incarnations.** Every deletion names its object. What was seen is
  an event in a queue, an entry of a list, or a snapshot of namespaces; by the time
  of the call the name may belong to something else, or the trouble may be over.
* **Derived scope.** The list of namespaces is both what is watched and what the
  next poll derives its prefixes from; an empty list means everything.
* **Partial failure.** API calls fail one by one, some failures are retried,
  some end the clean-up, some let it go on; what is recorded at the end does not
  depend on it, except in resource optimization, where it does.
* **Processes and files.** Commands read a PID and act on it later; files are
  removed by name; signals may arrive before they are handled; the child works
  with flags that its parent printed.

What makes each part correct, stated as properties in the modules: a cooldown
that holds through all interleavings; deletions that hit what was found bad;
tracking that agrees with itself and stays within the configuration; protected
pods that are spared; unhealthy and stale things that do go in the end; a healer
that ends when it is told to and serves what it is asked. Where a sentence of the documentation
promises more than the code does, section 3 says so.

## 2. The modules

| Module | What it is | Proofs |
|---|---|---|
| `CooldownGate` | abstract specification: two remedial calls for a key are a cooldown apart | |
| `PodHealing` | pod informers and `checkAndHealPod`; implements `CooldownGate` per informer and pod | `PodHealingProofs` |
| `NodeHealing` | the node informer, `checkAndHealNode`, the drain and the deletion under one deadline; implements `CooldownGate` | `NodeHealingProofs` |
| `NamespacePolling` | start-up resolution, polling, deletion of stale namespaces | `NamespacePollingProofs` |
| `VMHealing` | `NamespacePolling` composed with the check of virtual machines; implements both `NamespacePolling` and `CooldownGate` | `VMHealingProofs` |
| `CRDCleanup` | passes, listing goroutines, clean-up with retries; implements `CooldownGate` | `CRDCleanupProofs` |
| `DaemonArgs` | the flags of `start` and what becomes of them in the child | |
| `ResourceOptimization` | strain, choice and eviction, with the flags of `DaemonArgs`; implements `CooldownGate` | `SortingProofs`, `ResourceOptimizationProofs` |
| `Lifecycle` | healer processes, their signals, the commands, PID and summary file | `LifecycleProofs` |

Each has an `MC` module with the sets and functions its configurations choose
from (`MCResourceOptimization` instantiates `DaemonArgs` too).

How they meet:

* `NamespacePolling` decides how many informers see a pod, which `PodHealing`
  takes as the constant `Watches`; its run has two informers for one namespace, as
  after a rediscovery.
* `VMHealing` extends `NamespacePolling`: the steps of the poll, of the namespaces
  and of the check interleave, and a check copies the list as the poll left it.
  A namespace that is removed takes its virtual machines with it.
* Virtual machines are deleted by two paths with a map each, so each is somebody else to the other: the
  clean-up of type `virtualmachines` is `DeletedElsewhere` in `VMHealing`, and the VM loop is
  `VirtualMachineHealed` in `CRDCleanup`.
* `ResourceOptimization` extends `DaemonArgs`: it works with `Effective`, the flags
  after `getDaemonArgs`, and its properties speak of `Flags`, those that were given.
* `CRDCleanup` takes the passes as a constant; `Lifecycle` is where the one of
  SIGUSR1 comes from. The restart of `Lifecycle` is `Restart` in `PodHealing` and
  `NodeHealing`: the maps and queues are empty afterwards.

### Correspondence

*Time.* A time stamp in a map is kept as the age of the entry, because the code
only compares `now - t` with `HealCooldown` and `2*HealCooldown`; ages saturate
one past the larger. One `Tick` ages everything. The code's minutes are scaled to
one or two ticks, which leaves the order of the thresholds.

*Atomicity.* A step is what the code does between two points at which another
goroutine, process or the cluster can matter: a critical section, one API call,
one file operation. In `PodHealing` the look-up with the health test, the DELETE
and the recording are three steps. In `NodeHealing` the list of pods, each
eviction (a goroutine per pod), `wg.Wait`, the DELETE and the recording are steps of
their own, and the 30 s deadline may pass between any two. In `VMHealing` the copy of
the list, each goroutine's List, the look at each virtual machine, the DELETE and the
recording are. In `CRDCleanup` an item is looked at
(`TakeItem`: existing, logged, stale, cooldown), then each API call is a step, then
`Record`. In `ResourceOptimization` the strain check, the list of namespaces, each
namespace's goroutine, the choice, each eviction, each fallback deletion and each recording
are. In `NamespacePolling` a poll takes its snapshot in one step; the map and the list
are changed in two, name by name, when names are dropped, when a deletion goroutine untracks its
namespace, and when new ones are tracked after `wg.Wait`. In `Lifecycle` the PID file is truncated in
one step and written in the next, by the parent and by the child; a command reads it in one step and acts
in later ones; the 2 s and 400 ms sleeps put no bound on what happens meanwhile.

*Accepted is not done.* A call that is accepted may only begin something. An evicted pod of
`NodeHealing` is `leaving` and on its node until it has stopped; a deleted virtual machine with finalizers
terminates and stays until somebody takes them off; namespaces and custom resources likewise.

*Data.* Names are model values; `strings.HasPrefix`, `filepath.Match` and the
prefix of a name are constants (`HasPrefix`, `PatternMatch`, `PrefixOf`, `Matching`) of which
only `n \in HasPrefix[PrefixOf[n]]` is assumed. A pod is whether it exists, whether
it is in back-off, and its restarts (or, for optimization, its trouble); a node is how long
each condition has lasted; a virtual machine its age; a custom resource its phase, age, whether
its status says failed, and whether it has finalizers. Events and list items
carry what was read with them. Percentages are exact integers: the float64 arithmetic of
`IsClusterUnderStrain` first differs at 40 nodes, where 23 are less than 57.5 %.

*Cluster.* What controllers, the API server, other clients, the clock and the
operating system do is modelled from how the code uses it and marked external in
`PROJECT.json`: pods crash, restart, stop, move and are recreated under their names; nodes fail, recover and join; objects
and namespaces are created, deleted by others, kept by finalizers; calls fail,
time out, or hit the rate limiter; PIDs are used again, by healers and by other programs.

*History variables.* `since`, `odd` (the state of `CooldownGate`), `outdated`, `kept`, `logged`,
`counted`, `replaced` and `ended` are read only by each other's updates, never by a guard or by the update of a
variable of the program or the cluster.
They follow what the code remembers on purpose: `SanitizeReferences` (`healer.go:625`: "only
historical references ... are cleared"), a restart, and the limit on `TrackedCRDs` give up part
of it, so those steps reset the histories of the keys they drop (`Forget` in
`CooldownGate`). No other step may.

## 3. The runs

| Run | Configuration | Instance | Shows |
|---|---|---|---|
| `pod` | `PodHealing` | one pod, two informers of its namespace; others delete, the memory guard sanitizes or restarts | `CooldownRespected` (refinement of `CooldownGate` for each informer and pod), its inductive invariant `CooldownInv`, `HealedEventually` |
| `node` | `NodeHealing` | two nodes, one of which fails by every condition, a pod that stops, moves and comes back; failing calls, deadlines, others delete nodes, sanitizing and restarts | `CooldownRespected`, `CooldownInv`, `OnlyFailingDeleted`, `DrainedBeforeDeleted`, `FailingNodeGoes` |
| `ns` | `NamespacePolling` | test-1 (pattern), prod (explicit), app-dev (neither); calls fail, others delete | `TypeOK`, `TrackingAgrees`, `StaysConfigured`, `ExplicitKept`, `OnlyStaleDeleted` |
| `ns_live` | `NamespacePolling_live` | test-1 with a finalizer, test-2 (excluded), prod; calls succeed, nobody else deletes | `DiscoveredEventually`, `StaleEventuallyGone` |
| `vm` | `VMHealing` | test-1, named and matching, which comes and goes, so that the list may become empty; a virtual machine in it, with or without finalizers; failing calls, deletions elsewhere | `CooldownInv`, `CooldownRespected`, `OnlyOldDeleted`, `OldVMGoes` |
| `crd` | `CRDCleanup` | one object with a finalizer, one pass at a time, every failure, others delete, the memory guard acts | `CooldownInv`, `CooldownRespected`, `StaleEventuallyCleaned`, `CountedOnce` |
| `crd_tracked` | `CRDCleanup_tracked` | two types with plurals and passes of their own, one of virtual machines with finalizers that the VM loop deletes too; others delete, `TrackedCRDs` over its limit | `ListInv`, `LoggedOnce`, `OnlyStaleCleaned` |
| `opt` | `ResourceOptimization` | a daemon started for `test-*`; two nodes, five pods: two of which compete, a critical one, one without owner, one in a test namespace | `CooldownInv`, `ProtectedSpared`, `LeastImportantFirst`, `CooldownRespected`, `LeastImportantGo` |
| `life` | `Lifecycle` | one PID, used again by healers and by other programs; two shells that give every command between them, a foreground run too; crashes, restarts for memory | `TypeOK`, `StopMeansStopped`, `CleanupServed`, `TermServed` |

Every module's type invariant is checked by one of its runs, by itself or within the
inductive invariant of the proofs (`CooldownInv`, `ListInv`).

### What does not hold

Three runs check a sentence of the repository against the code and find a behaviour that
contradicts it; `findings` in `PROJECT.json` quotes the sentence.

| Run | Property | Sentence | What the code does |
|---|---|---|---|
| `crd_usr1` | `CooldownRespected` | the cooldown prevents repeated clean-ups (`README.md:1081`) | SIGUSR1's pass and the ticker's pass the check together |
| `life_start` | `OneHealer` | start checks if one is already running (`daemon.go:33`) | the PID file is truncated and written apart, and twice (`daemon.go:77, 218`, `main.go:604`): one shell that gives start twice has two healers |
| `vm_scope` | `StaysInScope` | VMs in watched namespaces are checked (`healer.go:902`) | `-n 'test-*'` whose last namespace goes: the list is empty, which means every namespace (`healer.go:915`) |

Further configurations do the same. They are not among the runs, because each is one of
the modules above under other constants; `tlc -config PodHealing_twice.cfg MCPodHealing`, and so on with
the `MC` module of the name's first part, prints the behaviour.

| Configuration | Property | Sentence | What the code does |
|---|---|---|---|
| `PodHealing_twice` | `CooldownOfPod` | minimum time between healing the same pod (`main.go:92`) | two informers of a rediscovered namespace (`healer.go:501, 1941`) pass the check together |
| `NamespacePolling_young` | `YoungSpared` | namespaces older than the stale age are deleted (`README.md:310`) | the DELETE carries a name, which a young namespace may have taken (`healer.go:2064`) |
| `NamespacePolling_drift` | `StaysConfigured` | prefixes derive from the provided namespaces (`README.md:293`) | discovered names are seeds too (`healer.go:1782`): from the pattern `*-dev`, app-dev leads to app-prod |
| `NamespacePolling_explicit` | `ExplicitKept` | explicit namespaces should be kept (`healer.go:1872`) | a name with a separator matches the prefix made from itself, and is dropped when absent |
| `NamespacePolling_nopoll` | `DiscoveredEventually` | discovery needs a pattern or names with prefixes (`README.md:294`) | with prefixes alone the polling is not started (`healer.go:456-466`) |
| `VMHealing_mixed` | `CooldownRespected` | minimum time between healings (`main.go:92`) | a poll adds names to a list that begins with NamespaceAll (`healer.go:1937`): two goroutines list one machine |
| `VMHealing_young` | `YoungVMSpared` | only VMs older than six minutes are deleted (`README.md:138`) | the DELETE carries a name, which a fresh machine may have taken (`healer.go:1010`) |
| `CRDCleanup_counted` | `RemovalIsCounted` | a summary of how many were cleaned (`README.md:87`) | an object that disappears with its last finalizer is not counted (`healer.go:1314`), for instance a machine that the VM loop has deleted |
| `CRDCleanup_excluded` | `ExcludedSpared` | resources within excluded namespaces are never deleted (`README.md:316`) | the clean-up does not ask for the exclusions; only the deletion of namespaces does (`healer.go:1955`) |
| `NodeHealing_drain` | `SafelyDrained` | the node is safely drained before (`README.md:144`) | an eviction call answers when the pod begins to end; the node is deleted when all calls have answered (`healer.go:876`) |
| `NodeHealing_moved` | `DrainStaysOnNode` | the pods on the node are evicted (`healer.go:831`) | the eviction names the pod: one that came back on another node since the list is evicted there (`healer.go:863`) |
| `ResourceOptimization_daemon` | `ProtectedSpared` | pods of test namespaces are never evicted (`README.md:174`) | `start` hands its child no `--namespace-pattern`, so the child has no test namespaces |
| `ResourceOptimization_strain` | `StrainExceeds` | strain is when the percentage *exceeds* the threshold (`README.md:162`) | the comparison is `>=` (`checks.go:564`): 1 of 2 nodes is strain at 50 % |
| `ResourceOptimization_rounded` | `OnlyUnderStrain` | the percentage that triggers optimization (`main.go:112`) | the child gets it with one digit (`main.go:444`): for 50.04 % it evicts at 50 % |
| `Lifecycle_found` | `Reachable` | the PID file is there for process management (`README.md:798`) | stop, status and a healer that ends remove it by name, whoever is in it (`daemon.go:126, 150`, `main.go:607`) |
| `Lifecycle_request` | `RequestsAreHarmless` | SIGUSR1 runs a clean-up (`README.md:85`) | before `signal.Notify` it ends the healer, which is in the PID file already (`main.go:613`) |
| `Lifecycle_number` | `OthersAreSpared` | signals go to the daemon process (`daemon.go:158`) | the file of a healer that restarted for memory keeps its number (`main.go:657`), which may be another program's by then |

Disagreements that no configuration is about:

* `README.md:140` has machines in `ErrorUnschedulable` cleaned up after three minutes; the code knows the six
  minutes alone (`healer.go:999`, `1189`).
* The comment at `checks.go:665` orders the priority classes "... medium > low > unset", but unset counts 30, above
  "low" with 20, so pods of class low go first; an unknown class counts 30 as well, where the comment says to treat
  it as medium, which is 50 (`checks.go:683`). `GetPodPriority` has the numbers of the code.
* The comment at `healer.go:1545` reads "Medium or lower priority" where the condition is `< 50`, which leaves medium out.

### What the passing properties rest on

A property passes under the constants of its run. Where those leave something out, the code
gives no guarantee without it; most of it is shown by one of the violating runs or configurations above.

| Property | Needs | Without it |
|---|---|---|
| `CooldownRespected` (pods) | it is counted per informer | `PodHealing_twice` |
| `OnlyFailingDeleted` | nothing newer than the event | nothing looks at the node again after the drain (`healer.go:821`): a recovered or replaced node goes. The property excuses exactly that |
| `DrainedBeforeDeleted` | it asks for eviction calls | `NodeHealing_drain`, `NodeHealing_moved`; pods that come after the list are not evicted, since the node is not cordoned |
| `FailingNodeGoes` | drains within the deadline | a drain that uses up the 30 s leaves none for the DELETE (`healer.go:807`), and the cooldown is recorded all the same |
| `TrackingAgrees` | it knows what each goroutine has in hand | between the two critical sections the map and the list do differ (`healer.go:1885-1897, 1933-1938, 2082-2092`), and the VM, CRD and optimization loops may copy the list just then |
| `StaysConfigured` | `PrefixClosed` | `NamespacePolling_drift` |
| `ExplicitKept` | `PrefixClosed`, `ExplicitApart` | `NamespacePolling_explicit` |
| `OnlyStaleDeleted` | names that went since the list are excused | `NamespacePolling_young` |
| `DiscoveredEventually` | the polling starts | `NamespacePolling_nopoll` |
| `StaleEventuallyGone` | the finalizers are cleared before the deletion: `CallsFail`, `OthersDelete` are off | a terminating namespace is skipped by every later poll (`healer.go:1982`), so one whose Update failed, or that somebody else deleted, keeps its finalizers |
| `CooldownRespected` (virtual machines) | `Unmixed` | `VMHealing_mixed` |
| `OnlyOldDeleted` | machines that disappeared since the list are excused | `VMHealing_young` |
| `OldVMGoes` | finalizers are somebody else's | nothing on this path takes them off (`healer.go:999-1016`): a machine that has them terminates and stays until its controller or `CRDCleanup` does |
| `CooldownRespected` (custom resources) | one pass at a time | run `crd_usr1` |
| `OnlyStaleCleaned` | names that were taken since the list are excused | the next object of the name may come between two calls (`healer.go:1271-1328`) |
| `CountedOnce` | one goroutine lists the object; removing finalizers was tried | an object that is in the list again with new finalizers, or whose first attempt failed, may be counted again; `CRDCleanup_counted` is the other direction |
| `LoggedOnce` | lists succeed, plurals differ, one goroutine lists the object | a failed list prunes what it did not see (`healer.go:1096`), and a key has no group (`healer.go:1125`). To see it: `CallsFail`, or `KeyOf` with one key, in `CRDCleanup_tracked.cfg` |
| `ProtectedSpared` | `PatternKept` | `ResourceOptimization_daemon` |
| `LeastImportantGo` | it is about the least important pods | a failed eviction is not recorded (`healer.go:1653`): the first pods of the order are tried again in every check, those behind them may wait for ever |
| `CooldownRespected` (optimization) | calls that fail are not applied | a call that timed out and was applied is not recorded either |

`StopMeansStopped`, `CleanupServed` and `TermServed` need no more than their runs show. `OneHealer`,
`Reachable`, `RequestsAreHarmless` and `OthersAreSpared` hold of no set of commands that is of use: the configurations that
refute them have the fewest shells and failures that do.

### Bounds

* Two events per pod informer, one per node informer (`QueueBound`), two informers,
  `RestartThreshold` 2 for the code's 3: an event that outlives its pod or node, a status that is
  skipped, a way to the threshold of several steps.
* `HealCooldown` of two ticks (one in `crd_tracked`, `node`, `opt`): a second call within the cooldown, at
  its end, and a forgotten entry (age past twice the cooldown) are all reached. `StaleAge` and `VMMaxAge`
  of one tick or of none: an object is fresh or stale either way.
* Two nodes, so that a pod has somewhere to go from the one being drained. `Threshold` 0 and 1: a condition that counts at once and one that lasts first.
* Three namespaces: one that is explicit, one that matches, one that does not or is
  excluded. `vm`, where every namespace also has a goroutine of the check, has the one
  that is on and off the list, and the goroutine for all namespaces that stands in for an empty list.
  `InformerBound` 2 counts "more than one", and `VMHealing`, which has no property of informers, takes 1.
* One object under every failure, or two of different types: pruning needs a second key and a second pass.
  `MaxRetries` 2 has a retry and a last attempt; the code's 3 adds one of the former.
  `TrackedLimit`, `TrackedTenths` stand for 5000 and 30%: with two keys, 1 and 5 tenths
  make the cleaner drop one of them. `crd_tracked` takes `VIEW WithoutGate`: the two history variables of the cooldown
  are read by no guard and by no property of that run, so states that differ in them alone are one.
* `MaxEvictions` 1 for the code's 5, with two or three candidates, so that the cut leaves some out; the proof of
  `LeastImportantFirst` is for any number.
  A threshold of 50 % with two nodes is met exactly by one, and the two nodes may also go.
* Two shells: any two commands overlap. One PID in `life`: its properties are about one number, which is used
  again by any process that can start; a second healer, which takes two PIDs and one shell, is in `life_start`. `StopMeansStopped` is
  proved for any number of both.

No symmetry is used. Each run takes less than three minutes with two workers.

### Fairness

`FairSpec` of each module (`FairVMSpec` of `VMHealing`) asks for no more than the runtime gives: goroutines that
can run do (weak fairness of their steps), tickers tick, informers resync. Checks and polls
end by themselves, so weak fairness of a whole check is enough for all of its parts. Strong
fairness stands for "a call that is made again and again succeeds some time": the
deletion, the eviction, the list and the finalizer update; for a node only while its deadline has not
passed. In `Lifecycle` it is the random choice of
Go's `select` among ready cases. Resync is strongly fair only because `QueueBound`
can disable it. Of the environment only the clock and the namespace controller's
removal of terminating namespaces are fair; nobody is obliged to crash, create, recover, take off
finalizers or give commands. A process that restarts for ever heals nothing: `HealedEventually` and
`FailingNodeGoes` say so.

## 4. The proofs

tlapm checks, from the constants' assumptions in each module
(`PodAssumption`, `NodeAssumption`, `NamespaceAssumption`, `VMAssumption`, `CRDAssumption`, `OptimizationAssumption`,
`LifecycleAssumption`) alone unless a theorem says more. Each hypothesis that a theorem adds is one of the
table above, most with a configuration that shows the property violated without it.

* `PodHealingProofs`: `TypeCorrect`; `CooldownInvariant` and
  `CooldownIsRespected`: `PodHealing` implements `CooldownGate` for each informer and pod, whichever
  informers watch what. The cooldown alone is not inductive, because
  what matters is between the look-up and the recording.
  `CooldownInv` adds the two halves: a handler about to delete is past the cooldown
  (`PendingDeletionIsDue`), and a call younger than the cooldown is in `HealedPods` with
  an age no larger, or its handler is about to record it (`RecentCallIsRecorded`); an entry that
  another informer writes is only younger. The refinement then
  maps the two outcomes of `triggerPodDeletion` to `Act`, `Tick` to `Elapse`, `SanitizeReferences` and
  `Restart` to `Forget`, and the rest to stutters.
* `NodeHealingProofs`: `CooldownInvariant` and `CooldownIsRespected` along the same
  lines, with a drain of any length in between; `WorkingNodesAreSafe`, from `KnowledgeHolds`: an event or
  a handler is outdated, or its node is failing, or still has the troubles the event shows;
  `DrainComesFirst`, from `DrainInv`: the evictable pods on the node are about to be evicted, on their way out
  (`leaving`), or among those that need not be, whatever pods stop and come back in the meantime.
* `NamespacePollingProofs`: `TypeCorrect`; `TrackingAlwaysAgrees`, with `MapIsFirst`: the map is changed before the
  list on every one of the three paths, so list and map differ by what is between its two critical sections
  (`Leaving`, `Entering`), and no two of these are about one name in a way that would lose one; `ScopeDoesNotDrift`:
  if no configured name has a prefix that leads out of the configuration
  (`PrefixClosed`), neither does any sequence of polls (`MatchIsConfigured` is its core);
  `ExplicitNamesAreKept`: then explicit names that no such prefix reaches (`ExplicitApart`) are never
  dropped; and `YoungNamespacesAreSafe`: a namespace that a goroutine is to delete is past the
  stale age until its DELETE, or its name has been free since the list (`StaleSinceList`), whoever else deletes.
* `VMHealingProofs`: `PollingGoesOn`, the composition implements `NamespacePolling`, so that all of the
  above holds in it; `VMTypeCorrect`; `CooldownInvariant` and `CooldownIsRespected` under `Unmixed` (without
  it two goroutines can have one machine: `AllStandsAlone` excludes that); and
  `YoungMachinesAreSafe`, from what a goroutine knows of the machines it listed (`Knows`: each once, with
  the age they have, or outdated), with finalizers or without.
* `LifecycleProofs`: `TypeCorrect`, and `StopStops`, without any assumption on the shells: a command that read a PID
  while it was alive and saw or made it die holds a number whose process has ended, even when the number has been used
  again since (`StoppedHasEnded`; `ended` is the history of it). What is false of this component is in the
  run `life_start` and three configurations above.
* `CRDCleanupProofs`: `TypeCorrect`; `CooldownInvariant`: a key whose clean-up began within the cooldown has
  an entry no older, or some goroutine is at it (`CleanUpIsRecorded`), for any passes; and `CooldownIsRespected` when no two
  goroutines list one key (`KeysApart`: one pass of a type at a time, no two types of one plural), since only then does "no
  entry" mean that nobody is at it. The other three properties are about an object on its way from a list to its DELETE. For
  them the module first says what one step makes of a goroutine (`Moves`) and of objects, tracked keys and passes, and then
  proves four invariants, each from those before it, together `ListInv`:
  * `ListedOnce`, without hypotheses: each object is once in a list, and is there unless it is outdated;
  * `AgesAgree`, without hypotheses: the listed age is that of the object as long as it is not outdated, and what is being
    cleaned was condemned by it or by its listed status; hence `OnlyStaleIsCleaned`;
  * `CountedIsHeldUp`: counted is only what finalizers hold up, and whoever handles it again clears these first, in *each*
    attempt; hence `ObjectsAreCountedOnce`. It needs that an object is listed by one goroutine (`ObjectsApart`), since the
    list of another one could be older than the DELETE;
  * `LoggedIsTracked`: what has been logged is tracked, and in a pass that will prune it its goroutine has not come to it or
    has marked it as existing; hence `CreationsAreLoggedOnce`. It needs `ObjectsApart`, one key per object (`NamesDiffer`),
    passes that prune no other's keys (`PluralsApart`) and lists that do not fail.

  None of them assumes that nobody else deletes: the VM loop does (`VirtualMachineHealed`).
* `SortingProofs`: the sort of `healer.go:1593` puts any number of pods in order and loses or repeats none
  (`SortedByPrioritySorts`). The library's induction takes an operator as a parameter, which no prover here instantiates, so induction
  is won from first-order facts: `<` on `Nat` is well-founded (`NatLessThanWellFounded`, `WFMin`), so a set of numbers has a
  least element (`LeastElement`), so a set with 0 and the successors of its elements is `Nat` (`SetInduction`), so recursive
  functions exist (`PrimitiveRecursion`). `RoundSorts` is the invariant of the inner loop: after round *i* the first *i*
  places are in order and no more important than the rest (`InPlace`).
* `ResourceOptimizationProofs`: `TypeCorrect`; `CooldownInvariant` and `CooldownIsRespected`: what is
  still to be evicted are different pods, all past their cooldown (`PendingEvictionIsDue`; different, because the sort permutes a set),
  and a recent eviction is recorded or about to be; `NoEvictionWithoutStrain` for thresholds that survive being printed
  with one digit (`WholeTenths`; `ResourceOptimization_rounded` is the other side); `ProtectedPodsStay` when polling and pattern, which the child is not
  told of, were left at their defaults (`PatternKept`; `ResourceOptimization_daemon`); `LeastImportantGoFirst`, from the sort and the cut at
  `MaxEvictions`.

Only model-checked: the liveness properties (`HealedEventually`, `FailingNodeGoes`, `DiscoveredEventually`,
`StaleEventuallyGone`, `OldVMGoes`, `StaleEventuallyCleaned`, `LeastImportantGo`, `CleanupServed`, `TermServed`), because
fairness and ENABLED are out of the prover's reach. Every other property of a passing run is a theorem.

## 5. What is not modelled

* Warm-up, health check and endpoint discovery read the cluster and print; they change no
  state. The duration of the warm-up is the `booting` state of `Lifecycle`.
* `handleResourceCreation` only prints a warning, `IsVirtualMachineUnhealthy` only decides a log line,
  and the `Get...Reason` functions only make text.
* The test pods that `checkAndOptimizeResources` also collects: their needs are looked at only under
  strain, which is reason enough to evict others, so they decide nothing.
* In `ResourceOptimization` an eviction that is accepted removes the pod at once. A pod that is still ending would only be
  looked at again after the cooldown, which its recorded eviction starts; the difference matters in `NodeHealing`, which has it.
* A memory limit of 0 ("disabled") is dropped by `getDaemonArgs` and becomes the default of 40 MB in the child
  (`main.go:449`): `DaemonArgs` computes it, no property depends on it.
* The restart for memory empties every map. It is a step of `PodHealing`, `NodeHealing` and `Lifecycle`; `VMHealing`,
  `CRDCleanup` and `ResourceOptimization` stop at `SanitizeReferences` or without either.
* A failing write of the PID file, the log redirection, wording, the build and start scripts.
* `Lifecycle` does not look inside a clean-up; `CRDCleanup` fixes the namespaces of a pass.

## 6. Plan

1. Done: `CooldownGate`, `PodHealing`, `NamespacePolling`, `CRDCleanup`, `Lifecycle`.
2. Done: `NodeHealing`, `VMHealing` (composed with `NamespacePolling`), `DaemonArgs`, `ResourceOptimization`.
3. Done: proofs of pod, node and virtual machine healing, of discovery and of the life cycle.
4. Done: proofs of the custom resource clean-up, of the sort and of resource optimization; graceful evictions and deletions,
   critical sections and file operations one by one, and a configuration for each sentence of the documentation that the code contradicts.
5. Next: from the safety part of a liveness argument what can be stated without fairness, such as that a goroutine's list only
   shrinks between two lists and that its attempts are bounded.
6. Possible later: a composition of `PodHealing` and `NamespacePolling` in which the informers that the poll starts
   are those that heal, with an incarnation number per pod to say which pod a deletion hits; a restart in the other modules.
