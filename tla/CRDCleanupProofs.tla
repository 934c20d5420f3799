-------------------------- MODULE CRDCleanupProofs --------------------------
(***************************************************************************)
(* The clean-up of custom resources for any number of objects, types,      *)
(* passes and goroutines: the cooldown of a key where lists share no key,  *)
(* that only what is stale is cleaned, and, where lists share no object,   *)
(* that removals are counted once and creations logged once.               *)
(*                                                                         *)
(* First what one step makes of a goroutine, of an object, of the maps and *)
(* of a pass; the invariants then follow case by case.                     *)
(***************************************************************************)
EXTENDS CRDCleanup, TLAPS

-----------------------------------------------------------------------------
(* Types *)

\* The numbers of the constants.
LEMMA Numbers ==
  /\ MaxAge \in Nat
  /\ HealCooldown \in Nat \ {0}
  /\ OldEntry \in Nat /\ OldEntry > HealCooldown
  /\ None \notin Nat /\ None \notin Obj
  BY CRDAssumption DEF MaxAge, OldEntry

\* What the steps make of an object is an object.
LEMMA ObjectType ==
  /\ Absent \in Object
  /\ \A o \in Obj : Created(o) \in Object
  /\ \A x \in Object :
       /\ [x EXCEPT !.phase = "Terminating"] \in Object
       /\ [x EXCEPT !.failed = TRUE] \in Object
       /\ [x EXCEPT !.failed = FALSE] \in Object
       /\ [x EXCEPT !.finalizers = FALSE] \in Object
       /\ Older(x) \in Object /\ Older(x).phase = x.phase
       /\ Older(x).finalizers = x.finalizers
  <1>1. 0 \in 0..(MaxAge + 1)
    BY Numbers
  <1>2. ASSUME NEW x \in Object
        PROVE  /\ Older(x) \in Object /\ Older(x).phase = x.phase
               /\ Older(x).finalizers = x.finalizers
    BY Numbers DEF Older, Object
  <1>3. Absent \in Object
    BY <1>1 DEF Absent, Object
  <1>4. \A o \in Obj : Created(o) \in Object
    BY <1>1 DEF Created, Object
  <1>5. ASSUME NEW x \in Object
        PROVE  /\ [x EXCEPT !.phase = "Terminating"] \in Object
               /\ [x EXCEPT !.failed = TRUE] \in Object
               /\ [x EXCEPT !.failed = FALSE] \in Object
               /\ [x EXCEPT !.finalizers = FALSE] \in Object
    BY DEF Object
  <1>6. QED
    BY <1>2, <1>3, <1>4, <1>5

\* An item names an object, and growing older leaves it the same item.
LEMMA ItemType ==
  /\ NoItem \notin Item
  /\ \A i \in Item :
       /\ i.obj \in Obj /\ i # NoItem
       /\ Older(i) \in Item /\ Older(i).obj = i.obj /\ Older(i).force = i.force
       /\ [i EXCEPT !.age = 0] \in Item
       /\ [i EXCEPT !.age = 0].obj = i.obj /\ [i EXCEPT !.age = 0].force = i.force
  <1>1. \A i \in Item : i.obj \in Obj
    BY DEF Item
  <1>2. NoItem.obj = None
    BY DEF NoItem
  <1>3. \A i \in Item : i # NoItem
    BY <1>1, <1>2, Numbers
  <1>4. ASSUME NEW i \in Item
        PROVE  Older(i) \in Item /\ Older(i).obj = i.obj /\ Older(i).force = i.force
    BY Numbers DEF Older, Item
  <1>5. ASSUME NEW i \in Item
        PROVE  /\ [i EXCEPT !.age = 0] \in Item
               /\ [i EXCEPT !.age = 0].obj = i.obj /\ [i EXCEPT !.age = 0].force = i.force
    BY Numbers DEF Item
  <1>6. QED
    BY <1>1, <1>3, <1>4, <1>5

\* A goroutine gets an item, and is done with it.
Begun(w, c, s, i) == [w EXCEPT !.pc = c, !.todo = s, !.item = i, !.attempt = 1]
Done(w) == [w EXCEPT !.pc = "next", !.item = NoItem, !.attempt = 0]

\* Another attempt begins.
Again(w) == [w EXCEPT !.pc = First(w.item), !.attempt = w.attempt + 1]

\* A goroutine that begins a clean-up, that is done with one,
LEMMA BegunType ==
  ASSUME NEW w \in Worker, NEW c \in {"finalizers", "get"}, NEW s \in SUBSET Item,
         NEW i \in Item
  PROVE  /\ Begun(w, c, s, i) \in Worker
         /\ Begun(w, c, s, i).pc = c
         /\ Begun(w, c, s, i).todo = s
         /\ Begun(w, c, s, i).item = i
  <1>1. 1 \in 0..MaxRetries
    BY CRDAssumption
  <1>2. QED
    BY <1>1 DEF Begun, Worker

\* that has recorded its clean-up,
LEMMA DoneType ==
  ASSUME NEW w \in Worker
  PROVE  /\ Done(w) \in Worker
         /\ Done(w).pc = "next"
         /\ Done(w).todo = w.todo
         /\ Done(w).item = NoItem
  <1> DEFINE none == NoItem
  <1>1. 0 \in 0..MaxRetries /\ none \in Item \cup {NoItem}
    BY CRDAssumption
  <1>2. Done(w) = [w EXCEPT !.pc = "next", !.item = none, !.attempt = 0]
    BY DEF Done
  <1> HIDE DEF none
  <1>3. Done(w) \in Worker /\ Done(w).pc = "next" /\ Done(w).todo = w.todo /\ Done(w).item = none
    BY <1>1, <1>2 DEF Worker
  <1>4. QED
    BY <1>3 DEF none

\* and that makes another attempt is a goroutine.
LEMMA AgainType ==
  ASSUME NEW w \in Worker, w.attempt < MaxRetries
  PROVE  /\ Again(w) \in Worker
         /\ Again(w).pc = First(w.item) /\ First(w.item) \in {"finalizers", "get"}
         /\ Again(w).todo = w.todo
         /\ Again(w).item = w.item
  <1>1. ASSUME NEW c \in {"finalizers", "get"}, NEW n \in 0..MaxRetries
        PROVE  LET v == [w EXCEPT !.pc = c, !.attempt = n] IN
               v \in Worker /\ v.pc = c /\ v.todo = w.todo /\ v.item = w.item
    BY DEF Worker
  <1>2. First(w.item) \in {"finalizers", "get"}
    BY DEF First
  <1>3. w.attempt + 1 \in 0..MaxRetries
    BY CRDAssumption DEF Worker
  <1>4. QED
    BY <1>1, <1>2, <1>3 DEF Again

\* The parts of TypeOK: the cluster with its history, the maps, and a goroutine
\* within its pass.
ClusterType ==
  /\ obj \in [Obj -> Object]
  /\ outdated \in [Goroutine -> SUBSET Obj]
  /\ logged \in SUBSET Obj /\ counted \in SUBSET Obj

MapType ==
  /\ HealedCRDs \in [Key -> 0..OldEntry \cup {None}]
  /\ TrackedCRDs \in SUBSET Key
  /\ since \in [Key -> 0..HealCooldown] /\ odd \in [Key -> BOOLEAN]

PassType == pass \in [Pass -> [running : BOOLEAN, existing : SUBSET Key]]

Shape(g, w) ==
  /\ w.pc # "off" => pass[PassOf[g]].running
  /\ w.item = NoItem <=> w.pc \in {"off", "list", "next"}
  /\ w.item.obj \in Lists[g] \cup {None}
  /\ \A i \in w.todo : i.obj \in Lists[g]

WorkerType ==
  /\ worker \in [Goroutine -> Worker]
  /\ \A g \in Goroutine : Shape(g, worker[g])

\* The type invariant in parts that steps leave alone or change together.
LEMMA TypeParts ==
  /\ TypeOK <=> ClusterType /\ MapType /\ PassType /\ WorkerType
  /\ TypeOK' <=> ClusterType' /\ MapType' /\ PassType' /\ WorkerType'
  BY DEF TypeOK, ClusterType, MapType, PassType, WorkerType, Shape, Target

\* A goroutine that does not run has nothing to do.
LEMMA OffType ==
  /\ Off \in Worker /\ [Off EXCEPT !.pc = "list"] \in Worker
  /\ Off.pc = "off" /\ Off.todo = {} /\ Off.item = NoItem /\ NoItem.obj = None
  <1>1. NoItem.obj = None
    BY DEF NoItem
  <1>2. /\ Off.pc = "off" /\ Off.todo = {} /\ Off.item = NoItem
        /\ Off \in Worker /\ [Off EXCEPT !.pc = "list"] \in Worker
    BY CRDAssumption DEF Off, Worker
  <1>3. QED
    BY <1>1, <1>2

\* What a goroutine cleans is an object it lists.
LEMMA TargetType ==
  ASSUME TypeOK, NEW g \in Goroutine, worker[g].pc \notin {"off", "list", "next"}
  PROVE  /\ worker[g].item \in Item /\ Target(g) \in Obj /\ Target(g) \in Lists[g]
         /\ TargetKey(g) \in Key
  <1>1. worker[g].item \in Item
    BY DEF TypeOK, Worker
  <1>2. Target(g) \in Obj /\ Target(g) \in Lists[g]
    <2>1. Target(g) \in Obj
      BY <1>1, ItemType DEF Target
    <2>2. Target(g) \in Lists[g] \cup {None}
      BY DEF TypeOK
    <2>3. QED
      BY <2>1, <2>2, Numbers
  <1>3. QED
    BY <1>1, <1>2, CRDAssumption DEF TargetKey

\* What is to be handled was listed.
LEMMA TodoType ==
  ASSUME TypeOK, NEW g \in Goroutine, NEW i \in worker[g].todo
  PROVE  i \in Item /\ i.obj \in Obj /\ i.obj \in Lists[g] /\ KeyOf[i.obj] \in Key
  <1>1. i \in Item /\ i.obj \in Lists[g]
    BY DEF TypeOK, Worker
  <1>2. QED
    BY <1>1, ItemType, CRDAssumption

\* A listed object makes an item.
LEMMA ListedType ==
  ASSUME TypeOK, NEW o \in Obj
  PROVE  Listed(o) \in Item /\ Listed(o).obj = o
  BY CRDAssumption DEF TypeOK, Object, Item, Listed

\* A goroutine goes on within its pass.
LEMMA OneMoves ==
  ASSUME WorkerType, NEW g \in Goroutine, NEW w \in Worker,
         worker' = [worker EXCEPT ![g] = w],
         \A p \in Pass : pass'[p].running = pass[p].running,
         w.item = NoItem <=> w.pc \in {"off", "list", "next"},
         w.item.obj \in Lists[g] \cup {None},
         \A i \in w.todo : i.obj \in Lists[g],
         worker[g].pc # "off"
  PROVE  WorkerType'
  <1>1. worker' \in [Goroutine -> Worker]
    BY DEF WorkerType
  <1>2. ASSUME NEW h \in Goroutine
        PROVE  Shape(h, worker[h])'
    <2>0. PassOf[h] \in Pass
      BY CRDAssumption
    <2>1. CASE h = g
      <3>1. worker'[h] = w
        BY <2>1 DEF WorkerType
      <3>2. QED
        BY <2>0, <2>1, <3>1 DEF Shape, WorkerType
    <2>2. CASE h # g
      <3>1. worker'[h] = worker[h]
        BY <2>2 DEF WorkerType
      <3>2. QED
        BY <2>0, <3>1 DEF Shape, WorkerType
    <2>3. QED
      BY <2>1, <2>2
  <1>3. QED
    BY <1>1, <1>2 DEF WorkerType

\* The types of what happens to objects.
LEMMA VanishesType ==
  ASSUME ClusterType, NEW o \in Obj, Vanishes(o)
  PROVE  ClusterType'
  BY ObjectType DEF Vanishes, ClusterType

\* A DELETE of others,
LEMMA DeletesType ==
  ASSUME ClusterType, NEW o \in Obj, Deletes(o)
  PROVE  ClusterType'
  <1>1. CASE obj[o].finalizers
    <2>1. [obj[o] EXCEPT !.phase = "Terminating"] \in Object
      BY ObjectType DEF ClusterType
    <2>2. QED
      BY <1>1, <2>1 DEF Deletes, ClusterType
  <1>2. CASE ~obj[o].finalizers
    BY <1>2, VanishesType DEF Deletes
  <1>3. QED
    BY <1>1, <1>2

\* and an UPDATE keep the shape of the cluster.
LEMMA UnfinalizesType ==
  ASSUME ClusterType, NEW o \in Obj, Unfinalizes(o)
  PROVE  ClusterType'
  BY VanishesType, ObjectType DEF Unfinalizes, ClusterType

\* At first everything has its shape.
LEMMA TypeInit == Init => TypeOK
  <1> SUFFICES ASSUME Init PROVE TypeOK
    OBVIOUS
  <1>1. ClusterType
    BY ObjectType DEF Init, ClusterType
  <1>2. MapType
    BY Numbers DEF Init, MapType
  <1>3. PassType
    BY DEF Init, PassType
  <1>4. WorkerType
    BY OffType DEF Init, WorkerType, Shape
  <1>5. QED
    BY <1>1, <1>2, <1>3, <1>4, TypeParts

\* It is kept by the cluster,
LEMMA ClusterStepType ==
  ASSUME TypeOK, Cluster
  PROVE  TypeOK'
  <1>0. ClusterType /\ MapType /\ PassType /\ WorkerType
    BY TypeParts
  <1>1. CASE Tick
    <2>1. ClusterType'
      BY <1>0, <1>1, ObjectType DEF Tick, ClusterType
    <2>2. MapType'
      BY <1>0, <1>1, Numbers DEF Tick, MapType
    <2>3. PassType'
      BY <1>0, <1>1 DEF Tick, PassType
    <2>4. ASSUME NEW g \in Goroutine
          PROVE  worker'[g] \in Worker /\ Shape(g, worker[g])'
      <3>1. /\ worker[g] \in Worker /\ Shape(g, worker[g])
            /\ worker'[g] = [worker[g] EXCEPT !.todo = {Older(i) : i \in worker[g].todo}]
            /\ pass' = pass
        BY <1>0, <1>1 DEF WorkerType, Tick
      <3>2. worker[g].todo \subseteq Item
        BY <3>1 DEF Worker
      <3>3. {Older(i) : i \in worker[g].todo} \subseteq Item
        BY <3>2, ItemType
      <3>4. \A i \in worker'[g].todo : i.obj \in Lists[g]
        <4>1. worker'[g].todo = {Older(i) : i \in worker[g].todo}
          BY <3>1 DEF Worker
        <4>2. ASSUME NEW i \in worker[g].todo
              PROVE  Older(i).obj \in Lists[g]
          BY <3>1, <3>2, ItemType DEF Shape
        <4>3. QED
          BY <4>1, <4>2
      <3>5. worker'[g] \in Worker
        BY <3>1, <3>3 DEF Worker
      <3>6. worker'[g].pc = worker[g].pc /\ worker'[g].item = worker[g].item
        BY <3>1 DEF Worker
      <3>7. QED
        BY <3>1, <3>4, <3>5, <3>6 DEF Shape
    <2>5. WorkerType'
      BY <1>1, <2>4 DEF Tick, WorkerType
    <2>6. QED
      BY <2>1, <2>2, <2>3, <2>5, TypeParts
  <1>2. CASE \E o \in Obj : Changes(o)
    <2>1. PICK o \in Obj : Changes(o)
      BY <1>2
    <2>2. ClusterType'
      <3>1. CASE Create(o)
        BY <1>0, <3>1, ObjectType DEF Create, ClusterType
      <3>2. CASE Fails(o)
        BY <1>0, <3>2, ObjectType DEF Fails, ClusterType
      <3>3. CASE Recovers(o)
        BY <1>0, <3>3, ObjectType DEF Recovers, ClusterType
      <3>4. CASE VirtualMachineHealed(o) \/ DeletedByOthers(o)
        BY <1>0, <3>4, DeletesType DEF VirtualMachineHealed, DeletedByOthers
      <3>5. QED
        BY <2>1, <3>1, <3>2, <3>3, <3>4 DEF Changes
    <2>3. UNCHANGED <<HealedCRDs, TrackedCRDs, pass, worker, since, odd>>
      BY <2>1 DEF Changes, Create, Fails, Recovers, VirtualMachineHealed, DeletedByOthers, gateHistory
    <2>4. MapType' /\ PassType' /\ WorkerType'
      BY <1>0, <2>3 DEF MapType, PassType, WorkerType, Shape
    <2>5. QED
      BY <2>2, <2>4, TypeParts
  <1>3. QED
    BY <1>1, <1>2 DEF Cluster

\* by the beginning and the end of a pass,
LEMMA PassStepType ==
  ASSUME TypeOK, NEW w \in Pass, StartPass(w) \/ FinishPass(w)
  PROVE  TypeOK'
  <1>0. ClusterType /\ MapType /\ PassType /\ WorkerType
    BY TypeParts
  <1>1. ClusterType'
    BY <1>0 DEF StartPass, FinishPass, cluster, ClusterType
  <1>2. MapType'
    BY <1>0 DEF StartPass, FinishPass, gateHistory, MapType
  <1>3. PassType'
    <2>1. [running |-> TRUE, existing |-> {}] \in [running : BOOLEAN, existing : SUBSET Key]
          /\ [running |-> FALSE, existing |-> {}] \in [running : BOOLEAN, existing : SUBSET Key]
      OBVIOUS
    <2>2. QED
      BY <1>0, <2>1 DEF StartPass, FinishPass, PassType
  <1>4. CASE StartPass(w)
    <2>1. ASSUME NEW g \in Goroutine
          PROVE  worker'[g] \in Worker /\ Shape(g, worker[g])'
      <3>1. PassOf[g] \in Pass /\ worker[g] \in Worker /\ Shape(g, worker[g])
        BY <1>0, CRDAssumption DEF WorkerType
      <3>2. CASE PassOf[g] = w
        <4>1. worker'[g] = [Off EXCEPT !.pc = "list"] /\ pass'[w].running
          BY <1>0, <1>4, <3>2 DEF StartPass, PassType
        <4>2. QED
          <5>1. /\ worker'[g] \in Worker /\ worker'[g].pc = "list" /\ worker'[g].item = NoItem
                /\ worker'[g].todo = {}
            BY <4>1, OffType DEF Off
          <5>2. QED
            BY <3>2, <4>1, <5>1, OffType DEF Shape
      <3>3. CASE PassOf[g] # w
        <4>1. worker'[g] = worker[g] /\ pass'[PassOf[g]] = pass[PassOf[g]]
          BY <1>0, <1>4, <3>1, <3>3 DEF StartPass, PassType
        <4>2. QED
          BY <3>1, <4>1 DEF Shape
      <3>4. QED
        BY <3>2, <3>3
    <2>2. WorkerType'
      BY <1>4, <2>1 DEF StartPass, WorkerType
    <2>3. QED
      BY <1>1, <1>2, <1>3, <2>2, TypeParts
  <1>5. CASE FinishPass(w)
    <2>1. ASSUME NEW g \in Goroutine
          PROVE  Shape(g, worker[g])'
      <3>1. PassOf[g] \in Pass /\ worker'[g] = worker[g] /\ Shape(g, worker[g])
        BY <1>0, <1>5, CRDAssumption DEF WorkerType, FinishPass
      <3>2. CASE PassOf[g] = w
        BY <1>5, <3>1, <3>2 DEF FinishPass, Shape
      <3>3. CASE PassOf[g] # w
        <4>1. pass'[PassOf[g]] = pass[PassOf[g]]
          BY <1>0, <1>5, <3>1, <3>3 DEF FinishPass, PassType
        <4>2. QED
          BY <3>1, <4>1 DEF Shape
      <3>4. QED
        BY <3>2, <3>3
    <2>2. WorkerType'
      BY <1>0, <1>5, <2>1 DEF FinishPass, WorkerType
    <2>3. QED
      BY <1>1, <1>2, <1>3, <2>2, TypeParts
  <1>6. QED
    BY <1>4, <1>5

\* What the steps of a goroutine make of its state.
LEMMA WorkerMoves ==
  ASSUME TypeOK, NEW g \in Goroutine
  PROVE  LET w == worker[g] IN
         /\ List(g) => worker' = [worker EXCEPT ![g] =
              [w EXCEPT !.pc = "next", !.todo = {Listed(o) : o \in {x \in Lists[g] : Exists(x)}}]]
         /\ ListFails(g) \/ Finish(g) => worker' = [worker EXCEPT ![g] = Off]
         /\ \A i \in w.todo : TakeItem(g, i) =>
              \/ worker' = [worker EXCEPT ![g] =
                   Begun(w, First(i), w.todo \ {i}, [i EXCEPT !.age = 0])]
              \/ worker' = [worker EXCEPT ![g] = [w EXCEPT !.todo = w.todo \ {i}]]
         /\ RemoveFinalizers(g) \/ RemoveFinalizersFails(g)
              => worker' = [worker EXCEPT ![g] = [w EXCEPT !.pc = "get"]]
         /\ CheckExists(g) => worker' = [worker EXCEPT ![g] = [w EXCEPT !.pc = "delete"]]
         /\ AlreadyGone(g) \/ Delete(g) \/ DeleteFails(g)
              => worker' = [worker EXCEPT ![g] = [w EXCEPT !.pc = "record"]]
         /\ RateLimit(g) =>
              \/ w.attempt < MaxRetries /\ worker' = [worker EXCEPT ![g] = Again(w)]
              \/ worker' = [worker EXCEPT ![g] = [w EXCEPT !.pc = "record"]]
         /\ Record(g) => worker' = [worker EXCEPT ![g] = Done(w)]
  <1>1. worker \in [Goroutine -> Worker]
    BY DEF TypeOK
  <1>2. List(g) => worker' = [worker EXCEPT ![g] =
          [worker[g] EXCEPT !.pc = "next", !.todo = {Listed(o) : o \in {x \in Lists[g] : Exists(x)}}]]
    BY <1>1 DEF List
  <1>3. ListFails(g) \/ Finish(g) => worker' = [worker EXCEPT ![g] = Off]
    BY DEF ListFails, Finish
  <1>4. ASSUME NEW i \in worker[g].todo, TakeItem(g, i)
        PROVE  \/ worker' = [worker EXCEPT ![g] =
                    Begun(worker[g], First(i), worker[g].todo \ {i}, [i EXCEPT !.age = 0])]
               \/ worker' = [worker EXCEPT ![g] =
                    [worker[g] EXCEPT !.todo = worker[g].todo \ {i}]]
    BY <1>1, <1>4 DEF TakeItem, Begun
  <1>5. /\ RemoveFinalizers(g) \/ RemoveFinalizersFails(g)
             => worker' = [worker EXCEPT ![g] = [worker[g] EXCEPT !.pc = "get"]]
        /\ CheckExists(g) => worker' = [worker EXCEPT ![g] = [worker[g] EXCEPT !.pc = "delete"]]
        /\ AlreadyGone(g) \/ Delete(g) \/ DeleteFails(g)
             => worker' = [worker EXCEPT ![g] = [worker[g] EXCEPT !.pc = "record"]]
    BY <1>1 DEF RemoveFinalizers, RemoveFinalizersFails, CheckExists, AlreadyGone, Delete, DeleteFails
  <1>6. RateLimit(g) =>
          \/ worker[g].attempt < MaxRetries /\ worker' = [worker EXCEPT ![g] = Again(worker[g])]
          \/ worker' = [worker EXCEPT ![g] = [worker[g] EXCEPT !.pc = "record"]]
    BY <1>1 DEF RateLimit, Again
  <1>7. Record(g) => worker' = [worker EXCEPT ![g] = Done(worker[g])]
    BY <1>1 DEF Record, Done
  <1>8. QED
    BY <1>2, <1>3, <1>4, <1>5, <1>6, <1>7

\* by what a goroutine makes of itself,
LEMMA OthersRest ==
  ASSUME TypeOK, NEW g \in Goroutine, Checking(g) \/ Cleaning(g), NEW h \in Goroutine, h # g
  PROVE  worker'[h] = worker[h]
  <1>0. worker \in [Goroutine -> Worker]
    BY DEF TypeOK
  <1>1. CASE List(g) \/ ListFails(g) \/ Finish(g)
    BY <1>0, <1>1 DEF List, ListFails, Finish
  <1>2. CASE \E i \in worker[g].todo : TakeItem(g, i)
    BY <1>0, <1>2 DEF TakeItem
  <1>3. CASE RemoveFinalizers(g) \/ RemoveFinalizersFails(g) \/ CheckExists(g) \/ AlreadyGone(g)
    BY <1>0, <1>3 DEF RemoveFinalizers, RemoveFinalizersFails, CheckExists, AlreadyGone
  <1>4. CASE Delete(g) \/ DeleteFails(g) \/ RateLimit(g) \/ Record(g)
    BY <1>0, <1>4 DEF Delete, DeleteFails, RateLimit, Record
  <1>5. QED
    BY <1>1, <1>2, <1>3, <1>4 DEF Checking, Cleaning

\* by what a goroutine makes of itself,
LEMMA GoroutineWorkerType ==
  ASSUME TypeOK, NEW g \in Goroutine, Checking(g) \/ Cleaning(g)
  PROVE  WorkerType'
  <1> DEFINE w == worker[g]
  <1>0. ClusterType /\ MapType /\ PassType /\ WorkerType
    BY TypeParts
  <1>1. w \in Worker /\ Shape(g, w) /\ w.todo \subseteq Item
    BY <1>0 DEF WorkerType, Worker
  <1>2. \A p \in Pass : pass'[p].running = pass[p].running
    <2>1. CASE \E i \in w.todo : TakeItem(g, i)
      BY <1>0, <2>1, CRDAssumption DEF TakeItem, PassType
    <2>2. CASE ~\E i \in w.todo : TakeItem(g, i)
      <3>1. pass' = pass
        BY <2>2 DEF Checking, Cleaning, List, ListFails, Finish, RemoveFinalizers,
           RemoveFinalizersFails, CheckExists, AlreadyGone, Delete, DeleteFails, RateLimit, Record
      <3>2. QED
        BY <3>1
    <2>3. QED
      BY <2>1, <2>2
  <1>3. CASE List(g)
    <2> DEFINE todo == {Listed(o) : o \in {x \in Lists[g] : Exists(x)}}
               v == [w EXCEPT !.pc = "next", !.todo = todo]
    <2>1. Lists[g] \subseteq Obj
      BY CRDAssumption
    <2>2. todo \subseteq Item /\ \A i \in todo : i.obj \in Lists[g]
      BY <2>1, ListedType
    <2> HIDE DEF todo
    <2>3. v \in Worker /\ v.pc = "next" /\ v.todo = todo /\ v.item = w.item
      BY <1>1, <2>2 DEF Worker
    <2>4. w.pc = "list" /\ worker' = [worker EXCEPT ![g] = v]
      BY <1>3, WorkerMoves DEF List, todo
    <2> HIDE DEF w, v
    <2>5. QED
      BY <1>0, <1>1, <1>2, <2>2, <2>3, <2>4, OneMoves DEF Shape, w
  <1>4. CASE ListFails(g) \/ Finish(g)
    <2>1. worker' = [worker EXCEPT ![g] = Off] /\ w.pc # "off"
      BY <1>4, WorkerMoves DEF ListFails, Finish
    <2>2. QED
      BY <1>0, <1>2, <2>1, OffType, OneMoves
  <1>5. CASE \E i \in w.todo : TakeItem(g, i)
    <2>1. PICK i \in w.todo : TakeItem(g, i)
      BY <1>5
    <2>2. i \in Item /\ i.obj \in Obj /\ i.obj \in Lists[g] /\ w.pc = "next"
      BY <2>1, TodoType DEF TakeItem
    <2> DEFINE u == Begun(w, First(i), w.todo \ {i}, [i EXCEPT !.age = 0])
               v == [w EXCEPT !.todo = w.todo \ {i}]
    <2>3. CASE worker' = [worker EXCEPT ![g] = u]
      <3>1. [i EXCEPT !.age = 0] \in Item /\ [i EXCEPT !.age = 0].obj = i.obj
            /\ [i EXCEPT !.age = 0] # NoItem
        BY <2>2, ItemType
      <3>2. First(i) \in {"finalizers", "get"} /\ w.todo \ {i} \in SUBSET Item
        BY <1>1 DEF First
      <3>3. u \in Worker /\ u.pc = First(i) /\ u.todo = w.todo \ {i}
            /\ u.item = [i EXCEPT !.age = 0]
        BY <1>1, <3>1, <3>2, BegunType
      <3> HIDE DEF u
      <3>4. QED
        BY <1>0, <1>1, <1>2, <2>2, <2>3, <3>1, <3>2, <3>3, OneMoves DEF Shape
    <2>4. CASE worker' = [worker EXCEPT ![g] = v]
      <3>1. v \in Worker /\ v.pc = w.pc /\ v.todo = w.todo \ {i} /\ v.item = w.item
        BY <1>1 DEF Worker
      <3> HIDE DEF v
      <3>2. QED
        BY <1>0, <1>1, <1>2, <2>2, <2>4, <3>1, OneMoves DEF Shape
    <2>5. QED
      BY <2>1, <2>3, <2>4, WorkerMoves
  <1>6. CASE Cleaning(g) /\ ~Record(g)
    <2>1. w.pc \in {"finalizers", "get", "delete"}
      BY <1>6 DEF Cleaning, RemoveFinalizers, RemoveFinalizersFails, CheckExists, AlreadyGone,
                  Delete, DeleteFails, RateLimit
    <2>2. ASSUME NEW c \in {"get", "delete", "record"},
                 worker' = [worker EXCEPT ![g] = [w EXCEPT !.pc = c]]
          PROVE  WorkerType'
      <3> DEFINE v == [w EXCEPT !.pc = c]
      <3>1. v \in Worker /\ v.pc = c /\ v.todo = w.todo /\ v.item = w.item
        BY <1>1 DEF Worker
      <3>2. worker' = [worker EXCEPT ![g] = v]
        BY <2>2
      <3> HIDE DEF v
      <3>3. QED
        BY <1>0, <1>1, <1>2, <2>1, <3>1, <3>2, OneMoves DEF Shape
    <2>3. ASSUME w.attempt < MaxRetries, worker' = [worker EXCEPT ![g] = Again(w)]
          PROVE  WorkerType'
      <3> HIDE DEF w
      <3>1. QED
        BY <1>0, <1>1, <1>2, <2>1, <2>3, AgainType, OneMoves DEF Shape, w
    <2>4. QED
      BY <1>6, <2>2, <2>3, WorkerMoves DEF Cleaning
  <1>7. CASE Record(g)
    <2>1. w.pc = "record" /\ worker' = [worker EXCEPT ![g] = Done(w)]
      BY <1>7, WorkerMoves DEF Record
    <2>2. QED
      BY <1>0, <1>1, <1>2, <2>1, DoneType, OffType, OneMoves DEF Shape
  <1>8. QED
    BY <1>3, <1>4, <1>5, <1>6, <1>7 DEF Checking, Cleaning

\* by all that it does,
LEMMA GoroutineStepType ==
  ASSUME TypeOK, NEW g \in Goroutine, Checking(g) \/ Cleaning(g)
  PROVE  TypeOK'
  <1>0. ClusterType /\ MapType /\ PassType /\ WorkerType
    BY TypeParts
  <1>1. CASE \E i \in worker[g].todo : TakeItem(g, i)
    <2>1. PICK i \in worker[g].todo : TakeItem(g, i)
      BY <1>1
    <2>2. i.obj \in Obj /\ KeyOf[i.obj] \in Key /\ PassOf[g] \in Pass
      BY TodoType, CRDAssumption
    <2>3. ClusterType'
      BY <1>0, <2>1, <2>2 DEF TakeItem, ClusterType
    <2>4. MapType'
      <3>1. CASE since' = since /\ odd' = odd
        BY <1>0, <2>1, <2>2, <3>1 DEF TakeItem, MapType
      <3>2. CASE /\ since' = [since EXCEPT ![KeyOf[i.obj]] = 0]
                 /\ odd' = [odd EXCEPT ![KeyOf[i.obj]] = ~odd[KeyOf[i.obj]]]
        <4>1. since' \in [Key -> 0..HealCooldown] /\ odd' \in [Key -> BOOLEAN]
          BY <1>0, <2>2, <3>2, Numbers DEF MapType
        <4>2. QED
          BY <1>0, <2>1, <2>2, <4>1 DEF TakeItem, MapType
      <3>3. QED
        BY <2>1, <3>1, <3>2 DEF TakeItem, gateHistory
    <2>5. PassType'
      BY <1>0, <2>1, <2>2 DEF TakeItem, PassType
    <2>6. QED
      BY <2>3, <2>4, <2>5, GoroutineWorkerType, TypeParts
  <1>2. CASE ~\E i \in worker[g].todo : TakeItem(g, i)
    <2>1. pass' = pass /\ since' = since /\ odd' = odd
      BY <1>2 DEF Checking, Cleaning, List, ListFails, Finish, RemoveFinalizers,
         RemoveFinalizersFails, CheckExists, AlreadyGone, Delete, DeleteFails, RateLimit, Record,
         gateHistory
    <2>2. Cleaning(g) => Target(g) \in Obj /\ TargetKey(g) \in Key
      BY TargetType DEF Cleaning, RemoveFinalizers, RemoveFinalizersFails, CheckExists, AlreadyGone,
         Delete, DeleteFails, RateLimit, Record
    <2>3. ClusterType'
      <3>1. CASE List(g)
        BY <1>0, <3>1 DEF List, ClusterType
      <3>2. CASE RemoveFinalizers(g)
        BY <1>0, <2>2, <3>2, UnfinalizesType DEF RemoveFinalizers, Cleaning
      <3>3. CASE Delete(g)
        <4>1. CASE obj[Target(g)].finalizers
          <5>1. [obj[Target(g)] EXCEPT !.phase = "Terminating"] \in Object
            BY <1>0, <2>2, <3>3, ObjectType DEF ClusterType, Cleaning
          <5>2. QED
            BY <1>0, <2>2, <3>3, <4>1, <5>1 DEF Delete, ClusterType, Cleaning
        <4>2. CASE ~obj[Target(g)].finalizers
          BY <1>0, <2>2, <3>3, <4>2, VanishesType DEF Delete, Cleaning
        <4>3. QED
          BY <4>1, <4>2
      <3>4. CASE \/ ListFails(g) \/ Finish(g) \/ RemoveFinalizersFails(g) \/ CheckExists(g)
                 \/ AlreadyGone(g) \/ DeleteFails(g) \/ RateLimit(g) \/ Record(g)
        BY <1>0, <3>4 DEF ListFails, Finish, RemoveFinalizersFails, CheckExists, AlreadyGone,
           DeleteFails, RateLimit, Record, cluster, ClusterType
      <3>5. QED
        BY <1>2, <3>1, <3>2, <3>3, <3>4 DEF Checking, Cleaning
    <2>4. MapType'
      <3>1. CASE AlreadyGone(g) \/ Delete(g)
        BY <1>0, <2>1, <3>1 DEF AlreadyGone, Delete, MapType
      <3>2. CASE Record(g)
        BY <1>0, <2>1, <2>2, <3>2, Numbers DEF Record, Cleaning, MapType
      <3>3. CASE \/ List(g) \/ ListFails(g) \/ Finish(g) \/ RemoveFinalizers(g)
                 \/ RemoveFinalizersFails(g) \/ CheckExists(g) \/ DeleteFails(g) \/ RateLimit(g)
        BY <1>0, <2>1, <3>3 DEF List, ListFails, Finish, RemoveFinalizers, RemoveFinalizersFails,
           CheckExists, DeleteFails, RateLimit, MapType
      <3>4. QED
        BY <1>2, <3>1, <3>2, <3>3 DEF Checking, Cleaning
    <2>5. PassType'
      BY <1>0, <2>1 DEF PassType
    <2>6. QED
      BY <2>3, <2>4, <2>5, GoroutineWorkerType, TypeParts
  <1>3. QED
    BY <1>1, <1>2

\* by the cleaner and the memory guard,
LEMMA SharedMapStepType ==
  ASSUME TypeOK, CleanHealedCRDs \/ LimitTrackedCRDs \/ SanitizeReferences
  PROVE  TypeOK'
  <1>0. ClusterType /\ MapType /\ PassType /\ WorkerType
    BY TypeParts
  <1>1. ClusterType'
    BY <1>0 DEF CleanHealedCRDs, LimitTrackedCRDs, SanitizeReferences, cluster, ClusterType
  <1>2. MapType'
    BY <1>0, Numbers DEF CleanHealedCRDs, LimitTrackedCRDs, SanitizeReferences, gateHistory, MapType
  <1>3. PassType' /\ WorkerType'
    BY <1>0 DEF CleanHealedCRDs, LimitTrackedCRDs, SanitizeReferences, PassType, WorkerType, Shape
  <1>4. QED
    BY <1>1, <1>2, <1>3, TypeParts

\* and so by every step.
LEMMA TypeStep ==
  ASSUME TypeOK, [Next]_vars
  PROVE  TypeOK'
  <1>1. CASE UNCHANGED vars
    BY <1>1 DEF vars, TypeOK, Target
  <1>2. QED
    BY <1>1, ClusterStepType, PassStepType, GoroutineStepType, SharedMapStepType DEF Next

\* The type invariant of passes, goroutines and maps: a goroutine runs only within
\* its pass and handles only what it may list.
THEOREM TypeCorrect == Spec => []TypeOK
  BY TypeInit, TypeStep, PTL DEF Spec

-----------------------------------------------------------------------------
(* The invariant of the cooldown *)

\* Until the clean-up is recorded a goroutine keeps its item.
LEMMA ItemKept ==
  ASSUME TypeOK, [Next]_vars, NEW h \in Goroutine, worker[h].item # NoItem, ~Record(h)
  PROVE  /\ worker'[h].item = worker[h].item
         /\ Target(h)' = Target(h) /\ TargetKey(h)' = TargetKey(h)
  <1>1. worker'[h].item = worker[h].item
    <2>0. /\ worker \in [Goroutine -> Worker] /\ worker[h] \in Worker
          /\ worker[h].pc \notin {"off", "list", "next"} /\ PassOf[h] \in Pass
      BY CRDAssumption DEF TypeOK
    <2>1. CASE Tick
      <3>1. worker'[h] = [worker[h] EXCEPT !.todo = {Older(i) : i \in worker[h].todo}]
        BY <2>1 DEF Tick
      <3>2. QED
        BY <2>0, <3>1 DEF Worker
    <2>2. CASE \E w \in Pass : StartPass(w)
      <3>1. PICK w \in Pass : StartPass(w)
        BY <2>2
      <3>2. PassOf[h] # w
        BY <2>0, <3>1 DEF StartPass, TypeOK
      <3>3. QED
        BY <3>1, <3>2 DEF StartPass
    <2>3. CASE \E g \in Goroutine : Checking(g) \/ Cleaning(g)
      <3>1. PICK g \in Goroutine : Checking(g) \/ Cleaning(g)
        BY <2>3
      <3>2. CASE g # h
        BY <3>1, <3>2, OthersRest
      <3>3. CASE g = h
        <4>1. ~Checking(h) /\ ~Record(h)
          BY <2>0 DEF Checking, List, ListFails, Finish, TakeItem
        <4>2. Cleaning(h)
          BY <3>1, <3>3, <4>1
        <4>3. CASE RateLimit(h)
          <5>1. CASE /\ worker[h].attempt < MaxRetries
                     /\ worker' = [worker EXCEPT ![h] = Again(worker[h])]
            BY <2>0, <5>1, AgainType
          <5>2. CASE worker' = [worker EXCEPT ![h] = [worker[h] EXCEPT !.pc = "record"]]
            BY <2>0, <5>2 DEF Worker
          <5>3. QED
            BY <4>3, <5>1, <5>2, WorkerMoves
        <4>4. CASE \/ RemoveFinalizers(h) \/ RemoveFinalizersFails(h) \/ CheckExists(h)
                   \/ AlreadyGone(h) \/ Delete(h) \/ DeleteFails(h)
          <5>1. \E c : worker' = [worker EXCEPT ![h] = [worker[h] EXCEPT !.pc = c]]
            BY <4>4, WorkerMoves
          <5>2. QED
            BY <2>0, <5>1 DEF Worker
        <4>5. QED
          BY <4>1, <4>2, <4>3, <4>4 DEF Cleaning
      <3>4. QED
        BY <3>2, <3>3
    <2>4. CASE \/ \E o \in Obj : Changes(o)
               \/ \E w \in Pass : FinishPass(w)
               \/ CleanHealedCRDs \/ LimitTrackedCRDs \/ SanitizeReferences
               \/ UNCHANGED vars
      BY <2>4 DEF Changes, Create, Fails, Recovers, VirtualMachineHealed, DeletedByOthers, FinishPass, CleanHealedCRDs, LimitTrackedCRDs,
         SanitizeReferences, vars
    <2>5. QED
      BY <2>1, <2>2, <2>3, <2>4 DEF Next, Cluster
  <1>2. QED
    BY <1>1 DEF Target, TargetKey

\* Where no clean-up begins or is recorded, and time does not pass.
LEMMA RecordedWithout ==
  ASSUME TypeOK, CleanUpIsRecorded, [Next]_vars,
         UNCHANGED since, \A g \in Goroutine : ~Record(g),
         \A k \in Key : HealedCRDs[k] # None /\ HealedCRDs[k] <= since[k] /\ since[k] < HealCooldown
                         => HealedCRDs'[k] = HealedCRDs[k]
  PROVE  CleanUpIsRecorded'
  BY ItemKept DEF CleanUpIsRecorded

\* Every step preserves that recent clean-ups are recorded or go on.
LEMMA CleanUpIsRecordedStep ==
  ASSUME TypeOK, CleanUpIsRecorded, [Next]_vars
  PROVE  CleanUpIsRecorded'
  <1>1. CASE Tick
    <2>1. \A g \in Goroutine : ~Record(g)
      <3>1. ASSUME NEW g \in Goroutine, Record(g)
            PROVE  FALSE
        <4>1. worker[g] \in Worker /\ worker'[g].pc = "next" /\ worker[g].pc = "record"
          BY <3>1 DEF Record, TypeOK, Worker
        <4>2. worker'[g] = [worker[g] EXCEPT !.todo = {Older(i) : i \in worker[g].todo}]
          BY <1>1 DEF Tick
        <4>3. QED
          BY <4>1, <4>2 DEF Worker
      <3>2. QED
        BY <3>1
    <2>2. ASSUME NEW k \in Key, since'[k] < HealCooldown
          PROVE  \/ HealedCRDs'[k] # None /\ HealedCRDs'[k] <= since'[k]
                 \/ \E g \in Goroutine : worker'[g].item # NoItem /\ TargetKey(g)' = k
      <3>1. since[k] \in 0..HealCooldown /\ HealedCRDs[k] \in 0..OldEntry \cup {None}
        BY DEF TypeOK
      <3>2. since[k] < HealCooldown /\ since'[k] = since[k] + 1
        BY <1>1, <2>2, <3>1, Numbers DEF Tick
      <3>3. CASE HealedCRDs[k] # None /\ HealedCRDs[k] <= since[k]
        <4>1. HealedCRDs[k] \in 0..(OldEntry - 1) /\ HealedCRDs'[k] = HealedCRDs[k] + 1
          BY <1>1, <3>1, <3>2, <3>3, Numbers DEF Tick
        <4>2. QED
          BY <3>2, <3>3, <4>1, <3>1, Numbers
      <3>4. CASE \E g \in Goroutine : worker[g].item # NoItem /\ TargetKey(g) = k
        BY <2>1, <3>4, ItemKept
      <3>5. QED
        BY <3>2, <3>3, <3>4 DEF CleanUpIsRecorded
    <2>3. QED
      BY <2>2 DEF CleanUpIsRecorded
  <1>2. ASSUME NEW g \in Goroutine, NEW i \in worker[g].todo, TakeItem(g, i)
        PROVE  CleanUpIsRecorded'
    <2> DEFINE k == KeyOf[i.obj]
    <2>1. /\ worker \in [Goroutine -> Worker] /\ worker[g] \in Worker /\ worker[g].todo \subseteq Item
          /\ i \in Item /\ worker[g].pc = "next" /\ worker[g].item = NoItem /\ k \in Key
          /\ HealedCRDs' = HealedCRDs
      BY <1>2, TodoType DEF TypeOK, TakeItem, Worker
    <2>2. \A h \in Goroutine : ~Record(h)
      <3>1. ASSUME NEW h \in Goroutine, Record(h)
            PROVE  FALSE
        <4>1. h # g /\ worker'[h].pc # worker[h].pc
          BY <2>1, <3>1 DEF Record, Worker
        <4>2. worker'[h] = worker[h]
          BY <1>2, <4>1, OthersRest DEF Checking
        <4>3. QED
          BY <4>1, <4>2
      <3>2. QED
        BY <3>1
    <2>3. CASE since' = since
      BY <2>1, <2>2, <2>3, RecordedWithout
    <2>4. CASE /\ since' = [since EXCEPT ![k] = 0]
               /\ worker' = [worker EXCEPT ![g] =
                    Begun(worker[g], First(i), worker[g].todo \ {i}, [i EXCEPT !.age = 0])]
      <3>1. worker'[g].item # NoItem /\ TargetKey(g)' = k
        <4>1. /\ [i EXCEPT !.age = 0] \in Item /\ [i EXCEPT !.age = 0].obj = i.obj
              /\ [i EXCEPT !.age = 0] # NoItem
          BY <2>1, ItemType
        <4>2. First(i) \in {"finalizers", "get"}
          BY DEF First
        <4>3. worker'[g].item = [i EXCEPT !.age = 0]
          BY <2>1, <2>4, <4>1, <4>2, BegunType
        <4>4. QED
          BY <4>1, <4>3 DEF Target, TargetKey
      <3>2. ASSUME NEW q \in Key, q # k, since'[q] < HealCooldown
            PROVE  \/ HealedCRDs'[q] # None /\ HealedCRDs'[q] <= since'[q]
                   \/ \E h \in Goroutine : worker'[h].item # NoItem /\ TargetKey(h)' = q
        <4>1. since'[q] = since[q]
          BY <2>4, <3>2 DEF TypeOK
        <4>2. QED
          BY <2>1, <2>2, <3>2, <4>1, ItemKept DEF CleanUpIsRecorded
      <3>3. QED
        BY <3>1, <3>2 DEF CleanUpIsRecorded
    <2>5. QED
      BY <1>2, <2>1, <2>3, <2>4 DEF TakeItem, gateHistory, Begun
  <1>3. ASSUME NEW g \in Goroutine, Record(g)
        PROVE  CleanUpIsRecorded'
    <2>1. /\ TargetKey(g) \in Key /\ since' = since
          /\ HealedCRDs' = [HealedCRDs EXCEPT ![TargetKey(g)] = 0]
          /\ worker[g].pc = "record" /\ worker \in [Goroutine -> Worker]
      BY <1>3, TargetType DEF Record, gateHistory, TypeOK
    <2>2. ASSUME NEW h \in Goroutine, h # g, Record(h)
          PROVE  FALSE
      <3>1. worker'[h] = worker[h] /\ worker[h] \in Worker
        BY <1>3, <2>1, <2>2 DEF Record
      <3>2. worker'[h].pc = "next" /\ worker[h].pc = "record"
        BY <2>1, <2>2 DEF Record, Worker
      <3>3. QED
        BY <3>1, <3>2
    <2>3. ASSUME NEW q \in Key, since'[q] < HealCooldown
          PROVE  \/ HealedCRDs'[q] # None /\ HealedCRDs'[q] <= since'[q]
                 \/ \E h \in Goroutine : worker'[h].item # NoItem /\ TargetKey(h)' = q
      <3>1. since[q] \in Nat
        BY DEF TypeOK
      <3>2. CASE q = TargetKey(g)
        <4>1. HealedCRDs'[q] = 0
          BY <2>1, <3>2 DEF TypeOK
        <4>2. QED
          BY <2>1, <3>1, <4>1, Numbers
      <3>3. CASE q # TargetKey(g)
        <4>1. HealedCRDs'[q] = HealedCRDs[q]
          BY <2>1, <3>3 DEF TypeOK
        <4>2. QED
          BY <2>1, <2>2, <2>3, <3>3, <4>1, ItemKept DEF CleanUpIsRecorded
      <3>4. QED
        BY <3>2, <3>3
    <2>4. QED
      BY <2>3 DEF CleanUpIsRecorded
  <1>4. CASE \A g \in Goroutine : ~Record(g) /\ \A i \in worker[g].todo : ~TakeItem(g, i)
    <2>1. CASE \/ \E o \in Obj : Changes(o)
               \/ \E w \in Pass : StartPass(w) \/ FinishPass(w)
               \/ \E g \in Goroutine : Checking(g) \/ Cleaning(g)
               \/ LimitTrackedCRDs \/ UNCHANGED vars
      <3>1. HealedCRDs' = HealedCRDs /\ since' = since
        BY <1>4, <2>1 DEF Changes, Create, Fails, Recovers, VirtualMachineHealed, DeletedByOthers, StartPass, FinishPass, Checking, List,
           ListFails, Finish, Cleaning, RemoveFinalizers, RemoveFinalizersFails, CheckExists,
           AlreadyGone, Delete, DeleteFails, RateLimit, LimitTrackedCRDs, gateHistory, vars
      <3>2. QED
        BY <1>4, <3>1, RecordedWithout
    <2>2. CASE CleanHealedCRDs
      <3>1. ASSUME NEW k \in Key, HealedCRDs[k] # None, HealedCRDs[k] <= since[k],
                   since[k] < HealCooldown
            PROVE  HealedCRDs'[k] = HealedCRDs[k]
        <4>1. HealedCRDs[k] \in Nat /\ since[k] \in Nat
          BY <3>1 DEF TypeOK
        <4>2. ~Forgotten(k)
          BY <3>1, <4>1, Numbers DEF Forgotten
        <4>3. QED
          BY <2>2, <4>2 DEF CleanHealedCRDs
      <3>2. since' = since
        BY <2>2 DEF CleanHealedCRDs, gateHistory
      <3>3. QED
        BY <1>4, <3>1, <3>2, RecordedWithout
    <2>3. CASE SanitizeReferences
      BY <2>3, Numbers DEF SanitizeReferences, CleanUpIsRecorded
    <2>4. QED
      BY <1>1, <2>1, <2>2, <2>3 DEF Next, Cluster
  <1>5. QED
    BY <1>2, <1>3, <1>4

\* A clean-up that began within the cooldown has an entry in HealedCRDs that is no
\* older, or goes on with its attempts (healer.go:1176, 1219): for any passes,
\* SIGUSR1's among them, however calls fail.
THEOREM CooldownInvariant == Spec => []CooldownInv
  <1>1. Init => CooldownInv
    <2>1. Init => CleanUpIsRecorded
      BY Numbers DEF Init, CleanUpIsRecorded
    <2>2. QED
      BY <2>1, TypeInit DEF CooldownInv
  <1>2. CooldownInv /\ [Next]_vars => CooldownInv'
    BY TypeStep, CleanUpIsRecordedStep DEF CooldownInv
  <1>3. QED
    BY <1>1, <1>2, PTL DEF Spec

\* The clean-up implements CooldownGate for each key when no two goroutines list one
\* key: clean-ups with all their attempts begin a cooldown apart (healer.go:1176).
\* Without that hypothesis two passes take one object together, as run crd_usr1 shows.
THEOREM CooldownIsRespected ==
  ASSUME KeysApart
  PROVE  Spec => CooldownRespected
  <1>1. Init => Gate!Init
    BY DEF Init, Gate!Init
  <1>2. ASSUME CooldownInv, [Next]_vars
        PROVE  [Gate!Next]_<<since, odd>>
    <2>0. TypeOK /\ CleanUpIsRecorded
      BY <1>2 DEF CooldownInv
    <2>1. ASSUME NEW g \in Goroutine, NEW i \in worker[g].todo, TakeItem(g, i)
          PROVE  [Gate!Next]_<<since, odd>>
      <3> DEFINE k == KeyOf[i.obj]
      <3>1. k \in Key /\ i.obj \in Lists[g]
        BY <2>0, TodoType
      <3>2. CASE UNCHANGED gateHistory
        BY <3>2 DEF gateHistory
      <3>3. CASE /\ ~RecentlyCleaned(k)
                 /\ since' = [since EXCEPT ![k] = 0] /\ odd' = [odd EXCEPT ![k] = ~odd[k]]
        <4>1. ASSUME since[k] # HealCooldown
              PROVE  FALSE
          <5>0. since[k] \in 0..HealCooldown /\ HealedCRDs[k] \in 0..OldEntry \cup {None}
            BY <2>0, <3>1 DEF TypeOK
          <5>1. /\ since[k] \in Nat /\ since[k] < HealCooldown
                /\ HealedCRDs[k] = None \/ HealedCRDs[k] \in Nat
            BY <4>1, <5>0, Numbers
          <5>2. ~(HealedCRDs[k] # None /\ HealedCRDs[k] <= since[k])
            BY <3>3, <5>1, Numbers DEF RecentlyCleaned
          <5>3. PICK h \in Goroutine : worker[h].item # NoItem /\ TargetKey(h) = k
            BY <2>0, <3>1, <5>1, <5>2 DEF CleanUpIsRecorded
          <5>4. worker[h].pc \notin {"off", "list", "next"}
            BY <2>0, <5>3 DEF TypeOK
          <5>5. Target(h) \in Lists[h]
            BY <2>0, <5>4, TargetType
          <5>6. h = g
            BY <3>1, <5>3, <5>5 DEF KeysApart, TargetKey
          <5>7. QED
            BY <2>1, <5>4, <5>6 DEF TakeItem
        <4>2. Gate!Act(k)
          BY <3>3, <4>1 DEF Gate!Act
        <4>3. QED
          BY <3>1, <4>2 DEF Gate!Next
      <3>4. QED
        BY <2>1, <3>2, <3>3 DEF TakeItem
    <2>2. CASE Tick
      BY <2>2 DEF Tick, Gate!Next, Gate!Elapse, Gate!Older
    <2>3. CASE SanitizeReferences
      BY <2>3 DEF SanitizeReferences, Gate!Next, Gate!Forget
    <2>4. CASE /\ ~Tick /\ ~SanitizeReferences
               /\ \A g \in Goroutine : \A i \in worker[g].todo : ~TakeItem(g, i)
      <3>1. since' = since /\ odd' = odd
        BY <1>2, <2>4 DEF Next, Cluster, Changes, Create, Fails, Recovers, VirtualMachineHealed, DeletedByOthers, StartPass, FinishPass,
           Checking, List, ListFails, Finish, Cleaning, RemoveFinalizers, RemoveFinalizersFails,
           CheckExists, AlreadyGone, Delete, DeleteFails, RateLimit, Record, CleanHealedCRDs,
           LimitTrackedCRDs, gateHistory, vars
      <3>2. QED
        BY <3>1
    <2>5. QED
      BY <2>1, <2>2, <2>3, <2>4
  <1>3. QED
    BY <1>1, <1>2, CooldownInvariant, PTL DEF Spec, CooldownRespected, Gate!Spec

-----------------------------------------------------------------------------
(* From the list to the clean-up: what one step makes of a goroutine, and of
   the objects *)

Aged(todo) == {Older(i) : i \in todo}

Rests(h) == /\ worker'[h].pc = worker[h].pc /\ worker'[h].item = worker[h].item
            /\ \/ worker'[h].todo = worker[h].todo
               \/ Tick /\ worker'[h].todo = Aged(worker[h].todo)
Empties(h) == /\ worker'[h].todo = {} /\ worker'[h].item = NoItem
              /\ \/ worker[h].pc = "off" /\ worker'[h].pc = "list"
                 \/ worker'[h].pc = "off" /\ (ListFails(h) \/ Finish(h))
Fills(h) == /\ List(h) /\ worker'[h].pc = "next" /\ worker'[h].item = worker[h].item
            /\ worker'[h].todo = {Listed(o) : o \in {x \in Lists[h] : Exists(x)}}
Takes(h, i) == /\ TakeItem(h, i) /\ worker'[h].todo = worker[h].todo \ {i}
               /\ \/ worker'[h].pc = First(i) /\ worker'[h].item = [i EXCEPT !.age = 0]
                  \/ worker'[h].pc = "next" /\ worker'[h].item = worker[h].item
GoesOn(h) == /\ worker'[h].item = worker[h].item /\ worker'[h].todo = worker[h].todo
             /\ \/ (RemoveFinalizers(h) \/ RemoveFinalizersFails(h)) /\ worker'[h].pc = "get"
                \/ CheckExists(h) /\ worker'[h].pc = "delete"
                \/ RateLimit(h) /\ worker'[h].pc = First(worker[h].item)
                \/ /\ AlreadyGone(h) \/ Delete(h) \/ DeleteFails(h) \/ RateLimit(h)
                   /\ worker'[h].pc = "record"
Ends(h) == /\ Record(h) /\ worker'[h].pc = "next"
           /\ worker'[h].item = NoItem /\ worker'[h].todo = worker[h].todo

\* A goroutine stays where it is, is emptied by a new pass or by its end, gets its
\* list, takes an item, goes on with a clean-up, or ends it.
LEMMA Moves ==
  ASSUME TypeOK, [Next]_vars, NEW h \in Goroutine
  PROVE  \/ Rests(h) \/ Empties(h) \/ Fills(h)
         \/ (\E i \in worker[h].todo : Takes(h, i))
         \/ GoesOn(h) \/ Ends(h)
  <1>0. worker \in [Goroutine -> Worker] /\ worker[h] \in Worker /\ PassOf[h] \in Pass
    BY CRDAssumption DEF TypeOK
  <1>1. CASE Tick
    <2>1. worker'[h] = [worker[h] EXCEPT !.todo = Aged(worker[h].todo)]
      BY <1>1 DEF Tick, Aged
    <2>2. QED
      BY <1>0, <1>1, <2>1 DEF Worker, Rests
  <1>2. CASE \E w \in Pass : StartPass(w)
    <2>1. PICK w \in Pass : StartPass(w)
      BY <1>2
    <2>2. CASE PassOf[h] = w
      <3>1. worker'[h] = [Off EXCEPT !.pc = "list"] /\ worker[h].pc = "off"
        BY <2>1, <2>2 DEF StartPass, TypeOK
      <3>2. QED
        BY <3>1, OffType DEF Empties, Off
    <2>3. CASE PassOf[h] # w
      BY <2>1, <2>3 DEF StartPass, Rests
    <2>4. QED
      BY <2>2, <2>3
  <1>3. ASSUME NEW g \in Goroutine, g # h, Checking(g) \/ Cleaning(g)
        PROVE  Rests(h)
    BY <1>3, OthersRest DEF Rests
  <1>4. CASE Checking(h)
    <2>1. CASE List(h)
      <3> DEFINE todo == {Listed(o) : o \in {x \in Lists[h] : Exists(x)}}
      <3>1. worker' = [worker EXCEPT ![h] = [worker[h] EXCEPT !.pc = "next", !.todo = todo]]
        BY <2>1, WorkerMoves
      <3> HIDE DEF todo
      <3>2. /\ worker'[h].pc = "next" /\ worker'[h].item = worker[h].item
            /\ worker'[h].todo = todo
        BY <1>0, <3>1 DEF Worker
      <3>3. QED
        BY <2>1, <3>2 DEF Fills, todo
    <2>2. CASE ListFails(h) \/ Finish(h)
      <3>1. worker'[h] = Off
        BY <1>0, <2>2, WorkerMoves
      <3>2. QED
        BY <2>2, <3>1, OffType DEF Empties
    <2>3. CASE \E i \in worker[h].todo : TakeItem(h, i)
      <3>1. PICK i \in worker[h].todo : TakeItem(h, i)
        BY <2>3
      <3>2. /\ i \in Item /\ [i EXCEPT !.age = 0] \in Item /\ worker[h].todo \ {i} \in SUBSET Item
            /\ First(i) \in {"finalizers", "get"} /\ worker[h].pc = "next"
        BY <1>0, <3>1, TodoType, ItemType DEF Worker, First, TakeItem
      <3>3. CASE worker' = [worker EXCEPT ![h] =
                   Begun(worker[h], First(i), worker[h].todo \ {i}, [i EXCEPT !.age = 0])]
        <4> DEFINE todo == worker[h].todo \ {i}
                   item == [i EXCEPT !.age = 0]
        <4>1. worker'[h] = Begun(worker[h], First(i), todo, item)
          BY <1>0, <3>3
        <4> HIDE DEF todo, item
        <4>2. /\ worker'[h].pc = First(i) /\ worker'[h].todo = todo
              /\ worker'[h].item = item
          <5>1. todo \in SUBSET Item /\ item \in Item
            BY <3>2 DEF todo, item
          <5>2. QED
            BY <1>0, <3>2, <4>1, <5>1, BegunType
        <4>3. QED
          BY <3>1, <4>2 DEF Takes, todo, item
      <3>4. CASE worker' = [worker EXCEPT ![h] = [worker[h] EXCEPT !.todo = worker[h].todo \ {i}]]
        BY <1>0, <3>1, <3>2, <3>4 DEF Worker, Takes
      <3>5. QED
        BY <3>1, <3>3, <3>4, WorkerMoves
    <2>4. QED
      BY <1>4, <2>1, <2>2, <2>3 DEF Checking
  <1>5. CASE Cleaning(h)
    <2>1. CASE RemoveFinalizers(h) \/ RemoveFinalizersFails(h)
      <3>1. worker'[h] = [worker[h] EXCEPT !.pc = "get"]
        BY <1>0, <2>1, WorkerMoves
      <3>2. QED
        BY <1>0, <2>1, <3>1 DEF Worker, GoesOn
    <2>2. CASE CheckExists(h)
      <3>1. worker'[h] = [worker[h] EXCEPT !.pc = "delete"]
        BY <1>0, <2>2, WorkerMoves
      <3>2. QED
        BY <1>0, <2>2, <3>1 DEF Worker, GoesOn
    <2>3. CASE /\ AlreadyGone(h) \/ Delete(h) \/ DeleteFails(h) \/ RateLimit(h)
               /\ worker' = [worker EXCEPT ![h] = [worker[h] EXCEPT !.pc = "record"]]
      BY <1>0, <2>3 DEF Worker, GoesOn
    <2>4. CASE /\ RateLimit(h) /\ worker[h].attempt < MaxRetries
               /\ worker' = [worker EXCEPT ![h] = Again(worker[h])]
      BY <1>0, <2>4, AgainType DEF GoesOn
    <2>5. CASE Record(h)
      <3>1. worker'[h] = Done(worker[h])
        BY <1>0, <2>5, WorkerMoves
      <3>2. QED
        BY <1>0, <2>5, <3>1, DoneType DEF Ends
    <2>6. QED
      BY <1>5, <2>1, <2>2, <2>3, <2>4, <2>5, WorkerMoves DEF Cleaning
  <1>6. CASE \/ \E o \in Obj : Changes(o)
             \/ \E w \in Pass : FinishPass(w)
             \/ CleanHealedCRDs \/ LimitTrackedCRDs \/ SanitizeReferences
             \/ UNCHANGED vars
    <2>1. worker' = worker
      BY <1>6 DEF Changes, Create, Fails, Recovers, VirtualMachineHealed, DeletedByOthers, FinishPass, CleanHealedCRDs, LimitTrackedCRDs,
         SanitizeReferences, vars
    <2>2. QED
      BY <2>1 DEF Rests
  <1>7. QED
    BY <1>1, <1>2, <1>3, <1>4, <1>5, <1>6 DEF Next, Cluster

\* What one step makes of the objects that it does not find or leave absent.
ObjectsRest ==
  /\ \A o \in Obj : obj'[o].phase = obj[o].phase /\ obj'[o].finalizers = obj[o].finalizers
  /\ UNCHANGED <<outdated, logged, counted>>

\* What can happen to objects and to the history of lists, logs and counts.
LEMMA Happens ==
  ASSUME TypeOK, [Next]_vars
  PROVE  \/ ObjectsRest
         \/ \E g \in Goroutine : List(g) \/ \E i \in worker[g].todo : TakeItem(g, i)
         \/ LimitTrackedCRDs \/ SanitizeReferences
         \/ \E o \in Obj : Create(o) \/ VirtualMachineHealed(o) \/ DeletedByOthers(o)
         \/ \E g \in Goroutine : RemoveFinalizers(g) \/ Delete(g)
  <1>0. obj \in [Obj -> Object]
    BY DEF TypeOK
  <1>1. CASE Tick
    BY <1>0, <1>1, ObjectType DEF Tick, ObjectsRest
  <1>2. CASE \E o \in Obj : Fails(o) \/ Recovers(o)
    <2>1. PICK o \in Obj : Fails(o) \/ Recovers(o)
      BY <1>2
    <2>2. \E b \in BOOLEAN : obj' = [obj EXCEPT ![o].failed = b]
      BY <2>1 DEF Fails, Recovers
    <2>3. QED
      BY <1>0, <2>1, <2>2 DEF Fails, Recovers, Object, ObjectsRest
  <1>3. CASE \/ \E w \in Pass : StartPass(w) \/ FinishPass(w)
             \/ CleanHealedCRDs \/ UNCHANGED vars
    BY <1>3 DEF StartPass, FinishPass, CleanHealedCRDs, vars, cluster, ObjectsRest
  <1>4. CASE \E g \in Goroutine :
               \/ ListFails(g) \/ Finish(g) \/ RemoveFinalizersFails(g) \/ CheckExists(g)
               \/ AlreadyGone(g) \/ DeleteFails(g) \/ RateLimit(g) \/ Record(g)
    BY <1>4 DEF ListFails, Finish, RemoveFinalizersFails, CheckExists, AlreadyGone, DeleteFails,
       RateLimit, Record, cluster, ObjectsRest
  <1>5. QED
    BY <1>1, <1>2, <1>3, <1>4 DEF Next, Cluster, Changes, Checking, Cleaning

\* What is created, deleted, or loses its finalizers.
Acts(q) ==
  \/ Create(q) \/ VirtualMachineHealed(q) \/ DeletedByOthers(q)
  \/ \E g \in Goroutine : q = Target(g) /\ (RemoveFinalizers(g) \/ Delete(g))

\* It concerns one object: that vanishes, or goes on to exist.
LEMMA Acted ==
  ASSUME TypeOK, NEW q \in Obj, Acts(q)
  PROVE  /\ \A o \in Obj : o # q => obj'[o] = obj[o]
         /\ \/ Vanishes(q) /\ Exists(q) /\ ~Exists(q)'
            \/ Exists(q)' /\ UNCHANGED <<outdated, logged>> /\ (Terminating(q) => Terminating(q)')
  <1>0. obj \in [Obj -> Object] /\ obj[q] \in Object
    BY DEF TypeOK
  <1>1. Vanishes(q) => ~Exists(q)' /\ \A o \in Obj : o # q => obj'[o] = obj[o]
    BY <1>0 DEF Vanishes, Exists, Absent
  <1>2. ASSUME obj' = [obj EXCEPT ![q].phase = "Terminating"], UNCHANGED <<outdated, logged>>
        PROVE  /\ Exists(q)' /\ Terminating(q)' /\ \A o \in Obj : o # q => obj'[o] = obj[o]
               /\ UNCHANGED <<outdated, logged>>
    BY <1>0, <1>2 DEF Exists, Terminating, Object
  <1>3. CASE Create(q)
    BY <1>0, <1>3 DEF Create, Created, Exists, Terminating, Object
  <1>4. CASE VirtualMachineHealed(q) \/ DeletedByOthers(q)
    BY <1>1, <1>2, <1>4 DEF VirtualMachineHealed, DeletedByOthers, Deletes, Exists
  <1>5. CASE \E g \in Goroutine : q = Target(g) /\ Delete(g)
    BY <1>1, <1>2, <1>5 DEF Delete
  <1>6. CASE \E g \in Goroutine : q = Target(g) /\ RemoveFinalizers(g)
    <2>1. Exists(q) /\ Unfinalizes(q)
      BY <1>6 DEF RemoveFinalizers
    <2>2. CASE obj[q].phase = "Terminating"
      BY <1>1, <2>1, <2>2 DEF Unfinalizes
    <2>3. CASE obj[q].phase # "Terminating"
      <3>1. obj' = [obj EXCEPT ![q].finalizers = FALSE] /\ UNCHANGED <<outdated, logged>>
        BY <2>1, <2>3 DEF Unfinalizes
      <3>2. QED
        BY <1>0, <2>1, <2>3, <3>1 DEF Exists, Terminating, Object
    <2>4. QED
      BY <2>2, <2>3
  <1>7. QED
    BY <1>3, <1>4, <1>5, <1>6 DEF Acts

\* The same in all steps.
LEMMA ActsOrRests ==
  ASSUME TypeOK, [Next]_vars
  PROVE  \/ \E q \in Obj : Acts(q)
         \/ ObjectsRest
         \/ \E g \in Goroutine : List(g) \/ \E i \in worker[g].todo : TakeItem(g, i)
         \/ LimitTrackedCRDs \/ SanitizeReferences
  <1>1. ASSUME NEW g \in Goroutine, RemoveFinalizers(g) \/ Delete(g)
        PROVE  Target(g) \in Obj
    BY <1>1, TargetType DEF RemoveFinalizers, Delete
  <1>2. QED
    BY <1>1, Happens DEF Acts

\* An object that disappears vanishes from the histories too.
LEMMA Touched ==
  ASSUME TypeOK, [Next]_vars, ~ObjectsRest, obj' # obj
  PROVE  \E q \in Obj : Acts(q)
  <1>1. ASSUME NEW g \in Goroutine, List(g) PROVE obj' = obj
    BY <1>1 DEF List
  <1>2. ASSUME NEW g \in Goroutine, NEW i \in worker[g].todo, TakeItem(g, i) PROVE obj' = obj
    BY <1>2 DEF TakeItem
  <1>3. LimitTrackedCRDs \/ SanitizeReferences => obj' = obj
    BY DEF LimitTrackedCRDs, SanitizeReferences
  <1>4. QED
    BY <1>1, <1>2, <1>3, ActsOrRests

\* An object that disappears vanishes from the histories too.
LEMMA Gone ==
  ASSUME TypeOK, [Next]_vars, NEW o \in Obj, Exists(o), ~Exists(o)'
  PROVE  Vanishes(o)
  <1>1. ~ObjectsRest
    BY DEF ObjectsRest, Exists
  <1>2. obj' # obj
    BY DEF Exists
  <1>3. PICK q \in Obj : Acts(q)
    BY <1>1, <1>2, Touched
  <1>4. q = o
    BY <1>3, Acted DEF Exists
  <1>5. QED
    BY <1>3, <1>4, Acted

\* Outdated is what was listed and has gone.
LEMMA OutdatedNow ==
  ASSUME TypeOK, [Next]_vars, NEW h \in Goroutine
  PROVE  IF List(h) THEN outdated'[h] = {}
         ELSE /\ outdated[h] \subseteq outdated'[h]
              /\ \A o \in Obj : Exists(o) /\ ~Exists(o)' /\ o \in ToDo(h) \cup {Target(h)} => o \in outdated'[h]
              /\ \A o \in outdated'[h] \ outdated[h] : o \in Obj /\ Exists(o) /\ ~Exists(o)'
  <1>0. outdated \in [Goroutine -> SUBSET Obj]
    BY DEF TypeOK
  <1>1. CASE List(h)
    BY <1>0, <1>1 DEF List
  <1>2. CASE ~List(h)
    <2>1. ASSUME NEW q \in Obj, Vanishes(q), Exists(q), ~Exists(q)'
          PROVE  /\ outdated'[h] \in {outdated[h], outdated[h] \cup {q}}
                 /\ q \in ToDo(h) \cup {Target(h)} => q \in outdated'[h]
      BY <1>0, <2>1 DEF Vanishes, ToDo
    <2>2. CASE \E q \in Obj : Acts(q)
      <3>1. PICK q \in Obj : Acts(q)
        BY <2>2
      <3>2. CASE Vanishes(q) /\ Exists(q) /\ ~Exists(q)'
        <4>1. \A o \in Obj : Exists(o) /\ ~Exists(o)' => o = q
          BY <3>1, Acted DEF Exists
        <4>2. QED
          BY <1>2, <2>1, <3>2, <4>1
      <3>3. CASE Exists(q)' /\ UNCHANGED <<outdated, logged>>
        <4>1. \A o \in Obj : Exists(o) => Exists(o)'
          BY <3>1, <3>3, Acted DEF Exists
        <4>2. QED
          BY <1>2, <3>3, <4>1
      <3>4. QED
        BY <3>1, <3>2, <3>3, Acted
    <2>3. CASE ObjectsRest
      BY <1>2, <2>3 DEF ObjectsRest, Exists
    <2>4. CASE \/ \E g \in Goroutine : List(g) \/ \E i \in worker[g].todo : TakeItem(g, i)
               \/ LimitTrackedCRDs \/ SanitizeReferences
      <3>1. obj' = obj /\ outdated'[h] = outdated[h]
        <4>1. ASSUME NEW g \in Goroutine, List(g)
              PROVE  obj' = obj /\ outdated'[h] = outdated[h]
          BY <1>0, <1>2, <4>1 DEF List
        <4>2. ASSUME NEW g \in Goroutine, NEW i \in worker[g].todo, TakeItem(g, i)
              PROVE  obj' = obj /\ outdated'[h] = outdated[h]
          BY <4>2 DEF TakeItem
        <4>3. QED
          BY <2>4, <4>1, <4>2 DEF LimitTrackedCRDs, SanitizeReferences
      <3>2. QED
        BY <1>2, <3>1 DEF Exists
    <2>5. QED
      BY <2>2, <2>3, <2>4, ActsOrRests
  <1>3. QED
    BY <1>1, <1>2

-----------------------------------------------------------------------------
(* An object is once in a list *)

\* Growing older leaves the items for the same objects.
LEMMA AgedTodo ==
  ASSUME TypeOK, NEW h \in Goroutine
  PROVE  /\ {i.obj : i \in Aged(worker[h].todo)} = ToDo(h)
         /\ \A i \in Aged(worker[h].todo) :
              \E j \in worker[h].todo : i = Older(j) /\ i.obj = j.obj /\ i.force = j.force
  <1>1. \A j \in worker[h].todo : Older(j).obj = j.obj /\ Older(j).force = j.force
    BY TodoType, ItemType
  <1>2. QED
    BY <1>1 DEF Aged, ToDo

\* Every step preserves that lists hold each object once.
LEMMA ListedOnceStep ==
  ASSUME TypeOK, ListedOnce, [Next]_vars
  PROVE  ListedOnce'
  <1> SUFFICES ASSUME NEW h \in Goroutine
               PROVE  /\ \A i, j \in worker'[h].todo : i.obj = j.obj => i = j
                      /\ Target(h)' \notin ToDo(h)'
                      /\ worker'[h].pc \in {"off", "list"} => ToDo(h)' = {}
                      /\ worker'[h].pc = "finalizers" => worker'[h].item.force
                      /\ \A o \in ToDo(h)' \ outdated'[h] : Exists(o)'
    BY DEF ListedOnce
  <1>0. /\ \A i, j \in worker[h].todo : i.obj = j.obj => i = j
        /\ Target(h) \notin ToDo(h)
        /\ worker[h].pc \in {"off", "list"} => ToDo(h) = {}
        /\ worker[h].pc = "finalizers" => worker[h].item.force
        /\ \A o \in ToDo(h) \ outdated[h] : Exists(o)
    BY DEF ListedOnce
  <1>1. None \notin ToDo(h) /\ ToDo(h) \subseteq Obj /\ NoItem.obj = None
    BY TodoType, Numbers, OffType DEF ToDo
  <1>2. ToDo(h)' \subseteq ToDo(h) /\ ~List(h) => \A o \in ToDo(h)' \ outdated'[h] : Exists(o)'
    BY <1>0, <1>1, OutdatedNow
  <1>3. CASE Rests(h)
    <2>1. ToDo(h)' = ToDo(h) /\ Target(h)' = Target(h)
      BY <1>3, AgedTodo DEF Rests, ToDo, Target
    <2>2. \A i, j \in worker'[h].todo : i.obj = j.obj => i = j
      BY <1>0, <1>3, AgedTodo DEF Rests
    <2>3. ~List(h)
      <3>1. ASSUME List(h) PROVE FALSE
        <4>1. worker[h].pc = "list" /\ worker[h] \in Worker
              /\ worker'[h] = [worker[h] EXCEPT !.pc = "next",
                     !.todo = {Listed(o) : o \in {x \in Lists[h] : Exists(x)}}]
          BY <3>1, WorkerMoves DEF List, TypeOK
        <4>2. worker'[h].pc = "next"
          BY <4>1 DEF Worker
        <4>3. QED
          BY <1>3, <4>1, <4>2 DEF Rests
      <3>2. QED
        BY <3>1
    <2>4. QED
      BY <1>0, <1>2, <1>3, <2>1, <2>2, <2>3 DEF Rests
  <1>4. CASE Empties(h)
    BY <1>4 DEF Empties, ToDo
  <1>5. CASE Fills(h)
    <2>1. \A o \in Lists[h] : o \in Obj /\ Listed(o).obj = o
      BY ListedType, CRDAssumption
    <2>2. ToDo(h)' = {o \in Lists[h] : Exists(o)}
      BY <1>5, <2>1 DEF Fills, ToDo
    <2>3. Target(h)' = None
      <3>1. worker[h].pc = "list"
        BY <1>5 DEF Fills, List
      <3>2. worker[h].item = NoItem
        BY <3>1 DEF TypeOK
      <3>3. QED
        BY <1>1, <1>5, <3>2 DEF Fills, Target
    <2>4. \A o \in Obj : Exists(o) => Exists(o)'
      BY <1>5 DEF Fills, List, Exists
    <2>5. \A i, j \in worker'[h].todo : i.obj = j.obj => i = j
      BY <1>5, <2>1 DEF Fills
    <2>6. None \notin ToDo(h)'
      BY <2>1, <2>2, Numbers
    <2>7. QED
      BY <1>5, <2>1, <2>2, <2>3, <2>4, <2>5, <2>6 DEF Fills
  <1>6. ASSUME NEW i \in worker[h].todo, Takes(h, i)
        PROVE  /\ \A a, b \in worker'[h].todo : a.obj = b.obj => a = b
               /\ Target(h)' \notin ToDo(h)'
               /\ worker'[h].pc \in {"off", "list"} => ToDo(h)' = {}
               /\ worker'[h].pc = "finalizers" => worker'[h].item.force
               /\ \A o \in ToDo(h)' \ outdated'[h] : Exists(o)'
    <2>1. ToDo(h)' = ToDo(h) \ {i.obj}
      BY <1>0, <1>6 DEF Takes, ToDo
    <2>2. ~List(h)
      BY <1>6 DEF Takes, TakeItem, List
    <2>3. [i EXCEPT !.age = 0].obj = i.obj /\ [i EXCEPT !.age = 0].force = i.force
      BY TodoType, ItemType
    <2>4. Target(h)' \in {i.obj, Target(h)}
      BY <1>6, <2>3 DEF Takes, Target
    <2>5. /\ worker'[h].pc \notin {"off", "list"}
          /\ worker'[h].pc = "finalizers" => worker'[h].item.force
      BY <1>6, <2>3 DEF Takes, First
    <2>6. QED
      BY <1>0, <1>2, <1>6, <2>1, <2>2, <2>4, <2>5 DEF Takes
  <1>7. CASE GoesOn(h)
    <2>1. ToDo(h)' = ToDo(h) /\ Target(h)' = Target(h)
      BY <1>7 DEF GoesOn, ToDo, Target
    <2>2. ~List(h)
      BY <1>7 DEF GoesOn, RemoveFinalizers, RemoveFinalizersFails, CheckExists, RateLimit,
                  AlreadyGone, Delete, DeleteFails, List
    <2>3. /\ worker'[h].pc \notin {"off", "list"}
          /\ worker'[h].pc = "finalizers" => worker'[h].item.force
      BY <1>7 DEF GoesOn, First
    <2>4. QED
      BY <1>0, <1>2, <1>7, <2>1, <2>2, <2>3 DEF GoesOn
  <1>8. CASE Ends(h)
    <2>1. ToDo(h)' = ToDo(h) /\ Target(h)' = None
      BY <1>1, <1>8 DEF Ends, ToDo, Target
    <2>2. ~List(h)
      BY <1>8 DEF Ends, Record, List
    <2>3. QED
      BY <1>0, <1>1, <1>2, <1>8, <2>1, <2>2 DEF Ends
  <1>9. QED
    BY <1>3, <1>4, <1>5, <1>6, <1>7, <1>8, Moves

\* A list holds each object once, and what a goroutine is still to handle is there
\* unless it is outdated (healer.go:1089-1114): without assumptions.
THEOREM ListedOnceInvariant == Spec => [](TypeOK /\ ListedOnce)
  <1>1. Init => ListedOnce
    BY OffType, Numbers DEF Init, ListedOnce, ToDo, Target
  <1>2. TypeOK /\ ListedOnce /\ [Next]_vars => (TypeOK /\ ListedOnce)'
    BY TypeStep, ListedOnceStep
  <1>3. QED
    BY <1>1, <1>2, TypeInit, PTL DEF Spec

-----------------------------------------------------------------------------
(* Only what is stale is cleaned *)

\* Objects grow older with time, and keep their age otherwise.
LEMMA AgesNow ==
  ASSUME TypeOK, [Next]_vars, NEW o \in Obj, Exists(o), Exists(o)'
  PROVE  obj'[o].age = IF Tick THEN Older(obj[o]).age ELSE obj[o].age
  <1>0. obj \in [Obj -> Object] /\ obj[o] \in Object
    BY DEF TypeOK
  <1>1. CASE Tick
    BY <1>0, <1>1 DEF Tick
  <1>2. CASE ~Tick
    <2>1. ASSUME NEW q \in Obj, Fails(q) \/ Recovers(q) PROVE obj'[o].age = obj[o].age
      BY <1>0, <2>1 DEF Fails, Recovers, Object
    <2>2. ASSUME NEW q \in Obj, Acts(q) PROVE obj'[o].age = obj[o].age
      <3>1. CASE q # o
        BY <2>2, <3>1, Acted
      <3>2. CASE q = o
        <4>1. ~Vanishes(o) /\ ~Create(o)
          BY <1>0 DEF Vanishes, Create, Exists, Absent
        <4>2. \/ obj' = [obj EXCEPT ![o].phase = "Terminating"]
              \/ obj' = [obj EXCEPT ![o].finalizers = FALSE]
          BY <2>2, <3>2, <4>1 DEF Acts, VirtualMachineHealed, DeletedByOthers, Deletes, RemoveFinalizers,
             Unfinalizes, Delete
        <4>3. QED
          BY <1>0, <4>2 DEF Object
      <3>3. QED
        BY <3>1, <3>2
    <2>3. ASSUME NEW g \in Goroutine, RemoveFinalizers(g) \/ Delete(g)
          PROVE  obj'[o].age = obj[o].age
      <3>1. Target(g) \in Obj
        BY <2>3, TargetType DEF RemoveFinalizers, Delete
      <3>2. QED
        BY <2>2, <2>3, <3>1 DEF Acts
    <2>4. CASE \/ \E w \in Pass : StartPass(w) \/ FinishPass(w)
               \/ CleanHealedCRDs \/ LimitTrackedCRDs \/ SanitizeReferences \/ UNCHANGED vars
      <3>1. obj' = obj
        BY <2>4 DEF StartPass, FinishPass, CleanHealedCRDs, LimitTrackedCRDs, SanitizeReferences, vars,
           cluster
      <3>2. QED
        BY <1>2, <3>1
    <2>5. ASSUME NEW g \in Goroutine, Checking(g) PROVE obj' = obj
      BY <2>5 DEF Checking, List, ListFails, Finish, TakeItem, cluster
    <2>6. ASSUME NEW g \in Goroutine, Cleaning(g), ~RemoveFinalizers(g), ~Delete(g)
          PROVE  obj' = obj
      BY <2>6 DEF Cleaning, RemoveFinalizersFails, CheckExists, AlreadyGone, DeleteFails, RateLimit,
         Record, cluster
    <2>7. QED
      BY <1>2, <2>1, <2>2, <2>3, <2>4, <2>5, <2>6 DEF Next, Cluster, Changes, Acts
  <1>3. QED
    BY <1>1, <1>2

\* What is too old stays so, and what a clean-up was begun for stays condemned while
\* it is there.
LEMMA StaysCondemned ==
  ASSUME TypeOK, AgesAgree, [Next]_vars, NEW h \in Goroutine, Attempting(h), UNCHANGED worker[h].item
  PROVE  (Exists(Target(h))' /\ Condemned(h)') \/ Target(h)' \in outdated'[h]
  <1>1. Target(h)' = Target(h) /\ Target(h) \in Obj
    BY TargetType DEF Target, Attempting
  <1>2. ~List(h)
    BY DEF List, Attempting
  <1>3. CASE Target(h) \in outdated[h]
    BY <1>1, <1>2, <1>3, OutdatedNow
  <1>4. CASE Exists(Target(h)) /\ Condemned(h) /\ Target(h) \notin outdated'[h]
    <2>1. Exists(Target(h))'
      <3>1. ASSUME obj'[Target(h)].phase = "Absent" PROVE FALSE
        BY <1>1, <1>2, <1>4, <3>1, OutdatedNow DEF Exists
      <3>2. QED
        BY <1>1, <3>1 DEF Exists
    <2>2. TooOld(Target(h)) => TooOld(Target(h))'
      <3> DEFINE o == Target(h)
                 limit == IF o \in AgeOnly THEN VMMaxAge ELSE StaleAge
      <3>1. obj[o] \in Object /\ limit \in Nat
        BY <1>1, CRDAssumption DEF TypeOK
      <3>2. obj[o].age \in Nat /\ Older(obj[o]).age \in {obj[o].age, obj[o].age + 1}
        BY <3>1, Numbers DEF Older, Object
      <3>3. obj'[o].age \in {obj[o].age, obj[o].age + 1}
        <4>1. Exists(o) /\ obj'[o].phase # "Absent"
          BY <1>1, <1>4, <2>1 DEF Exists
        <4>2. QED
          BY <1>1, <3>2, <4>1, AgesNow DEF Exists
      <3>4. obj[o].age > limit => obj'[o].age > limit
        BY <3>1, <3>2, <3>3
      <3>5. QED
        BY <1>1, <3>4 DEF TooOld
    <2>3. QED
      BY <1>1, <1>4, <2>1, <2>2 DEF Condemned
  <1>5. QED
    BY <1>1, <1>3, <1>4 DEF AgesAgree

\* Every step preserves that ages agree and condemnations are right.
LEMMA AgesAgreeStep ==
  ASSUME TypeOK, ListedOnce, AgesAgree, [Next]_vars
  PROVE  AgesAgree'
  <1> SUFFICES ASSUME NEW h \in Goroutine
               PROVE  /\ \A i \in worker'[h].todo : i.obj \notin outdated'[h] => i.age = obj'[i.obj].age
                      /\ worker'[h].pc \in {"finalizers", "get", "delete"}
                           => (Exists(Target(h))' /\ Condemned(h)') \/ Target(h)' \in outdated'[h]
    BY DEF AgesAgree, Attempting
  <1>0. /\ \A i \in worker[h].todo : i.obj \notin outdated[h] => i.age = obj[i.obj].age
        /\ obj \in [Obj -> Object]
    BY DEF AgesAgree, TypeOK
  <1>1. ASSUME ~List(h), NEW i \in worker[h].todo, i.obj \notin outdated'[h]
        PROVE  /\ i \in Item /\ i.obj \in Obj /\ i.age = obj[i.obj].age
               /\ obj'[i.obj].age = IF Tick THEN Older(obj[i.obj]).age ELSE obj[i.obj].age
    <2>1. i \in Item /\ i.obj \in Obj /\ i.obj \in ToDo(h)
      BY TodoType DEF ToDo
    <2>2. i.obj \notin outdated[h]
      BY <1>1, OutdatedNow
    <2>3. Exists(i.obj)
      BY <2>1, <2>2 DEF ListedOnce
    <2>4. obj'[i.obj].phase # "Absent"
      BY <1>1, <2>1, <2>3, OutdatedNow DEF Exists
    <2>5. QED
      BY <1>0, <2>1, <2>2, <2>3, <2>4, AgesNow DEF Exists
  <1>2. ASSUME ~List(h), ~Tick, worker'[h].todo \subseteq worker[h].todo,
               NEW i \in worker'[h].todo, i.obj \notin outdated'[h]
        PROVE  i.age = obj'[i.obj].age
    BY <1>1, <1>2
  <1>3. CASE Rests(h)
    <2>1. ~List(h)
      <3>1. ASSUME List(h) PROVE FALSE
        <4>1. worker[h].pc = "list" /\ worker[h] \in Worker
              /\ worker'[h] = [worker[h] EXCEPT !.pc = "next",
                     !.todo = {Listed(o) : o \in {x \in Lists[h] : Exists(x)}}]
          BY <3>1, WorkerMoves DEF List, TypeOK
        <4>2. worker'[h].pc = "next"
          BY <4>1 DEF Worker
        <4>3. QED
          BY <1>3, <4>1, <4>2 DEF Rests
      <3>2. QED
        BY <3>1
    <2>2. CASE Tick
      <3>1. worker'[h] = [worker[h] EXCEPT !.todo = Aged(worker[h].todo)] /\ worker[h] \in Worker
        BY <2>2 DEF Tick, TypeOK, Aged
      <3>2. worker'[h].todo = Aged(worker[h].todo)
        BY <3>1 DEF Worker
      <3>3. ASSUME NEW i \in worker'[h].todo, i.obj \notin outdated'[h]
            PROVE  i.age = obj'[i.obj].age
        <4>1. PICK j \in worker[h].todo : i = Older(j) /\ i.obj = j.obj
          BY <3>2, AgedTodo
        <4>2. /\ j \in Item /\ j.obj \in Obj /\ j.age = obj[j.obj].age
              /\ obj'[j.obj].age = Older(obj[j.obj]).age
          BY <1>1, <2>1, <2>2, <3>3, <4>1
        <4>3. obj[j.obj] \in Object
          BY <1>0, <4>2
        <4>4. Older(j).age = Older(obj[j.obj]).age
          BY <4>2, <4>3 DEF Older, Item, Object
        <4>5. QED
          BY <4>1, <4>2, <4>4
      <3>4. QED
        BY <1>3, <3>3, StaysCondemned DEF Rests, Attempting
    <2>3. CASE ~Tick
      BY <1>2, <1>3, <2>1, <2>3, StaysCondemned DEF Rests, Attempting
    <2>4. QED
      BY <2>2, <2>3
  <1>4. CASE Empties(h)
    BY <1>4 DEF Empties
  <1>5. CASE Fills(h)
    <2>1. obj' = obj
      BY <1>5 DEF Fills, List
    <2>2. ASSUME NEW o \in Lists[h]
          PROVE  Listed(o).age = obj[Listed(o).obj].age
      BY DEF Listed
    <2>3. QED
      BY <1>5, <2>1, <2>2 DEF Fills
  <1>6. ASSUME NEW i \in worker[h].todo, Takes(h, i)
        PROVE  /\ \A j \in worker'[h].todo : j.obj \notin outdated'[h] => j.age = obj'[j.obj].age
               /\ worker'[h].pc \in {"finalizers", "get", "delete"}
                    => (Exists(Target(h))' /\ Condemned(h)') \/ Target(h)' \in outdated'[h]
    <2>1. TakeItem(h, i) /\ obj' = obj /\ outdated' = outdated /\ worker[h].pc = "next"
      BY <1>6 DEF Takes, TakeItem
    <2>2. \A j \in worker'[h].todo : j.obj \notin outdated'[h] => j.age = obj'[j.obj].age
      BY <1>0, <1>6, <2>1 DEF Takes
    <2>3. ASSUME worker'[h].pc \in {"finalizers", "get", "delete"}, i.obj \notin outdated[h]
          PROVE  Exists(Target(h))' /\ Condemned(h)'
      <3>1. i \in Item /\ i.obj \in ToDo(h)
        BY TodoType DEF ToDo
      <3>2. IsCRDResourceStale(i)
        <4>1. ASSUME worker' = [worker EXCEPT ![h].todo = @ \ {i}] PROVE FALSE
          BY <2>1, <2>3, <4>1 DEF TypeOK, Worker
        <4>2. QED
          BY <2>1, <4>1 DEF TakeItem
      <3>3. [i EXCEPT !.age = 0].obj = i.obj /\ [i EXCEPT !.age = 0].failed = i.failed
        BY <3>1 DEF Item
      <3>4. Target(h)' = i.obj /\ worker'[h].item.failed = i.failed
        BY <1>6, <2>3, <3>3 DEF Takes, Target
      <3>5. Exists(i.obj) /\ i.age = obj[i.obj].age
        BY <1>0, <2>3, <3>1 DEF ListedOnce
      <3>6. Exists(Target(h))'
        BY <2>1, <3>4, <3>5 DEF Exists
      <3>7. CASE i.obj \in AgeOnly
        BY <2>1, <3>2, <3>4, <3>5, <3>6, <3>7 DEF IsCRDResourceStale, Condemned, TooOld
      <3>8. CASE i.obj \notin AgeOnly
        BY <2>1, <3>2, <3>4, <3>5, <3>6, <3>8 DEF IsCRDResourceStale, Condemned, TooOld
      <3>9. QED
        BY <3>7, <3>8
    <2>4. ASSUME worker'[h].pc \in {"finalizers", "get", "delete"}
          PROVE  Target(h)' = i.obj
      <3>1. [i EXCEPT !.age = 0].obj = i.obj
        BY TodoType, ItemType
      <3>2. QED
        BY <1>6, <2>4, <3>1 DEF Takes, Target
    <2>5. QED
      BY <2>1, <2>2, <2>3, <2>4
  <1>7. CASE GoesOn(h)
    <2>1. /\ worker'[h].item = worker[h].item /\ worker'[h].todo = worker[h].todo
          /\ Attempting(h) /\ ~List(h)
      BY <1>7 DEF GoesOn, Attempting, RemoveFinalizers, RemoveFinalizersFails, CheckExists, RateLimit,
         AlreadyGone, Delete, DeleteFails, List
    <2>2. ASSUME Tick PROVE FALSE
      <3>1. worker[h] \in Worker /\ worker'[h] = [worker[h] EXCEPT !.todo = {Older(i) : i \in @}]
        BY <2>2 DEF Tick, TypeOK
      <3>2. worker'[h].pc = worker[h].pc /\ worker'[h].attempt = worker[h].attempt
        BY <3>1 DEF Worker
      <3>3. CASE RateLimit(h)
        <4>1. /\ worker \in [Goroutine -> Worker] /\ worker[h].attempt \in Nat
              /\ worker[h].pc # "record"
          BY <3>1, <3>3, Numbers DEF TypeOK, RateLimit, Worker
        <4>2. worker'[h].attempt = worker[h].attempt + 1 \/ worker'[h].pc = "record"
          BY <3>1, <3>3, <4>1 DEF RateLimit, Worker
        <4>3. QED
          BY <3>2, <4>1, <4>2
      <3>4. CASE ~RateLimit(h)
        BY <1>7, <3>2, <3>4 DEF GoesOn, RemoveFinalizers, RemoveFinalizersFails, CheckExists,
           AlreadyGone, Delete, DeleteFails
      <3>5. QED
        BY <3>3, <3>4
    <2>3. QED
      BY <1>2, <2>1, <2>2, StaysCondemned
  <1>8. CASE Ends(h)
    <2>1. ~List(h) /\ obj' = obj /\ outdated' = outdated
      BY <1>8 DEF Ends, Record, List, cluster
    <2>2. QED
      BY <1>0, <1>8, <2>1 DEF Ends
  <1>9. QED
    BY <1>3, <1>4, <1>5, <1>6, <1>7, <1>8, Moves

\* Whatever comes between the list and the last attempt (healer.go:1244-1260), what a
\* goroutine cleans was condemned by its age or its listed status, or is outdated.
THEOREM AgesAgreeInvariant == Spec => []AgesAgree
  <1>1. Init => AgesAgree
    BY OffType DEF Init, AgesAgree, Attempting
  <1>2. TypeOK /\ ListedOnce /\ AgesAgree /\ [Next]_vars => AgesAgree'
    BY AgesAgreeStep
  <1>3. QED
    BY <1>1, <1>2, ListedOnceInvariant, PTL DEF Spec

\* No clean-up deletes an object, or clears its finalizers, that is neither too old by
\* now nor was listed as failed, unless it took the name of a listed one: without
\* assumptions, with any number of passes over one object, other clients, and retries.
THEOREM OnlyStaleIsCleaned == Spec => OnlyStaleCleaned
  <1>1. AgesAgree =>
          [\A g \in Goroutine :
            worker[g].pc \in {"finalizers", "delete"} /\ obj' # obj /\ worker'[g].pc # worker[g].pc
              => Condemned(g) \/ Target(g) \in outdated[g]]_vars
    BY DEF AgesAgree, Attempting
  <1>2. QED
    BY <1>1, AgesAgreeInvariant, PTL DEF OnlyStaleCleaned

-----------------------------------------------------------------------------
(* What finalizers hold up is counted once *)

\* Of two goroutines only one handles an object.
LEMMA OwnObjects ==
  ASSUME TypeOK, ObjectsApart, NEW g \in Goroutine, NEW h \in Goroutine,
         worker[g].pc \notin {"off", "list", "next"},
         Target(g) \in ToDo(h) \cup {Target(h)}
  PROVE  g = h
  <1>1. Target(g) \in Obj /\ Target(g) \in Lists[g]
    BY TargetType
  <1>2. ToDo(h) \subseteq Lists[h]
    BY TodoType DEF ToDo
  <1>3. Target(h) \in Lists[h] \cup {None}
    BY DEF TypeOK
  <1>4. QED
    BY <1>1, <1>2, <1>3, Numbers DEF ObjectsApart

\* Only a deletion that finalizers hold up adds to what is counted.
LEMMA NewlyCounted ==
  ASSUME TypeOK, [Next]_vars, NEW o \in counted', o \notin counted
  PROVE  \E g \in Goroutine : /\ o = Target(g) /\ Delete(g) /\ obj[o].finalizers
                              /\ obj' = [obj EXCEPT ![o].phase = "Terminating"]
  <1>1. CASE ObjectsRest
    BY <1>1 DEF ObjectsRest
  <1>2. CASE \/ \E g \in Goroutine : List(g) \/ \E i \in worker[g].todo : TakeItem(g, i)
             \/ LimitTrackedCRDs \/ SanitizeReferences
    BY <1>2 DEF List, TakeItem, LimitTrackedCRDs, SanitizeReferences
  <1>3. ASSUME NEW q \in Obj, Acts(q)
        PROVE  \E g \in Goroutine : /\ o = Target(g) /\ Delete(g) /\ obj[o].finalizers
                                    /\ obj' = [obj EXCEPT ![o].phase = "Terminating"]
    <2>1. ~(counted' \subseteq counted)
      OBVIOUS
    <2>2. PICK g \in Goroutine : q = Target(g) /\ Delete(g)
      BY <1>3, <2>1 DEF Acts, Create, VirtualMachineHealed, DeletedByOthers, Deletes, RemoveFinalizers,
         Unfinalizes, Vanishes
    <2>3. obj[q].finalizers /\ obj' = [obj EXCEPT ![q].phase = "Terminating"]
          /\ counted' = counted \cup {q}
      BY <2>1, <2>2 DEF Delete, Vanishes
    <2>4. QED
      BY <2>2, <2>3
  <1>4. QED
    BY <1>1, <1>2, <1>3, ActsOrRests

\* What was counted and has not gone is held up still.
LEMMA StaysHeldUp ==
  ASSUME TypeOK, CountedIsHeldUp, [Next]_vars, NEW o \in counted, o \in counted'
  PROVE  Terminating(o)' /\ obj'[o].finalizers
  <1>0. obj \in [Obj -> Object] /\ o \in Obj /\ Terminating(o) /\ obj[o].finalizers
    BY DEF TypeOK, CountedIsHeldUp
  <1>1. CASE ObjectsRest
    BY <1>0, <1>1 DEF ObjectsRest, Terminating
  <1>2. CASE \/ \E g \in Goroutine : List(g) \/ \E i \in worker[g].todo : TakeItem(g, i)
             \/ LimitTrackedCRDs \/ SanitizeReferences
    <2>1. obj' = obj
      BY <1>2 DEF List, TakeItem, LimitTrackedCRDs, SanitizeReferences
    <2>2. QED
      BY <1>0, <2>1 DEF Terminating
  <1>3. ASSUME NEW q \in Obj, Acts(q)
        PROVE  Terminating(o)' /\ obj'[o].finalizers
    <2>1. CASE q # o
      BY <1>0, <1>3, <2>1, Acted DEF Terminating
    <2>2. CASE q = o
      <3>1. ~Vanishes(o)
        BY DEF Vanishes
      <3>2. ~Create(o) /\ ~VirtualMachineHealed(o) /\ ~DeletedByOthers(o)
        BY <1>0 DEF Create, VirtualMachineHealed, DeletedByOthers, Exists, Terminating
      <3>3. PICK g \in Goroutine : o = Target(g) /\ Delete(g)
        BY <1>0, <1>3, <2>2, <3>1, <3>2 DEF Acts, RemoveFinalizers, Unfinalizes, Terminating
      <3>4. obj' = [obj EXCEPT ![o].phase = "Terminating"]
        BY <1>0, <3>3 DEF Delete
      <3>5. QED
        BY <1>0, <3>4 DEF Terminating, Object
    <2>3. QED
      BY <2>1, <2>2
  <1>4. QED
    BY <1>1, <1>2, <1>3, ActsOrRests

\* Every step preserves that those lose their finalizers first.
LEMMA CountedIsHeldUpStep ==
  ASSUME TypeOK, ListedOnce, CountedIsHeldUp, ObjectsApart, [Next]_vars
  PROVE  CountedIsHeldUp'
  <1>1. ASSUME NEW o \in counted'
        PROVE  Terminating(o)' /\ obj'[o].finalizers
    <2>1. CASE o \in counted
      BY <1>1, <2>1, StaysHeldUp
    <2>2. CASE o \notin counted
      <3>1. /\ obj[o].finalizers /\ obj' = [obj EXCEPT ![o].phase = "Terminating"]
            /\ o \in Obj /\ obj \in [Obj -> Object]
        <4>1. PICK g \in Goroutine : /\ o = Target(g) /\ Delete(g) /\ obj[o].finalizers
                                     /\ obj' = [obj EXCEPT ![o].phase = "Terminating"]
          BY <1>1, <2>2, NewlyCounted
        <4>2. QED
          BY <4>1, TargetType DEF Delete, TypeOK
      <3>2. QED
        BY <3>1 DEF Terminating, Object
    <2>3. QED
      BY <2>1, <2>2
  <1> SUFFICES ASSUME NEW h \in Goroutine
               PROVE  /\ \A i \in worker'[h].todo : i.obj \in counted' => i.force
                      /\ worker'[h].pc \in {"finalizers", "get", "delete"} /\ Target(h)' \in counted'
                           => worker'[h].item.force
    BY <1>1 DEF CountedIsHeldUp, Attempting
  <1>0. /\ \A i \in worker[h].todo : i.obj \in counted => i.force
        /\ worker[h].pc \in {"finalizers", "get", "delete"} /\ Target(h) \in counted
             => worker[h].item.force
        /\ Target(h) \notin ToDo(h)
    BY DEF CountedIsHeldUp, ListedOnce, Attempting
  <1>2. ASSUME NEW o \in ToDo(h) \cup {Target(h)}, o \in counted', o \notin counted
        PROVE  o = Target(h) /\ Delete(h)
    <2>1. PICK g \in Goroutine : o = Target(g) /\ Delete(g)
      BY <1>2, NewlyCounted
    <2>2. g = h
      BY <1>2, <2>1, OwnObjects DEF Delete
    <2>3. QED
      BY <2>1, <2>2
  <1>3. ASSUME NEW i \in worker[h].todo, i.obj \in counted'
        PROVE  i.force
    <2>1. i.obj \in ToDo(h)
      BY DEF ToDo
    <2>2. QED
      BY <1>0, <1>2, <1>3, <2>1
  <1>4. ASSUME worker'[h].item = worker[h].item, worker[h].pc \in {"finalizers", "get", "delete"},
               worker'[h].pc # "record", Target(h)' \in counted'
        PROVE  worker'[h].item.force
    <2>1. Target(h)' = Target(h)
      BY <1>4 DEF Target
    <2>2. Delete(h) => worker'[h].pc = "record"
      BY DEF Delete, TypeOK, Worker
    <2>3. QED
      BY <1>0, <1>2, <1>4, <2>1, <2>2
  <1>5. CASE Rests(h)
    <2>1. ASSUME NEW i \in worker'[h].todo, i.obj \in counted'
          PROVE  i.force
      <3>1. CASE i \in worker[h].todo
        BY <1>3, <2>1, <3>1
      <3>2. CASE i \in Aged(worker[h].todo)
        <4>1. PICK j \in worker[h].todo : i.obj = j.obj /\ i.force = j.force
          BY <3>2, AgedTodo
        <4>2. QED
          BY <1>3, <2>1, <4>1
      <3>3. QED
        BY <1>5, <2>1, <3>1, <3>2 DEF Rests
    <2>2. QED
      BY <1>4, <1>5, <2>1 DEF Rests
  <1>6. CASE Empties(h)
    BY <1>6 DEF Empties
  <1>7. CASE Fills(h)
    <2>1. obj' = obj /\ counted' = counted
      BY <1>7 DEF Fills, List
    <2>2. ASSUME NEW o \in Lists[h], Listed(o).obj \in counted
          PROVE  Listed(o).force
      <3>1. o \in Obj /\ Listed(o).obj = o
        BY CRDAssumption, ListedType
      <3>2. Terminating(o) /\ obj[o].finalizers
        BY <2>2, <3>1 DEF CountedIsHeldUp
      <3>3. QED
        BY <3>2 DEF Listed, Terminating
    <2>3. QED
      BY <1>7, <2>1, <2>2 DEF Fills
  <1>8. ASSUME NEW i \in worker[h].todo, Takes(h, i)
        PROVE  /\ \A j \in worker'[h].todo : j.obj \in counted' => j.force
               /\ worker'[h].pc \in {"finalizers", "get", "delete"} /\ Target(h)' \in counted'
                    => worker'[h].item.force
    <2>1. counted' = counted
      BY <1>8 DEF Takes, TakeItem
    <2>2. [i EXCEPT !.age = 0].obj = i.obj /\ [i EXCEPT !.age = 0].force = i.force
      BY TodoType, ItemType
    <2>3. QED
      BY <1>0, <1>8, <2>1, <2>2 DEF Takes, Target
  <1>9. CASE GoesOn(h)
    <2>1. worker[h].pc \in {"finalizers", "get", "delete"}
      BY <1>9 DEF GoesOn, RemoveFinalizers, RemoveFinalizersFails, CheckExists, RateLimit, AlreadyGone,
         Delete, DeleteFails
    <2>2. QED
      BY <1>3, <1>4, <1>9, <2>1 DEF GoesOn
  <1>10. CASE Ends(h)
    BY <1>3, <1>10 DEF Ends
  <1>11. QED
    BY <1>5, <1>6, <1>7, <1>8, <1>9, <1>10, Moves

\* What has been counted and is still there is held up by finalizers, and whoever
\* handles it again clears those first, in each of its attempts (healer.go:1267-1328).
THEOREM CountedIsHeldUpInvariant ==
  ASSUME ObjectsApart
  PROVE  Spec => []CountedIsHeldUp
  <1>1. Init => CountedIsHeldUp
    BY OffType DEF Init, CountedIsHeldUp, Attempting
  <1>2. TypeOK /\ ListedOnce /\ CountedIsHeldUp /\ [Next]_vars => CountedIsHeldUp'
    BY CountedIsHeldUpStep
  <1>3. QED
    BY <1>1, <1>2, ListedOnceInvariant, PTL DEF Spec

\* RecordCRDCleanup (healer.go:1344) counts an object a second time only if clearing
\* its finalizers was tried before, whoever else deletes it and whatever fails, when
\* each object is listed by one goroutine.
THEOREM ObjectsAreCountedOnce ==
  ASSUME ObjectsApart
  PROVE  Spec => CountedOnce
  <1>1. CountedIsHeldUp =>
          [\A g \in Goroutine : Delete(g) /\ Target(g) \in counted => worker[g].item.force]_vars
    BY DEF CountedIsHeldUp, Attempting, Delete
  <1>2. QED
    BY <1>1, CountedIsHeldUpInvariant, PTL DEF CountedOnce

-----------------------------------------------------------------------------

\* Only an item that is taken gets logged.
LEMMA NewlyLogged ==
  ASSUME TypeOK, ListedOnce, [Next]_vars, NEW o \in logged', o \notin logged
  PROVE  \E g \in Goroutine : \E i \in worker[g].todo :
           TakeItem(g, i) /\ o = i.obj /\ o \notin outdated[g]
  <1>1. ASSUME NEW q \in Obj, Acts(q) PROVE logged' \subseteq logged
    BY <1>1, Acted DEF Vanishes
  <1>2. ObjectsRest => logged' \subseteq logged
    BY DEF ObjectsRest
  <1>3. ASSUME NEW g \in Goroutine, List(g) PROVE logged' = logged
    BY <1>3 DEF List
  <1>4. LimitTrackedCRDs \/ SanitizeReferences => logged' \subseteq logged
    BY DEF LimitTrackedCRDs, SanitizeReferences
  <1>5. PICK g \in Goroutine : \E i \in worker[g].todo : TakeItem(g, i)
    BY <1>1, <1>2, <1>3, <1>4, ActsOrRests
  <1>6. PICK i \in worker[g].todo : TakeItem(g, i)
    BY <1>5
  <1>7. o = i.obj /\ o \notin outdated[g]
    BY <1>6 DEF TakeItem
  <1>8. QED
    BY <1>6, <1>7

\* What terminates does so until it is gone.
LEMMA StaysTerminating ==
  ASSUME TypeOK, [Next]_vars, NEW o \in Obj, Terminating(o), Exists(o)'
  PROVE  Terminating(o)'
  <1>1. ASSUME NEW q \in Obj, Acts(q) PROVE Terminating(o)'
    BY <1>1, Acted DEF Terminating
  <1>2. ObjectsRest => Terminating(o)'
    BY DEF ObjectsRest, Terminating
  <1>3. ASSUME NEW g \in Goroutine, List(g) PROVE Terminating(o)'
    BY <1>3 DEF List, Terminating
  <1>4. ASSUME NEW g \in Goroutine, NEW i \in worker[g].todo, TakeItem(g, i) PROVE Terminating(o)'
    BY <1>4 DEF TakeItem, Terminating
  <1>5. LimitTrackedCRDs \/ SanitizeReferences => Terminating(o)'
    BY DEF LimitTrackedCRDs, SanitizeReferences, Terminating
  <1>6. QED
    BY <1>1, <1>2, <1>3, <1>4, <1>5, ActsOrRests

\* A key is dropped by a clean-up of it, by the end of a pass that did not see it,
\* for lack of room, or by the memory guard.
LEMMA Untracked ==
  ASSUME TypeOK, [Next]_vars, NEW k \in TrackedCRDs, k \notin TrackedCRDs'
  PROVE  \/ \E g \in Goroutine : TargetKey(g) = k /\ (AlreadyGone(g) \/ Delete(g))
         \/ \E w \in Pass : FinishPass(w) /\ k \in Pruned(w)
         \/ LimitTrackedCRDs \/ SanitizeReferences
  <1>1. CASE Cluster
    BY <1>1 DEF Cluster, Tick, Changes, Create, Fails, Recovers, VirtualMachineHealed,
       DeletedByOthers
  <1>2. ASSUME NEW w \in Pass, StartPass(w) PROVE FALSE
    BY <1>2 DEF StartPass
  <1>3. ASSUME NEW w \in Pass, FinishPass(w) PROVE k \in Pruned(w)
    BY <1>3 DEF FinishPass
  <1>4. ASSUME NEW g \in Goroutine, Checking(g) PROVE FALSE
    BY <1>4 DEF Checking, List, ListFails, Finish, TakeItem
  <1>5. ASSUME NEW g \in Goroutine, Cleaning(g)
        PROVE  TargetKey(g) = k /\ (AlreadyGone(g) \/ Delete(g))
    <2>1. TrackedCRDs' # TrackedCRDs
      OBVIOUS
    <2>2. AlreadyGone(g) \/ Delete(g)
      BY <1>5, <2>1 DEF Cleaning, RemoveFinalizers, RemoveFinalizersFails, CheckExists, DeleteFails,
         RateLimit, Record
    <2>3. QED
      BY <2>2 DEF AlreadyGone, Delete
  <1>6. ~CleanHealedCRDs
    BY DEF CleanHealedCRDs
  <1>7. UNCHANGED vars => FALSE
    BY DEF vars
  <1>8. QED
    BY <1>1, <1>2, <1>3, <1>4, <1>5, <1>6, <1>7 DEF Next

\* Within a pass keys are only marked as existing.
LEMMA PassNow ==
  ASSUME TypeOK, [Next]_vars
  PROVE  \/ \E w \in Pass : StartPass(w) \/ FinishPass(w)
         \/ \A w \in Pass : /\ pass'[w].running = pass[w].running
                            /\ pass[w].existing \subseteq pass'[w].existing
  <1>0. pass \in [Pass -> [running : BOOLEAN, existing : SUBSET Key]]
    BY DEF TypeOK
  <1>1. CASE Cluster
    BY <1>1 DEF Cluster, Tick, Changes, Create, Fails, Recovers, VirtualMachineHealed,
       DeletedByOthers
  <1>2. ASSUME NEW g \in Goroutine, NEW i \in worker[g].todo, TakeItem(g, i)
        PROVE  \A w \in Pass : /\ pass'[w].running = pass[w].running
                               /\ pass[w].existing \subseteq pass'[w].existing
    BY <1>0, <1>2 DEF TakeItem
  <1>3. ASSUME NEW g \in Goroutine, List(g) \/ ListFails(g) \/ Finish(g) \/ Cleaning(g)
        PROVE  pass' = pass
    BY <1>3 DEF Cleaning, List, ListFails, Finish, RemoveFinalizers, RemoveFinalizersFails, CheckExists,
       AlreadyGone, Delete, DeleteFails, RateLimit, Record
  <1>4. CleanHealedCRDs \/ LimitTrackedCRDs \/ SanitizeReferences => pass' = pass
    BY DEF CleanHealedCRDs, LimitTrackedCRDs, SanitizeReferences
  <1>5. UNCHANGED vars => pass' = pass
    BY DEF vars
  <1>6. QED
    BY <1>1, <1>2, <1>3, <1>4, <1>5 DEF Next, Checking

\* In a running pass an object that exists is still to be listed or handled, or has
\* been marked as existing, and stays so.
LEMMA ListedIsHandledOrMarked ==
  ASSUME TypeOK, ListedOnce, ~CallsFail, [Next]_vars,
         NEW g \in Goroutine, NEW o \in Lists[g], Exists(o), pass'[PassOf[g]].running,
         pass[PassOf[g]].running =>
            \/ worker[g].pc = "list" \/ o \in ToDo(g)
            \/ KeyOf[o] \in pass[PassOf[g]].existing
  PROVE  \/ worker'[g].pc = "list" \/ o \in ToDo(g)'
         \/ KeyOf[o] \in pass'[PassOf[g]].existing
  <1>0. /\ PassOf[g] \in Pass /\ o \in Obj
        /\ pass \in [Pass -> [running : BOOLEAN, existing : SUBSET Key]]
    BY CRDAssumption DEF TypeOK
  <1>1. ASSUME NEW w \in Pass, StartPass(w)
        PROVE  \/ worker'[g].pc = "list"
               \/ /\ UNCHANGED ToDo(g)
                  /\ worker'[g].pc = worker[g].pc /\ pass'[PassOf[g]] = pass[PassOf[g]]
    <2>1. CASE PassOf[g] = w
      BY <1>1, <2>1, OffType DEF StartPass, Worker
    <2>2. CASE PassOf[g] # w
      BY <1>0, <1>1, <2>2 DEF StartPass, ToDo
    <2>3. QED
      BY <2>1, <2>2
  <1>2. ASSUME NEW w \in Pass, FinishPass(w)
        PROVE  UNCHANGED ToDo(g) /\ worker'[g].pc = worker[g].pc /\ pass'[PassOf[g]] = pass[PassOf[g]]
    <2>1. PassOf[g] # w
      BY <1>0, <1>2 DEF FinishPass
    <2>2. QED
      BY <1>0, <1>2, <2>1 DEF FinishPass, ToDo
  <1>3. CASE /\ pass'[PassOf[g]].running = pass[PassOf[g]].running
             /\ pass[PassOf[g]].existing \subseteq pass'[PassOf[g]].existing
    <2>0. worker[g].pc \in {"off", "list"} => ToDo(g) = {}
      BY DEF ListedOnce
    <2>1. CASE worker[g].pc = "list"
      <3>1. CASE Rests(g)
        BY <2>1, <3>1 DEF Rests
      <3>2. CASE Empties(g)
        BY <2>1, <3>2 DEF Empties, ListFails, Finish
      <3>3. CASE Fills(g)
        <4>1. Listed(o) \in worker'[g].todo /\ Listed(o).obj = o
          BY <1>0, <3>3, ListedType DEF Fills
        <4>2. QED
          BY <4>1 DEF ToDo
      <3>4. ASSUME NEW i \in worker[g].todo, Takes(g, i) PROVE FALSE
        BY <2>1, <3>4 DEF Takes, TakeItem
      <3>5. ~GoesOn(g) /\ ~Ends(g)
        BY <2>1 DEF GoesOn, Ends, RemoveFinalizers, RemoveFinalizersFails, CheckExists, RateLimit,
           AlreadyGone, Delete, DeleteFails, Record
      <3>6. QED
        BY <3>1, <3>2, <3>3, <3>4, <3>5, Moves
    <2>2. CASE o \in ToDo(g)
      <3>1. CASE Rests(g)
        <4>1. {i.obj : i \in worker'[g].todo} = ToDo(g)
          BY <3>1, AgedTodo DEF Rests, ToDo
        <4>2. QED
          BY <2>2, <4>1 DEF ToDo
      <3>2. ~Empties(g) /\ ~Fills(g)
        BY <2>0, <2>2 DEF Empties, ListFails, Finish, Fills, List, ToDo
      <3>3. ASSUME NEW i \in worker[g].todo, Takes(g, i)
            PROVE  o \in ToDo(g)' \/ KeyOf[o] \in pass'[PassOf[g]].existing
        <4>1. CASE o = i.obj
          BY <1>0, <3>3, <4>1 DEF Takes, TakeItem
        <4>2. CASE o # i.obj
          BY <2>2, <3>3, <4>2 DEF Takes, ToDo
        <4>3. QED
          BY <4>1, <4>2
      <3>4. GoesOn(g) \/ Ends(g) => o \in ToDo(g)'
        BY <2>2 DEF GoesOn, Ends, ToDo
      <3>5. QED
        BY <3>1, <3>2, <3>3, <3>4, Moves
    <2>3. QED
      BY <1>3, <2>1, <2>2
  <1>4. QED
    BY <1>0, <1>1, <1>2, <1>3, PassNow

\* What stays logged is there and tracked, unless it terminates.
LEMMA LoggedStaysTracked ==
  ASSUME TypeOK, ListedOnce, LoggedIsTracked, NamesDiffer, PluralsApart, [Next]_vars,
         NEW o \in logged, o \in logged'
  PROVE  Exists(o)' /\ (Terminating(o)' \/ KeyOf[o] \in TrackedCRDs')
  <1>0. o \in Obj /\ Exists(o) /\ KeyOf[o] \in Key
    BY CRDAssumption DEF TypeOK, LoggedIsTracked
  <1>1. Exists(o)'
    <2>1. ASSUME ~Exists(o)' PROVE FALSE
      BY <1>0, <2>1, Gone DEF Vanishes
    <2>2. QED
      BY <2>1
  <1>2. CASE Terminating(o)
    BY <1>0, <1>1, <1>2, StaysTerminating
  <1>3. ASSUME KeyOf[o] \in TrackedCRDs, KeyOf[o] \notin TrackedCRDs'
        PROVE  Terminating(o)'
    <2>1. ASSUME NEW g \in Goroutine, TargetKey(g) = KeyOf[o], AlreadyGone(g) \/ Delete(g)
          PROVE  Terminating(o)'
      <3>1. Target(g) \in Obj
        BY <2>1, TargetType DEF AlreadyGone, Delete
      <3>2. Target(g) = o
        BY <1>0, <2>1, <3>1 DEF NamesDiffer, TargetKey
      <3>3. ~AlreadyGone(g)
        BY <1>0, <3>2 DEF AlreadyGone
      <3>4. obj \in [Obj -> Object] /\ ~Vanishes(o)
        BY <1>0, <1>1 DEF TypeOK, Vanishes, Exists, Absent
      <3>5. obj' = [obj EXCEPT ![o].phase = "Terminating"]
        BY <2>1, <3>2, <3>3, <3>4 DEF Delete
      <3>6. QED
        BY <1>0, <3>4, <3>5 DEF Terminating, Object
    <2>2. ASSUME NEW w \in Pass, FinishPass(w), KeyOf[o] \in Pruned(w) PROVE FALSE
      <3>1. PICK g \in Goroutine : o \in Lists[g]
        BY DEF LoggedIsTracked
      <3>2. PassOf[g] = w
        BY <2>2, <3>1 DEF PluralsApart, Pruned
      <3>3. worker[g].pc = "off" /\ ToDo(g) = {} /\ pass[w].running
        BY <2>2, <3>2 DEF FinishPass, ListedOnce
      <3>4. KeyOf[o] \in pass[w].existing
        BY <3>1, <3>2, <3>3 DEF LoggedIsTracked
      <3>5. QED
        BY <2>2, <3>4 DEF Pruned
    <2>3. LimitTrackedCRDs \/ SanitizeReferences => FALSE
      BY <1>3 DEF LimitTrackedCRDs, SanitizeReferences
    <2>4. QED
      BY <1>3, <2>1, <2>2, <2>3, Untracked
  <1>4. QED
    BY <1>1, <1>2, <1>3 DEF LoggedIsTracked

\* Every step preserves that what has been logged is tracked.
LEMMA LoggedIsTrackedStep ==
  ASSUME TypeOK, ListedOnce, LoggedIsTracked, [Next]_vars,
         ObjectsApart, NamesDiffer, PluralsApart, ~CallsFail
  PROVE  LoggedIsTracked'
  <1>1. ASSUME NEW o \in logged', o \in logged
        PROVE  /\ Exists(o)' /\ \E g \in Goroutine : o \in Lists[g]
               /\ Terminating(o)' \/ KeyOf[o] \in TrackedCRDs'
               /\ \A g \in Goroutine :
                    o \in Lists[g] /\ pass'[PassOf[g]].running =>
                      \/ worker'[g].pc = "list" \/ o \in ToDo(g)'
                      \/ KeyOf[o] \in pass'[PassOf[g]].existing
    <2>1. Exists(o)' /\ (Terminating(o)' \/ KeyOf[o] \in TrackedCRDs')
      BY <1>1, LoggedStaysTracked
    <2>2. Exists(o) /\ \E g \in Goroutine : o \in Lists[g]
      BY <1>1 DEF LoggedIsTracked
    <2>3. ASSUME NEW g \in Goroutine, o \in Lists[g], pass'[PassOf[g]].running
          PROVE  \/ worker'[g].pc = "list" \/ o \in ToDo(g)'
                 \/ KeyOf[o] \in pass'[PassOf[g]].existing
      <3>1. pass[PassOf[g]].running =>
              \/ worker[g].pc = "list" \/ o \in ToDo(g)
              \/ KeyOf[o] \in pass[PassOf[g]].existing
        BY <1>1, <2>3 DEF LoggedIsTracked
      <3>2. QED
        BY <2>2, <2>3, <3>1, ListedIsHandledOrMarked
    <2>4. QED
      BY <2>1, <2>2, <2>3
  <1>2. ASSUME NEW o \in logged', o \notin logged
        PROVE  /\ Exists(o)' /\ \E g \in Goroutine : o \in Lists[g]
               /\ Terminating(o)' \/ KeyOf[o] \in TrackedCRDs'
               /\ \A g \in Goroutine :
                    o \in Lists[g] /\ pass'[PassOf[g]].running =>
                      \/ worker'[g].pc = "list" \/ o \in ToDo(g)'
                      \/ KeyOf[o] \in pass'[PassOf[g]].existing
    <2>0. PICK g \in Goroutine : \E i \in worker[g].todo :
            TakeItem(g, i) /\ o = i.obj /\ o \notin outdated[g]
      BY <1>2, NewlyLogged
    <2>1. PICK i \in worker[g].todo : TakeItem(g, i) /\ o = i.obj /\ o \notin outdated[g]
      BY <2>0
    <2>2. o \in Obj /\ o \in Lists[g] /\ o \in ToDo(g) /\ PassOf[g] \in Pass
      BY <2>1, TodoType, CRDAssumption DEF ToDo
    <2>3. Exists(o)'
      BY <2>1, <2>2 DEF ListedOnce, TakeItem, Exists
    <2>4. KeyOf[o] \in TrackedCRDs' /\ KeyOf[o] \in pass'[PassOf[g]].existing
      BY <2>1, <2>2 DEF TakeItem, TypeOK
    <2>5. \A h \in Goroutine : o \in Lists[h] => h = g
      BY <2>2 DEF ObjectsApart
    <2>6. QED
      BY <2>2, <2>3, <2>4, <2>5
  <1>3. QED
    BY <1>1, <1>2 DEF LoggedIsTracked

\* An object that has been logged is tracked until its deletion: the end of a pass
\* (healer.go:1128) prunes none of the objects that its goroutines saw, and none of
\* other types, when keys differ, plurals do not overlap and lists do not fail.
THEOREM LoggedIsTrackedInvariant ==
  ASSUME ObjectsApart, NamesDiffer, PluralsApart, ~CallsFail
  PROVE  Spec => []LoggedIsTracked
  <1>1. Init => LoggedIsTracked
    BY DEF Init, LoggedIsTracked
  <1>2. TypeOK /\ ListedOnce /\ LoggedIsTracked /\ [Next]_vars => LoggedIsTracked'
    BY LoggedIsTrackedStep
  <1>3. QED
    BY <1>1, <1>2, ListedOnceInvariant, PTL DEF Spec

\* Under the same hypotheses the creation of an object is logged once until it is
\* deleted (healer.go:1108), however many passes list it and whatever they prune.
THEOREM CreationsAreLoggedOnce ==
  ASSUME ObjectsApart, NamesDiffer, PluralsApart, ~CallsFail
  PROVE  Spec => LoggedOnce
  <1>1. LoggedIsTracked => [\A g \in Goroutine : \A o \in ToDo(g) :
          o \notin ToDo(g)' /\ KeyOf[o] \notin TrackedCRDs /\ o \notin outdated[g]
            => o \notin logged \/ obj[o].phase = "Terminating"]_vars
    BY DEF LoggedIsTracked, Terminating
  <1>2. QED
    BY <1>1, LoggedIsTrackedInvariant, PTL DEF LoggedOnce

\* The invariant that run crd_tracked checks, under all of these hypotheses.
THEOREM ListInvariant ==
  ASSUME ObjectsApart, NamesDiffer, PluralsApart, ~CallsFail
  PROVE  Spec => []ListInv
  BY ListedOnceInvariant, AgesAgreeInvariant, CountedIsHeldUpInvariant, LoggedIsTrackedInvariant,
     PTL DEF ListInv
=============================================================================
