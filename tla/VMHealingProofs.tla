-------------------------- MODULE VMHealingProofs --------------------------
(***************************************************************************)
(* The check of virtual machines for any set of namespaces and machines,   *)
(* on top of what NamespacePollingProofs says of the list of namespaces    *)
(* that the check reads: the specification here implements that one.       *)
(***************************************************************************)
EXTENDS VMHealing, NamespacePollingProofs

\* The discovery of namespaces goes its way whatever the checks do.
LEMMA PollingStep == [VMNext]_allVars => [Next]_vars
  <1> SUFFICES ASSUME [VMNext]_allVars PROVE [Next]_vars
    OBVIOUS
  <1>1. CASE TimePasses
    BY <1>1 DEF TimePasses, Next, Cluster
  <1>2. CASE NamespaceChange
    BY <1>2 DEF NamespaceChange, Next, Cluster
  <1>3. ASSUME NEW n \in Ns, NamespaceRemoved(n) PROVE [Next]_vars
    BY <1>3 DEF NamespaceRemoved, Next, Cluster
  <1>4. ASSUME NEW v \in VM, CreateVM(v) \/ VMDeletedByOthers(v) \/ Released(v)
        PROVE  UNCHANGED vars
    BY <1>4 DEF CreateVM, VMDeletedByOthers, Released
  <1>5. CASE NamespacePoll
    BY <1>5 DEF NamespacePoll, Next
  <1>6. CASE CheckAllVirtualMachines \/ CheckCompleted
    BY <1>6 DEF CheckAllVirtualMachines, CheckCompleted
  <1>7. ASSUME NEW n \in Entry, Listing(n) PROVE UNCHANGED vars
    BY <1>7 DEF Listing, ListVMs, ListVMsFails, ListExhausted, CheckAndHealVirtualMachine,
                DeleteVM, DeleteVMFails, RecordHeal
  <1>8. CASE CleanHealedVMs \/ SanitizeReferences
    BY <1>8 DEF CleanHealedVMs, SanitizeReferences
  <1>9. CASE UNCHANGED allVars
    BY <1>9 DEF allVars
  <1>10. QED
    BY <1>1, <1>2, <1>3, <1>4, <1>5, <1>6, <1>7, <1>8, <1>9 DEF VMNext, VMCluster, VMCheck

\* The composition implements NamespacePolling: what is proved of the list of
\* namespaces there holds of the list the checks copy.
THEOREM PollingGoesOn == VMSpec => Spec
  <1>1. VMInit => Init
    BY DEF VMInit
  <1>2. QED
    BY <1>1, PollingStep, PTL DEF VMSpec, Spec

-----------------------------------------------------------------------------

\* The numbers of the configuration.
LEMMA Numbers ==
  /\ VMMaxAge \in Nat /\ HealCooldown \in Nat /\ HealCooldown > 0 /\ OldAge \in Nat
  /\ OldAge = 2 * HealCooldown + 1 /\ None \notin Nat /\ None \notin VM
  <1>1. VMMaxAge \in Nat /\ HealCooldown \in Nat /\ HealCooldown > 0 /\ None \notin Nat /\ None \notin VM
    BY VMAssumption
  <1>2. QED
    BY <1>1 DEF OldAge

\* Time and disappearances change what is known of a listed machine, not which
\* machine it is.
LEMMA ItemTypes ==
  /\ NoItem \notin Item
  /\ OlderItem(NoItem) = NoItem
  /\ \A i \in Item : /\ OlderItem(i) \in Item
                     /\ OlderItem(i).vm = i.vm
                     /\ OlderItem(i).outdated = i.outdated
                     /\ OlderItem(i).age = OlderVM(i.age)
  /\ \A gone \in SUBSET VM :
       /\ Overtake(NoItem, gone) = NoItem
       /\ \A i \in Item : /\ Overtake(i, gone) \in Item
                          /\ Overtake(i, gone).vm = i.vm
                          /\ Overtake(i, gone).age = i.age
  <1>1. None \notin Nat /\ None \notin VM /\ VMMaxAge \in Nat
    BY VMAssumption
  <1>2. NoItem \notin Item
    BY <1>1 DEF NoItem, Item
  <1>3. OlderItem(NoItem) = NoItem
    BY DEF OlderItem, OlderVM, NoItem
  <1>4. ASSUME NEW i \in Item
        PROVE  /\ OlderItem(i) \in Item
               /\ OlderItem(i).vm = i.vm
               /\ OlderItem(i).outdated = i.outdated
               /\ OlderItem(i).age = OlderVM(i.age)
    <2>1. OlderVM(i.age) \in 0..(VMMaxAge + 1)
      BY <1>1 DEF Item, OlderVM
    <2>2. QED
      BY <2>1 DEF Item, OlderItem
  <1>5. ASSUME NEW gone \in SUBSET VM
        PROVE  /\ Overtake(NoItem, gone) = NoItem
               /\ \A i \in Item : /\ Overtake(i, gone) \in Item
                                  /\ Overtake(i, gone).vm = i.vm
                                  /\ Overtake(i, gone).age = i.age
    BY <1>1 DEF Overtake, NoItem, Item
  <1>6. QED
    BY <1>2, <1>3, <1>4, <1>5

\* What VMTypeOK asks of the goroutine for entry n.
Fits(n, l) ==
  /\ l \in Lister
  /\ l.pc \in {"delete", "record"} <=> l.item # NoItem
  /\ \A i \in l.todo \cup ({l.item} \ {NoItem}) : n \in {NsOf[i.vm], All}

\* The goroutine one tick later, and after machines have disappeared.
Aged(l) == [l EXCEPT !.todo = {OlderItem(i) : i \in @}, !.item = OlderItem(@)]
Overtaken(l, gone) ==
  [l EXCEPT !.todo = {Overtake(i, gone) : i \in @}, !.item = Overtake(@, gone)]

LEMMA AgedFits ==
  ASSUME NEW n \in Entry, NEW l, Fits(n, l)
  PROVE  Fits(n, Aged(l)) /\ Aged(l).pc = l.pc
  <1>1. l \in Lister
    BY DEF Fits
  <1>2. /\ Aged(l).pc = l.pc
        /\ Aged(l).todo = {OlderItem(i) : i \in l.todo}
        /\ Aged(l).item = OlderItem(l.item)
    BY <1>1 DEF Aged, Lister
  <1>3. /\ OlderItem(l.item) \in Item \cup {NoItem}
        /\ OlderItem(l.item) # NoItem <=> l.item # NoItem
    BY <1>1, ItemTypes DEF Lister
  <1>4. \A i \in l.todo : OlderItem(i) \in Item
    BY <1>1, ItemTypes DEF Lister
  <1>5. Aged(l) \in Lister
    BY <1>1, <1>3, <1>4 DEF Aged, Lister
  <1>6. ASSUME NEW i \in Aged(l).todo \cup ({Aged(l).item} \ {NoItem})
        PROVE  n \in {NsOf[i.vm], All}
    <2>1. PICK j \in l.todo \cup ({l.item} \ {NoItem}) : i = OlderItem(j)
      BY <1>2, <1>3, <1>6
    <2>2. j \in Item
      BY <1>1 DEF Lister
    <2>3. i.vm = j.vm
      BY <2>1, <2>2, ItemTypes
    <2>4. QED
      BY <2>1, <2>3 DEF Fits
  <1>7. QED
    BY <1>2, <1>3, <1>5, <1>6 DEF Fits

LEMMA OvertakenFits ==
  ASSUME NEW n \in Entry, NEW l, NEW gone \in SUBSET VM, Fits(n, l)
  PROVE  Fits(n, Overtaken(l, gone)) /\ Overtaken(l, gone).pc = l.pc
  <1>1. l \in Lister
    BY DEF Fits
  <1>2. /\ Overtaken(l, gone).pc = l.pc
        /\ Overtaken(l, gone).todo = {Overtake(i, gone) : i \in l.todo}
        /\ Overtaken(l, gone).item = Overtake(l.item, gone)
    BY <1>1 DEF Overtaken, Lister
  <1>3. /\ Overtake(l.item, gone) \in Item \cup {NoItem}
        /\ Overtake(l.item, gone) # NoItem <=> l.item # NoItem
    BY <1>1, ItemTypes DEF Lister
  <1>4. \A i \in l.todo : Overtake(i, gone) \in Item
    BY <1>1, ItemTypes DEF Lister
  <1>5. Overtaken(l, gone) \in Lister
    BY <1>1, <1>3, <1>4 DEF Overtaken, Lister
  <1>6. ASSUME NEW i \in Overtaken(l, gone).todo \cup ({Overtaken(l, gone).item} \ {NoItem})
        PROVE  n \in {NsOf[i.vm], All}
    <2>1. PICK j \in l.todo \cup ({l.item} \ {NoItem}) : i = Overtake(j, gone)
      BY <1>2, <1>3, <1>6
    <2>2. j \in Item
      BY <1>1 DEF Lister
    <2>3. i.vm = j.vm
      BY <2>1, <2>2, ItemTypes
    <2>4. QED
      BY <2>1, <2>3 DEF Fits
  <1>7. QED
    BY <1>2, <1>3, <1>5, <1>6 DEF Fits

-----------------------------------------------------------------------------

\* VMTypeOK, a goroutine at a time.
LEMMA TypeByLister ==
  VMTypeOK <=>
    /\ vm \in [VM -> 0..(VMMaxAge + 1) \cup {None}]
    /\ terminating \subseteq finalized /\ finalized \subseteq {v \in VM : vm[v] # None}
    /\ check \in {"idle", "running"}
    /\ lister = [n \in Entry |-> lister[n]]
    /\ \A n \in Entry : Fits(n, lister[n]) /\ (lister[n].pc # "off" => check = "running")
    /\ HealedVMs \in [VM -> 0..OldAge \cup {None}]
    /\ since \in [VM -> 0..HealCooldown]
    /\ odd \in [VM -> BOOLEAN]
  <1>1. lister \in [Entry -> Lister] <=>
          /\ lister = [n \in Entry |-> lister[n]]
          /\ \A n \in Entry : lister[n] \in Lister
    OBVIOUS
  <1>2. QED
    BY <1>1 DEF VMTypeOK, Fits

\* An idle goroutine, and one that has listed, fit.
LEMMA OffFits == \A n \in Entry : Fits(n, Off) /\ Fits(n, [Off EXCEPT !.pc = "list"])
  BY ItemTypes DEF Fits, Off, Lister

\* A goroutine takes a step of its own, the others do not.
LEMMA OneLister ==
  ASSUME VMTypeOK, NEW n \in Entry, NEW l, Fits(n, l), l.pc # "off" => check = "running",
         lister' = [lister EXCEPT ![n] = l]
  PROVE  /\ lister' \in [Entry -> Lister]
         /\ \A m \in Entry : Fits(m, lister'[m]) /\ (lister'[m].pc # "off" => check = "running")
  <1>1. \A m \in Entry : lister'[m] = IF m = n THEN l ELSE lister[m]
    BY TypeByLister
  <1>2. \A m \in Entry : Fits(m, lister'[m]) /\ (lister'[m].pc # "off" => check = "running")
    BY <1>1, TypeByLister
  <1>3. l \in Lister
    BY DEF Fits
  <1>4. QED
    BY <1>2, <1>3 DEF VMTypeOK

\* Machines disappear with nothing else, or others' calls change nothing here.
LEMMA OthersVanish ==
  ASSUME \/ \E n \in Ns : NamespaceRemoved(n)
         \/ \E v \in VM : VMDeletedByOthers(v) \/ Released(v)
  PROVE  /\ UNCHANGED <<HealedVMs, since, odd>>
         /\ \E gone \in SUBSET VM : Vanish(gone)
  <1>1. \A n \in Ns : {v \in VM : NsOf[v] = n} \in SUBSET VM
    OBVIOUS
  <1>2. \A v \in VM : {v} \in SUBSET VM /\ Removes(v) \in SUBSET VM
    BY DEF Removes
  <1>3. QED
    BY <1>1, <1>2 DEF NamespaceRemoved, VMDeletedByOthers, Released, gateHistory

\* Virtual machines disappear.
LEMMA VanishType ==
  ASSUME VMTypeOK, NEW gone \in SUBSET VM, Vanish(gone)
  PROVE  /\ vm' \in [VM -> 0..(VMMaxAge + 1) \cup {None}]
         /\ finalized' = finalized \ gone /\ finalized' \subseteq {v \in VM : vm'[v] # None}
         /\ lister' \in [Entry -> Lister]
         /\ \A m \in Entry : Fits(m, lister'[m]) /\ lister'[m].pc = lister[m].pc
  <1>1. /\ vm' \in [VM -> 0..(VMMaxAge + 1) \cup {None}]
        /\ finalized' = finalized \ gone /\ finalized' \subseteq {v \in VM : vm'[v] # None}
    BY DEF Vanish, VMTypeOK
  <1>2. lister' = [m \in Entry |-> Overtaken(lister[m], gone)]
    BY DEF Vanish, Overtaken
  <1>3. \A m \in Entry : Fits(m, lister'[m]) /\ lister'[m].pc = lister[m].pc
    BY <1>2, OvertakenFits, TypeByLister
  <1>4. \A m \in Entry : lister'[m] \in Lister
    BY <1>3 DEF Fits
  <1>5. QED
    BY <1>1, <1>2, <1>3, <1>4

\* Where the goroutine is, and with which machine.
LEMMA ItemAtHand ==
  ASSUME VMTypeOK, NEW n \in Entry, lister[n].pc \in {"delete", "record"}
  PROVE  /\ lister[n] \in Lister /\ lister[n].item \in Item
         /\ Target(n) \in VM /\ n \in {NsOf[Target(n)], All}
         /\ check = "running"
  BY DEF VMTypeOK, Lister, Item, Target

\* A call is remembered.
LEMMA CallTypes ==
  ASSUME VMTypeOK, NEW v \in VM, Called(v)
  PROVE  since' \in [VM -> 0..HealCooldown] /\ odd' \in [VM -> BOOLEAN]
  BY VMAssumption DEF VMTypeOK, Called

\* What the cluster does keeps the types.
LEMMA VMClusterType ==
  ASSUME VMTypeOK, VMCluster
  PROVE  VMTypeOK'
  <1>1. CASE TimePasses
    <2>1. lister' = [n \in Entry |-> Aged(lister[n])]
      BY <1>1 DEF TimePasses, Aged
    <2>2. \A n \in Entry : Fits(n, lister'[n]) /\ lister'[n].pc = lister[n].pc
      BY <2>1, AgedFits, TypeByLister
    <2>3. lister' \in [Entry -> Lister]
      BY <2>1, <2>2 DEF Fits
    <2>4. vm' \in [VM -> 0..(VMMaxAge + 1) \cup {None}]
      <3>1. vm \in [VM -> 0..(VMMaxAge + 1) \cup {None}]
        BY DEF VMTypeOK
      <3>2. vm' = [v \in VM |-> OlderVM(vm[v])]
        BY <1>1 DEF TimePasses
      <3>3. ASSUME NEW v \in VM PROVE OlderVM(vm[v]) \in 0..(VMMaxAge + 1) \cup {None}
        BY <3>1, Numbers DEF OlderVM
      <3>4. QED
        BY <3>2, <3>3
    <2>5. HealedVMs' \in [VM -> 0..OldAge \cup {None}]
      <3>1. HealedVMs \in [VM -> 0..OldAge \cup {None}]
        BY DEF VMTypeOK
      <3> DEFINE older(v) == IF HealedVMs[v] # None /\ HealedVMs[v] < OldAge
                             THEN HealedVMs[v] + 1 ELSE HealedVMs[v]
      <3>2. HealedVMs' = [v \in VM |-> older(v)]
        BY <1>1 DEF TimePasses
      <3>3. ASSUME NEW v \in VM PROVE older(v) \in 0..OldAge \cup {None}
        <4>1. HealedVMs[v] \in 0..OldAge \cup {None}
          BY <3>1
        <4>2. QED
          BY <4>1, Numbers
      <3> HIDE DEF older
      <3>4. QED
        BY <3>2, <3>3
    <2>6. since' \in [VM -> 0..HealCooldown]
      <3>1. since \in [VM -> 0..HealCooldown]
        BY DEF VMTypeOK
      <3> DEFINE older(v) == IF since[v] < HealCooldown THEN since[v] + 1 ELSE since[v]
                 clock == 0..HealCooldown
      <3>2. since' = [v \in VM |-> older(v)]
        BY <1>1 DEF TimePasses
      <3>3. ASSUME NEW v \in VM PROVE older(v) \in clock
        <4>1. since[v] \in 0..HealCooldown
          BY <3>1
        <4>2. QED
          BY <4>1, Numbers
      <3>4. since' \in [VM -> clock]
        <4> HIDE DEF older, clock
        <4> QED
          BY <3>2, <3>3
      <3>5. QED
        BY <3>4
    <2>7. check' = check /\ odd' = odd
      BY <1>1 DEF TimePasses
    <2>8. /\ check' \in {"idle", "running"} /\ odd' \in [VM -> BOOLEAN]
          /\ \A n \in Entry : lister'[n].pc # "off" => check' = "running"
      BY <2>2, <2>7 DEF VMTypeOK
    <2>a. terminating' \subseteq finalized' /\ finalized' \subseteq {v \in VM : vm'[v] # None}
      <3>1. UNCHANGED <<finalized, terminating>> /\ vm' = [v \in VM |-> OlderVM(vm[v])]
        BY <1>1 DEF TimePasses
      <3>2. ASSUME NEW v \in VM, vm[v] # None PROVE OlderVM(vm[v]) # None
        <4>1. vm[v] \in Nat
          BY <3>2, Numbers DEF VMTypeOK
        <4>2. QED
          BY <4>1, Numbers DEF OlderVM
      <3>3. QED
        BY <3>1, <3>2 DEF VMTypeOK
    <2>9. \A n \in Entry :
            /\ lister'[n].pc \in {"delete", "record"} <=> lister'[n].item # NoItem
            /\ \A i \in lister'[n].todo \cup ({lister'[n].item} \ {NoItem}) : n \in {NsOf[i.vm], All}
      BY <2>2 DEF Fits
    <2>10. QED
      BY <2>3, <2>4, <2>5, <2>6, <2>8, <2>9, <2>a DEF VMTypeOK
  <1>2. CASE NamespaceChange
    BY <1>2 DEF NamespaceChange, vmVars, machines, VMTypeOK
  <1>3. ASSUME NEW n \in Ns, NamespaceRemoved(n)
        PROVE  VMTypeOK'
    BY <1>3, VanishType DEF NamespaceRemoved, VMTypeOK, Fits, gateHistory
  <1>4. ASSUME NEW v \in VM, VMDeletedByOthers(v) \/ Released(v)
        PROVE  VMTypeOK'
    <2>1. CASE VMDeletedByOthers(v)
      BY <2>1, VanishType DEF VMDeletedByOthers, Removes, Terminates, VMTypeOK, Fits, gateHistory
    <2>2. CASE Released(v)
      BY <2>2, VanishType DEF Released, VMTypeOK, Fits, gateHistory
    <2>3. QED
      BY <1>4, <2>1, <2>2
  <1>5. ASSUME NEW v \in VM, CreateVM(v)
        PROVE  VMTypeOK'
    <2>1. /\ vm' \in [VM -> 0..(VMMaxAge + 1) \cup {None}]
          /\ terminating' \subseteq finalized' /\ finalized' \subseteq {u \in VM : vm'[u] # None}
      BY <1>5, VMAssumption DEF CreateVM, VMTypeOK
    <2>2. QED
      BY <1>5, <2>1 DEF CreateVM, VMTypeOK, gateHistory
  <1>6. QED
    BY <1>1, <1>2, <1>3, <1>4, <1>5 DEF VMCluster

\* So does a goroutine of the check.
LEMMA ListingType ==
  ASSUME VMTypeOK, NEW n \in Entry, Listing(n)
  PROVE  VMTypeOK'
  <1>1. lister[n] \in Lister /\ (lister[n].pc # "off" => check = "running")
    BY DEF VMTypeOK
  <1>2. CASE ListVMs(n)
    <2> DEFINE listed == {v \in VM : vm[v] # None /\ n \in {NsOf[v], All}}
               l == [pc |-> "next", item |-> NoItem,
                     todo |-> {[vm |-> v, age |-> vm[v], outdated |-> FALSE] : v \in listed}]
    <2>1. \A v \in listed : [vm |-> v, age |-> vm[v], outdated |-> FALSE] \in Item
      BY DEF VMTypeOK, Item
    <2>2. \A i \in l.todo : i \in Item /\ n \in {NsOf[i.vm], All}
      BY <2>1
    <2>3. Fits(n, l)
      <3>1. l.todo \in SUBSET Item
        BY <2>2
      <3>2. l \in Lister
        BY <3>1 DEF Lister
      <3>3. l.pc = "next" /\ l.item = NoItem
        OBVIOUS
      <3> HIDE DEF l
      <3>4. QED
        BY <2>2, <3>2, <3>3 DEF Fits
    <2>4. lister' = [lister EXCEPT ![n] = l] /\ check = "running"
      BY <1>1, <1>2 DEF ListVMs
    <2> HIDE DEF l
    <2>5. QED
      BY <1>2, <2>3, <2>4, OneLister DEF ListVMs, VMTypeOK, Fits, gateHistory, machines
  <1>3. CASE ListVMsFails(n) \/ ListExhausted(n)
    <2>1. lister' = [lister EXCEPT ![n] = Off] /\ Fits(n, Off) /\ check = "running"
      BY <1>1, <1>3, OffFits DEF ListVMsFails, ListExhausted
    <2>2. QED
      BY <1>3, <2>1, OneLister DEF ListVMsFails, ListExhausted, VMTypeOK, Fits, gateHistory, machines
  <1>4. CASE CheckAndHealVirtualMachine(n)
    <2>1. PICK i \in lister[n].todo :
            lister' = [lister EXCEPT ![n] =
                      [pc |-> IF Due(i) THEN "delete" ELSE "next",
                       todo |-> lister[n].todo \ {i},
                       item |-> IF Due(i) THEN i ELSE NoItem]]
      BY <1>4 DEF CheckAndHealVirtualMachine
    <2> DEFINE l == [pc |-> IF Due(i) THEN "delete" ELSE "next",
                     todo |-> lister[n].todo \ {i},
                     item |-> IF Due(i) THEN i ELSE NoItem]
    <2>2. i \in Item /\ n \in {NsOf[i.vm], All}
      BY <1>1, <2>1 DEF Lister, VMTypeOK
    <2>3. Fits(n, l)
      <3>1. l \in Lister
        BY <1>1, <2>2 DEF Lister
      <3>2. l.pc \in {"delete", "record"} <=> l.item # NoItem
        BY <2>2, ItemTypes
      <3>3. \A j \in l.todo \cup ({l.item} \ {NoItem}) : n \in {NsOf[j.vm], All}
        BY <2>2 DEF VMTypeOK
      <3> HIDE DEF l
      <3>4. QED
        BY <3>1, <3>2, <3>3 DEF Fits
    <2>4. lister' = [lister EXCEPT ![n] = l] /\ check = "running"
      BY <1>1, <1>4, <2>1 DEF CheckAndHealVirtualMachine
    <2> HIDE DEF l
    <2>5. QED
      BY <1>4, <2>3, <2>4, OneLister DEF CheckAndHealVirtualMachine, VMTypeOK, Fits, gateHistory, machines
  <1>5. CASE DeleteVM(n)
    <2> DEFINE v == Target(n)
               gone == Removes(v)
    <2>1. /\ lister[n].item \in Item /\ v \in VM /\ check = "running"
          /\ n \in {NsOf[v], All}
      BY <1>5, ItemAtHand DEF DeleteVM
    <2>2. /\ vm' \in [VM -> 0..(VMMaxAge + 1) \cup {None}]
          /\ terminating' \subseteq finalized' /\ finalized' \subseteq {u \in VM : vm'[u] # None}
      BY <1>5, <2>1 DEF DeleteVM, Removes, Terminates, VMTypeOK
    <2>3. since' \in [VM -> 0..HealCooldown] /\ odd' \in [VM -> BOOLEAN]
      BY <1>5, <2>1, CallTypes DEF DeleteVM
    <2>4. lister' = [m \in Entry |-> IF m = n THEN [lister[n] EXCEPT !.pc = "record"]
                                     ELSE Overtaken(lister[m], gone)]
      BY <1>5 DEF DeleteVM, Overtaken
    <2>5. Fits(n, [lister[n] EXCEPT !.pc = "record"])
      BY <1>1, <1>5, <2>1, ItemTypes DEF DeleteVM, VMTypeOK, Fits, Lister
    <2>6. \A m \in Entry : Fits(m, Overtaken(lister[m], gone))
      BY <2>1, OvertakenFits, TypeByLister DEF Removes
    <2>7. \A m \in Entry : Fits(m, lister'[m])
      BY <2>4, <2>5, <2>6
    <2>8. lister' \in [Entry -> Lister]
      BY <2>4, <2>7 DEF Fits
    <2>9. QED
      BY <1>5, <2>1, <2>2, <2>3, <2>7, <2>8 DEF DeleteVM, VMTypeOK, Fits
  <1>6. CASE DeleteVMFails(n)
    <2> DEFINE l == [lister[n] EXCEPT !.pc = "record"]
    <2>1. /\ lister[n].item \in Item /\ Target(n) \in VM /\ check = "running"
      BY <1>6, ItemAtHand DEF DeleteVMFails
    <2>2. since' \in [VM -> 0..HealCooldown] /\ odd' \in [VM -> BOOLEAN]
      BY <1>6, <2>1, CallTypes DEF DeleteVMFails
    <2>3. Fits(n, l)
      BY <1>1, <1>6, <2>1, ItemTypes DEF DeleteVMFails, VMTypeOK, Fits, Lister
    <2>4. lister' = [lister EXCEPT ![n] = l]
      BY <1>1, <1>6 DEF DeleteVMFails
    <2> HIDE DEF l
    <2>5. QED
      BY <1>6, <2>1, <2>2, <2>3, <2>4, OneLister DEF DeleteVMFails, VMTypeOK, Fits, machines
  <1>7. CASE RecordHeal(n)
    <2> DEFINE l == [lister[n] EXCEPT !.pc = "next", !.item = NoItem]
    <2>1. Target(n) \in VM /\ check = "running"
      BY <1>7, ItemAtHand DEF RecordHeal
    <2>2. HealedVMs' \in [VM -> 0..OldAge \cup {None}]
      <3>1. HealedVMs' = [HealedVMs EXCEPT ![Target(n)] = 0] /\ 0 \in 0..OldAge
        BY <1>7, Numbers DEF RecordHeal
      <3>2. QED
        BY <3>1 DEF VMTypeOK
    <2>3. Fits(n, l)
      BY <1>1 DEF VMTypeOK, Fits, Lister
    <2>4. lister' = [lister EXCEPT ![n] = l]
      BY <1>1, <1>7 DEF RecordHeal
    <2> HIDE DEF l
    <2>5. QED
      BY <1>7, <2>1, <2>2, <2>3, <2>4, OneLister DEF RecordHeal, VMTypeOK, Fits, gateHistory, machines
  <1>8. QED
    BY <1>2, <1>3, <1>4, <1>5, <1>6, <1>7 DEF Listing

\* The state of the check has its shape, however goroutines, polls and deletions by
\* others interleave.
THEOREM VMTypeCorrect == VMSpec => []VMTypeOK
  <1>1. VMInit => VMTypeOK
    <2> SUFFICES ASSUME VMInit PROVE VMTypeOK
      OBVIOUS
    <2>1. /\ vm \in [VM -> 0..(VMMaxAge + 1) \cup {None}]
          /\ HealedVMs \in [VM -> 0..OldAge \cup {None}]
          /\ since \in [VM -> 0..HealCooldown]
          /\ odd \in [VM -> BOOLEAN]
      BY VMAssumption DEF VMInit
    <2>2. \A n \in Entry : lister[n] = Off /\ Off.pc = "off" /\ Fits(n, Off)
      BY OffFits DEF VMInit, Off
    <2>3. lister \in [Entry -> Lister]
      BY <2>2, OffFits DEF VMInit, Fits
    <2>4. QED
      BY <2>1, <2>2, <2>3 DEF VMInit, VMTypeOK, Fits
  <1>2. VMTypeOK /\ [VMNext]_allVars => VMTypeOK'
    <2> SUFFICES ASSUME VMTypeOK, [VMNext]_allVars PROVE VMTypeOK'
      OBVIOUS
    <2>1. CASE VMCluster
      BY <2>1, VMClusterType
    <2>2. CASE NamespacePoll
      BY <2>2 DEF NamespacePoll, vmVars, machines, VMTypeOK
    <2>3. CASE CheckAllVirtualMachines
      <3>1. lister' = [n \in Entry |-> IF n \in Targets THEN [Off EXCEPT !.pc = "list"] ELSE Off]
        BY <2>3 DEF CheckAllVirtualMachines
      <3>2. \A n \in Entry : Fits(n, lister'[n])
        BY <3>1, OffFits
      <3>3. lister' \in [Entry -> Lister]
        BY <3>1, <3>2 DEF Fits
      <3>4. QED
        BY <2>3, <3>2, <3>3 DEF CheckAllVirtualMachines, VMTypeOK, Fits, gateHistory, machines
    <2>4. CASE CheckCompleted
      BY <2>4 DEF CheckCompleted, VMTypeOK, gateHistory, machines
    <2>5. ASSUME NEW n \in Entry, Listing(n) PROVE VMTypeOK'
      BY <2>5, ListingType
    <2>6. CASE CleanHealedVMs
      BY <2>6 DEF CleanHealedVMs, VMTypeOK, gateHistory, machines
    <2>7. CASE SanitizeReferences
      BY <2>7, VMAssumption DEF SanitizeReferences, VMTypeOK, machines
    <2>8. CASE UNCHANGED allVars
      BY <2>8 DEF allVars, vmVars, machines, VMTypeOK
    <2>9. QED
      BY <2>1, <2>2, <2>3, <2>4, <2>5, <2>6, <2>7, <2>8 DEF VMNext, VMCheck
  <1>3. QED
    BY <1>1, <1>2, PTL DEF VMSpec
-----------------------------------------------------------------------------

\* NamespaceAll is in the list alone or not at all, when polls that add names to the
\* list start from one that has some.
LEMMA AllIsNeverMixed ==
  ASSUME Unmixed
  PROVE  Spec => [](All \in Namespaces => Namespaces = {All})
  <1> DEFINE Inv == /\ PollingOn => All \notin Namespaces
                    /\ ~PollingOn => poller = "idle"
                    /\ All \in Namespaces => Namespaces = {All}
  <1>1. Init => Inv
    <2> SUFFICES ASSUME Init PROVE Inv
      OBVIOUS
    <2>1. PICK existing \in SUBSET Ns : Started(Resolved(existing))
      BY DEF Init
    <2>2. Resolved(existing) \subseteq Ns /\ Explicit \subseteq Resolved(existing) /\ All \notin Ns
      BY NamespaceAssumption DEF Resolved
    <2>3. QED
      BY <2>1, <2>2 DEF Init, Started, Unmixed
  <1>2. Inv /\ TypeOK /\ [Next]_vars => Inv'
    <2> SUFFICES ASSUME Inv, TypeOK, [Next]_vars PROVE Inv'
      OBVIOUS
    <2>1. CASE Cluster \/ UNCHANGED vars
      <3>1. UNCHANGED <<Namespaces, poller>>
        BY <2>1 DEF Cluster, Tick, Create, DeletedByOthers, Removed, tracking, poll, vars
      <3>2. QED
        BY <3>1
    <2>2. CASE Discovery /\ ~StartWatching
      <3>1. PollingOn /\ Namespaces' \subseteq Namespaces
        BY <2>2 DEF Discovery, DiscoverNewNamespaces, ForgetVanished, UnlistVanished,
                    StartDeletions, DeletionsDone, Track, PollCompleted, tracking
      <3>2. QED
        BY <3>1
    <2>3. CASE StartWatching
      <3>1. PollingOn /\ current # All
        BY <2>3, NamespaceAssumption DEF StartWatching, TypeOK
      <3>2. Namespaces' = Namespaces \cup {current}
        BY <2>3 DEF StartWatching
      <3>3. QED
        BY <3>1, <3>2
    <2>4. ASSUME NEW n \in Ns, TriggerNamespaceDeletion(n) PROVE Inv'
      <3>1. worker[n] # "none" /\ Namespaces' \subseteq Namespaces
        BY <2>4 DEF TriggerNamespaceDeletion, RemoveFinalizers, AlreadyGone, DeleteNamespace,
                    DeleteFails, Untrack, Unlist, tracking
      <3>2. PollingOn
        BY <3>1 DEF TypeOK
      <3>3. QED
        BY <3>1, <3>2
    <2>5. QED
      BY <2>1, <2>2, <2>3, <2>4 DEF Next, Poller
  <1>3. QED
    BY <1>1, <1>2, TypeCorrect, PTL DEF Spec

-----------------------------------------------------------------------------

\* A goroutine is where it was, with the machine it had.
Same(n, l) == l.pc = lister[n].pc /\ l.item.vm = lister[n].item.vm

LEMMA VanishKeeps ==
  ASSUME VMTypeOK, NEW gone \in SUBSET VM, NEW n \in Entry
  PROVE  Same(n, Overtaken(lister[n], gone))
  <1>1. lister[n] \in Lister
    BY TypeByLister DEF Fits
  <1>2. /\ Overtaken(lister[n], gone).pc = lister[n].pc
        /\ Overtaken(lister[n], gone).item = Overtake(lister[n].item, gone)
    BY <1>1 DEF Overtaken, Lister
  <1>3. Overtake(lister[n].item, gone).vm = lister[n].item.vm
    BY <1>1, ItemTypes DEF Lister
  <1>4. QED
    BY <1>2, <1>3 DEF Same

LEMMA AgedKeeps ==
  ASSUME VMTypeOK, NEW n \in Entry
  PROVE  Same(n, Aged(lister[n]))
  BY ItemTypes, TypeByLister DEF Same, Aged, Fits, Lister

\* Then a step that changes no clock and no entry keeps the two halves.
LEMMA SameKeepsCooldownInv ==
  ASSUME PendingDeletionIsDue, RecentCallIsRecorded, since' = since, HealedVMs' = HealedVMs,
         \A n \in Entry : Same(n, lister'[n])
  PROVE  PendingDeletionIsDue' /\ RecentCallIsRecorded'
  BY DEF PendingDeletionIsDue, RecentCallIsRecorded, Same, Target

\* So does a goroutine that was not about to delete or record, and is not now.
LEMMA QuietLister ==
  ASSUME VMTypeOK, PendingDeletionIsDue, RecentCallIsRecorded,
         since' = since, HealedVMs' = HealedVMs,
         NEW n \in Entry, lister[n].pc \in {"list", "next"}, lister'[n].pc \in {"next", "off"},
         \A m \in Entry : m # n => lister'[m] = lister[m]
  PROVE  PendingDeletionIsDue' /\ RecentCallIsRecorded'
  <1>1. PendingDeletionIsDue'
    BY DEF PendingDeletionIsDue, Target
  <1>2. RecentCallIsRecorded'
    BY DEF RecentCallIsRecorded, Target
  <1>3. QED
    BY <1>1, <1>2

\* A namespace has one goroutine, so a virtual machine has.
LEMMA OneListerPerVM ==
  ASSUME VMTypeOK, AllStandsAlone,
         NEW n \in Entry, lister[n].pc \in {"delete", "record"},
         NEW m \in Entry, lister[m].pc \in {"delete", "record"}, Target(m) = Target(n)
  PROVE  m = n
  BY ItemAtHand DEF AllStandsAlone

\* The goroutines of the check keep the two halves.
LEMMA ListingKeepsCooldownInv ==
  ASSUME CooldownInv, NEW n \in Entry, Listing(n)
  PROVE  PendingDeletionIsDue' /\ RecentCallIsRecorded'
  <1>0. VMTypeOK /\ AllStandsAlone /\ PendingDeletionIsDue /\ RecentCallIsRecorded
    BY DEF CooldownInv
  <1>l. lister \in [Entry -> Lister]
    BY <1>0 DEF VMTypeOK
  <1>1. CASE ListVMs(n) \/ ListVMsFails(n) \/ ListExhausted(n)
    <2>1. /\ since' = since /\ HealedVMs' = HealedVMs
          /\ lister[n].pc \in {"list", "next"} /\ lister'[n].pc \in {"next", "off"}
          /\ \A m \in Entry : m # n => lister'[m] = lister[m]
      BY <1>l, <1>1 DEF ListVMs, ListVMsFails, ListExhausted, Off, gateHistory
    <2>2. QED
      BY <1>0, <2>1, QuietLister
  <1>2. CASE CheckAndHealVirtualMachine(n)
    <2>1. PICK i \in lister[n].todo :
            lister' = [lister EXCEPT ![n] =
                      [pc |-> IF Due(i) THEN "delete" ELSE "next",
                       todo |-> lister[n].todo \ {i},
                       item |-> IF Due(i) THEN i ELSE NoItem]]
      BY <1>2 DEF CheckAndHealVirtualMachine
    <2>2. since' = since /\ HealedVMs' = HealedVMs /\ lister[n].pc = "next"
      BY <1>2 DEF CheckAndHealVirtualMachine, gateHistory
    <2>3. \A m \in Entry : m # n => lister'[m] = lister[m]
      BY <1>l, <2>1
    <2>4. CASE Due(i)
      <3>1. i.vm \in VM
        BY <1>l, <2>1 DEF Lister, Item
      <3>2. since[i.vm] = HealCooldown
        <4> SUFFICES ASSUME since[i.vm] # HealCooldown PROVE FALSE
          OBVIOUS
        <4>1. since[i.vm] \in Nat /\ since[i.vm] < HealCooldown
          BY <1>0, <3>1, Numbers DEF VMTypeOK
        <4>2. HealedVMs[i.vm] \in 0..OldAge \cup {None} /\ ~RecentlyHealed(i.vm)
          BY <1>0, <2>4, <3>1 DEF VMTypeOK, Due
        <4>3. CASE HealedVMs[i.vm] # None /\ HealedVMs[i.vm] <= since[i.vm]
          BY <4>1, <4>2, <4>3, Numbers DEF RecentlyHealed
        <4>4. CASE \E m \in Entry : lister[m].pc = "record" /\ Target(m) = i.vm
          <5>1. PICK m \in Entry : lister[m].pc = "record" /\ Target(m) = i.vm
            BY <4>4
          <5>2. m \in {NsOf[i.vm], All} /\ n \in {NsOf[i.vm], All}
            BY <1>0, <2>1, <5>1, ItemAtHand DEF VMTypeOK
          <5>3. m = n
            BY <1>0, <2>2, <5>1, <5>2 DEF AllStandsAlone
          <5>4. QED
            BY <2>2, <5>1, <5>3
        <4>5. QED
          BY <1>0, <3>1, <4>1, <4>3, <4>4 DEF RecentCallIsRecorded
      <3>3. lister'[n].pc = "delete" /\ lister'[n].item = i
        BY <1>l, <2>1, <2>4
      <3>4. PendingDeletionIsDue'
        BY <1>0, <2>2, <2>3, <3>2, <3>3 DEF PendingDeletionIsDue, Target
      <3>5. RecentCallIsRecorded'
        BY <1>0, <2>2, <2>3 DEF RecentCallIsRecorded, Target
      <3>6. QED
        BY <3>4, <3>5
    <2>5. CASE ~Due(i)
      <3>1. lister'[n].pc = "next"
        BY <1>l, <2>1, <2>5
      <3>2. QED
        BY <1>0, <2>2, <2>3, <3>1, QuietLister
    <2>6. QED
      BY <2>4, <2>5
  <1>3. CASE DeleteVM(n) \/ DeleteVMFails(n)
    <2> DEFINE v == Target(n)
    <2>1. lister[n].pc = "delete" /\ v \in VM /\ HealedVMs' = HealedVMs /\ Called(v)
      BY <1>0, <1>3, ItemAtHand DEF DeleteVM, DeleteVMFails
    <2>2. lister'[n].pc = "record" /\ lister'[n].item = lister[n].item
      BY <1>l, <1>3 DEF DeleteVM, DeleteVMFails, Lister
    <2>3. \A m \in Entry : m # n => Same(m, lister'[m])
      <3>1. CASE DeleteVM(n)
        <4>1. \A m \in Entry : m # n => lister'[m] = Overtaken(lister[m], Removes(v))
          BY <3>1 DEF DeleteVM, Overtaken
        <4>2. QED
          BY <1>0, <2>1, <4>1, VanishKeeps DEF Removes
      <3>2. CASE DeleteVMFails(n)
        BY <1>l, <3>2 DEF DeleteVMFails, Same
      <3>3. QED
        BY <1>3, <3>1, <3>2
    <2>4. \A u \in VM : u # v => since'[u] = since[u]
      BY <1>0, <2>1 DEF Called, VMTypeOK
    <2>5. PendingDeletionIsDue'
      <3> SUFFICES ASSUME NEW m \in Entry, lister'[m].pc = "delete"
                   PROVE  since'[lister'[m].item.vm] = HealCooldown
        BY DEF PendingDeletionIsDue, Target
      <3>1. m # n /\ lister[m].pc = "delete" /\ lister'[m].item.vm = Target(m)
        BY <2>2, <2>3 DEF Same, Target
      <3>2. Target(m) \in VM /\ Target(m) # v
        BY <1>0, <2>1, <3>1, ItemAtHand, OneListerPerVM
      <3>3. QED
        BY <1>0, <2>4, <3>1, <3>2 DEF PendingDeletionIsDue
    <2>6. RecentCallIsRecorded'
      <3> SUFFICES ASSUME NEW u \in VM, since'[u] < HealCooldown
                   PROVE  \/ HealedVMs'[u] # None /\ HealedVMs'[u] <= since'[u]
                          \/ \E m \in Entry : lister'[m].pc = "record" /\ lister'[m].item.vm = u
        BY DEF RecentCallIsRecorded, Target
      <3>1. CASE u = v
        BY <2>2, <3>1 DEF Target
      <3>2. CASE u # v
        <4>1. since'[u] = since[u]
          BY <2>4, <3>2
        <4>2. \/ HealedVMs[u] # None /\ HealedVMs[u] <= since[u]
              \/ \E m \in Entry : lister[m].pc = "record" /\ Target(m) = u
          BY <1>0, <4>1 DEF RecentCallIsRecorded
        <4>3. ASSUME NEW m \in Entry, lister[m].pc = "record", Target(m) = u
              PROVE  lister'[m].pc = "record" /\ lister'[m].item.vm = u
          BY <2>1, <2>3, <4>3 DEF Same, Target
        <4>4. QED
          BY <2>1, <4>1, <4>2, <4>3
      <3>3. QED
        BY <3>1, <3>2
    <2>7. QED
      BY <2>5, <2>6
  <1>4. CASE RecordHeal(n)
    <2> DEFINE v == Target(n)
    <2>1. /\ lister[n].pc = "record" /\ v \in VM /\ since' = since
          /\ HealedVMs' = [HealedVMs EXCEPT ![v] = 0]
      BY <1>0, <1>4, ItemAtHand DEF RecordHeal, gateHistory
    <2>2. lister'[n].pc = "next" /\ \A m \in Entry : m # n => lister'[m] = lister[m]
      BY <1>l, <1>4 DEF RecordHeal, Lister
    <2> HIDE DEF v
    <2>3. PendingDeletionIsDue'
      BY <1>0, <2>1, <2>2 DEF PendingDeletionIsDue, Target
    <2>4. RecentCallIsRecorded'
      <3> SUFFICES ASSUME NEW u \in VM, since[u] < HealCooldown
                   PROVE  \/ HealedVMs'[u] # None /\ HealedVMs'[u] <= since[u]
                          \/ \E m \in Entry : lister'[m].pc = "record" /\ lister'[m].item.vm = u
        BY <2>1 DEF RecentCallIsRecorded, Target
      <3>0. HealedVMs'[u] = IF u = v THEN 0 ELSE HealedVMs[u]
        BY <1>0, <2>1 DEF VMTypeOK
      <3>1. CASE u = v
        <4>1. since[u] \in Nat /\ 0 # None
          BY <1>0, Numbers DEF VMTypeOK
        <4>2. QED
          BY <3>0, <3>1, <4>1
      <3>2. CASE u # v
        <4>1. ASSUME NEW m \in Entry, lister[m].pc = "record", Target(m) = u
              PROVE  lister'[m].pc = "record" /\ lister'[m].item.vm = u
          BY <2>2, <3>2, <4>1 DEF Target, v
        <4>2. QED
          BY <1>0, <3>0, <3>2, <4>1 DEF RecentCallIsRecorded
      <3>3. QED
        BY <3>1, <3>2
    <2>5. QED
      BY <2>3, <2>4
  <1>5. QED
    BY <1>1, <1>2, <1>3, <1>4 DEF Listing

\* One step of the whole preserves them.
LEMMA CooldownInvStep ==
  ASSUME CooldownInv, [VMNext]_allVars
  PROVE  PendingDeletionIsDue' /\ RecentCallIsRecorded'
  <1>0. VMTypeOK /\ PendingDeletionIsDue /\ RecentCallIsRecorded
    BY DEF CooldownInv
  <1>1. CASE TimePasses
    <2>1. \A n \in Entry : Same(n, lister'[n])
      <3>1. \A n \in Entry : lister'[n] = Aged(lister[n])
        BY <1>1 DEF TimePasses, Aged
      <3>2. QED
        BY <1>0, <3>1, AgedKeeps
    <2>2. ASSUME NEW v \in VM
          PROVE  /\ since'[v] = IF since[v] < HealCooldown THEN since[v] + 1 ELSE since[v]
                 /\ since[v] \in 0..HealCooldown
                 /\ HealedVMs'[v] = IF HealedVMs[v] # None /\ HealedVMs[v] < OldAge
                                    THEN HealedVMs[v] + 1 ELSE HealedVMs[v]
                 /\ HealedVMs[v] \in 0..OldAge \cup {None}
      BY <1>0, <1>1 DEF TimePasses, VMTypeOK
    <2>3. PendingDeletionIsDue'
      <3> SUFFICES ASSUME NEW n \in Entry, lister'[n].pc = "delete"
                   PROVE  since'[lister'[n].item.vm] = HealCooldown
        BY DEF PendingDeletionIsDue, Target
      <3>1. lister[n].pc = "delete" /\ lister'[n].item.vm = Target(n)
        BY <2>1 DEF Same, Target
      <3>2. Target(n) \in VM /\ since[Target(n)] = HealCooldown
        BY <1>0, <3>1, ItemAtHand DEF PendingDeletionIsDue
      <3>3. QED
        BY <2>2, <3>1, <3>2, Numbers
    <2>4. RecentCallIsRecorded'
      <3> SUFFICES ASSUME NEW v \in VM, since'[v] < HealCooldown
                   PROVE  \/ HealedVMs'[v] # None /\ HealedVMs'[v] <= since'[v]
                          \/ \E n \in Entry : lister'[n].pc = "record" /\ lister'[n].item.vm = v
        BY DEF RecentCallIsRecorded, Target
      <3>1. since[v] < HealCooldown /\ since'[v] = since[v] + 1
        BY <2>2, Numbers
      <3>2. CASE HealedVMs[v] # None /\ HealedVMs[v] <= since[v]
        <4>1. HealedVMs'[v] \in Nat /\ HealedVMs'[v] <= since[v] + 1
          BY <2>2, <3>1, <3>2, Numbers
        <4>2. QED
          BY <3>1, <4>1, Numbers
      <3>3. CASE \E n \in Entry : lister[n].pc = "record" /\ Target(n) = v
        BY <2>1, <3>3 DEF Same, Target
      <3>4. QED
        BY <1>0, <3>1, <3>2, <3>3 DEF RecentCallIsRecorded
    <2>5. QED
      BY <2>3, <2>4
  <1>2. ASSUME \/ \E n \in Ns : NamespaceRemoved(n)
               \/ \E v \in VM : VMDeletedByOthers(v) \/ Released(v)
        PROVE  PendingDeletionIsDue' /\ RecentCallIsRecorded'
    <2>1. since' = since /\ HealedVMs' = HealedVMs
      BY <1>2, OthersVanish
    <2>2. PICK gone \in SUBSET VM : Vanish(gone)
      BY <1>2, OthersVanish
    <2>3. \A n \in Entry : lister'[n] = Overtaken(lister[n], gone)
      BY <2>2 DEF Vanish, Overtaken
    <2>4. QED
      BY <1>0, <2>1, <2>3, VanishKeeps, SameKeepsCooldownInv
  <1>3. ASSUME \/ NamespaceChange \/ NamespacePoll \/ CheckCompleted
               \/ \E v \in VM : CreateVM(v)
               \/ UNCHANGED allVars
        PROVE  PendingDeletionIsDue' /\ RecentCallIsRecorded'
    <2>1. since' = since /\ HealedVMs' = HealedVMs /\ lister' = lister
      BY <1>3 DEF NamespaceChange, NamespacePoll, CheckCompleted, CreateVM, allVars, vmVars, gateHistory
    <2>2. QED
      BY <1>0, <2>1, SameKeepsCooldownInv DEF Same
  <1>4. CASE CheckAllVirtualMachines
    <2>1. since' = since /\ HealedVMs' = HealedVMs
      BY <1>4 DEF CheckAllVirtualMachines, gateHistory
    <2>2. \A n \in Entry : lister[n].pc = "off" /\ lister'[n].pc \in {"list", "off"}
      BY <1>0, <1>4 DEF CheckAllVirtualMachines, VMTypeOK, Off
    <2>3. QED
      BY <1>0, <2>1, <2>2 DEF PendingDeletionIsDue, RecentCallIsRecorded
  <1>5. ASSUME NEW n \in Entry, Listing(n)
        PROVE  PendingDeletionIsDue' /\ RecentCallIsRecorded'
    BY <1>5, ListingKeepsCooldownInv
  <1>6. CASE CleanHealedVMs
    <2>1. lister' = lister /\ since' = since
      BY <1>6 DEF CleanHealedVMs, gateHistory
    <2>2. ASSUME NEW v \in VM, since[v] < HealCooldown,
                 HealedVMs[v] # None, HealedVMs[v] <= since[v]
          PROVE  HealedVMs'[v] = HealedVMs[v]
      <3>1. HealedVMs[v] \in Nat /\ since[v] \in Nat
        BY <1>0, <2>2, Numbers DEF VMTypeOK
      <3>2. ~Forgotten(v)
        BY <2>2, <3>1, Numbers DEF Forgotten
      <3>3. QED
        BY <1>6, <3>2 DEF CleanHealedVMs
    <2>3. QED
      BY <1>0, <2>1, <2>2 DEF PendingDeletionIsDue, RecentCallIsRecorded, Target
  <1>7. CASE SanitizeReferences
    <2>1. lister' = lister /\ \A v \in VM : since'[v] = HealCooldown
      BY <1>7 DEF SanitizeReferences
    <2>2. \A n \in Entry : lister'[n].pc = "delete" => lister'[n].item.vm \in VM
      BY <1>0, <2>1, ItemAtHand DEF Target
    <2>3. QED
      BY <2>1, <2>2, Numbers DEF PendingDeletionIsDue, RecentCallIsRecorded, Target
  <1>8. QED
    BY <1>1, <1>2, <1>3, <1>4, <1>5, <1>6, <1>7 DEF VMNext, VMCluster, VMCheck

\* A goroutine starts only in CheckAllVirtualMachines, for an entry it goes through.
LEMMA OnlyTargetsStart ==
  ASSUME VMTypeOK, [VMNext]_allVars, NEW m \in Entry, lister[m].pc = "off"
  PROVE  lister'[m].pc = "off" \/ (m \in Targets /\ CheckAllVirtualMachines)
  <1>1. CASE CheckAllVirtualMachines
    BY <1>1 DEF CheckAllVirtualMachines, Off
  <1>2. CASE TimePasses
    BY <1>2, AgedFits, TypeByLister DEF TimePasses, Aged
  <1>3. ASSUME \/ \E n \in Ns : NamespaceRemoved(n)
               \/ \E v \in VM : VMDeletedByOthers(v) \/ Released(v)
        PROVE  lister'[m].pc = "off"
    <2>1. PICK gone \in SUBSET VM : Vanish(gone)
      BY <1>3, OthersVanish
    <2>2. lister'[m] = Overtaken(lister[m], gone)
      BY <2>1 DEF Vanish, Overtaken
    <2>3. QED
      BY <2>2, OvertakenFits, TypeByLister
  <1>4. ASSUME NEW n \in Entry, Listing(n)
        PROVE  lister'[m].pc = "off"
    <2>1. n # m
      BY <1>4 DEF Listing, ListVMs, ListVMsFails, ListExhausted, CheckAndHealVirtualMachine,
                  DeleteVM, DeleteVMFails, RecordHeal
    <2>2. lister \in [Entry -> Lister]
      BY DEF VMTypeOK
    <2>3. CASE DeleteVM(n)
      <3>1. Target(n) \in VM /\ lister'[m] = Overtaken(lister[m], Removes(Target(n)))
        BY <2>1, <2>3, ItemAtHand DEF DeleteVM, Overtaken
      <3>2. QED
        BY <3>1, OvertakenFits, TypeByLister DEF Removes
    <2>4. CASE ~DeleteVM(n)
      <3>1. lister'[m] = lister[m]
        BY <1>4, <2>1, <2>2, <2>4
        DEF Listing, ListVMs, ListVMsFails, ListExhausted, CheckAndHealVirtualMachine,
            DeleteVMFails, RecordHeal
      <3>2. QED
        BY <3>1
    <2>5. QED
      BY <2>3, <2>4
  <1>5. ASSUME \/ NamespaceChange \/ NamespacePoll \/ CheckCompleted
               \/ CleanHealedVMs \/ SanitizeReferences
               \/ \E v \in VM : CreateVM(v)
               \/ UNCHANGED allVars
        PROVE  lister'[m].pc = "off"
    <2>1. lister' = lister
      BY <1>5 DEF NamespaceChange, NamespacePoll, CheckCompleted, CleanHealedVMs,
                  SanitizeReferences, CreateVM, allVars, vmVars
    <2>2. QED
      BY <2>1
  <1>6. QED
    BY <1>1, <1>2, <1>3, <1>4, <1>5 DEF VMNext, VMCluster, VMCheck

\* NamespaceAll has no goroutine of its own beside others.
LEMMA AllStandsAloneStep ==
  ASSUME VMTypeOK, AllStandsAlone, [VMNext]_allVars
  PROVE  lister'[All].pc = "off"
  <1>1. All \in Entry /\ lister[All].pc = "off"
    BY DEF Entry, AllStandsAlone
  <1>2. All \notin Targets
    BY NamespaceAssumption DEF Targets, AllStandsAlone
  <1>3. QED
    BY <1>1, <1>2, OnlyTargetsStart

\* CooldownInv holds for any number of namespaces and machines, as long as polls do
\* not turn "all namespaces" into a list that has NamespaceAll among other names:
\* then two goroutines would list one machine.
THEOREM CooldownInvariant ==
  ASSUME Unmixed
  PROVE  VMSpec => []CooldownInv
  <1> DEFINE Alone == All \in Namespaces => Namespaces = {All}
  <1>1. VMInit /\ VMTypeOK /\ Alone => CooldownInv
    <2> SUFFICES ASSUME VMInit, VMTypeOK, Alone PROVE CooldownInv
      OBVIOUS
    <2>1. \A n \in Entry : lister[n].pc = "off"
      BY DEF VMInit, Off
    <2>2. All \in Entry /\ \A v \in VM : since[v] = HealCooldown
      BY DEF VMInit, Entry
    <2>3. QED
      BY <2>1, <2>2, Numbers DEF CooldownInv, AllStandsAlone, PendingDeletionIsDue,
                                 RecentCallIsRecorded
  <1>2. CooldownInv /\ VMTypeOK' /\ Alone' /\ [VMNext]_allVars => CooldownInv'
    <2> SUFFICES ASSUME CooldownInv, VMTypeOK', Alone', [VMNext]_allVars PROVE CooldownInv'
      OBVIOUS
    <2>1. PendingDeletionIsDue' /\ RecentCallIsRecorded'
      BY CooldownInvStep
    <2>2. lister'[All].pc = "off"
      BY AllStandsAloneStep DEF CooldownInv
    <2>3. QED
      BY <2>1, <2>2 DEF CooldownInv, AllStandsAlone
  <1>3. Spec => []Alone
    BY AllIsNeverMixed
  <1> HIDE DEF Alone
  <1>4. QED
    BY <1>1, <1>2, <1>3, PollingGoesOn, VMTypeCorrect, PTL DEF VMSpec

-----------------------------------------------------------------------------

\* A step of VMHealing is a step of the gate, or changes nothing it sees.
LEMMA StepOfGate ==
  ASSUME CooldownInv, [VMNext]_allVars
  PROVE  [Gate!Next]_<<since, odd>>
  <1>0. VMTypeOK /\ PendingDeletionIsDue
    BY DEF CooldownInv
  <1>1. ASSUME TimePasses PROVE Gate!Elapse
    BY <1>1 DEF TimePasses, Gate!Elapse, Gate!Older
  <1>2. ASSUME \/ NamespaceChange \/ NamespacePoll \/ CheckAllVirtualMachines \/ CheckCompleted
               \/ CleanHealedVMs
               \/ \E n \in Ns : NamespaceRemoved(n)
               \/ \E v \in VM : CreateVM(v) \/ VMDeletedByOthers(v) \/ Released(v)
               \/ UNCHANGED allVars
        PROVE  UNCHANGED <<since, odd>>
    BY <1>2 DEF Released, NamespaceChange, NamespacePoll, CheckAllVirtualMachines, CheckCompleted,
                CleanHealedVMs, NamespaceRemoved, CreateVM, VMDeletedByOthers, allVars, vmVars,
                gateHistory
  <1>3. ASSUME NEW n \in Entry, Listing(n)
        PROVE  Gate!Next \/ UNCHANGED <<since, odd>>
    <2>1. CASE DeleteVM(n) \/ DeleteVMFails(n)
      <3>1. lister[n].pc = "delete" /\ Called(Target(n))
        BY <2>1 DEF DeleteVM, DeleteVMFails
      <3>2. Target(n) \in VM /\ since[Target(n)] = HealCooldown
        BY <1>0, <3>1, ItemAtHand DEF PendingDeletionIsDue
      <3>3. QED
        BY <3>1, <3>2 DEF Called, Gate!Act, Gate!Next
    <2>2. CASE ~(DeleteVM(n) \/ DeleteVMFails(n))
      BY <1>3, <2>2 DEF Listing, ListVMs, ListVMsFails, ListExhausted, CheckAndHealVirtualMachine,
                        RecordHeal, gateHistory
    <2>3. QED
      BY <2>1, <2>2
  <1>4. ASSUME SanitizeReferences PROVE Gate!Forget
    BY <1>4 DEF SanitizeReferences, Gate!Forget
  <1>5. QED
    BY <1>1, <1>2, <1>3, <1>4 DEF VMNext, VMCluster, VMCheck, Gate!Next

\* The deletions of a virtual machine by this path are at least HealCooldown apart.
THEOREM CooldownIsRespected ==
  ASSUME Unmixed
  PROVE  VMSpec => CooldownRespected
  <1>1. VMInit => Gate!Init
    BY DEF VMInit, Gate!Init
  <1>2. CooldownInv /\ [VMNext]_allVars => [Gate!Next]_<<since, odd>>
    BY StepOfGate
  <1>3. QED
    BY <1>1, <1>2, CooldownInvariant, PTL DEF VMSpec, CooldownRespected, Gate!Spec

-----------------------------------------------------------------------------

\* What a goroutine knows of the machines it has listed, each of them once: their
\* ages, as long as they have not disappeared since.
StillThere(i, ages) == i.outdated \/ ages[i.vm] = i.age

Knows(l, ages) ==
  /\ \A i, j \in l.todo : i.vm = j.vm => i = j
  /\ \A i \in l.todo : StillThere(i, ages)
  /\ l.pc = "delete" => /\ StillThere(l.item, ages)
                        /\ l.item.age > VMMaxAge
                        /\ \A i \in l.todo : i.vm # l.item.vm

KnowledgeHolds == \A n \in Entry : Knows(lister[n], vm)

\* Machines and what is known of them grow older together.
LEMMA AgedKnows ==
  ASSUME NEW l \in Lister, NEW ages, Knows(l, ages), l.pc = "delete" => l.item # NoItem,
         NEW later, \A v \in VM : later[v] = OlderVM(ages[v])
  PROVE  Knows(Aged(l), later)
  <1>1. /\ Aged(l).pc = l.pc
        /\ Aged(l).todo = {OlderItem(i) : i \in l.todo}
        /\ Aged(l).item = OlderItem(l.item)
    BY DEF Aged, Lister
  <1>2. \A i \in l.todo : i \in Item
    BY DEF Lister
  <1>3. ASSUME NEW i \in Item, StillThere(i, ages)
        PROVE  StillThere(OlderItem(i), later)
    <2>1. i.vm \in VM
      BY DEF Item
    <2>2. QED
      BY <1>3, <2>1, ItemTypes DEF StillThere
  <1>4. \A i, j \in Aged(l).todo : i.vm = j.vm => i = j
    BY <1>1, <1>2, ItemTypes DEF Knows
  <1>5. \A i \in Aged(l).todo : StillThere(i, later)
    BY <1>1, <1>2, <1>3 DEF Knows
  <1>6. ASSUME l.pc = "delete"
        PROVE  /\ StillThere(Aged(l).item, later)
               /\ Aged(l).item.age > VMMaxAge
               /\ \A i \in Aged(l).todo : i.vm # Aged(l).item.vm
    <2>1. l.item \in Item
      BY <1>6 DEF Lister
    <2>2. OlderVM(l.item.age) > VMMaxAge
      <3>1. l.item.age > VMMaxAge
        BY <1>6 DEF Knows
      <3>2. l.item.age \in 0..(VMMaxAge + 1)
        BY <2>1 DEF Item
      <3>3. QED
        BY <3>1, <3>2, Numbers DEF OlderVM
    <2>3. QED
      BY <1>1, <1>2, <1>3, <1>6, <2>1, <2>2, ItemTypes DEF Knows
  <1>7. QED
    BY <1>1, <1>4, <1>5, <1>6 DEF Knows

\* Machines that disappear are marked in every list.
LEMMA OvertakenKnows ==
  ASSUME NEW l \in Lister, NEW ages, Knows(l, ages), l.pc = "delete" => l.item # NoItem,
         NEW gone \in SUBSET VM,
         NEW later, \A v \in VM : v \notin gone => later[v] = ages[v]
  PROVE  Knows(Overtaken(l, gone), later)
  <1>0. \A i \in Item : Overtake(i, gone).vm = i.vm /\ Overtake(i, gone).age = i.age
    BY ItemTypes
  <1>1. /\ Overtaken(l, gone).pc = l.pc
        /\ Overtaken(l, gone).todo = {Overtake(i, gone) : i \in l.todo}
        /\ Overtaken(l, gone).item = Overtake(l.item, gone)
    BY DEF Overtaken, Lister
  <1>2. \A i \in l.todo : i \in Item
    BY DEF Lister
  <1>3. ASSUME NEW i \in Item, StillThere(i, ages)
        PROVE  StillThere(Overtake(i, gone), later)
    <2>1. i.vm \in VM
      BY DEF Item
    <2>2. CASE i.vm \in gone
      BY <2>2 DEF Item, Overtake, StillThere
    <2>3. CASE i.vm \notin gone
      BY <1>3, <2>1, <2>3 DEF Overtake, StillThere
    <2>4. QED
      BY <2>2, <2>3
  <1>4. \A i, j \in Overtaken(l, gone).todo : i.vm = j.vm => i = j
    <2>1. ASSUME NEW i \in l.todo, NEW j \in l.todo, Overtake(i, gone).vm = Overtake(j, gone).vm
          PROVE  i = j
      BY <1>2, <1>0, <2>1 DEF Knows
    <2>2. QED
      BY <1>1, <2>1
  <1>5. \A i \in Overtaken(l, gone).todo : StillThere(i, later)
    BY <1>1, <1>2, <1>3 DEF Knows
  <1>6. ASSUME l.pc = "delete"
        PROVE  /\ StillThere(Overtaken(l, gone).item, later)
               /\ Overtaken(l, gone).item.age > VMMaxAge
               /\ \A i \in Overtaken(l, gone).todo : i.vm # Overtaken(l, gone).item.vm
    <2>1. l.item \in Item
      BY <1>6 DEF Lister
    <2>2. StillThere(Overtake(l.item, gone), later)
      BY <1>3, <1>6, <2>1 DEF Knows
    <2>3. ASSUME NEW i \in l.todo PROVE Overtake(i, gone).vm # Overtake(l.item, gone).vm
      BY <1>2, <1>6, <1>0, <2>1 DEF Knows
    <2>4. Overtake(l.item, gone).age > VMMaxAge
      BY <1>6, <1>0, <2>1 DEF Knows
    <2>5. QED
      BY <1>1, <2>2, <2>3, <2>4
  <1>7. QED
    BY <1>1, <1>4, <1>5, <1>6 DEF Knows

\* Vanish marks them all.
LEMMA VanishKeepsKnowledge ==
  ASSUME VMTypeOK, KnowledgeHolds, NEW gone \in SUBSET VM, Vanish(gone)
  PROVE  KnowledgeHolds'
  <1> SUFFICES ASSUME NEW n \in Entry PROVE Knows(lister'[n], vm')
    BY DEF KnowledgeHolds
  <1>1. lister'[n] = Overtaken(lister[n], gone)
    BY DEF Vanish, Overtaken
  <1>2. lister[n] \in Lister /\ (lister[n].pc = "delete" => lister[n].item # NoItem)
    BY DEF VMTypeOK
  <1>3. \A v \in VM : v \notin gone => vm'[v] = vm[v]
    BY DEF Vanish
  <1>4. Knows(Overtaken(lister[n], gone), vm')
    BY <1>2, <1>3, OvertakenKnows DEF KnowledgeHolds
  <1>5. QED
    BY <1>1, <1>4

\* A goroutine learns from its list, and forgets.
LEMMA ListingKeepsKnowledge ==
  ASSUME VMTypeOK, KnowledgeHolds, NEW n \in Entry, Listing(n)
  PROVE  KnowledgeHolds'
  <1>0. lister \in [Entry -> Lister] /\ Knows(lister[n], vm)
    BY DEF VMTypeOK, KnowledgeHolds
  <1>1. CASE DeleteVM(n)
    <2> DEFINE v == Target(n)
               gone == Removes(v)
    <2>1. v \in VM /\ gone \in SUBSET {v} /\ lister[n].pc = "delete"
      BY <1>1, ItemAtHand DEF DeleteVM, Removes
    <2>2. \A u \in VM : u \notin gone => vm'[u] = vm[u]
      BY <1>1 DEF DeleteVM, VMTypeOK
    <2>3. ASSUME NEW m \in Entry, m # n PROVE Knows(lister'[m], vm')
      <3>1. lister'[m] = Overtaken(lister[m], gone)
        BY <1>1, <2>3 DEF DeleteVM, Overtaken
      <3>2. lister[m] \in Lister /\ (lister[m].pc = "delete" => lister[m].item # NoItem)
        BY DEF VMTypeOK
      <3>3. gone \in SUBSET VM /\ \A u \in VM : u \notin gone => vm'[u] = vm[u]
        BY <2>1, <2>2
      <3> HIDE DEF gone
      <3>4. Knows(Overtaken(lister[m], gone), vm')
        BY <3>2, <3>3, OvertakenKnows DEF KnowledgeHolds
      <3>5. QED
        BY <3>1, <3>4
    <2>4. Knows(lister'[n], vm')
      <3>1. lister'[n].pc = "record" /\ lister'[n].todo = lister[n].todo
        BY <1>0, <1>1 DEF DeleteVM, Lister
      <3>2. \A i \in lister[n].todo : i.vm \in VM /\ i.vm # v
        BY <1>0, <2>1 DEF Knows, Lister, Item, Target
      <3>3. QED
        BY <1>0, <2>1, <2>2, <3>1, <3>2 DEF Knows, StillThere
    <2>5. QED
      BY <2>3, <2>4 DEF KnowledgeHolds
  <1>2. CASE ~DeleteVM(n)
    <2>1. vm' = vm /\ \A m \in Entry : m # n => lister'[m] = lister[m]
      BY <1>0, <1>2 DEF machines, Listing, ListVMs, ListVMsFails, ListExhausted, CheckAndHealVirtualMachine,
                        DeleteVMFails, RecordHeal
    <2>2. Knows(lister'[n], vm)
      <3>1. CASE ListVMs(n)
        <4> DEFINE listed == {v \in VM : vm[v] # None /\ n \in {NsOf[v], All}}
        <4>1. /\ lister'[n].pc = "next"
              /\ lister'[n].todo = {[vm |-> v, age |-> vm[v], outdated |-> FALSE] : v \in listed}
          BY <1>0, <3>1 DEF ListVMs
        <4>2. \A i \in lister'[n].todo : i.vm \in VM /\ i = [vm |-> i.vm, age |-> vm[i.vm], outdated |-> FALSE]
          BY <4>1
        <4>3. \A i, j \in lister'[n].todo : i.vm = j.vm => i = j
          BY <4>2
        <4>4. \A i \in lister'[n].todo : StillThere(i, vm)
          BY <4>2 DEF StillThere
        <4>5. QED
          BY <4>1, <4>3, <4>4 DEF Knows
      <3>2. CASE ListVMsFails(n) \/ ListExhausted(n)
        <4>1. lister'[n] = Off
          BY <1>0, <3>2 DEF ListVMsFails, ListExhausted
        <4>2. QED
          BY <4>1 DEF Off, Knows
      <3>3. CASE CheckAndHealVirtualMachine(n)
        <4>1. PICK i \in lister[n].todo :
                lister'[n] = [pc |-> IF Due(i) THEN "delete" ELSE "next",
                              todo |-> lister[n].todo \ {i},
                              item |-> IF Due(i) THEN i ELSE NoItem]
          BY <1>0, <3>3 DEF CheckAndHealVirtualMachine
        <4>2. /\ lister'[n].pc = "delete" => Due(i) /\ lister'[n].item = i
              /\ lister'[n].todo = lister[n].todo \ {i}
          BY <4>1
        <4>3. Due(i) => i.age > VMMaxAge
          BY DEF Due
        <4>4. i \in lister[n].todo /\ Knows(lister[n], vm)
          BY <1>0
        <4>5. /\ \A j, k \in lister'[n].todo : j.vm = k.vm => j = k
              /\ \A j \in lister'[n].todo : StillThere(j, vm)
          BY <4>2, <4>4 DEF Knows
        <4>6. ASSUME lister'[n].pc = "delete"
              PROVE  /\ StillThere(i, vm) /\ i.age > VMMaxAge
                     /\ \A j \in lister'[n].todo : j.vm # i.vm
          BY <4>2, <4>3, <4>4, <4>6 DEF Knows
        <4>7. QED
          BY <4>2, <4>5, <4>6 DEF Knows
      <3>4. CASE DeleteVMFails(n) \/ RecordHeal(n)
        <4>1. lister'[n].pc \in {"record", "next"} /\ lister'[n].todo = lister[n].todo
          BY <1>0, <3>4 DEF DeleteVMFails, RecordHeal, Lister
        <4>2. QED
          BY <1>0, <4>1 DEF Knows
      <3>5. QED
        BY <1>2, <3>1, <3>2, <3>3, <3>4 DEF Listing
    <2>3. QED
      BY <2>1, <2>2 DEF KnowledgeHolds
  <1>3. QED
    BY <1>1, <1>2

LEMMA KnowledgeInvariant == VMSpec => []KnowledgeHolds
  <1>1. VMInit => KnowledgeHolds
    BY DEF VMInit, KnowledgeHolds, Knows, Off
  <1>2. VMTypeOK /\ KnowledgeHolds /\ [VMNext]_allVars => KnowledgeHolds'
    <2> SUFFICES ASSUME VMTypeOK, KnowledgeHolds, [VMNext]_allVars PROVE KnowledgeHolds'
      OBVIOUS
    <2>1. CASE TimePasses
      <3> SUFFICES ASSUME NEW n \in Entry PROVE Knows(lister'[n], vm')
        BY DEF KnowledgeHolds
      <3>1. lister'[n] = Aged(lister[n]) /\ \A v \in VM : vm'[v] = OlderVM(vm[v])
        BY <2>1 DEF TimePasses, Aged
      <3>2. lister[n] \in Lister /\ (lister[n].pc = "delete" => lister[n].item # NoItem)
        BY DEF VMTypeOK
      <3>3. Knows(Aged(lister[n]), vm')
        BY <3>1, <3>2, AgedKnows DEF KnowledgeHolds
      <3>4. QED
        BY <3>1, <3>3
    <2>2. ASSUME \/ \E n \in Ns : NamespaceRemoved(n)
                 \/ \E v \in VM : VMDeletedByOthers(v) \/ Released(v)
          PROVE  KnowledgeHolds'
      <3>1. PICK gone \in SUBSET VM : Vanish(gone)
        BY <2>2, OthersVanish
      <3>2. QED
        BY <3>1, VanishKeepsKnowledge
    <2>3. ASSUME NEW v \in VM, CreateVM(v) PROVE KnowledgeHolds'
      <3>1. lister' = lister /\ vm[v] = None /\ \A u \in VM : u # v => vm'[u] = vm[u]
        BY <2>3 DEF CreateVM, VMTypeOK
      <3>2. ASSUME NEW i \in Item, StillThere(i, vm) PROVE StillThere(i, vm')
        <4>1. i.vm \in VM /\ i.age # None
          BY Numbers DEF Item
        <4>2. QED
          BY <3>1, <3>2, <4>1 DEF StillThere
      <3>3. ASSUME NEW n \in Entry PROVE Knows(lister[n], vm')
        <4>1. /\ \A i \in lister[n].todo : i \in Item
              /\ lister[n].pc = "delete" => lister[n].item \in Item
          BY DEF VMTypeOK, Lister
        <4>2. QED
          BY <3>2, <4>1 DEF KnowledgeHolds, Knows
      <3>4. QED
        BY <3>1, <3>3 DEF KnowledgeHolds
    <2>4. CASE CheckAllVirtualMachines
      <3>1. \A n \in Entry : lister'[n].pc # "delete" /\ lister'[n].todo = {}
        BY <2>4 DEF CheckAllVirtualMachines, Off
      <3>2. QED
        BY <3>1 DEF KnowledgeHolds, Knows
    <2>5. ASSUME NEW n \in Entry, Listing(n) PROVE KnowledgeHolds'
      BY <2>5, ListingKeepsKnowledge
    <2>6. ASSUME \/ NamespaceChange \/ NamespacePoll \/ CheckCompleted
                 \/ CleanHealedVMs \/ SanitizeReferences
                 \/ UNCHANGED allVars
          PROVE  KnowledgeHolds'
      <3>1. vm' = vm /\ lister' = lister
        BY <2>6 DEF NamespaceChange, NamespacePoll, CheckCompleted, CleanHealedVMs,
                    SanitizeReferences, allVars, vmVars, machines
      <3>2. QED
        BY <3>1 DEF KnowledgeHolds
    <2>7. QED
      BY <2>1, <2>2, <2>3, <2>4, <2>5, <2>6 DEF VMNext, VMCluster, VMCheck
  <1>3. QED
    BY <1>1, <1>2, VMTypeCorrect, PTL DEF VMSpec

\* A machine that is deleted is past the maximum age, unless it took the name of
\* one that was listed: the age in the list does not go stale otherwise.
THEOREM YoungMachinesAreSafe == VMSpec => OnlyOldDeleted
  <1> DEFINE Old == \A v \in VM : DeletesVM(v) =>
                      \/ vm[v] > VMMaxAge
                      \/ \E n \in Entry : Target(n) = v /\ lister[n].item.outdated
  <1>1. KnowledgeHolds => [Old]_allVars
    <2> SUFFICES ASSUME KnowledgeHolds, NEW v \in VM, DeletesVM(v)
                 PROVE  \/ vm[v] > VMMaxAge
                        \/ \E n \in Entry : Target(n) = v /\ lister[n].item.outdated
      OBVIOUS
    <2>1. PICK n \in Entry : lister[n].pc = "delete" /\ Target(n) = v
      BY DEF DeletesVM
    <2>2. QED
      BY <2>1 DEF KnowledgeHolds, Knows, StillThere, Target
  <1>2. QED
    BY <1>1, KnowledgeInvariant, PTL DEF OnlyOldDeleted

=============================================================================
