------------------------------ MODULE VMHealing ------------------------------
(***************************************************************************)
(* The clean-up of virtual machines (periodicVirtualMachineCheck), on top  *)
(* of the discovery of namespaces: every 30 seconds it takes a copy of     *)
(* Namespaces, the list that the polling goroutine grows and shrinks, and   *)
(* in a goroutine for each entry lists the virtual machines and deletes    *)
(* those past the maximum age.                                             *)
(*                                                                         *)
(* An empty list, or NamespaceAll alone, stands for all namespaces.  A     *)
(* virtual machine that was listed is deleted by name, after the ones      *)
(* before it in the list; meanwhile the clean-up of custom resources, which *)
(* has a cooldown of its own for the same objects, may have deleted it and *)
(* its owner created it anew.  A DELETE that is accepted removes a machine *)
(* at once only if nothing holds a finalizer on it.                        *)
(***************************************************************************)
EXTENDS NamespacePolling

CONSTANTS
    VM,             \* virtual machines, "namespace/name"
    NsOf,           \* NsOf[v]: the namespace of v
    VMMaxAge,       \* the six minutes of checkAndHealVirtualMachine, in ticks
    HealCooldown,   \* Healer.HealCooldown, in ticks
    VMCallsFail,    \* API calls for virtual machines may fail
    VMFinalized,    \* the virtual machines that may be created with finalizers
    DeletedElsewhere,   \* the virtual machines somebody else deletes too
    MemoryLimited   \* MemoryLimitMB > 0: the memory guard may sanitize

ASSUME VMAssumption ==
    /\ NsOf \in [VM -> Ns]
    /\ VMFinalized \cup DeletedElsewhere \subseteq VM
    /\ VMMaxAge \in Nat
    /\ HealCooldown \in Nat \ {0}
    /\ {VMCallsFail, MemoryLimited} \subseteq BOOLEAN
    /\ None \notin Nat \cup VM

VARIABLES
    vm,         \* vm[v]: the age of virtual machine v, or None
    finalized,  \* the virtual machines on which somebody holds a finalizer
    terminating,    \* those of them that have been deleted and wait for it
    check,      \* is checkAllVirtualMachines running
    lister,     \* lister[n]: where the goroutine for list entry n is
    HealedVMs,  \* the age of the entry of each virtual machine, or None
    since, odd  \* history, as in CooldownGate, of the deletions

machines == <<vm, finalized, terminating>>
vmVars == <<machines, check, lister, HealedVMs, since, odd>>
gateHistory == <<since, odd>>
allVars == <<vars, vmVars>>

Entry == Ns \cup {All}
OldAge == 2 * HealCooldown + 1

\* A listed virtual machine, its age by the creation time in the list;
\* outdated (history): it has disappeared since.
Item == [vm : VM, age : 0..(VMMaxAge + 1), outdated : BOOLEAN]
NoItem == [vm |-> None, age |-> None, outdated |-> FALSE]
Lister == [pc : {"off", "list", "next", "delete", "record"},
           todo : SUBSET Item, item : Item \cup {NoItem}]
Off == [pc |-> "off", todo |-> {}, item |-> NoItem]

OlderVM(age) == IF age # None /\ age <= VMMaxAge THEN age + 1 ELSE age
OlderItem(i) == [i EXCEPT !.age = OlderVM(@)]

-----------------------------------------------------------------------------
(* The virtual machines of the cluster *)

Overtake(i, gone) == IF i.vm \in gone THEN [i EXCEPT !.outdated = TRUE] ELSE i

\* The virtual machines in gone disappear: who has them listed has a past.
Vanish(gone) ==
    /\ vm' = [v \in VM |-> IF v \in gone THEN None ELSE vm[v]]
    /\ finalized' = finalized \ gone
    /\ lister' = [n \in Entry |->
                    [lister[n] EXCEPT !.todo = {Overtake(i, gone) : i \in @},
                                      !.item = Overtake(@, gone)]]

\* What a DELETE of v removes at once, and what it leaves to its finalizers.
Removes(v) == {v} \ finalized
Terminates(v) == terminating' = terminating \cup ({v} \cap finalized)

CreateVM(v) ==
    /\ vm[v] = None /\ ns[NsOf[v]].phase = "Active"
    /\ vm' = [vm EXCEPT ![v] = 0]
    /\ finalized' \in {finalized, finalized \cup ({v} \cap VMFinalized)}
    /\ UNCHANGED <<vars, terminating, check, lister, HealedVMs, gateHistory>>

\* The clean-up of the custom resources of type virtualmachines, or anybody; the
\* namespace controller, when the namespace goes.
VMDeletedByOthers(v) ==
    /\ vm[v] # None /\ (v \in DeletedElsewhere \/ ns[NsOf[v]].phase = "Terminating")
    /\ Vanish(Removes(v)) /\ Terminates(v)
    /\ UNCHANGED <<vars, check, HealedVMs, gateHistory>>

\* Its controller, or the clean-up of custom resources, takes the finalizers off.
Released(v) ==
    /\ v \in terminating
    /\ Vanish({v}) /\ terminating' = terminating \ {v}
    /\ UNCHANGED <<vars, check, HealedVMs, gateHistory>>

\* With a namespace go its virtual machines; one with finalizers holds it up.
NamespaceRemoved(n) ==
    /\ Removed(n) /\ \A v \in finalized : NsOf[v] # n
    /\ Vanish({v \in VM : NsOf[v] = n})
    /\ UNCHANGED <<terminating, check, HealedVMs, gateHistory>>

TimePasses ==
    /\ Tick
    /\ vm' = [v \in VM |-> OlderVM(vm[v])]
    /\ lister' = [n \in Entry |->
                    [lister[n] EXCEPT !.todo = {OlderItem(i) : i \in @}, !.item = OlderItem(@)]]
    /\ HealedVMs' = [v \in VM |-> IF HealedVMs[v] # None /\ HealedVMs[v] < OldAge
                                  THEN HealedVMs[v] + 1 ELSE HealedVMs[v]]
    /\ since' = [v \in VM |-> IF since[v] < HealCooldown THEN since[v] + 1 ELSE since[v]]
    /\ UNCHANGED <<finalized, terminating, check, odd>>

-----------------------------------------------------------------------------
(* checkAllVirtualMachines *)

\* The entries a check goes through, by a copy of the list.
Targets == IF Namespaces \in {{}, {All}} THEN {n \in Ns : Exists(n)} ELSE Namespaces

CheckAllVirtualMachines ==
    /\ check = "idle"
    /\ lister' = [n \in Entry |-> IF n \in Targets THEN [Off EXCEPT !.pc = "list"] ELSE Off]
    /\ check' = "running"
    /\ UNCHANGED <<vars, machines, HealedVMs, gateHistory>>

\* wg.Wait returns.
CheckCompletedMut ==
    /\ check = "running"
    /\ check' = "idle"
    /\ UNCHANGED <<vars, machines, lister, HealedVMs, gateHistory>>

CheckCompleted ==
    /\ check = "running" /\ \A n \in Entry : lister[n].pc = "off"
    /\ check' = "idle"
    /\ UNCHANGED <<vars, machines, lister, HealedVMs, gateHistory>>

\* List: of a namespace, or of all of them under the empty name.
ListVMs(n) ==
    /\ lister[n].pc = "list"
    /\ LET listed == {v \in VM : vm[v] # None /\ n \in {NsOf[v], All}} IN
         lister' = [lister EXCEPT ![n] = [pc |-> "next", item |-> NoItem,
                      todo |-> {[vm |-> v, age |-> vm[v], outdated |-> FALSE] : v \in listed}]]
    /\ UNCHANGED <<vars, machines, check, HealedVMs, gateHistory>>

ListVMsFails(n) ==
    /\ VMCallsFail /\ lister[n].pc = "list"
    /\ lister' = [lister EXCEPT ![n] = Off]
    /\ UNCHANGED <<vars, machines, check, HealedVMs, gateHistory>>

ListExhausted(n) ==
    /\ lister[n].pc = "next" /\ lister[n].todo = {}
    /\ lister' = [lister EXCEPT ![n] = Off]
    /\ UNCHANGED <<vars, machines, check, HealedVMs, gateHistory>>

-----------------------------------------------------------------------------
(* checkAndHealVirtualMachine *)

EverHealedMut(v) == HealedVMs[v] # None
RecentlyHealed(v) == HealedVMs[v] # None /\ HealedVMs[v] < HealCooldown

DueMut(i) == ~RecentlyHealed(i.vm) /\ i.age >= VMMaxAge
Due(i) == ~RecentlyHealed(i.vm) /\ i.age > VMMaxAge

CheckAndHealVirtualMachine(n) ==
    /\ lister[n].pc = "next"
    /\ \E i \in lister[n].todo :
         lister' = [lister EXCEPT ![n] =
                      [pc |-> IF Due(i) THEN "delete" ELSE "next",
                       todo |-> @.todo \ {i},
                       item |-> IF Due(i) THEN i ELSE NoItem]]
    /\ UNCHANGED <<vars, machines, check, HealedVMs, gateHistory>>

Target(n) == lister[n].item.vm
Called(v) ==
    /\ since' = [since EXCEPT ![v] = 0]
    /\ odd' = [odd EXCEPT ![v] = ~odd[v]]

\* The virtual machine of that name, whichever it is by now, goes or terminates.
DeleteVM(n) ==
    LET gone == Removes(Target(n)) IN
    /\ lister[n].pc = "delete" /\ vm[Target(n)] # None
    /\ vm' = [v \in VM |-> IF v \in gone THEN None ELSE vm[v]]
    /\ Terminates(Target(n))
    /\ lister' = [m \in Entry |->
                    IF m = n THEN [lister[n] EXCEPT !.pc = "record"]
                    ELSE [lister[m] EXCEPT !.todo = {Overtake(i, gone) : i \in @},
                                           !.item = Overtake(@, gone)]]
    /\ Called(Target(n))
    /\ UNCHANGED <<vars, finalized, check, HealedVMs>>

DeleteVMFails(n) ==
    /\ lister[n].pc = "delete" /\ (VMCallsFail \/ vm[Target(n)] = None)
    /\ lister' = [lister EXCEPT ![n].pc = "record"]
    /\ Called(Target(n))
    /\ UNCHANGED <<vars, machines, check, HealedVMs>>

\* Recorded whether the call succeeded or not.
RecordHealMut(n) ==
    /\ lister[n].pc = "record"
    /\ lister' = [lister EXCEPT ![n].pc = "next", ![n].item = NoItem]
    /\ UNCHANGED <<vars, machines, check, HealedVMs, gateHistory>>

RecordHeal(n) ==
    /\ lister[n].pc = "record"
    /\ HealedVMs' = [HealedVMs EXCEPT ![Target(n)] = 0]
    /\ lister' = [lister EXCEPT ![n].pc = "next", ![n].item = NoItem]
    /\ UNCHANGED <<vars, machines, check, gateHistory>>

-----------------------------------------------------------------------------
(* The goroutines that share the map *)

Forgotten(v) == HealedVMs[v] # None /\ HealedVMs[v] > 2 * HealCooldown

CleanHealedVMs ==
    /\ \E v \in VM : Forgotten(v)
    /\ HealedVMs' = [v \in VM |-> IF Forgotten(v) THEN None ELSE HealedVMs[v]]
    /\ UNCHANGED <<vars, machines, check, lister, gateHistory>>

SanitizeReferences ==
    /\ MemoryLimited
    /\ HealedVMs' = [v \in VM |-> None]
    /\ since' = [v \in VM |-> HealCooldown]
    /\ UNCHANGED <<vars, machines, check, lister, odd>>

-----------------------------------------------------------------------------

VMInit ==
    /\ Init
    /\ vm \in [VM -> {None}]
    /\ finalized = {} /\ terminating = {}
    /\ check = "idle"
    /\ lister = [n \in Entry |-> Off]
    /\ HealedVMs = [v \in VM |-> None]
    /\ since = [v \in VM |-> HealCooldown]
    /\ odd = [v \in VM |-> FALSE]

NamespacePoll == Poller /\ UNCHANGED vmVars

NamespaceChange ==
    /\ \E n \in Ns : Create(n) \/ DeletedByOthers(n)
    /\ UNCHANGED vmVars

VMCluster ==
    \/ TimePasses \/ NamespaceChange
    \/ \E n \in Ns : NamespaceRemoved(n)
    \/ \E v \in VM : CreateVM(v) \/ VMDeletedByOthers(v) \/ Released(v)

Listing(n) ==
    \/ ListVMs(n) \/ ListVMsFails(n) \/ ListExhausted(n)
    \/ CheckAndHealVirtualMachine(n) \/ DeleteVM(n) \/ DeleteVMFails(n) \/ RecordHeal(n)

VMCheck == CheckAllVirtualMachines \/ CheckCompleted \/ \E n \in Entry : Listing(n)

VMNext ==
    \/ VMCluster \/ NamespacePoll \/ VMCheck
    \/ CleanHealedVMs \/ SanitizeReferences

VMSpec == VMInit /\ [][VMNext]_allVars

\* Time passes, polls and checks go on (each of them ends, so that no part of
\* one can be left out for ever), and a call that is repeated for ever succeeds
\* some time.
VMFairness ==
    /\ WF_allVars(TimePasses) /\ WF_allVars(NamespacePoll) /\ WF_allVars(VMCheck)
    /\ \A v \in VM :
         /\ SF_allVars(\E n \in {NsOf[v], All} : ListVMs(n))
         /\ SF_allVars(\E n \in Entry : Target(n) = v /\ DeleteVM(n))

FairVMSpec == VMSpec /\ VMFairness

-----------------------------------------------------------------------------
(* Properties *)

\* The state has its shape: goroutines exist only during a check, and each
\* handles virtual machines of its own namespace.
VMTypeOK ==
    /\ vm \in [VM -> 0..(VMMaxAge + 1) \cup {None}]
    /\ terminating \subseteq finalized /\ finalized \subseteq {v \in VM : vm[v] # None}
    /\ check \in {"idle", "running"}
    /\ lister \in [Entry -> Lister]
    /\ \A n \in Entry :
         /\ lister[n].pc # "off" => check = "running"
         /\ lister[n].pc \in {"delete", "record"} <=> lister[n].item # NoItem
         /\ \A i \in lister[n].todo \cup ({lister[n].item} \ {NoItem}) : n \in {NsOf[i.vm], All}
    /\ HealedVMs \in [VM -> 0..OldAge \cup {None}]
    /\ since \in [VM -> 0..HealCooldown]
    /\ odd \in [VM -> BOOLEAN]

\* "Minimum time between healing the same Pod/Node/Machine" (cmd/main.go, the
\* heal-cooldown flag): DELETE calls of this path for one virtual machine are a
\* cooldown apart, although each goroutine reads the map before the call and
\* writes it after, and fails or not.
Gate == INSTANCE CooldownGate WITH Key <- VM
CooldownRespected == Gate!Spec

\* The strengthening that makes it inductive, as in PodHealing.  Here one
\* goroutine at a time has a virtual machine because each namespace has one, and
\* NamespaceAll, which would see them all again, is never an entry among others.
AllStandsAlone ==
    /\ All \in Namespaces => Namespaces = {All}
    /\ lister[All].pc = "off"

PendingDeletionIsDue ==
    \A n \in Entry : lister[n].pc = "delete" => since[Target(n)] = HealCooldown

RecentCallIsRecorded ==
    \A v \in VM : since[v] < HealCooldown =>
        \/ HealedVMs[v] # None /\ HealedVMs[v] <= since[v]
        \/ \E n \in Entry : lister[n].pc = "record" /\ Target(n) = v

CooldownInv == VMTypeOK /\ AllStandsAlone /\ PendingDeletionIsDue /\ RecentCallIsRecorded

\* A list of namespaces that is empty or NamespaceAll has been asked for, or stays
\* as it is: a poll adds names to no list without an explicit one.
Unmixed == PollingOn => Explicit # {}

\* "VMs are only deleted if: They are older than 6 minutes" (README.md:138-139),
\* "allowing tests to self-cleanup": the one that is deleted is past the age itself, or
\* has taken the name of one that was, between the list and the call.
DeletesVM(v) == /\ \E n \in Entry : lister[n].pc = "delete" /\ Target(n) = v
                                      /\ lister'[n].pc = "record"
                /\ (vm[v] # None /\ vm'[v] = None) \/ v \in terminating' \ terminating
OnlyOldDeleted ==
    [][\A v \in VM : DeletesVM(v) =>
         \/ vm[v] > VMMaxAge
         \/ \E n \in Entry : Target(n) = v /\ lister[n].item.outdated]_allVars

\* The same without the second case: "older than 6 minutes (regardless of health
\* state)" (README.md:139), whoever else deletes and creates the machine.
YoungVMSpared == [][\A v \in VM : DeletesVM(v) => vm[v] > VMMaxAge]_allVars

\* "checkAllVirtualMachines checks all VirtualMachines in watched namespaces"
\* (healer.go:902): polls and deletions that change the list, in any sequence, lead
\* the check to no namespace that was not asked for, unless all of them are watched.
StaysInScope ==
    \A n \in Entry : lister[n].pc # "off" => n \in Configured \/ All \in Namespaces

\* A virtual machine in a namespace that matches the pattern does not stay past
\* the maximum age for ever: its namespace is discovered, then listed, and a
\* deletion that failed is repeated after the cooldown, until the machine is gone or
\* has only its finalizers left to wait for.
OldVMGoes ==
    \A v \in VM : NsOf[v] \in PatternMatch \cup Explicit =>
        (vm[v] # None /\ vm[v] > VMMaxAge ~> vm[v] = None \/ v \in terminating)
=============================================================================
