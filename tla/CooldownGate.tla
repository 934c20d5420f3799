---------------------------- MODULE CooldownGate ----------------------------
(***************************************************************************)
(* What every healing path promises of one key (a pod, a node, a virtual   *)
(* machine, a custom resource): two remedial calls for the same key are at *)
(* least HealCooldown apart.  Time is kept as an age per key, saturated at *)
(* HealCooldown, because the code only ever compares time.Since(last) with *)
(* the cooldown.  Only the memory guard forgets calls, and then all of     *)
(* them: over its limit the process keeps running rather than remembering. *)
(***************************************************************************)
EXTENDS Naturals

CONSTANTS
    Key,            \* what is healed: "namespace/name", or a node name
    HealCooldown    \* Healer.HealCooldown, in ticks

VARIABLES
    since,  \* since[k]: ticks since the last remedial call for k
    odd     \* odd[k]: their number is odd, so that a second call is no stutter

\* One tick later, up to the saturation.
Older(age) == IF age < HealCooldown THEN age + 1 ELSE age

Init ==
    /\ since = [k \in Key |-> HealCooldown]
    /\ odd = [k \in Key |-> FALSE]

Act(k) ==
    /\ since[k] = HealCooldown
    /\ since' = [since EXCEPT ![k] = 0]
    /\ odd' = [odd EXCEPT ![k] = ~odd[k]]

Elapse ==
    /\ since' = [k \in Key |-> Older(since[k])]
    /\ UNCHANGED odd

\* SanitizeReferences empties the map that remembers the calls.
Forget ==
    /\ since' = [k \in Key |-> HealCooldown]
    /\ UNCHANGED odd

Next == Elapse \/ Forget \/ \E k \in Key : Act(k)

Spec == Init /\ [][Next]_<<since, odd>>
=============================================================================
