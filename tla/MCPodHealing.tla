---------------------------- MODULE MCPodHealing ----------------------------
(* Small instances of PodHealing. *)
EXTENDS PodHealing, TLC

CONSTANTS p1, i1, i2

OnePod     == {p1}
TwoInformers == {i1, i2}

\* The namespace of p1 was rediscovered, and two informers watch it.
SameNamespace == i1 :> {p1} @@ i2 :> {p1}
=============================================================================
