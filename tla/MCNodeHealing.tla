--------------------------- MODULE MCNodeHealing ---------------------------
(* Small instances of NodeHealing. *)
EXTENDS NodeHealing, TLC

CONSTANTS n1, n2, p1

OneNode == {n1}
TwoNodes == {n1, n2}
OnePod == {p1}

\* Unknown is tolerated less long than the others.
AllConditions == [Unknown |-> 0, NotReady |-> 1, Pressure |-> 1]
=============================================================================
