--------------------------- MODULE MCVMHealing ---------------------------
(* Small instances of VMHealing. *)
EXTENDS VMHealing, TLC

CONSTANTS test1, prod, other, vt, TestPrefix

NoNames == {}
OnlyTest == {test1}
OnlyProd == {prod}

\* prod is named on the command line, test-1 matches the pattern, other is
\* neither.
NamedNs  == {test1, prod}
ForeignNs == {test1, other}
PrefixOfNs == [n \in Ns |-> IF n = test1 THEN TestPrefix ELSE None]
PrefixedNs == TestPrefix :> {test1}

OneVM == {vt}
NsOfVMs == [v \in VM |-> test1]
=============================================================================
