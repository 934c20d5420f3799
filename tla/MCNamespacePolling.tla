------------------------- MODULE MCNamespacePolling -------------------------
(* Small instances of NamespacePolling. *)
EXTENDS NamespacePolling, TLC

CONSTANTS test1, test2, prod, appDev, appProd, TestPrefix, AppPrefix

NoNames == {}

\* Two names under the prefix test-, and one without a separator.
TestNames == {test1, test2}
TestNs    == {test1, test2, prod}
TestPrefixOf  == test1 :> TestPrefix @@ test2 :> TestPrefix @@ prod :> None
TestHasPrefix == TestPrefix :> TestNames

\* test-1 is configured, app-dev is not although it has a prefix.
MixedBagNs == {test1, appDev, prod}
MixedBagPrefixOf  == test1 :> TestPrefix @@ appDev :> AppPrefix @@ prod :> None
MixedBagHasPrefix == TestPrefix :> {test1} @@ AppPrefix :> {appDev}

OnlyTest1 == {test1}
OnlyTest2 == {test2}
OnlyProd  == {prod}

\* app-dev and app-prod: the pattern *-dev matches the first alone.
AppNs    == {appDev, appProd}
OnlyDev  == {appDev}
AppPrefixOf  == appDev :> AppPrefix @@ appProd :> AppPrefix
AppHasPrefix == AppPrefix :> AppNs
=============================================================================
