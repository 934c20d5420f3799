---------------------------- MODULE MCCRDCleanup ----------------------------
(* Small instances of CRDCleanup. *)
EXTENDS CRDCleanup, TLC

CONSTANTS o1, o2, k1, k2, ticker, ticker2, usr1, g1, g2

NoObjects == {}
OneObj  == {o1}
TwoObj  == {o1, o2}
OnlyO2  == {o2}
OneKey  == {k1}
TwoKeys == {k1, k2}
OneKeyOf == o1 :> k1
OwnKeys  == o1 :> k1 @@ o2 :> k2

TickerOnly == {ticker}
TickerUsr1 == {ticker, usr1}
TwoTickers == {ticker, ticker2}

OneG == {g1}
TwoG == {g1, g2}
TickerG == g1 :> ticker
TickerAndUsr1 == g1 :> ticker @@ g2 :> usr1
TickerEach == g1 :> ticker @@ g2 :> ticker2

\* One namespace with all objects, or a namespace for each object.
AllInOne == g1 :> Obj
Apart    == g1 :> {o1} @@ g2 :> {o2}
Twice    == g1 :> Obj @@ g2 :> Obj

TickerKeys == ticker :> Key
Usr1Keys   == ticker :> Key @@ usr1 :> Key
\* The two types have plurals of their own.
OwnPlurals == ticker :> {k1} @@ ticker2 :> {k2}

\* Neither the steps nor the properties of the run look at since and odd.
WithoutGate == <<obj, HealedCRDs, TrackedCRDs, pass, worker, outdated, logged, counted>>
=============================================================================
