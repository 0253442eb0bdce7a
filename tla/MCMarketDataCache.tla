-------------------------- MODULE MCMarketDataCache -------------------------
\* Small instances of MarketDataCache for TLC: two coroutines of one process
\* and one of another.
EXTENDS MarketDataCache, TLC

CONSTANTS x1, x2, x3, p1, p2, empty, noCaller, orphan

MCCallers   == {x1, x2, x3}
MCProcesses == {p1, p2}
MCHomeOf    == x1 :> p1 @@ x2 :> p1 @@ x3 :> p2

\* The two coroutines of the first process are interchangeable.
Symmetry == Permutations({x1, x2})
=============================================================================
