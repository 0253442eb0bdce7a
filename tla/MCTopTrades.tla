---------------------------- MODULE MCTopTrades ----------------------------
\* A small instance of TopTrades for TLC: two workers, two symbols.
EXTENDS TopTrades, TLC

CONSTANTS w1, w2, s1, s2

MCWorkers == {w1, w2}
MCTraded == {s1, s2}

\* Workers and symbols are interchangeable.
Symmetry == Permutations(MCWorkers) \cup Permutations(MCTraded)
=============================================================================
