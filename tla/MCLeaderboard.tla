--------------------------- MODULE MCLeaderboard ---------------------------
\* Small instances of Leaderboard for TLC.
EXTENDS Leaderboard, TLC

CONSTANTS c1, c2, s1, s2

TwoCalls   == {c1, c2}
TwoSymbols == {s1, s2}

\* Calls and symbols are interchangeable.
Symmetry == Permutations(TwoCalls) \cup Permutations(TwoSymbols)
=============================================================================
