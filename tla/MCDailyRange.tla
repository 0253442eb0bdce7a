---------------------------- MODULE MCDailyRange ----------------------------
\* A small instance of DailyRange for TLC.
EXTENDS DailyRange, TLC

CONSTANTS r1, r2

TwoReplicas == {r1, r2}

\* The replicas are interchangeable.
Symmetry == Permutations(TwoReplicas)
=============================================================================
