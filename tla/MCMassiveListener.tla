------------------------- MODULE MCMassiveListener -------------------------
\* A small instance of MassiveListener for TLC: two callers.
EXTENDS MassiveListener, TLC

CONSTANTS k1, k2

MCCallers == {k1, k2}

\* The callers are interchangeable.
Symmetry == Permutations(MCCallers)
=============================================================================
