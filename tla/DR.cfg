SPECIFICATION Spec
CONSTANTS
    r1 = r1
    r2 = r2
    Replicas <- TwoReplicas
    LastSession = 2
    MaxPrice = 2
    MaxDays = 2
    MaxQuotes = 2
    MaxRestarts = 1
\* The bounded quotes run out.
CHECK_DEADLOCK FALSE
SYMMETRY Symmetry
INVARIANTS FreshUnlessLost HighCovers
