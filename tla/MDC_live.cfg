SPECIFICATION Spec
CONSTANTS
    x1 = x1
    x2 = x2
    x3 = x3
    p1 = p1
    p2 = p2
    empty = empty
    noCaller = noCaller
    orphan = orphan
    Callers <- MCCallers
    Processes <- MCProcesses
    HomeOf <- MCHomeOf
    Empty = empty
    NoCaller = noCaller
    Orphan = orphan
    CanBeZero = TRUE
    MaxGets = 3
    MaxVersions = 1
    MaxDeletes = 0
    MaxEvictions = 0
    MaxFailures = 1
    MaxExpiries = 1
    MaxCrashes = 1
\* The bounded calls run out.
CHECK_DEADLOCK FALSE
PROPERTY GetReturns
