SPECIFICATION Spec
CONSTANTS
    x1 = x1
    x2 = x2
    x3 = x3
    p1 = p1
    p2 = p2
    empty = empty
    noCaller = noCaller
    orphan = orphan
    Callers <- MCCallers
    Processes <- MCProcesses
    HomeOf <- MCHomeOf
    Empty = empty
    NoCaller = noCaller
    Orphan = orphan
    CanBeZero = TRUE
    MaxGets = 4
    MaxVersions = 2
    MaxDeletes = 1
    MaxEvictions = 1
    MaxFailures = 1
    MaxExpiries = 1
    MaxCrashes = 1
\* The bounded calls run out.
CHECK_DEADLOCK FALSE
SYMMETRY Symmetry
INVARIANTS WaitersHaveLeader LockReturned CoherentUnlessCrossed
PROPERTY SingleFlightSpec
