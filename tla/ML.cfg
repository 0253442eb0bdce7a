SPECIFICATION FairSpec
CONSTANTS
    k1 = k1
    k2 = k2
    Callers <- MCCallers
    Api = {"stop", "restart"}
    MaxReconnects = 2
    MaxStarts = 6
    MaxCalls = 3
    MaxDrops = 1
    MaxOutages = 2
    MaxClosings = 1
    MaxRefusals = 1
\* The bounded calls run out.
CHECK_DEADLOCK FALSE
INVARIANTS FeedOwned StoppedIsQuiet ConfigApplied DeadIsReported
PROPERTY Reconnects
