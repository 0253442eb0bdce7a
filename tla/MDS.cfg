SPECIFICATION FairSpec
CONSTANTS
    owner = owner
    Owner = owner
    MaxOpens = 4
    MaxStarts = 4
    MaxCalls = 3
    MaxMessages = 2
    MaxOutages = 1
    MaxPoisons = 1
\* The bounded calls run out.
CHECK_DEADLOCK FALSE
INVARIANTS OneConsumer ConnectedHasClient StoppedIsQuiet ResultsInOrder
PROPERTY Recovers
