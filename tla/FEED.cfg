SPECIFICATION Spec
CONSTANTS
    k1 = k1
    k2 = k2
    trades = trades
    quotes = quotes
    news = news
    bad = bad
    Callers <- MCCallers
    MaxReconnects = 2
    MaxStarts = 4
    MaxDrops = 2
    MaxArticles = 1
    Queues <- MCQueues
    Messages <- MCMessages
    Bad = bad
    News = news
    MaxFailures = 1
    MaxCalls = 4
\* The bounded calls and messages run out.
CHECK_DEADLOCK FALSE
INVARIANTS FeedOwned ConfigApplied LostForCause ShutdownCloses
PROPERTY Reconnects
