SPECIFICATION Spec
CONSTANTS
    c1 = c1
    c2 = c2
    t1 = t1
    t2 = t2
    srv = srv
    news = news
    allnews = allnews
    noTask = noTask
    noActor = noActor
    Clients <- MCClients
    Tasks <- TwoTasks
    Server = srv
    Channels <- OneChannel
    Patterns <- NoPatterns
    Matches <- NoMatches
    NoTask = noTask
    NoActor = noActor
    Closable <- OneClient
    CanStop = FALSE
    MaxCalls = 2
    MaxPublishes = 1
    MaxFailures = 0
\* The bounded calls and messages run out.
CHECK_DEADLOCK FALSE
INVARIANT SingleBackgroundTask
