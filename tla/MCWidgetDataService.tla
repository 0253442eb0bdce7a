------------------------ MODULE MCWidgetDataService ------------------------
\* Small instances of WidgetDataService for TLC.
EXTENDS WidgetDataService, TLC

CONSTANTS c1, c2, t1, t2, srv, news, allnews, noTask, noActor

MCClients   == {c1, c2}
TwoTasks    == {t1, t2}
OneChannel  == {news}
NoPatterns  == {}
OnePattern  == {allnews}
OneMatch    == {<<allnews, news>>}
NoMatches   == {}
OneClient   == {c1}

\* Clients and task identities are interchangeable.
Symmetry == Permutations(MCClients) \cup Permutations(TwoTasks)
=============================================================================
