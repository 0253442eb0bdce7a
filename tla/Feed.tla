-------------------------------- MODULE Feed --------------------------------
\* The way of the news and of the market data into RabbitMQ: a Finlight listener
\* that makes a task of the handler of every article, or a stream of frames
\* from Massive whose handler is awaited before the next frame is read, in front
\* of the publisher for it. The calls to listener and publisher are made by
\* the same application, which is what shares calls.
EXTENDS FeedConstants

CONSTANTS
    News,       \* the queue for articles
    MaxArticles \* bound: articles that come

ASSUME NewsAssumption == News \in Queues /\ Queues # {News}

VARIABLES
    massive, \* whether this is the feed of Massive, whose listener is a module of its own
    simple, place, cancelled, made, pc, job, awaited, task, running, connected,
    reconnects, version, starts, drops, wanted, crossed,
    targets, owner, todo, connection, open, channel, closed, up, dialled, failures,
    fate, frame, queue, refused, unserved, forsaken, ended,
    calls

Listener == INSTANCE FinlightListener
Outlet   == INSTANCE DataQueues

vars == <<massive, Listener!listener, Outlet!queues, calls>>

Init ==
    /\ massive \in BOOLEAN
    /\ Listener!Init /\ (massive => ~simple)
    /\ Outlet!Init /\ targets = IF massive THEN Queues \ {News} ELSE {News}

---------------------------------------------------------------------------
\* A step of one of the two, the other resting.
ListenerAlone == ~massive /\ UNCHANGED massive /\ Outlet!Still
OutletAlone   == UNCHANGED massive /\ Listener!Still

\* The SDK calls on_article while a connection streams; the task it makes is
\* nobody's, and outlives stop().
Article(t) ==
    /\ ~massive /\ Listener!Streaming(t)
    /\ \E m \in Messages : \E to \in [{m} -> {News, Bad}] :
          m <= MaxArticles /\ Outlet!Receive({m}, to)
    /\ OutletAlone

\* One handler at a time.
MassiveFrame ==
    /\ massive /\ Outlet!InFlight = {}
    /\ \E ms \in SUBSET Messages : \E to \in [ms -> targets \cup {Bad}] :
          Outlet!Receive(ms, to)
    /\ OutletAlone

Stopped(f) ==
    /\ massive
    /\ Outlet!Interrupt(f)
    /\ OutletAlone

Next ==
    \/ Listener!Next /\ ListenerAlone
    \/ Outlet!Next /\ OutletAlone
    \/ \E t \in Listener!Tasks : Article(t)
    \/ MassiveFrame
    \/ \E m \in Messages : Stopped(m)

\* The event loop runs what is ready; RabbitMQ and the SDK answer.
Fairness ==
    /\ \A c \in Callers : WF_vars(Listener!CallerStep(c) /\ ListenerAlone)
    /\ \A t \in Listener!Tasks : WF_vars(Listener!TaskStep(t) /\ ListenerAlone)

Spec == Init /\ [][Next]_vars /\ Fairness

---------------------------------------------------------------------------
\* What should hold of the whole, stated in the two modules.

\* stop() of the Finlight listener reaches every task at work.
FeedOwned == Listener!FeedOwned

\* A stream has the configuration that the setters left.
ConfigApplied == Listener!ConfigApplied

\* A Finlight listener that should run streams again.
Reconnects == massive \/ Listener!Reconnects

\* A message is lost for a cause of its own.
LostForCause == Outlet!LostForCause

\* shutdown() leaves no connection open.
ShutdownCloses == Outlet!ShutdownCloses
=============================================================================
