-------------------------- MODULE MassiveListener --------------------------
\* The WebSocket listener of components/massive_data_listener.py: one
\* connection to the provider, kept by a background task that reconnects while
\* the market is open, with start(), stop() and restart() called by an API and
\* a restart created by every setter that is used while it is connected.
\*
\* An action is what one coroutine does between two awaits. start() awaits
\* nothing unless it fails; stop() sleeps twice and awaits the closing
\* handshake; nothing excludes one call while another is under way.
\*
\* start() makes a WebSocketClient and a task, in that order: both have the
\* number of the call that made them, and 0 stands for None. A task connects
\* the client that the attribute holds when the task first runs.
EXTENDS Naturals

CONSTANTS
    Callers,       \* coroutines that call start(), a setter, or one of Api
    Api,           \* what else is called: a subset of {"stop", "restart"}
    MaxReconnects, \* max_reconnects: status queries before giving up, 0 is None
    MaxStarts,     \* bound: calls of start() that succeed
    MaxCalls,      \* bound: calls by Callers
    MaxDrops,      \* bound: connections the provider closes
    MaxOutages,    \* bound: status queries that fail
    MaxClosings,   \* bound: times the market closes
    MaxRefusals    \* bound: times WebSocketClient() raises

ASSUME CallersAssumption == Callers \cap Nat = {}
ASSUME BoundsAssumption ==
    /\ MaxReconnects \in Nat /\ MaxStarts \in Nat /\ MaxCalls \in Nat
    /\ MaxDrops \in Nat /\ MaxOutages \in Nat /\ MaxClosings \in Nat
    /\ MaxRefusals \in Nat

Tasks    == 1..MaxStarts
Actors   == Callers \cup Tasks
Attempts == IF MaxReconnects = 0 THEN 1 ELSE MaxReconnects

VARIABLES
    pc,         \* where a caller or a task is suspended
    job,        \* what follows the stop() that an actor runs
    cancelled,  \* tasks with a cancellation on its way
    own,        \* the client that a task connected
    ended,      \* tasks whose socket was closed under them by close()
    attempt,    \* failed status queries in a row, of a task
    ws,         \* ws_connection
    coro,       \* ws_coroutine
    connected,  \* connection_status["connected"]
    healthy,    \* connection_status["healthy"]
    version,    \* the configuration the setters have left
    made,       \* the configuration that a client was made with
    starts,     \* calls of start() that succeeded so far
    calls,      \* calls made so far
    market,     \* whether the market is open
    budget,     \* what is left of the environment's bounds
    wanted,     \* history: the last call was not stop()
    overlapped, \* history: two calls ran side by side
    late        \* history: a setter was used between start() and its task

listener == <<ws, coro, connected, healthy>>
config   == <<version, made, late>>
session  == <<own, ended, attempt>>
calling  == <<calls, wanted, overlapped>>
vars == <<pc, job, cancelled, session, listener, config, starts, calling,
          market, budget>>

\* What an actor may do when its stop() has returned.
AfterJob == [stop |-> "idle", restart |-> "pause", die |-> "done"]

Live(t)    == pc[t] \notin {"none", "done"}
Feeding    == {t \in Tasks : pc[t] = "connecting"}
\* An actor inside start(), stop() or restart().
Working(a) == pc[a] \in {"spawned", "flush", "unsub", "closing", "pause"}
Busy       == \E a \in Actors : Working(a)

Init ==
    /\ pc = [a \in Actors |-> IF a \in Callers THEN "idle" ELSE "none"]
    /\ job = [a \in Actors |-> IF a \in Callers THEN "stop" ELSE "die"]
    /\ cancelled = {} /\ ended = {}
    /\ own = [t \in Tasks |-> 0] /\ attempt = [t \in Tasks |-> 0]
    /\ ws = 0 /\ coro = 0 /\ connected = FALSE /\ healthy = FALSE
    /\ version = 0 /\ made = [t \in Tasks |-> 0] /\ late = FALSE
    /\ starts = 0 /\ calls = 0 /\ market = TRUE
    /\ budget = [drops |-> MaxDrops, outages |-> MaxOutages,
                 closings |-> MaxClosings, refusals |-> MaxRefusals]
    /\ wanted = FALSE /\ overlapped = FALSE

Spend(kind) == /\ budget[kind] > 0
               /\ budget' = [budget EXCEPT ![kind] = @ - 1]

---------------------------------------------------------------------------
\* stop() and start(), for whoever runs them.

\* The end of stop(), where every exception inside it leads to as well.
Reset(a, j) ==
    /\ connected' = FALSE /\ ws' = 0 /\ coro' = 0
    /\ pc' = [pc EXCEPT ![a] = AfterJob[j]]
    /\ job' = [job EXCEPT ![a] = j]
    /\ UNCHANGED cancelled

\* Mutant: stop() forgets to cancel.
EnterStop_NoCancel(a, j, flag) ==
    \/ coro = 0 /\ Reset(a, j)
    \/ /\ coro # 0
       /\ pc' = [pc EXCEPT ![a] = "flush"]
       /\ job' = [job EXCEPT ![a] = j]
       /\ connected' = flag
       /\ UNCHANGED <<cancelled, ws, coro>>

\* stop() up to its first sleep, with the connected flag at flag. Without a
\* task to cancel it raises and resets; a task may cancel itself.
EnterStop(a, j, flag) ==
    \/ coro = 0 /\ Reset(a, j)
    \/ /\ coro # 0
       /\ cancelled' = IF Live(coro) THEN cancelled \cup {coro} ELSE cancelled
       /\ pc' = [pc EXCEPT ![a] = "flush"]
       /\ job' = [job EXCEPT ![a] = j]
       /\ connected' = flag
       /\ UNCHANGED <<ws, coro>>

\* start() makes client and task and forgets the ones there were; or the
\* constructor raises and it calls stop().
Start(a, j, flag) ==
    \/ /\ starts < MaxStarts
       /\ starts' = starts + 1
       /\ ws' = starts + 1 /\ coro' = starts + 1
       /\ made' = [made EXCEPT ![starts + 1] = version]
       /\ pc' = [pc EXCEPT ![a] = AfterJob[j], ![starts + 1] = "new"]
       /\ connected' = flag
       /\ UNCHANGED <<job, cancelled, budget>>
    \/ /\ Spend("refusals")
       /\ EnterStop(a, j, flag)
       /\ UNCHANGED <<starts, made>>

---------------------------------------------------------------------------
\* The callers.

Call(c) ==
    /\ pc[c] = "idle"
    /\ calls < MaxCalls /\ calls' = calls + 1
    /\ overlapped' = (overlapped \/ Busy)
    /\ UNCHANGED <<session, healthy, version, late, market>>

CallStart(c) ==
    /\ Call(c) /\ ~wanted /\ wanted' = TRUE
    /\ Start(c, "stop", connected)

CallStop(c) ==
    /\ "stop" \in Api
    /\ Call(c) /\ wanted /\ wanted' = FALSE
    /\ EnterStop(c, "stop", connected)
    /\ UNCHANGED <<starts, made, budget>>

CallRestart(c) ==
    /\ "restart" \in Api
    /\ Call(c) /\ wanted' = TRUE
    /\ EnterStop(c, "restart", connected)
    /\ UNCHANGED <<starts, made, budget>>

\* Mutant: a setter that changes the attribute only.
Set_NoRestart(c) ==
    /\ pc[c] = "idle" /\ calls < MaxCalls /\ calls' = calls + 1
    /\ version' = version + 1
    /\ late' = (late \/ \E t \in Tasks : pc[t] = "new")
    /\ UNCHANGED <<pc, job, cancelled, session, listener, made, starts, wanted,
                   overlapped, market, budget>>

\* A setter: attribute and status dictionary change at once; the restart is a
\* task of its own, created only while connected.
Set(c) ==
    /\ pc[c] = "idle" /\ calls < MaxCalls /\ calls' = calls + 1
    /\ version' = version + 1
    /\ late' = (late \/ \E t \in Tasks : pc[t] = "new")
    /\ overlapped' = (overlapped \/ (connected /\ Busy))
    /\ pc' = IF connected THEN [pc EXCEPT ![c] = "spawned"] ELSE pc
    /\ UNCHANGED <<job, cancelled, session, listener, made, starts, wanted,
                   market, budget>>

Spawned(c) ==
    /\ pc[c] = "spawned"
    /\ EnterStop(c, "restart", connected)
    /\ UNCHANGED <<session, healthy, starts, config, calling, market, budget>>

\* restart() has slept a second after stop() and starts, wanted or not.
Paused(c) ==
    /\ pc[c] = "pause"
    /\ Start(c, "stop", connected)
    /\ UNCHANGED <<session, healthy, version, late, calling, market>>

---------------------------------------------------------------------------
\* The awaits of stop(), for callers and for tasks that stop the listener.

\* A task that is cancelled does not go on.
Resumes(a, place) == pc[a] = place /\ a \notin cancelled

\* One second after the cancellation, which has been delivered by then; the
\* client may be another one than at the call, or none.
Flushed(a) ==
    /\ Resumes(a, "flush") /\ cancelled = {}
    /\ \/ ws = 0 /\ Reset(a, job[a])
       \/ /\ ws # 0
          /\ pc' = [pc EXCEPT ![a] = "unsub"]
          /\ UNCHANGED <<job, cancelled, ws, coro, connected>>
    /\ UNCHANGED <<session, healthy, starts, config, calling, market, budget>>

\* close() closes the socket that the client opened last, if one is open.
Unsubscribed(a) ==
    /\ Resumes(a, "unsub")
    /\ \/ ws = 0 /\ Reset(a, job[a]) /\ UNCHANGED ended
       \/ /\ ws # 0
          /\ ended' = ended \cup
                {t \in Feeding : own[t] = ws /\ \A u \in Feeding : own[u] = ws => u <= t}
          /\ pc' = [pc EXCEPT ![a] = "closing"]
          /\ UNCHANGED <<job, cancelled, ws, coro, connected>>
    /\ UNCHANGED <<own, attempt, healthy, starts, config, calling, market, budget>>

Closed(a) ==
    /\ Resumes(a, "closing")
    /\ Reset(a, job[a])
    /\ UNCHANGED <<session, healthy, starts, config, calling, market, budget>>

---------------------------------------------------------------------------
\* async_task.

\* Mutant: the task takes the cancellation for the end of its connection.
Cancelled_Swallowed(t) ==
    /\ t \in cancelled
    /\ cancelled' = cancelled \ {t}
    /\ IF pc[t] = "connecting"
       THEN ended' = ended \cup {t} /\ UNCHANGED pc
       ELSE pc' = [pc EXCEPT ![t] = "done"] /\ UNCHANGED ended
    /\ UNCHANGED <<job, own, attempt, listener, starts, config, calling, market, budget>>

\* A cancelled task ends where it is, and its socket with it.
Cancelled(t) ==
    /\ t \in cancelled
    /\ cancelled' = cancelled \ {t}
    /\ pc' = [pc EXCEPT ![t] = "done"]
    /\ UNCHANGED <<job, session, listener, starts, config, calling, market, budget>>

\* The task's first step; without a client it fails and stops the listener.
Begin(t) ==
    /\ Resumes(t, "new")
    /\ \/ /\ ws # 0
          /\ connected' = TRUE /\ healthy' = TRUE
          /\ own' = [own EXCEPT ![t] = ws]
          /\ pc' = [pc EXCEPT ![t] = "connecting"]
          /\ UNCHANGED <<job, cancelled, ws, coro>>
       \/ /\ ws = 0
          /\ healthy' = FALSE
          /\ EnterStop(t, "die", TRUE)
          /\ UNCHANGED own
    /\ UNCHANGED <<ended, attempt, starts, config, calling, market, budget>>

\* Mutant: the handler forgets the flag.
QueryFails_StaysHealthy(t, k, flag) ==
    /\ Spend("outages")
    /\ \/ /\ k < Attempts
          /\ attempt' = [attempt EXCEPT ![t] = k]
          /\ pc' = [pc EXCEPT ![t] = "retrying"]
          /\ connected' = flag
          /\ UNCHANGED <<job, cancelled, ws, coro>>
       \/ /\ k >= Attempts
          /\ EnterStop(t, "die", flag)
          /\ UNCHANGED attempt
    /\ UNCHANGED <<healthy, starts, made>>

\* The k-th status query in a row raises. The last one allowed raises to the
\* handler of async_task, which stops the listener from inside its own task.
QueryFails(t, k, flag) ==
    /\ Spend("outages")
    /\ \/ /\ k < Attempts
          /\ attempt' = [attempt EXCEPT ![t] = k]
          /\ pc' = [pc EXCEPT ![t] = "retrying"]
          /\ connected' = flag
          /\ UNCHANGED <<job, cancelled, healthy, ws, coro>>
       \/ /\ k >= Attempts
          /\ healthy' = FALSE
          /\ EnterStop(t, "die", flag)
          /\ UNCHANGED attempt
    /\ UNCHANGED <<starts, made>>

\* Mutant: the loop ends when it finds the market closed.
Sleep_GivesUp(t, flag) ==
    /\ pc' = [pc EXCEPT ![t] = "done"]
    /\ connected' = flag
    /\ UNCHANGED <<job, cancelled, attempt, healthy, ws, coro, starts, made, budget>>

\* A closed market is asked about again after a minute.
Sleep(t, flag) ==
    /\ pc' = [pc EXCEPT ![t] = "asleep"]
    /\ connected' = flag
    /\ UNCHANGED <<job, cancelled, attempt, healthy, ws, coro, starts, made, budget>>

\* The status query, which blocks so that nothing comes between, and what the
\* loop does with the answer; flag is what connected is by then.
Query(t, k, flag) ==
    /\ \/ market /\ Start(t, "die", flag) /\ UNCHANGED <<attempt, healthy>>
       \/ ~market /\ Sleep(t, flag)
       \/ QueryFails(t, k, flag)
    /\ UNCHANGED <<own, version, late, calling, market>>

Disconnected(t) ==
    /\ Resumes(t, "connecting") /\ t \in ended
    /\ Query(t, 1, FALSE)
    /\ UNCHANGED ended

Awake(t) ==
    /\ Resumes(t, "asleep")
    /\ Query(t, 1, connected)
    /\ UNCHANGED ended

Retry(t) ==
    /\ Resumes(t, "retrying")
    /\ Query(t, attempt[t] + 1, connected)
    /\ UNCHANGED ended

---------------------------------------------------------------------------
\* The provider.

Drop(t) ==
    /\ pc[t] = "connecting" /\ t \notin ended
    /\ Spend("drops")
    /\ ended' = ended \cup {t}
    /\ UNCHANGED <<pc, job, cancelled, own, attempt, listener, config, starts,
                   calling, market>>

CloseMarket ==
    /\ market /\ market' = FALSE
    /\ Spend("closings")
    /\ UNCHANGED <<pc, job, cancelled, session, listener, config, starts, calling>>

OpenMarket ==
    /\ ~market /\ market' = TRUE
    /\ UNCHANGED <<pc, job, cancelled, session, listener, config, starts, calling,
                   budget>>

---------------------------------------------------------------------------
InStop(a) == Flushed(a) \/ Unsubscribed(a) \/ Closed(a)

Calls(c) == CallStart(c) \/ CallStop(c) \/ CallRestart(c) \/ Set(c)

CallerStep(c) == Spawned(c) \/ Paused(c) \/ InStop(c)

TaskStep(t) ==
    Cancelled(t) \/ Begin(t) \/ Disconnected(t) \/ Awake(t) \/ Retry(t) \/ InStop(t)

Next ==
    \/ \E c \in Callers : Calls(c) \/ CallerStep(c)
    \/ \E t \in Tasks : TaskStep(t) \/ Drop(t)
    \/ CloseMarket \/ OpenMarket

Spec == Init /\ [][Next]_vars

\* The event loop runs what is ready, and the market opens in the end.
Fairness ==
    /\ \A c \in Callers : WF_vars(CallerStep(c))
    /\ \A t \in Tasks : WF_vars(TaskStep(t))
    /\ WF_vars(OpenMarket)

FairSpec == Spec /\ Fairness

---------------------------------------------------------------------------
\* What should hold.

CallerPlaces == {"idle", "spawned", "flush", "unsub", "closing", "pause"}
TaskPlaces   == {"none", "new", "connecting", "asleep", "retrying", "flush",
                 "unsub", "closing", "done"}

TypeOK ==
    /\ pc \in [Actors -> CallerPlaces \cup TaskPlaces]
    /\ \A c \in Callers : pc[c] \in CallerPlaces
    /\ \A t \in Tasks : pc[t] \in TaskPlaces
    /\ job \in [Actors -> {"stop", "restart", "die"}]
    /\ \A a \in Actors : job[a] = "die" <=> a \in Tasks
    /\ cancelled \subseteq Tasks /\ ended \subseteq Tasks
    /\ own \in [Tasks -> 0..starts] /\ attempt \in [Tasks -> 0..(Attempts - 1)]
    /\ ws \in 0..starts /\ coro = ws
    /\ connected \in BOOLEAN /\ healthy \in BOOLEAN
    /\ version \in 0..calls /\ made \in [Tasks -> 0..version]
    /\ starts \in 0..MaxStarts /\ calls \in 0..MaxCalls /\ market \in BOOLEAN
    /\ budget \in [{"drops", "outages", "closings", "refusals"} -> Nat]
    /\ wanted \in BOOLEAN /\ overlapped \in BOOLEAN /\ late \in BOOLEAN

\* The listener holds the handle of every task that is at work, so that stop()
\* reaches it, unless two calls ran side by side. (start() replaces the handle
\* without asking what the old task does.)
FeedOwned ==
    ~overlapped => \A t \in Tasks : Live(t) /\ t \notin cancelled => coro = t

\* Once stop() has returned nothing is left running, and nothing starts again,
\* unless it ran side by side with another call.
StoppedIsQuiet ==
    ~overlapped /\ ~wanted /\ ~Busy => \A t \in Tasks : ~Live(t)

\* When no call is under way the connection has the configuration that the
\* setters left. (A setter used between start() and the first step of its task
\* finds the listener not connected and does nothing.)
ConfigApplied ==
    ~overlapped /\ ~late /\ ~Busy => \A t \in Feeding : made[own[t]] = version

\* A listener that should run and has no task left says that it is unhealthy,
\* which is what has it replaced; but not when a client could not be made.
DeadIsReported ==
    /\ wanted /\ ~Busy /\ budget.refusals = MaxRefusals
    /\ \A t \in Tasks : ~Live(t)
    => ~healthy

\* A listener that should run receives again after every loss of its
\* connection and every closing of the market, or says that it is unhealthy.
Reconnects ==
    wanted ~> \/ Feeding \ ended # {}
              \/ ~healthy \/ ~wanted \/ overlapped \/ budget.refusals < MaxRefusals
=============================================================================
