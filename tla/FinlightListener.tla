-------------------------- MODULE FinlightListener --------------------------
\* The two listeners for Finlight articles: finlight_data_listener.py, with
\* setters, restart() and a limit on reconnects, and the plainer
\* finlight_simple_listener.py. A background task connects and streams until it
\* is cancelled.
\*
\* An action is what one coroutine does between two awaits. The n-th start()
\* that goes through makes task n; 0 stands for None.
EXTENDS FeedConstants

Tasks == 1..MaxStarts

VARIABLES
    simple,     \* which of the two listeners this is
    place,      \* where a task is suspended
    cancelled,  \* tasks with a cancellation on its way
    made,       \* the configuration a task connected with
    pc,         \* where a caller is suspended
    job,        \* the call that a caller is in
    awaited,    \* the task a caller's stop() waited for
    task,       \* _task
    running,    \* _running
    connected,  \* connection_status["connected"]
    reconnects, \* connection_status["reconnects"]
    version,    \* the configuration the setters have left
    starts,     \* tasks made so far
    calls,      \* calls made so far
    drops,      \* connections that ended so far
    wanted,     \* history: the last call was not stop()
    crossed     \* history: start() ran while a stop() waited for a task

tasks  == <<place, cancelled, made>>
status == <<task, running, connected>>
caller == <<pc, job, awaited>>
past   == <<wanted, crossed>>
listener == <<simple, tasks, status, caller, reconnects, version, starts, drops, past>>
vars     == <<listener, calls>>

Still == UNCHANGED listener

Live(t)      == place[t] \notin {"none", "done"}
Streaming(t) == place[t] = "streaming" /\ t \notin cancelled
Busy         == \E c \in Callers : pc[c] # "idle"

Init ==
    /\ simple \in BOOLEAN
    /\ place = [t \in Tasks |-> "none"] /\ cancelled = {} /\ made = [t \in Tasks |-> 0]
    /\ pc = [c \in Callers |-> "idle"] /\ job = [c \in Callers |-> "stop"]
    /\ awaited = [c \in Callers |-> 0]
    /\ task = 0 /\ running = FALSE /\ connected = FALSE
    /\ reconnects = 0 /\ version = 0 /\ starts = 0 /\ calls = 0 /\ drops = 0
    /\ wanted = FALSE /\ crossed = FALSE

---------------------------------------------------------------------------
\* start() and stop(), for whoever runs them.

Alive == task # 0 /\ Live(task)

\* Mutant: start() does not ask whether a task is at work.
Start_Unguarded ==
    /\ crossed' = (crossed \/ \E c \in Callers : pc[c] = "awaiting")
    /\ starts < MaxStarts
    /\ starts' = starts + 1 /\ task' = starts + 1 /\ running' = TRUE
    /\ place' = [place EXCEPT ![starts + 1] = "new"]

\* start() is ignored while there is a task that has not ended, be it a
\* cancelled one; the simple listener does not ask.
Start ==
    /\ crossed' = (crossed \/ \E c \in Callers : pc[c] = "awaiting")
    /\ \/ ~simple /\ Alive /\ UNCHANGED <<starts, task, running, place>>
       \/ /\ simple \/ ~Alive
          /\ starts < MaxStarts
          /\ starts' = starts + 1 /\ task' = starts + 1 /\ running' = TRUE
          /\ place' = [place EXCEPT ![starts + 1] = "new"]

\* What stop() does last, whatever became of the task meanwhile.
Finish(c, j) ==
    /\ task' = IF simple THEN task ELSE 0
    /\ connected' = FALSE
    /\ pc' = [pc EXCEPT ![c] = IF j = "restart" THEN "pause" ELSE "idle"]

\* stop() up to the await of the task that it cancels.
EnterStop(c, j) ==
    /\ running' = FALSE
    /\ job' = [job EXCEPT ![c] = j]
    /\ \/ /\ Alive
          /\ cancelled' = cancelled \cup {task}
          /\ awaited' = [awaited EXCEPT ![c] = task]
          /\ pc' = [pc EXCEPT ![c] = "awaiting"]
          /\ UNCHANGED <<task, connected>>
       \/ /\ ~Alive
          /\ awaited' = [awaited EXCEPT ![c] = 0]
          /\ Finish(c, j)
          /\ UNCHANGED cancelled
    /\ UNCHANGED <<simple, place, made, reconnects, version, starts, drops, crossed>>

---------------------------------------------------------------------------
\* The callers.

Call(c) == pc[c] = "idle" /\ calls < MaxCalls /\ calls' = calls + 1

\* Nobody starts the simple listener twice: it would lose the first task.
CallStart(c) ==
    /\ Call(c)
    /\ simple => ~wanted
    /\ wanted' = TRUE
    /\ Start
    /\ UNCHANGED <<simple, cancelled, made, caller, connected, reconnects, version, drops>>

CallStop(c) ==
    /\ Call(c) /\ wanted /\ wanted' = FALSE
    /\ EnterStop(c, "stop")

CallRestart(c) ==
    /\ ~simple
    /\ Call(c) /\ wanted' = TRUE
    /\ EnterStop(c, "restart")

\* A setter of query, tickers, sources or language. The restart is a task of
\* its own, created only while connected.
Set(c) ==
    /\ ~simple
    /\ Call(c)
    /\ version' = version + 1
    /\ pc' = IF connected THEN [pc EXCEPT ![c] = "spawned"] ELSE pc
    /\ UNCHANGED <<simple, tasks, job, awaited, status, reconnects, starts, drops, past>>

Spawned(c) ==
    /\ pc[c] = "spawned"
    /\ EnterStop(c, "restart")
    /\ UNCHANGED <<wanted, calls>>

\* The task has ended, with or without the cancellation.
Awaited(c) ==
    /\ pc[c] = "awaiting" /\ ~Live(awaited[c])
    /\ Finish(c, job[c])
    /\ UNCHANGED <<simple, tasks, job, awaited, running, reconnects, version, starts,
                   drops, past, calls>>

\* restart() has slept a second, enough for the others that waited for the
\* same task to go on, and starts, wanted or not.
Paused(c) ==
    /\ pc[c] = "pause"
    /\ \A d \in Callers : pc[d] = "awaiting" => awaited[d] # awaited[c]
    /\ Start
    /\ pc' = [pc EXCEPT ![c] = "idle"]
    /\ UNCHANGED <<simple, cancelled, made, job, awaited, connected, reconnects,
                   version, drops, wanted, calls>>

---------------------------------------------------------------------------
\* _run.

\* The data listener lowers its flag when the loop ends.
EndLoop(t) ==
    /\ place' = [place EXCEPT ![t] = "done"]
    /\ connected' = (simple /\ connected)

\* Mutant: the parameters are built before the loop.
Connect_Once(t) ==
    /\ place' = [place EXCEPT ![t] = "streaming"]
    /\ connected' = TRUE
    /\ made' = [made EXCEPT ![t] = IF place[t] = "new" THEN version ELSE @]

\* The flag is raised before the connection is there; the parameters are those
\* of the moment.
Connect(t) ==
    /\ place' = [place EXCEPT ![t] = "streaming"]
    /\ connected' = TRUE
    /\ made' = [made EXCEPT ![t] = version]

\* The head of the loop, at first and after a rest of five seconds.
Head(t) ==
    /\ place[t] \in {"new", "resting"} /\ t \notin cancelled
    /\ IF running THEN Connect(t) ELSE EndLoop(t) /\ UNCHANGED made
    /\ UNCHANGED <<simple, cancelled, caller, task, running, reconnects, version,
                   starts, drops, past, calls>>

Ends(t) == /\ Streaming(t)
           /\ drops < MaxDrops /\ drops' = drops + 1
           /\ UNCHANGED <<simple, cancelled, caller, task, running, version, starts,
                          past, calls>>

\* Mutant: the data listener gives up one reconnect too early.
Drop_TooEarly(t) ==
    /\ Ends(t) /\ ~simple
    /\ UNCHANGED made
    /\ reconnects' = reconnects + (IF running THEN 1 ELSE 0)
    /\ IF ~running \/ (MaxReconnects # 0 /\ reconnects' + 1 >= MaxReconnects)
       THEN EndLoop(t)
       ELSE place' = [place EXCEPT ![t] = "resting"] /\ connected' = FALSE

\* The data listener's connection ends, with an exception or without. The count
\* is never set back.
Drop(t) ==
    /\ Ends(t) /\ ~simple
    /\ UNCHANGED made
    /\ reconnects' = reconnects + (IF running THEN 1 ELSE 0)
    /\ IF ~running \/ (MaxReconnects # 0 /\ reconnects' >= MaxReconnects)
       THEN EndLoop(t)
       ELSE place' = [place EXCEPT ![t] = "resting"] /\ connected' = FALSE

\* The simple listener connects again at once, or rests after an exception.
SimpleDrop(t) ==
    /\ Ends(t) /\ simple
    /\ \/ running /\ Connect(t)
       \/ /\ place' = [place EXCEPT ![t] = IF running THEN "resting" ELSE "done"]
          /\ connected' = FALSE
          /\ UNCHANGED made
    /\ UNCHANGED reconnects

\* A cancelled task ends where it is; only a stream that is cancelled takes the
\* way past the flag.
Cancelled(t) ==
    /\ t \in cancelled /\ Live(t)
    /\ cancelled' = cancelled \ {t}
    /\ \/ place[t] = "streaming" /\ EndLoop(t)
       \/ place[t] # "streaming" /\ place' = [place EXCEPT ![t] = "done"] /\ UNCHANGED connected
    /\ UNCHANGED <<simple, made, caller, task, running, reconnects, version, starts,
                   drops, past, calls>>

---------------------------------------------------------------------------
Calls(c)      == CallStart(c) \/ CallStop(c) \/ CallRestart(c) \/ Set(c)
CallerStep(c) == Spawned(c) \/ Awaited(c) \/ Paused(c)
TaskStep(t)   == Head(t) \/ Cancelled(t)

Next ==
    \/ \E c \in Callers : Calls(c) \/ CallerStep(c)
    \/ \E t \in Tasks : TaskStep(t) \/ Drop(t) \/ SimpleDrop(t)

Spec == Init /\ [][Next]_vars

---------------------------------------------------------------------------
\* What should hold.

TypeOK ==
    /\ simple \in BOOLEAN
    /\ place \in [Tasks -> {"none", "new", "streaming", "resting", "done"}]
    /\ cancelled \subseteq Tasks /\ made \in [Tasks -> 0..version]
    /\ pc \in [Callers -> {"idle", "spawned", "awaiting", "pause"}]
    /\ job \in [Callers -> {"stop", "restart"}] /\ awaited \in [Callers -> 0..starts]
    /\ task \in 0..starts /\ running \in BOOLEAN /\ connected \in BOOLEAN
    /\ reconnects \in 0..drops /\ version \in 0..calls
    /\ starts \in 0..MaxStarts /\ calls \in 0..MaxCalls /\ drops \in 0..MaxDrops
    /\ wanted \in BOOLEAN /\ crossed \in BOOLEAN

\* _task is the handle of every task at work that is not cancelled, so that
\* stop() reaches it: however calls overlap, except for a start() that comes
\* while a stop() waits (which then forgets the new task).
FeedOwned == ~crossed => \A t \in Tasks : Live(t) /\ t \notin cancelled => task = t

\* When no call is under way a stream has the configuration that the setters
\* left, wherever the task was when they were used.
ConfigApplied ==
    ~crossed /\ ~Busy => \A t \in Tasks : Streaming(t) => simple \/ made[t] = version

\* A listener that should run streams again after every loss of its connection,
\* but for max_reconnects losses over all its life.
Reconnects ==
    wanted ~> \/ \E t \in Tasks : Streaming(t)
              \/ MaxReconnects # 0 /\ reconnects >= MaxReconnects
              \/ ~wanted \/ crossed
=============================================================================
