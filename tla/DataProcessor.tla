--------------------------- MODULE DataProcessor ---------------------------
(***************************************************************************)
(* A MassiveDataProcessor (components/massive_data_processor.py; the       *)
(* FinlightDataProcessor has the same control flow) in a worker process of *)
(* helpers/process_manager.py.  RabbitMQ delivers messages, each becomes a *)
(* task that analyses it, writes the results to Redis and acknowledges it; *)
(* run_worker starts the processor in a task of its own, and on a shutdown *)
(* signal cancels that task, waits five seconds for it, and calls stop().  *)
(*                                                                         *)
(* Two coroutines run the life cycle: "start" (the task of worker.start(), *)
(* whose finally calls stop()) and "main" (run_worker, which calls stop()  *)
(* twice).  A step runs from one await to the next.  The metrics are left  *)
(* out.                                                                    *)
(***************************************************************************)
EXTENDS Integers, FiniteSets, Sequences

CONSTANTS
    Messages,       \* what the queue holds at first
    MaxResults,     \* results an analyzer may return for one message
    Prefetch,       \* prefetch_count
    MaxConcurrent,  \* max_concurrent_tasks
    MaxRetries,     \* failed connection attempts that are retried, 5 in the code
    MaxDeliveries,  \* bound: deliveries, redeliveries included
    MaxFailures,    \* bound: connects, analyses and writes that raise
    MaxDrops,       \* bound: connections to RabbitMQ that are lost
    MaxTimeouts,    \* bound: cancelled workers that take over five seconds
    MaxStarts       \* bound: times the process is started (again)

ASSUME BoundsAssumption ==
    /\ MaxResults \in Nat /\ Prefetch \in Nat /\ MaxConcurrent \in Nat \ {0}
    /\ MaxRetries \in Nat /\ MaxDeliveries \in Nat /\ MaxFailures \in Nat
    /\ MaxDrops \in Nat /\ MaxTimeouts \in Nat /\ MaxStarts \in Nat

Deliveries == 1..MaxDeliveries
Actors == {"start", "main"}

VARIABLES
    where,          \* per message: in the queue, delivered, acked or dropped
    written,        \* history: all results of the message have reached Redis
    failed,         \* history: processing the message has raised
    cut,            \* history: messages whose processing was cut off
    channel,        \* rmq_channel: "none", "open" or "closed"
    mdqConnected, mdcConnected,
    consuming,      \* the broker knows our consumer
    msgOf,          \* the messages delivered so far, in order
    phase, left,    \* per delivery: where its task is, results left to write
    live,           \* per delivery: its channel is still the open one
    proc,           \* the worker process is "up" or "down"
    shutdown,       \* shutdown_event
    running,
    stopped,        \* run_worker has been through stop() once
    pc,
    waiting,        \* the tasks that an actor gathers in stop()
    attempts,       \* retry_count
    failures, drops, timeouts, starts

brokerVars == <<where, written, failed, cut>>
connVars   == <<channel, mdqConnected, mdcConnected, consuming>>
taskVars   == <<msgOf, phase, left, live>>
lifeVars   == <<proc, shutdown, running, stopped, pc, waiting, attempts>>
boundVars  == <<failures, drops, timeouts, starts>>
vars == <<brokerVars, connVars, taskVars, lifeVars, boundVars>>

Active == {d \in Deliveries : phase[d] \in {"slot", "analyze", "cache", "ack", "reject"}}

\* Defect: the slot is released by hand, and a failure forgets to.
Holding_KeepsFailed ==
    {d \in Deliveries : \/ phase[d] \in {"analyze", "cache", "ack", "reject"}
                        \/ phase[d] = "done" /\ failed[msgOf[d]]}
Holding == {d \in Deliveries : phase[d] \in {"analyze", "cache", "ack", "reject"}}

Unacked == {m \in Messages : where[m] = "unacked"}
Stopping == {"stop", "gather", "close"}

TypeOK ==
    /\ where \in [Messages -> {"ready", "unacked", "acked", "dropped"}]
    /\ written \in [Messages -> BOOLEAN] /\ failed \in [Messages -> BOOLEAN]
    /\ cut \in SUBSET Messages
    /\ channel \in {"none", "open", "closed"}
    /\ mdqConnected \in BOOLEAN /\ mdcConnected \in BOOLEAN /\ consuming \in BOOLEAN
    /\ msgOf \in Seq(Messages) /\ Len(msgOf) <= MaxDeliveries
    /\ phase \in [Deliveries -> {"free", "slot", "analyze", "cache", "ack",
                                 "reject", "done"}]
    /\ \A d \in Deliveries : phase[d] # "free" => d <= Len(msgOf)
    /\ left \in [Deliveries -> 0..MaxResults]
    /\ \A d \in Deliveries : phase[d] = "cache" => left[d] > 0
    /\ live \in [Deliveries -> BOOLEAN]
    /\ proc \in {"up", "down"} /\ shutdown \in BOOLEAN /\ running \in BOOLEAN
    /\ stopped \in BOOLEAN
    /\ pc \in [Actors -> Stopping \cup {"connect", "rehydrate", "queue", "consume",
                                        "run", "abandon", "done", "wait",
                                        "cancelling", "cleanup", "drain"}]
    /\ waiting \in [Actors -> SUBSET Deliveries]
    /\ attempts \in 0..MaxRetries
    /\ failures \in 0..MaxFailures /\ drops \in 0..MaxDrops
    /\ timeouts \in 0..MaxTimeouts /\ starts \in 0..MaxStarts

Init ==
    /\ where = [m \in Messages |-> "ready"]
    /\ written = [m \in Messages |-> FALSE] /\ failed = [m \in Messages |-> FALSE]
    /\ cut = {}
    /\ channel = "none" /\ mdqConnected = FALSE /\ mdcConnected = FALSE
    /\ consuming = FALSE
    /\ msgOf = <<>>
    /\ phase = [d \in Deliveries |-> "free"] /\ left = [d \in Deliveries |-> 0]
    /\ live = [d \in Deliveries |-> FALSE]
    /\ proc = "down" /\ shutdown = FALSE /\ running = FALSE /\ stopped = FALSE
    /\ pc = [a \in Actors |-> "done"] /\ waiting = [a \in Actors |-> {}]
    /\ attempts = 0 /\ failures = 0 /\ drops = 0 /\ timeouts = 0 /\ starts = 0

Goto(a, step) == pc' = [pc EXCEPT ![a] = step]
Fail == failures < MaxFailures /\ failures' = failures + 1
        /\ UNCHANGED <<drops, timeouts, starts>>

\* Defect: deliveries of a lost channel can still be settled.
Requeue_KeepsLive ==
    /\ where' = [m \in Messages |-> IF where[m] = "unacked" THEN "ready" ELSE where[m]]
    /\ UNCHANGED live

\* RabbitMQ takes back what was not acknowledged; the old channel's deliveries
\* can no longer be acknowledged.
Requeue ==
    /\ where' = [m \in Messages |-> IF where[m] = "unacked" THEN "ready" ELSE where[m]]
    /\ live' = [d \in Deliveries |-> FALSE]

(***************************************************************************)
(* start_worker and start()                                                *)
(***************************************************************************)
StartWorker ==
    /\ proc = "down" /\ starts < MaxStarts
    /\ proc' = "up" /\ starts' = starts + 1
    /\ shutdown' = FALSE /\ running' = FALSE /\ stopped' = FALSE
    /\ channel' = "none" /\ mdqConnected' = FALSE /\ mdcConnected' = FALSE
    /\ pc' = [a \in Actors |-> IF a = "start" THEN "connect" ELSE "wait"]
    /\ attempts' = 0
    /\ UNCHANGED <<brokerVars, consuming, taskVars, waiting, failures, drops, timeouts>>

RabbitConnects ==
    /\ pc["start"] = "connect" /\ ~mdqConnected
    /\ channel' = "open" /\ mdqConnected' = TRUE
    /\ UNCHANGED <<brokerVars, mdcConnected, consuming, taskVars, lifeVars, boundVars>>

\* The attempt raises: sleep and retry, or give up.
Retry ==
    IF attempts < MaxRetries
    THEN attempts' = attempts + 1 /\ UNCHANGED pc
    ELSE Goto("start", "done") /\ UNCHANGED attempts

RabbitFails ==
    /\ pc["start"] = "connect" /\ ~mdqConnected
    /\ Fail /\ Retry
    /\ UNCHANGED <<brokerVars, connVars, taskVars, proc, shutdown, running,
                   stopped, waiting>>

RedisConnects ==
    /\ pc["start"] = "connect" /\ mdqConnected
    /\ mdcConnected' = TRUE /\ running' = TRUE
    /\ Goto("start", "rehydrate")
    /\ UNCHANGED <<brokerVars, channel, mdqConnected, consuming, taskVars, proc,
                   shutdown, stopped, waiting, attempts, boundVars>>

\* The RabbitMQ connection is closed as well, but not marked as closed.
RedisFails ==
    /\ pc["start"] = "connect" /\ mdqConnected
    /\ Fail /\ Retry
    /\ channel' = "closed" /\ Requeue
    /\ UNCHANGED <<written, failed, cut, mdqConnected, mdcConnected, consuming, msgOf,
                   phase, left, proc, shutdown, running, stopped, waiting>>

\* Rehydration, the queue's declaration and the consumer's registration.
Advance ==
    \/ /\ pc["start"] = "rehydrate" /\ Goto("start", "queue") /\ UNCHANGED consuming
    \/ /\ pc["start"] = "queue" /\ channel = "open"
       /\ Goto("start", "consume") /\ UNCHANGED consuming
    \/ /\ pc["start"] = "consume" /\ Goto("start", "run") /\ consuming' = TRUE
Prepare ==
    /\ Advance
    /\ UNCHANGED <<brokerVars, channel, mdqConnected, mdcConnected, taskVars, proc,
                   shutdown, running, stopped, waiting, attempts, boundVars>>

\* One of them raises, outside start()'s try block: the task ends, and nobody
\* looks at it before the shutdown.  A closed channel has no queue.
PrepareFails ==
    /\ pc["start"] \in {"rehydrate", "queue", "consume"}
    /\ \/ Fail
       \/ pc["start"] = "queue" /\ channel = "closed" /\ UNCHANGED boundVars
    /\ Goto("start", "done")
    /\ consuming' \in IF pc["start"] = "consume" THEN BOOLEAN ELSE {consuming}
    /\ UNCHANGED <<brokerVars, channel, mdqConnected, mdcConnected, taskVars, proc,
                   shutdown, running, stopped, waiting, attempts>>

(***************************************************************************)
(* _callback, _process_message and _cache_result                           *)
(***************************************************************************)
Deliver(m) ==
    /\ proc = "up" /\ channel = "open" /\ consuming
    /\ where[m] = "ready" /\ Cardinality(Unacked) < Prefetch
    /\ Len(msgOf) < MaxDeliveries
    /\ where' = [where EXCEPT ![m] = "unacked"]
    /\ msgOf' = Append(msgOf, m)
    /\ phase' = [phase EXCEPT ![Len(msgOf) + 1] = "slot"]
    /\ live' = [live EXCEPT ![Len(msgOf) + 1] = TRUE]
    /\ UNCHANGED <<written, failed, cut, left, connVars, lifeVars, boundVars>>

TakeSlot(d) ==
    /\ phase[d] = "slot" /\ Cardinality(Holding) < MaxConcurrent
    /\ phase' = [phase EXCEPT ![d] = "analyze"]
    /\ UNCHANGED <<brokerVars, connVars, msgOf, left, live, lifeVars,
                   boundVars>>

\* n results are still to be written; after the last the message is acked.
Write(d, n) ==
    /\ left' = [left EXCEPT ![d] = n]
    /\ phase' = [phase EXCEPT ![d] = IF n = 0 THEN "ack" ELSE "cache"]
    /\ written' = IF n = 0 THEN [written EXCEPT ![msgOf[d]] = TRUE] ELSE written

Analyze(d) ==
    /\ phase[d] = "analyze"
    /\ \E n \in 0..MaxResults : Write(d, n)
    /\ UNCHANGED <<where, failed, cut, connVars, msgOf, live, lifeVars, boundVars>>

CacheResult(d) ==
    /\ phase[d] = "cache"
    /\ Write(d, left[d] - 1)
    /\ UNCHANGED <<where, failed, cut, connVars, msgOf, live, lifeVars, boundVars>>

\* Defect: the failure is logged outside message.process(): no reject.
ProcessingFails_NoReject(d) ==
    /\ phase[d] \in {"analyze", "cache"} /\ Fail
    /\ phase' = [phase EXCEPT ![d] = "done"]
    /\ failed' = [failed EXCEPT ![msgOf[d]] = TRUE]
    /\ UNCHANGED <<where, written, cut, connVars, msgOf, left, live, lifeVars>>

\* Decoding, analysing or writing raises: message.process() rejects.
ProcessingFails(d) ==
    /\ phase[d] \in {"analyze", "cache"} /\ Fail
    /\ phase' = [phase EXCEPT ![d] = "reject"]
    /\ failed' = [failed EXCEPT ![msgOf[d]] = TRUE]
    /\ UNCHANGED <<where, written, cut, connVars, msgOf, left, live, lifeVars>>

\* Leaving message.process(): ack, or reject without requeueing.  On a channel
\* that is gone it raises, and the error is counted.
Settle(d) ==
    /\ phase[d] \in {"ack", "reject"}
    /\ phase' = [phase EXCEPT ![d] = "done"]
    /\ where' = IF ~live[d] THEN where
                ELSE [where EXCEPT ![msgOf[d]] =
                        IF phase[d] = "ack" THEN "acked" ELSE "dropped"]
    /\ UNCHANGED <<written, failed, cut, connVars, msgOf, left, live, lifeVars,
                   boundVars>>

\* Defect: the slot is awaited inside message.process().
CancelTasks_SlotInside(ds) ==
    /\ UNCHANGED where
    /\ phase' = [d \in Deliveries |->
         IF d \notin ds THEN phase[d]
         ELSE IF phase[d] \in {"slot", "analyze", "cache"} THEN "reject" ELSE "done"]
    /\ cut' = cut \cup {msgOf[d] : d \in {e \in ds :
                            live[e] /\ phase[e] \in {"analyze", "cache"}}}

\* CancelledError in a set of tasks: before message.process() nothing is
\* settled, inside it the message is rejected, and a task that is settling
\* already has or has not sent its answer.  Those that had not come so far, and
\* could still settle their message, are cut off.
CancelTasks(ds) ==
    /\ \E sent \in SUBSET {d \in ds : phase[d] \in {"ack", "reject"} /\ live[d]} :
         where' = [m \in Messages |->
             IF \E d \in sent : msgOf[d] = m
             THEN IF \E d \in sent : msgOf[d] = m /\ phase[d] = "ack"
                  THEN "acked" ELSE "dropped"
             ELSE where[m]]
    /\ phase' = [d \in Deliveries |->
         IF d \notin ds THEN phase[d]
         ELSE IF phase[d] \in {"analyze", "cache"} THEN "reject" ELSE "done"]
    /\ cut' = cut \cup {msgOf[d] : d \in {e \in ds :
                            live[e] /\ phase[e] \in {"analyze", "cache"}}}

(***************************************************************************)
(* Shutdown: run_worker and stop()                                         *)
(***************************************************************************)
\* stop_process or a signal sets the event that monitor_shutdown polls.
Signal ==
    /\ proc = "up" /\ ~shutdown
    /\ shutdown' = TRUE
    /\ UNCHANGED <<brokerVars, connVars, taskVars, proc, running, stopped, pc,
                   waiting, attempts, boundVars>>

\* CancelledError in start(): caught only in the loop after the consumer's
\* registration, which then calls stop().
CancelWorker ==
    /\ pc["main"] = "wait" /\ shutdown
    /\ running' = FALSE
    /\ pc' = [pc EXCEPT !["main"] = IF pc["start"] = "done" THEN "stop" ELSE "cancelling",
                        !["start"] = IF pc["start"] = "run" THEN "stop" ELSE "done"]
    /\ consuming' \in IF pc["start"] = "consume" THEN BOOLEAN ELSE {consuming}
    /\ UNCHANGED <<brokerVars, channel, mdqConnected, mdcConnected, taskVars, proc,
                   shutdown, stopped, waiting, attempts, boundVars>>

\* wait_for gives up after five seconds and cancels the task again: the gather
\* of stop() passes that on to every task it waits for.
CancelTimesOut ==
    /\ pc["main"] = "cancelling" /\ pc["start"] \in {"gather", "close"}
    /\ timeouts < MaxTimeouts /\ timeouts' = timeouts + 1
    /\ IF pc["start"] = "gather"
       THEN CancelTasks(waiting["start"] \cap Active) /\ Goto("start", "abandon")
       ELSE UNCHANGED <<where, phase, cut>> /\ Goto("start", "done")
    /\ UNCHANGED <<written, failed, connVars, msgOf, left, live, proc,
                   shutdown, running, stopped, waiting, attempts, failures, drops,
                   starts>>

Abandon ==
    /\ pc["start"] = "abandon" /\ waiting["start"] \cap Active = {}
    /\ Goto("start", "done")
    /\ UNCHANGED <<brokerVars, connVars, taskVars, proc, shutdown, running, stopped,
                   waiting, attempts, boundVars>>

Join ==
    /\ pc["main"] = "cancelling" /\ pc["start"] = "done"
    /\ Goto("main", "stop")
    /\ UNCHANGED <<brokerVars, connVars, taskVars, proc, shutdown, running, stopped,
                   waiting, attempts, boundVars>>

\* stop(): it waits for the tasks there are now, not for those that the
\* consumer, which is not cancelled, starts meanwhile.
StopEnter(a) ==
    /\ pc[a] = "stop"
    /\ running' = FALSE
    /\ waiting' = [waiting EXCEPT ![a] = Active]
    /\ Goto(a, "gather")
    /\ UNCHANGED <<brokerVars, connVars, taskVars, proc, shutdown, stopped, attempts,
                   boundVars>>

Gathered(a) ==
    /\ pc[a] = "gather" /\ waiting[a] \cap Active = {}
    /\ Goto(a, "close")
    /\ UNCHANGED <<brokerVars, connVars, taskVars, proc, shutdown, running, stopped,
                   waiting, attempts, boundVars>>

\* run_worker calls stop() a second time.
Leave(a) ==
    /\ Goto(a, IF a = "start" THEN "done" ELSE IF stopped THEN "cleanup" ELSE "stop")
    /\ stopped' = (stopped \/ a = "main")

\* The channel, with its consumer, and the connections are closed.  An exception
\* of a later close changes nothing in what follows.
Close(a) ==
    /\ pc[a] = "close" /\ Leave(a)
    /\ channel' = IF channel = "none" THEN "none" ELSE "closed"
    /\ consuming' = FALSE
    /\ Requeue
    /\ UNCHANGED <<written, failed, cut, mdqConnected, mdcConnected, msgOf,
                   phase, left, proc, shutdown, running, waiting, attempts, boundVars>>

\* Closing the channel raises and leaves it open, and the connection with it:
\* the consumer goes on.  Caught, or logged, by run_worker.
CloseFails(a) ==
    /\ pc[a] = "close" /\ channel = "open" /\ Fail /\ Leave(a)
    /\ UNCHANGED <<brokerVars, connVars, taskVars, proc, shutdown, running, waiting,
                   attempts>>

\* The event loop is emptied: whatever still runs is cancelled and waited for.
Cleanup ==
    /\ pc["main"] = "cleanup"
    /\ CancelTasks(Active)
    /\ waiting' = [waiting EXCEPT !["main"] = Active]
    /\ Goto("main", "drain")
    /\ UNCHANGED <<written, failed, connVars, msgOf, left, live, proc,
                   shutdown, running, stopped, attempts, boundVars>>

\* The process ends, by itself or killed at any moment.
End ==
    /\ proc' = "down"
    /\ channel' = "none" /\ consuming' = FALSE
    /\ Requeue
    /\ phase' = [d \in Deliveries |-> IF d \in Active THEN "done" ELSE phase[d]]
    /\ pc' = [a \in Actors |-> "done"] /\ waiting' = [a \in Actors |-> {}]
    /\ UNCHANGED <<written, failed, cut, mdqConnected, mdcConnected, msgOf, left,
                   shutdown, running, stopped, attempts, boundVars>>
Exit == pc["main"] = "drain" /\ waiting["main"] \cap Active = {} /\ End
Kill == proc = "up" /\ End

\* The robust connection is lost and comes back with its consumer.
LoseConnection ==
    /\ channel = "open" /\ drops < MaxDrops
    /\ drops' = drops + 1
    /\ Requeue
    /\ UNCHANGED <<written, failed, cut, connVars, msgOf, phase, left, lifeVars,
                   failures, timeouts, starts>>

----------------------------------------------------------------------------
Task(d) == TakeSlot(d) \/ Analyze(d) \/ CacheResult(d) \/ ProcessingFails(d) \/ Settle(d)
Lifecycle ==
    \/ RabbitConnects \/ RedisConnects \/ Prepare \/ PrepareFails
    \/ CancelWorker \/ Abandon \/ Join \/ Cleanup \/ Exit
    \/ \E a \in Actors : StopEnter(a) \/ Gathered(a) \/ Close(a)
Environment ==
    \/ StartWorker \/ Signal \/ CancelTimesOut \/ Kill \/ LoseConnection
    \/ RabbitFails \/ RedisFails
    \/ \E a \in Actors : CloseFails(a)

Next ==
    \/ Lifecycle \/ Environment
    \/ \E m \in Messages : Deliver(m)
    \/ \E d \in Deliveries : Task(d)

\* The event loop runs every coroutine that can run (a queued waiter of the
\* semaphore gets its turn, FIFO), and RabbitMQ delivers.
Fairness ==
    /\ WF_vars(Lifecycle)
    /\ \A d \in Deliveries : SF_vars(Task(d))
    /\ \A m \in Messages : SF_vars(Deliver(m))

Spec == Init /\ [][Next]_vars /\ Fairness

(***************************************************************************)
(* Properties                                                              *)
(***************************************************************************)
\* A message leaves the broker as acknowledged only when every result of it is
\* in Redis, whatever is lost, killed or cancelled (lines 189-206): a crash
\* repeats work but loses none.
AckedIsWritten == \A m \in Messages : where[m] = "acked" => written[m]

\* A message is rejected, for good, only when processing it has raised, or when a
\* shutdown has cut it off while it was analysed or written: not when its task
\* was still waiting for a slot, nor when it was being acknowledged (lines 187-189,
\* 331-333).
DroppedForCause ==
    \A m \in Messages : where[m] = "dropped" => failed[m] \/ m \in cut

\* A delivered message belongs to exactly one task that can still settle it,
\* across redeliveries: no two tasks settle one message, and, until a shutdown
\* cancels tasks, no prefetch credit leaks (lines 187-231).
UnackedIsOwned ==
    /\ \A d \in Active : live[d] => where[msgOf[d]] = "unacked"
    /\ \A d, e \in Active : live[d] /\ live[e] /\ msgOf[d] = msgOf[e] => d = e
    /\ timeouts = 0 /\ pc["main"] # "drain" =>
         \A m \in Unacked : \E d \in Active : live[d] /\ msgOf[d] = m

\* Through lost connections, redeliveries, kills, restarts and shutdowns, every
\* step is one of an at-least-once queue: a message goes out again only after the
\* channel that held it is gone, is rejected only after a failure of its own or
\* when its own processing was cut off, and once settled never comes back (lines
\* 187-231).
Delivered == {msgOf[i] : i \in 1..Len(msgOf)}
Queue == INSTANCE AtLeastOnce
           WITH status <- [m \in Messages |->
                             IF where[m] = "unacked" THEN "out" ELSE where[m]],
                delivered <- Delivered,
                written <- {m \in Messages : written[m]},
                failed <- {m \in Messages : failed[m]}
ProcessedAtLeastOnce == Queue!Spec

\* While the worker consumes, every message is settled, unless a shutdown or a
\* kill intervenes (lines 187-218).
Handled ==
    \A m \in Messages :
        pc["start"] = "run" ~> \/ where[m] \in {"acked", "dropped"}
                               \/ shutdown \/ proc = "down"
                               \/ where[m] = "ready" /\ Len(msgOf) = MaxDeliveries

\* A signalled process ends by itself, whatever start() was doing and however
\* long its tasks take (process_manager.py, lines 151-219).
ShutdownCompletes == shutdown /\ proc = "up" ~> proc = "down"
=============================================================================
