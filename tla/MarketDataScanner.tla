------------------------- MODULE MarketDataScanner -------------------------
\* The Redis pub/sub consumer of components/market_data_scanner.py: a task
\* polls a pub/sub connection and hands each message to an analyzer; its owner
\* calls start(), stop() and restart(); and when the connection is lost the
\* task restarts the scanner itself, which makes it cancel and await itself.
\*
\* An action is what one coroutine does between two awaits. The pub/sub
\* clients and the tasks are numbered in the order in which they are made; 0
\* stands for None. One subscription stands for all.
EXTENDS Naturals, Sequences

CONSTANTS
    Owner,        \* the coroutine that calls start(), stop() and restart()
    MaxOpens,     \* bound: pub/sub clients
    MaxStarts,    \* bound: tasks
    MaxCalls,     \* bound: the owner's calls
    MaxMessages,  \* bound: messages published to the subscribed channels
    MaxOutages,   \* bound: times Redis goes away
    MaxPoisons    \* bound: polls that end in any other exception

ASSUME OwnerAssumption == Owner \notin Nat
ASSUME BoundsAssumption ==
    /\ MaxOpens \in Nat /\ MaxStarts \in Nat /\ MaxCalls \in Nat
    /\ MaxMessages \in Nat /\ MaxOutages \in Nat /\ MaxPoisons \in Nat

Tasks   == 1..MaxStarts
Actors  == {Owner} \cup Tasks
Clients == 1..MaxOpens

VARIABLES
    pc,         \* where a coroutine is suspended
    job,        \* what the owner called; a task only restarts
    on,         \* the pub/sub client a pending call is made on
    awaited,    \* the task that a stop() awaits
    msg,        \* the message a task has taken
    cancelled,  \* tasks with a cancellation on its way
    handle,     \* _pubsub_task
    pubsub,     \* pubsub_client
    redis,      \* whether redis_client is set
    connected,  \* mdc_connected
    opened,     \* pub/sub clients made so far
    starts,     \* tasks made so far
    up,         \* whether Redis can be reached
    subscribed, \* the pub/sub clients that Redis delivers to
    queue,      \* what waits to be read from each of them
    sent,       \* messages published so far
    results,    \* the messages whose results were published, in order
    budget,     \* what is left of the outages and the poisons
    calls,      \* the owner's calls so far
    wanted,     \* history: the last call was not stop()
    overlapped, \* history: a call and a task's own restart ran side by side
    cutOff      \* history: a start() or stop() failed for want of Redis

local    == <<job, on, awaited, msg>>
scanner  == <<handle, pubsub, redis, connected>>
made     == <<opened, starts>>
network  == <<up, subscribed, queue, sent, budget>>
history  == <<wanted, overlapped>>
vars == <<pc, local, cancelled, scanner, made, network, results, calls,
          history, cutOff>>

Stopping   == {"await", "unsubscribe", "close", "release"}
Starting   == {"pause", "ping", "rehydrate", "subscribe"}
Consuming  == {"poll", "work", "write"}
Restarting(t) == pc[t] \in Stopping \cup Starting
Live(t)    == pc[t] \in {"new"} \cup Consuming \cup Stopping \cup Starting

Init ==
    /\ pc = [a \in Actors |-> IF a = Owner THEN "idle" ELSE "none"]
    /\ job = [a \in Actors |-> "restart"]
    /\ on = [a \in Actors |-> 0] /\ awaited = [a \in Actors |-> 0]
    /\ msg = [t \in Tasks |-> 0]
    /\ cancelled = {} /\ handle = 0 /\ pubsub = 0 /\ redis = FALSE
    /\ connected = FALSE /\ opened = 0 /\ starts = 0
    /\ up = TRUE /\ subscribed = {} /\ queue = [c \in Clients |-> <<>>]
    /\ sent = 0 /\ results = <<>>
    /\ budget = [outages |-> MaxOutages, poisons |-> MaxPoisons]
    /\ calls = 0 /\ wanted = FALSE
    /\ overlapped = FALSE /\ cutOff = FALSE

Goto(a, place) == pc' = [pc EXCEPT ![a] = place]
At(a, place)   == pc[a] = place /\ a \notin cancelled
Spend(kind)    == /\ budget[kind] > 0
                  /\ budget' = [budget EXCEPT ![kind] = @ - 1]

\* Where a start() or stop() leaves an actor: restart() logs what they raise,
\* and a task that has restarted the scanner ends.
Rest(a) == IF a = Owner THEN "idle" ELSE "done"

Raises(a) == Goto(a, Rest(a)) /\ cutOff' = (cutOff \/ ~up)

---------------------------------------------------------------------------
\* stop()

\* Mutant: the Redis client is not closed.
ToRelease_KeepsClient(a, j) ==
    /\ Goto(a, IF j = "restart" THEN "pause" ELSE Rest(a))
    /\ UNCHANGED cutOff

\* The last part: the Redis client, if there is one.
ToRelease(a, j) ==
    /\ Goto(a, CASE redis -> "release"
                 [] ~redis /\ j = "restart" -> "pause"
                 [] OTHER -> Rest(a))
    /\ UNCHANGED cutOff

\* After the task: the pub/sub client, if there is one.
ToUnsubscribe(a, j) ==
    \/ /\ pubsub # 0
       /\ on' = [on EXCEPT ![a] = pubsub]
       /\ Goto(a, "unsubscribe")
       /\ UNCHANGED cutOff
    \/ /\ pubsub = 0
       /\ ToRelease(a, j)
       /\ UNCHANGED on

\* Mutant: stop() does not wait for the task.
EnterStop_NoAwait(a, j) ==
    \/ /\ handle # 0
       /\ cancelled' = cancelled \cup {t \in {handle} : Live(t) /\ t # a}
       /\ handle' = 0
       /\ ToUnsubscribe(a, j)
       /\ UNCHANGED awaited
    \/ /\ handle = 0
       /\ ToUnsubscribe(a, j)
       /\ UNCHANGED <<cancelled, awaited, handle>>

\* Up to the first await, which may be for the task that runs this.
EnterStop(a, j) ==
    \/ /\ handle # 0
       /\ cancelled' = cancelled \cup {t \in {handle} : Live(t)}
       /\ awaited' = [awaited EXCEPT ![a] = handle]
       /\ Goto(a, "await")
       /\ UNCHANGED <<on, handle, cutOff>>
    \/ /\ handle = 0
       /\ ToUnsubscribe(a, j)
       /\ UNCHANGED <<cancelled, awaited, handle>>

\* A task that awaits itself is thrown the cancellation it has asked for, and
\* swallows it. What a task has raised is raised again.
Awaited(a) ==
    /\ pc[a] = "await"
    /\ \/ /\ awaited[a] = a \/ pc[awaited[a]] = "done"
          /\ handle' = 0 /\ ToUnsubscribe(a, job[a])
       \/ pc[awaited[a]] = "failed" /\ Raises(a) /\ UNCHANGED <<handle, on>>
    /\ cancelled' = cancelled \ {a}
    /\ awaited' = [awaited EXCEPT ![a] = 0]
    /\ UNCHANGED <<job, msg, pubsub, redis, connected, made, network,
                   results, calls, history>>

Unsubscribed(a) ==
    /\ pc[a] = "unsubscribe"
    /\ \/ /\ up /\ pubsub # 0
          /\ on' = [on EXCEPT ![a] = pubsub]
          /\ Goto(a, "close")
          /\ UNCHANGED cutOff
       \/ /\ ~up \/ pubsub = 0
          /\ Raises(a) /\ UNCHANGED on
    /\ UNCHANGED <<job, awaited, msg, cancelled, scanner, made, network,
                   results, calls, history>>

Closed(a) ==
    /\ pc[a] = "close"
    /\ subscribed' = subscribed \ {on[a]}
    /\ queue' = [queue EXCEPT ![on[a]] = <<>>]
    /\ pubsub' = 0 /\ on' = [on EXCEPT ![a] = 0]
    /\ ToRelease(a, job[a])
    /\ UNCHANGED <<job, awaited, msg, cancelled, handle, redis, connected, made,
                   up, sent, budget, results, calls, history>>

\* Mutant: the flag is left as it was.
Released_KeepsFlag(a) ==
    /\ pc[a] = "release"
    /\ redis' = FALSE
    /\ Goto(a, IF job[a] = "restart" THEN "pause" ELSE Rest(a))
    /\ UNCHANGED <<local, cancelled, handle, pubsub, connected, made, network,
                   results, calls, history, cutOff>>

Released(a) ==
    /\ pc[a] = "release"
    /\ redis' = FALSE /\ connected' = FALSE
    /\ Goto(a, IF job[a] = "restart" THEN "pause" ELSE Rest(a))
    /\ UNCHANGED <<local, cancelled, handle, pubsub, made, network, results,
                   calls, history, cutOff>>

---------------------------------------------------------------------------
\* start()

\* The pub/sub client is made, and the analyzer, which reads its own caches.
Open(a) ==
    \/ /\ redis' /\ opened < MaxOpens
       /\ opened' = opened + 1 /\ pubsub' = opened + 1
       /\ Goto(a, "rehydrate")
       /\ UNCHANGED cutOff
    \/ /\ ~redis'
       /\ Raises(a)
       /\ UNCHANGED <<opened, pubsub>>

\* connect() only if the flag is not set.
EnterStart(a) ==
    \/ /\ ~connected
       /\ redis' = TRUE
       /\ Goto(a, "ping")
       /\ UNCHANGED <<opened, pubsub, cutOff>>
    \/ /\ connected
       /\ UNCHANGED redis
       /\ Open(a)

\* A second after the stop() of a restart.
Paused(a) ==
    /\ pc[a] = "pause"
    /\ EnterStart(a)
    /\ UNCHANGED <<local, cancelled, handle, connected, starts, network, results,
                   calls, history>>

Pinged(a) ==
    /\ pc[a] = "ping"
    /\ UNCHANGED redis
    /\ \/ up /\ connected' = TRUE /\ Open(a)
       \/ ~up /\ Raises(a) /\ UNCHANGED <<connected, opened, pubsub>>
    /\ UNCHANGED <<local, cancelled, handle, starts, network, results, calls,
                   history>>

\* An analyzer may or may not pass on that Redis could not be reached.
Rehydrated(a) ==
    /\ pc[a] = "rehydrate"
    /\ \/ /\ pubsub # 0
          /\ on' = [on EXCEPT ![a] = pubsub]
          /\ Goto(a, "subscribe")
          /\ UNCHANGED cutOff
       \/ /\ ~up \/ pubsub = 0
          /\ Raises(a) /\ UNCHANGED on
    /\ UNCHANGED <<job, awaited, msg, cancelled, scanner, made, network, results,
                   calls, history>>

\* Mutant: the task is made and not remembered.
Subscribed_NoHandle(a) ==
    /\ pc[a] = "subscribe"
    /\ on' = [on EXCEPT ![a] = 0]
    /\ \/ /\ up /\ starts < MaxStarts
          /\ subscribed' = subscribed \cup {on[a]}
          /\ starts' = starts + 1
          /\ pc' = [pc EXCEPT ![a] = Rest(a), ![starts + 1] = "new"]
          /\ UNCHANGED cutOff
       \/ /\ ~up
          /\ Raises(a)
          /\ UNCHANGED <<subscribed, starts>>
    /\ UNCHANGED <<job, awaited, msg, cancelled, handle, pubsub, redis, connected,
                   opened, up, queue, sent, budget, results, calls, history>>

Subscribed(a) ==
    /\ pc[a] = "subscribe"
    /\ on' = [on EXCEPT ![a] = 0]
    /\ \/ /\ up /\ starts < MaxStarts
          /\ subscribed' = subscribed \cup {on[a]}
          /\ starts' = starts + 1 /\ handle' = starts + 1
          /\ pc' = [pc EXCEPT ![a] = Rest(a), ![starts + 1] = "new"]
          /\ UNCHANGED cutOff
       \/ /\ ~up
          /\ Raises(a)
          /\ UNCHANGED <<subscribed, starts, handle>>
    /\ UNCHANGED <<job, awaited, msg, cancelled, pubsub, redis, connected, opened,
                   up, queue, sent, budget, results, calls, history>>

---------------------------------------------------------------------------
\* The owner.

Call(what) ==
    /\ pc[Owner] = "idle"
    /\ calls < MaxCalls /\ calls' = calls + 1
    /\ job' = [job EXCEPT ![Owner] = what]
    /\ wanted' = (what # "stop")
    /\ overlapped' = (overlapped \/ \E t \in Tasks : Restarting(t))

CallStart ==
    /\ ~wanted /\ Call("start")
    /\ EnterStart(Owner)
    /\ UNCHANGED <<on, awaited, msg, cancelled, handle, connected, starts,
                   network, results>>

CallStop(what) ==
    /\ Call(what)
    /\ EnterStop(Owner, what)
    /\ UNCHANGED <<msg, pubsub, redis, connected, made, network, results>>

---------------------------------------------------------------------------
\* _handle_pubsub

\* get_message() on the client that the attribute holds now, if it holds one.
Poll(t) ==
    /\ on' = [on EXCEPT ![t] = pubsub]
    /\ connected' = (connected /\ pubsub # 0)
    /\ Goto(t, IF pubsub # 0 THEN "poll" ELSE "failed")

Begin(t) ==
    /\ At(t, "new")
    /\ Poll(t)
    /\ UNCHANGED <<job, awaited, msg, cancelled, handle, pubsub, redis, made,
                   network, results, calls, history, cutOff>>

\* No message within the timeout: sleep, and ask again, perhaps another client.
Idle(t) ==
    /\ At(t, "poll") /\ queue[on[t]] = <<>>
    /\ on[t] \in subscribed \/ on[t] # pubsub
    /\ Poll(t)
    /\ UNCHANGED <<job, awaited, msg, cancelled, handle, pubsub, redis, made,
                   network, results, calls, history, cutOff>>

Receive(t) ==
    /\ At(t, "poll") /\ queue[on[t]] # <<>>
    /\ msg' = [msg EXCEPT ![t] = Head(queue[on[t]])]
    /\ queue' = [queue EXCEPT ![on[t]] = Tail(@)]
    /\ Goto(t, "work")
    /\ UNCHANGED <<job, on, awaited, cancelled, scanner, made, up, subscribed,
                   sent, budget, results, calls, history, cutOff>>

\* Any exception but a lost connection: from the poll, from a message that is
\* not JSON, or from one of an unknown type, whose counter does not exist.
PollRaises(t) ==
    /\ At(t, "poll")
    /\ \/ Spend("poisons")
       \/ on[t] \notin subscribed /\ on[t] # pubsub /\ UNCHANGED budget
    /\ connected' = FALSE
    /\ on' = [on EXCEPT ![t] = 0]
    /\ Goto(t, "failed")
    /\ UNCHANGED <<job, awaited, msg, cancelled, handle, pubsub, redis, made, up, subscribed,
                   queue, sent, results, calls, history, cutOff>>

\* Mutant: the lost connection ends the task.
LostConnection_Ends(t) ==
    /\ At(t, "poll") /\ on[t] \notin subscribed
    /\ connected' = FALSE
    /\ overlapped' = (overlapped \/ pc[Owner] # "idle")
    /\ Goto(t, "done")
    /\ UNCHANGED <<local, cancelled, handle, pubsub, redis, made, network,
                   results, calls, wanted, cutOff>>

\* restart() out of the task itself.
LostConnection(t) ==
    /\ At(t, "poll") /\ on[t] \notin subscribed
    /\ connected' = FALSE
    /\ overlapped' = (overlapped \/ pc[Owner] # "idle")
    /\ EnterStop(t, "restart")
    /\ UNCHANGED <<job, msg, pubsub, redis, made, network, results, calls, wanted>>

\* The analyzer has a result to write, or has none, or raises.
Analyzed(t) ==
    /\ At(t, "work")
    /\ \/ Goto(t, "write") /\ UNCHANGED <<on, msg, connected>>
       \/ Poll(t) /\ msg' = [msg EXCEPT ![t] = 0]
    /\ UNCHANGED <<job, awaited, cancelled, handle, pubsub, redis, made,
                   network, results, calls, history, cutOff>>

\* The pipeline sets the key and publishes; its failure is counted only. What
\* a cancellation finds under way has been sent or has not.
Written(t) ==
    /\ At(t, "write")
    /\ \/ up /\ results' = Append(results, msg[t])
       \/ ~up /\ UNCHANGED results
    /\ Poll(t) /\ msg' = [msg EXCEPT ![t] = 0]
    /\ UNCHANGED <<job, awaited, cancelled, handle, pubsub, redis, made,
                   network, calls, history, cutOff>>

\* The task ends where it is; one that has not begun runs no handler.
Cancelled(t) ==
    /\ t \in cancelled /\ pc[t] \in {"new"} \cup Consuming
    /\ cancelled' = cancelled \ {t}
    /\ connected' = (connected /\ pc[t] = "new")
    /\ \/ pc[t] = "write" /\ up /\ results' = Append(results, msg[t])
       \/ UNCHANGED results
    /\ on' = [on EXCEPT ![t] = 0] /\ msg' = [msg EXCEPT ![t] = 0]
    /\ Goto(t, "done")
    /\ UNCHANGED <<job, awaited, handle, pubsub, redis, made, network, calls, history,
                   cutOff>>

---------------------------------------------------------------------------
\* Redis.

Publish ==
    /\ up /\ sent < MaxMessages
    /\ sent' = sent + 1
    /\ queue' = [c \in Clients |->
                   IF c \in subscribed THEN Append(queue[c], sent') ELSE queue[c]]
    /\ UNCHANGED <<pc, local, cancelled, scanner, made, up, subscribed, budget,
                   results, calls, history, cutOff>>

\* Every connection breaks, and what waited on it is gone.
Outage ==
    /\ up /\ up' = FALSE /\ Spend("outages")
    /\ subscribed' = {} /\ queue' = [c \in Clients |-> <<>>]
    /\ UNCHANGED <<pc, local, cancelled, scanner, made, sent, results, calls,
                   history, cutOff>>

Back ==
    /\ ~up /\ up' = TRUE
    /\ UNCHANGED <<pc, local, cancelled, scanner, made, subscribed, queue, sent,
                   budget, results, calls, history, cutOff>>

---------------------------------------------------------------------------
Calls == CallStart \/ CallStop("stop") \/ CallStop("restart")

Restart(a) ==
    \/ Awaited(a) \/ Unsubscribed(a) \/ Closed(a) \/ Released(a) \/ Paused(a)
    \/ Pinged(a) \/ Rehydrated(a) \/ Subscribed(a)

Consume(t) ==
    \/ Begin(t) \/ Idle(t) \/ Receive(t) \/ LostConnection(t) \/ Analyzed(t)
    \/ Written(t) \/ Cancelled(t)

Next ==
    \/ Calls
    \/ \E a \in Actors : Restart(a)
    \/ \E t \in Tasks : Consume(t) \/ PollRaises(t)
    \/ Publish \/ Outage \/ Back

Spec == Init /\ [][Next]_vars

\* The event loop runs what is ready, and Redis answers or refuses.
Fairness ==
    /\ \A a \in Actors : WF_vars(Restart(a))
    /\ \A t \in Tasks : WF_vars(Consume(t))

FairSpec == Spec /\ Fairness

---------------------------------------------------------------------------
\* What should hold.

Places == {"idle", "none", "new", "done", "failed"}
              \cup Consuming \cup Stopping \cup Starting

TypeOK ==
    /\ pc \in [Actors -> Places]
    /\ job \in [Actors -> {"start", "stop", "restart"}]
    /\ on \in [Actors -> 0..opened] /\ awaited \in [Actors -> 0..starts]
    /\ msg \in [Tasks -> 0..sent]
    /\ \A t \in Tasks : /\ pc[t] = "poll" => on[t] # 0
                        /\ pc[t] \in {"work", "write"} => msg[t] # 0
    /\ cancelled \subseteq Tasks /\ handle \in 0..starts /\ pubsub \in 0..opened
    /\ redis \in BOOLEAN /\ connected \in BOOLEAN
    /\ opened \in 0..MaxOpens /\ starts \in 0..MaxStarts
    /\ up \in BOOLEAN /\ subscribed \subseteq 0..opened
    /\ queue \in [Clients -> Seq(1..sent)] /\ sent \in 0..MaxMessages
    /\ results \in Seq(1..sent)
    /\ budget \in [{"outages", "poisons"} -> Nat]
    /\ calls \in 0..MaxCalls /\ wanted \in BOOLEAN
    /\ overlapped \in BOOLEAN /\ cutOff \in BOOLEAN

\* One task consumes, and stop() reaches it, unless a call of the owner and a
\* task's own restart ran side by side.
OneConsumer ==
    ~overlapped =>
        /\ \A t, u \in Tasks : Live(t) /\ Live(u) => t = u
        /\ \A t \in Tasks : pc[t] \in {"new"} \cup Consuming /\ t \notin cancelled
             => handle = t

\* The flag says that there is a client: start() skips connect() on it, so that
\* a flag left set without a client fails every later start().
ConnectedHasClient == ~overlapped => (connected => redis)

\* When stop() has returned there is no task, no client and no subscription in
\* Redis, unless Redis was away in a start() or stop(), a poll has raised (then
\* stop() raises too, before it has closed anything), or the task was just
\* restarting the scanner itself.
StoppedIsQuiet ==
    /\ ~wanted /\ pc[Owner] = "idle"
    /\ ~overlapped /\ ~cutOff /\ \A t \in Tasks : pc[t] # "failed"
    => /\ \A t \in Tasks : ~Live(t)
       /\ pubsub = 0 /\ ~redis /\ ~connected /\ subscribed = {}

\* Messages are processed one after the other in the order of publication,
\* across restarts too: no result of a stopped task comes after a newer one.
ResultsInOrder ==
    ~overlapped => \A i, j \in DOMAIN results : i < j => results[i] < results[j]

\* A scanner that should run consumes again after every lost connection
\* ("auto-restarts on connection errors", line 176), unless Redis was still away
\* in the restart, which then gives up, or a poll raised something else.
Recovers ==
    wanted ~> \/ \E t \in Tasks : pc[t] \in Consuming /\ on[t] \in subscribed
              \/ ~wanted \/ overlapped \/ cutOff \/ budget.poisons < MaxPoisons
=============================================================================
