------------------------- MODULE WidgetDataService -------------------------
(***************************************************************************)
(* The WidgetDataService of components/widget_data_service.py: a registry  *)
(* of WebSocket clients per Redis channel, a lazily started background     *)
(* task that polls Redis pub/sub and fans messages out, and the lock that  *)
(* guards the registry.                                                    *)
(*                                                                         *)
(* Every coroutine is an actor.  A WebSocket has one handler coroutine,    *)
(* which makes its calls one after the other; every background task is an  *)
(* actor too, and so is the server that calls stop().  A step of an actor  *)
(* runs from one await to the next, since asyncio switches only there.     *)
(***************************************************************************)
EXTENDS Integers, Sequences, FiniteSets

CONSTANTS
    Clients,        \* WebSockets, each with its handler coroutine
    Tasks,          \* identities of the background tasks that can be created
    Server,         \* the coroutine that calls stop()
    Channels,       \* Redis channels that are published to
    Patterns,       \* feeds that contain "*"
    Matches,        \* the pairs <<pattern, channel>> that Redis matches
    NoTask, NoActor,
    Closable,       \* the clients whose connection may break
    CanStop,        \* whether the server may call stop()
    MaxCalls,       \* bound: calls of subscribe and unsubscribe by clients
    MaxPublishes,   \* bound: messages published
    MaxFailures     \* bound: Redis commands and polls that raise

Feeds  == Channels \cup Patterns
Actors == Clients \cup Tasks \cup {Server}

ASSUME ActorsAssumption ==
    /\ Clients \cap Tasks = {} /\ Server \notin Clients \cup Tasks
    /\ NoTask \notin Tasks     /\ NoActor \notin Actors
ASSUME BoundsAssumption ==
    /\ IsFiniteSet(Feeds) /\ Closable \subseteq Clients /\ CanStop \in BOOLEAN
    /\ Matches \subseteq Patterns \X Channels
    /\ MaxCalls \in Nat /\ MaxPublishes \in Nat /\ MaxFailures \in Nat

VARIABLES
    keys,           \* the keys of the dict subscriptions
    subscriptions,  \* the WebSockets of each feed
    pubsubTask,     \* _pubsub_task
    lock,           \* the actor inside "async with _pubsub_lock"
    redis,          \* the feeds left subscribed by the commands sent to Redis
    commands,       \* the commands sent that Redis has not carried out yet
    live,           \* the feeds Redis delivers
    inbox,          \* messages Redis sent that no poll has returned yet
    published, received,
    pc,             \* where each actor awaits
    todo,           \* the unsubscribe calls <<feed, websocket>> left to make
    call,           \* the <<feed, websocket>> of the call in progress
    awaiting,       \* the task object an actor awaits
    cancelReq,      \* the tasks with an undelivered cancel()
    msg, batch,     \* a task's message and the snapshot left to send it to
    conn,           \* each client's connection
    calls, failures

linkVars     == <<redis, commands, live>>
registryVars == <<keys, subscriptions, pubsubTask, lock, linkVars>>
streamVars   == <<inbox, published, received>>
fanoutVars   == <<msg, batch>>
clientVars   == <<conn, calls>>
callVars     == <<todo, call, awaiting>>
vars == <<registryVars, streamVars, fanoutVars, clientVars, callVars,
          pc, cancelReq, failures>>

Done == {"cancelled", "runtime", "error"}     \* a task that has ended
Await == {"sub_lock", "sub_redis", "disc_lock", "unsub_lock", "unsub_redis",
          "unsub_await", "unsub_self"}
Message == [n : 1..MaxPublishes, channel : Channels]
Command == {"subscribe", "unsubscribe"} \X Feeds

TypeOK ==
    /\ keys \subseteq Feeds
    /\ subscriptions \in [Feeds -> SUBSET Clients]
    /\ pubsubTask \in Tasks \cup {NoTask}
    /\ lock \in Actors \cup {NoActor}
    /\ redis \subseteq Feeds /\ live \subseteq Feeds /\ commands \in Seq(Command)
    /\ inbox \in Seq(Message)
    /\ published \in 0..MaxPublishes
    /\ received \in [Clients -> Seq(Message)]
    /\ pc \in [Actors -> Await \cup Done \cup
                 {"idle", "new", "poll", "send", "stop_await", "stopped"}]
    /\ todo \in [Actors -> SUBSET (Feeds \X Clients)]
    /\ call \in [Actors -> (Feeds \X Clients) \cup {<<>>}]
    /\ awaiting \in [Actors -> Tasks \cup {NoTask}]
    /\ cancelReq \subseteq Tasks
    /\ msg \in [Tasks -> Message \cup {<<>>}]
    /\ batch \in [Tasks -> SUBSET Clients]
    /\ conn \in [Clients -> {"open", "closed", "leaving", "gone", "aborted"}]
    /\ calls \in 0..MaxCalls /\ failures \in 0..MaxFailures

Init ==
    /\ keys = {} /\ subscriptions = [f \in Feeds |-> {}]
    /\ pubsubTask = NoTask /\ lock = NoActor
    /\ redis = {} /\ commands = <<>> /\ live = {}
    /\ inbox = <<>> /\ published = 0
    /\ received = [c \in Clients |-> <<>>]
    /\ pc = [a \in Actors |-> IF a \in Tasks THEN "new" ELSE "idle"]
    /\ todo = [a \in Actors |-> {}] /\ call = [a \in Actors |-> <<>>]
    /\ awaiting = [a \in Actors |-> NoTask] /\ cancelReq = {}
    /\ msg = [t \in Tasks |-> <<>>] /\ batch = [t \in Tasks |-> {}]
    /\ conn = [c \in Clients |-> "open"] /\ calls = 0 /\ failures = 0

(***************************************************************************)
(* The Redis connection.  (p)subscribe and (p)unsubscribe return when the  *)
(* command is written; Redis carries the commands out later, in order, and *)
(* its confirmations reach get_message, which only logs them.              *)
(***************************************************************************)
Sent(op, f) ==
    /\ redis' = IF op = "subscribe" THEN redis \cup {f} ELSE redis \ {f}
    /\ commands' = Append(commands, <<op, f>>)
    /\ UNCHANGED live

RedisAccepts ==
    /\ commands # <<>>
    /\ commands' = Tail(commands)
    /\ live' = IF Head(commands)[1] = "subscribe" THEN live \cup {Head(commands)[2]}
                                                 ELSE live \ {Head(commands)[2]}
    /\ UNCHANGED <<keys, subscriptions, pubsubTask, lock, redis, streamVars,
                   fanoutVars, clientVars, callVars, pc, cancelReq, failures>>

(***************************************************************************)
(* subscribe(feed, websocket)                                              *)
(***************************************************************************)
Subscribe(c, f) ==
    /\ pc[c] = "idle" /\ conn[c] = "open" /\ calls < MaxCalls
    /\ pc' = [pc EXCEPT ![c] = "sub_lock"]
    /\ call' = [call EXCEPT ![c] = <<f, c>>]
    /\ calls' = calls + 1
    /\ UNCHANGED <<registryVars, streamVars, fanoutVars, conn, todo, awaiting,
                   cancelReq, failures>>

\* Defect: the number of feeds is compared as if the new one were not counted.
JoinFeed_OffByOne(c, f) ==
    /\ subscriptions' = [subscriptions EXCEPT ![f] = @ \cup {c}]
    /\ lock' = NoActor
    /\ \/ /\ Cardinality(keys) = 0 /\ pubsubTask = NoTask
          /\ \E t \in Tasks : /\ pc[t] = "new" /\ pubsubTask' = t
                              /\ pc' = [pc EXCEPT ![t] = "poll", ![c] = "idle"]
       \/ /\ Cardinality(keys) # 0 \/ pubsubTask # NoTask
          /\ pc' = [pc EXCEPT ![c] = "idle"] /\ UNCHANGED pubsubTask
    /\ UNCHANGED <<keys, streamVars, fanoutVars, clientVars, callVars, cancelReq>>

\* The tail of subscribe, with no await in it: start the background task if
\* this is the only feed and none is recorded, and add the client.
JoinFeed(c, f) ==
    /\ subscriptions' = [subscriptions EXCEPT ![f] = @ \cup {c}]
    /\ lock' = NoActor
    /\ \/ /\ Cardinality(keys) = 1 /\ pubsubTask = NoTask
          /\ \E t \in Tasks :
               /\ pc[t] = "new"
               /\ pubsubTask' = t
               /\ pc' = [pc EXCEPT ![t] = "poll", ![c] = "idle"]
       \/ /\ Cardinality(keys) # 1 \/ pubsubTask # NoTask
          /\ pc' = [pc EXCEPT ![c] = "idle"]
          /\ UNCHANGED pubsubTask
    /\ UNCHANGED <<keys, streamVars, fanoutVars, clientVars, callVars, cancelReq>>

SubscribeKnown(c) ==
    /\ pc[c] = "sub_lock" /\ lock = NoActor /\ call[c][1] \in keys
    /\ JoinFeed(c, call[c][1])
    /\ UNCHANGED <<linkVars, failures>>

\* The first client of a feed registers it before the command for Redis is sent.
SubscribeNew(c) ==
    /\ pc[c] = "sub_lock" /\ lock = NoActor /\ call[c][1] \notin keys
    /\ keys' = keys \cup {call[c][1]}
    /\ subscriptions' = [subscriptions EXCEPT ![call[c][1]] = {}]
    /\ lock' = c
    /\ pc' = [pc EXCEPT ![c] = "sub_redis"]
    /\ UNCHANGED <<pubsubTask, linkVars, streamVars, fanoutVars, clientVars,
                   callVars, cancelReq, failures>>

SubscribeRedis(c) ==
    /\ pc[c] = "sub_redis"
    /\ Sent("subscribe", call[c][1])
    /\ JoinFeed(c, call[c][1])
    /\ UNCHANGED failures

\* A (p)subscribe that raises leaves the lock and nothing else: the feed stays
\* registered.  Whether Redis took the command is not known to the caller.
SubscribeFails(c) ==
    /\ pc[c] = "sub_redis" /\ failures < MaxFailures
    /\ failures' = failures + 1
    /\ Sent("subscribe", call[c][1]) \/ UNCHANGED linkVars
    /\ lock' = NoActor
    /\ pc' = [pc EXCEPT ![c] = "idle"]
    /\ UNCHANGED <<keys, subscriptions, pubsubTask, streamVars,
                   fanoutVars, clientVars, callVars, cancelReq>>

(***************************************************************************)
(* unsubscribe(feed, websocket) and disconnect(websocket).  The first is   *)
(* also called by the second and by the background task; "todo" holds the  *)
(* calls that its caller still has to make.                                *)
(***************************************************************************)
Unsubscribe(c, f) ==
    /\ pc[c] = "idle" /\ conn[c] = "open" /\ calls < MaxCalls
    /\ pc' = [pc EXCEPT ![c] = "unsub_lock"]
    /\ todo' = [todo EXCEPT ![c] = {<<f, c>>}]
    /\ calls' = calls + 1
    /\ UNCHANGED <<registryVars, streamVars, fanoutVars, conn, call, awaiting,
                   cancelReq, failures>>

Close(c) ==
    /\ c \in Closable /\ conn[c] = "open"
    /\ conn' = [conn EXCEPT ![c] = "closed"]
    /\ UNCHANGED <<registryVars, streamVars, fanoutVars, calls, callVars, pc,
                   cancelReq, failures>>

Disconnect(c) ==
    /\ pc[c] = "idle" /\ conn[c] = "closed"
    /\ conn' = [conn EXCEPT ![c] = "leaving"]
    /\ pc' = [pc EXCEPT ![c] = "disc_lock"]
    /\ UNCHANGED <<registryVars, streamVars, fanoutVars, calls, callVars,
                   cancelReq, failures>>

\* Where an actor resumes when its last unsubscribe call has returned.
Resume(a) == IF a \in Tasks THEN "poll" ELSE "idle"
Left(a, how) == IF a \in Clients /\ conn[a] = "leaving"
                THEN [conn EXCEPT ![a] = how] ELSE conn

\* unsubscribe returns: the caller makes its next call, or is finished.
Return(a, left) ==
    IF left = {} THEN /\ pc' = [pc EXCEPT ![a] = Resume(a)]
                      /\ conn' = Left(a, "gone")
                 ELSE /\ pc' = [pc EXCEPT ![a] = "unsub_lock"]
                      /\ UNCHANGED conn

\* unsubscribe raises: the rest of the caller's calls is never made.  A
\* background task ends with the exception.
Raise(a) ==
    /\ pc' = [pc EXCEPT ![a] = IF a \in Tasks THEN "error" ELSE "idle"]
    /\ todo' = [todo EXCEPT ![a] = {}]
    /\ conn' = Left(a, "aborted")

\* Defect: only the feeds that hold the client are visited.
DisconnectSnapshot_OwnFeeds(c) ==
    LET own == {f \in keys : c \in subscriptions[f]} \X {c} IN
    /\ pc[c] = "disc_lock" /\ lock = NoActor
    /\ todo' = [todo EXCEPT ![c] = own]
    /\ Return(c, own)
    /\ UNCHANGED <<registryVars, streamVars, fanoutVars, calls, call, awaiting,
                   cancelReq, failures>>

\* disconnect copies the keys of all feeds, not only of the client's own.
DisconnectSnapshot(c) ==
    /\ pc[c] = "disc_lock" /\ lock = NoActor
    /\ todo' = [todo EXCEPT ![c] = keys \X {c}]
    /\ Return(c, keys \X {c})
    /\ UNCHANGED <<registryVars, streamVars, fanoutVars, calls, call, awaiting,
                   cancelReq, failures>>

\* Defect: the task is awaited without being cancelled.
StopPoller_NoCancel(a) ==
    /\ lock' = a
    /\ awaiting' = [awaiting EXCEPT ![a] = pubsubTask]
    /\ pc' = [pc EXCEPT ![a] = "unsub_await"]
    /\ UNCHANGED <<conn, cancelReq>>

\* With no feed left and a task recorded, the task is cancelled and awaited
\* while the lock is held; a task that has ended takes no cancellation.
StopPoller(a) ==
    /\ lock' = a
    /\ cancelReq' = IF pc[pubsubTask] \in Done THEN cancelReq
                    ELSE cancelReq \cup {pubsubTask}
    /\ awaiting' = [awaiting EXCEPT ![a] = pubsubTask]
    /\ pc' = [pc EXCEPT ![a] = IF pubsubTask = a THEN "unsub_self"
                                                 ELSE "unsub_await"]
    /\ UNCHANGED conn

MayRun(a) == a \notin cancelReq

\* A feed nobody registered: only the check for an idle service is made.
UnsubscribeUnknown(a, f) ==
    /\ f \notin keys
    /\ IF keys = {} /\ pubsubTask # NoTask
       THEN StopPoller(a)
       ELSE Return(a, todo'[a]) /\ UNCHANGED <<lock, cancelReq, awaiting>>
    /\ UNCHANGED subscriptions

UnsubscribeOne(a, f, w) ==
    /\ f \in keys /\ subscriptions[f] \ {w} # {}
    /\ subscriptions' = [subscriptions EXCEPT ![f] = @ \ {w}]
    /\ Return(a, todo'[a])
    /\ UNCHANGED <<lock, cancelReq, awaiting>>

\* Defect: the lock is left before the command is sent and the key deleted.
UnsubscribeLast_Unlocked(a, f, w) ==
    /\ f \in keys /\ subscriptions[f] \ {w} = {}
    /\ subscriptions' = [subscriptions EXCEPT ![f] = {}]
    /\ pc' = [pc EXCEPT ![a] = "unsub_redis"]
    /\ UNCHANGED <<lock, conn, cancelReq, awaiting>>

UnsubscribeLast(a, f, w) ==
    /\ f \in keys /\ subscriptions[f] \ {w} = {}
    /\ subscriptions' = [subscriptions EXCEPT ![f] = {}]
    /\ lock' = a
    /\ pc' = [pc EXCEPT ![a] = "unsub_redis"]
    /\ UNCHANGED <<conn, cancelReq, awaiting>>

UnsubscribeEnter(a) ==
    /\ pc[a] = "unsub_lock" /\ lock = NoActor /\ MayRun(a)
    /\ \E u \in todo[a] :
         /\ todo' = [todo EXCEPT ![a] = @ \ {u}]
         /\ call' = [call EXCEPT ![a] = u]
         /\ \/ UnsubscribeUnknown(a, u[1])
            \/ UnsubscribeOne(a, u[1], u[2])
            \/ UnsubscribeLast(a, u[1], u[2])
    /\ UNCHANGED <<keys, pubsubTask, linkVars, streamVars, fanoutVars, calls, failures>>

\* Defect: the recorded task is forgotten without being cancelled and awaited.
UnsubscribeRedis_Forgets(a) ==
    /\ pc[a] = "unsub_redis" /\ MayRun(a)
    /\ Sent("unsubscribe", call[a][1])
    /\ keys' = keys \ {call[a][1]}
    /\ pubsubTask' = IF keys' = {} THEN NoTask ELSE pubsubTask
    /\ Return(a, todo[a]) /\ lock' = NoActor
    /\ UNCHANGED <<subscriptions, streamVars, fanoutVars, calls, todo,
                   call, awaiting, cancelReq, failures>>

UnsubscribeRedis(a) ==
    /\ pc[a] = "unsub_redis" /\ MayRun(a)
    /\ Sent("unsubscribe", call[a][1])
    /\ keys' = keys \ {call[a][1]}
    /\ IF keys' = {} /\ pubsubTask # NoTask
       THEN StopPoller(a)
       ELSE Return(a, todo[a]) /\ lock' = NoActor /\ UNCHANGED <<cancelReq, awaiting>>
    /\ UNCHANGED <<subscriptions, pubsubTask, streamVars, fanoutVars,
                   calls, todo, call, failures>>

\* Defect: the key is deleted in a finally clause, whether or not Redis agreed.
UnsubscribeFails_DeletesKey(a) ==
    /\ pc[a] = "unsub_redis" /\ MayRun(a) /\ failures < MaxFailures
    /\ failures' = failures + 1
    /\ Sent("unsubscribe", call[a][1]) \/ UNCHANGED linkVars
    /\ keys' = keys \ {call[a][1]}
    /\ lock' = NoActor
    /\ Raise(a)
    /\ UNCHANGED <<subscriptions, pubsubTask, streamVars, fanoutVars,
                   calls, call, awaiting, cancelReq>>

UnsubscribeFails(a) ==
    /\ pc[a] = "unsub_redis" /\ MayRun(a) /\ failures < MaxFailures
    /\ failures' = failures + 1
    /\ Sent("unsubscribe", call[a][1]) \/ UNCHANGED linkVars
    /\ lock' = NoActor
    /\ Raise(a)
    /\ UNCHANGED <<keys, subscriptions, pubsubTask, streamVars,
                   fanoutVars, calls, call, awaiting, cancelReq>>

\* Defect: the ended task stays recorded.
UnsubscribeAwaited_NoReset(a) ==
    /\ pc[a] = "unsub_await" /\ pc[awaiting[a]] \in Done
    /\ lock' = NoActor
    /\ Return(a, todo[a])
    /\ awaiting' = [awaiting EXCEPT ![a] = NoTask]
    /\ UNCHANGED <<keys, subscriptions, pubsubTask, linkVars, streamVars,
                   fanoutVars, calls, todo, call, cancelReq, failures>>

\* The awaited task has ended.  CancelledError and RuntimeError are swallowed;
\* any other exception of the task leaves unsubscribe before the reset.
UnsubscribeAwaited(a) ==
    /\ pc[a] = "unsub_await" /\ pc[awaiting[a]] \in Done
    /\ lock' = NoActor
    /\ IF pc[awaiting[a]] = "error"
       THEN Raise(a) /\ UNCHANGED pubsubTask
       ELSE Return(a, todo[a]) /\ pubsubTask' = NoTask /\ UNCHANGED todo
    /\ awaiting' = [awaiting EXCEPT ![a] = NoTask]
    /\ UNCHANGED <<keys, subscriptions, linkVars, streamVars, fanoutVars,
                   calls, call, cancelReq, failures>>

\* The background task cancelled itself and awaits itself: asyncio throws the
\* CancelledError at this await, the except clause swallows it, and the task
\* carries on.
UnsubscribeSelf(t) ==
    /\ pc[t] = "unsub_self"
    /\ cancelReq' = cancelReq \ {t}
    /\ pubsubTask' = NoTask
    /\ lock' = NoActor
    /\ awaiting' = [awaiting EXCEPT ![t] = NoTask]
    /\ Return(t, todo[t])
    /\ UNCHANGED <<keys, subscriptions, linkVars, streamVars, fanoutVars,
                   calls, todo, call, failures>>

(***************************************************************************)
(* _handle_pubsub: the background task                                     *)
(***************************************************************************)
\* get_message returns a message; its channel, also for a pattern's pmessage,
\* is the concrete channel, and that is what is looked up.
PollMessage(t) ==
    /\ pc[t] = "poll" /\ MayRun(t) /\ inbox # <<>>
    /\ inbox' = Tail(inbox)
    /\ LET m == Head(inbox) IN
         IF m.channel \in keys /\ subscriptions[m.channel] # {}
         THEN /\ msg' = [msg EXCEPT ![t] = m]
              /\ batch' = [batch EXCEPT ![t] = subscriptions[m.channel]]
              /\ pc' = [pc EXCEPT ![t] = "send"]
         ELSE UNCHANGED <<msg, batch, pc>>
    /\ UNCHANGED <<registryVars, published, received, clientVars, callVars,
                   cancelReq, failures>>

\* Any exception of get_message ends the task, and so does the RuntimeError
\* that a stream raises when a second task already waits on it.
PollRaises(t) ==
    /\ pc[t] = "poll" /\ MayRun(t)
    /\ \/ /\ failures < MaxFailures /\ failures' = failures + 1
          /\ pc' = [pc EXCEPT ![t] = "error"]
       \/ /\ \E u \in Tasks \ {t} : pc[u] = "poll"
          /\ pc' = [pc EXCEPT ![t] = "runtime"]
          /\ UNCHANGED failures
    /\ UNCHANGED <<registryVars, streamVars, fanoutVars, clientVars, callVars,
                   cancelReq>>

\* One send_text of the fan-out.  A closed connection raises; the failed
\* clients are unsubscribed from the message's feed once all have been tried.
Send(t) ==
    /\ pc[t] = "send" /\ MayRun(t)
    /\ \E w \in batch[t] :
         LET failed == IF conn[w] = "open" THEN {} ELSE {<<msg[t].channel, w>>}
         IN  /\ batch' = [batch EXCEPT ![t] = @ \ {w}]
             /\ received' = IF conn[w] = "open"
                            THEN [received EXCEPT ![w] = Append(@, msg[t])]
                            ELSE received
             /\ todo' = [todo EXCEPT ![t] = @ \cup failed]
             /\ pc' = [pc EXCEPT ![t] = IF batch[t] # {w} THEN "send"
                         ELSE IF todo'[t] # {} THEN "unsub_lock" ELSE "poll"]
    /\ UNCHANGED <<registryVars, inbox, published, msg, clientVars, call,
                   awaiting, cancelReq, failures>>

\* CancelledError is thrown where the task awaits; leaving the block releases
\* the lock, and a command under way may or may not have reached Redis.
Cancelled(t) ==
    /\ t \in cancelReq /\ pc[t] \in {"poll", "send", "unsub_lock", "unsub_redis"}
    /\ cancelReq' = cancelReq \ {t}
    /\ pc' = [pc EXCEPT ![t] = "cancelled"]
    /\ todo' = [todo EXCEPT ![t] = {}]
    /\ batch' = [batch EXCEPT ![t] = {}]
    /\ lock' = IF lock = t THEN NoActor ELSE lock
    /\ \/ pc[t] = "unsub_redis" /\ Sent("unsubscribe", call[t][1])
       \/ UNCHANGED linkVars
    /\ UNCHANGED <<keys, subscriptions, pubsubTask, streamVars, msg,
                   clientVars, call, awaiting, failures>>

(***************************************************************************)
(* stop(), which takes no lock.  A task that is awaiting itself cannot be  *)
(* awaited by anybody else: stop() then raises a RuntimeError at once.     *)
(***************************************************************************)
Stop ==
    /\ CanStop /\ pc[Server] = "idle"
    /\ IF pubsubTask = NoTask \/ pc[pubsubTask] = "unsub_self"
       THEN /\ pc' = [pc EXCEPT ![Server] = "stopped"]
            /\ UNCHANGED <<cancelReq, awaiting>>
       ELSE /\ pc' = [pc EXCEPT ![Server] = "stop_await"]
            /\ cancelReq' = IF pc[pubsubTask] \in Done THEN cancelReq
                            ELSE cancelReq \cup {pubsubTask}
            /\ awaiting' = [awaiting EXCEPT ![Server] = pubsubTask]
    /\ UNCHANGED <<registryVars, streamVars, fanoutVars, clientVars, todo, call,
                   failures>>

\* stop swallows only CancelledError, so a task that ended in any other
\* exception stays recorded.
StopAwaited ==
    /\ pc[Server] = "stop_await" /\ pc[awaiting[Server]] \in Done
    /\ pubsubTask' = IF pc[awaiting[Server]] = "cancelled" THEN NoTask ELSE pubsubTask
    /\ pc' = [pc EXCEPT ![Server] = "stopped"]
    /\ awaiting' = [awaiting EXCEPT ![Server] = NoTask]
    /\ UNCHANGED <<keys, subscriptions, lock, linkVars, streamVars,
                   fanoutVars, clientVars, todo, call, cancelReq, failures>>

(***************************************************************************)
(* Redis: a message goes out once for the channel's subscription and once  *)
(* for every subscribed pattern that matches.                              *)
(***************************************************************************)
Matching(ch) == {f \in live : f = ch \/ <<f, ch>> \in Matches}

Publish(ch) ==
    /\ published < MaxPublishes
    /\ published' = published + 1
    /\ inbox' = inbox \o [i \in 1..Cardinality(Matching(ch)) |->
                            [n |-> published + 1, channel |-> ch]]
    /\ UNCHANGED <<registryVars, received, fanoutVars, clientVars, callVars, pc,
                   cancelReq, failures>>

----------------------------------------------------------------------------
Enter(a) ==    \* the steps that acquire the lock
    \/ a \in Clients /\ (SubscribeKnown(a) \/ SubscribeNew(a) \/ DisconnectSnapshot(a))
    \/ UnsubscribeEnter(a)

Proceed(a) ==  \* the steps that resume from any other await
    \/ a \in Clients /\ (SubscribeRedis(a) \/ SubscribeFails(a))
    \/ UnsubscribeRedis(a) \/ UnsubscribeFails(a) \/ UnsubscribeAwaited(a)
    \/ a \in Tasks /\ (UnsubscribeSelf(a) \/ PollMessage(a) \/ PollRaises(a)
                          \/ Send(a) \/ Cancelled(a))
    \/ a = Server /\ StopAwaited

Environment ==
    \/ \E c \in Clients : Close(c) \/ Disconnect(c)
    \/ \E c \in Clients, f \in Feeds : Subscribe(c, f) \/ Unsubscribe(c, f)
    \/ \E ch \in Channels : Publish(ch)
    \/ RedisAccepts \/ Stop

Next == Environment \/ \E a \in Actors : Enter(a) \/ Proceed(a)

\* asyncio runs every ready coroutine, get_message and the Redis commands end
\* by their timeouts, and asyncio.Lock wakes its waiters in FIFO order.
Fairness == \A a \in Actors : WF_vars(Proceed(a)) /\ SF_vars(Enter(a))

Spec == Init /\ [][Next]_vars /\ Fairness
(***************************************************************************)
(* Properties                                                              *)
(***************************************************************************)
\* No command or poll has failed, no connection has broken, nobody has called
\* stop().  Some properties hold only so long; the runs also go beyond.
Undisturbed ==
    failures = 0 /\ pc[Server] = "idle" /\ \A c \in Clients : conn[c] = "open"

\* A feed that the commands sent leave subscribed in Redis is a feed the registry
\* knows: whatever command fails and whoever is cancelled where, none is left
\* behind that no later unsubscribe could remove (lines 114-128 and 144-153).
RedisSubscriptionTracked == redis \subseteq keys

\* Between critical sections of an undisturbed service the feeds of the registry
\* are the ones subscribed with Redis and have subscribers, a task is recorded
\* exactly while there are feeds, and it is alive (lines 30-32: it starts with
\* the first subscription and stops with the last).
PollerFollowsRegistry ==
    lock = NoActor /\ Undisturbed =>
        /\ keys = redis /\ \A f \in keys : subscriptions[f] # {}
        /\ keys # {} <=> pubsubTask # NoTask
        /\ pubsubTask # NoTask => pc[pubsubTask] \notin Done \cup {"new"}

\* No client of an undisturbed service sees a message twice or a later message
\* before an earlier one, across restarts of the background task: unsubscribe
\* awaits the old task before it lets a new one start (lines 161-167).
OrderedDelivery ==
    Undisturbed =>
        \A c \in Clients : \A i, j \in 1..Len(received[c]) :
            i < j => received[c][i].n < received[c][j].n

\* Once disconnect has returned, no feed holds the client, although feeds come
\* and go between its snapshot of the keys and its unsubscribe calls
\* (lines 177-184).  When every client's disconnect has returned nothing is left
\* of them, in the registry or in what Redis was told, even if a subscribe failed halfway or
\* the background task was cancelled or failed inside its own unsubscribe, which
\* leaves an empty feed behind (lines 90-96, 144-153).
NothingLeftBehind ==
    /\ \A c \in Clients : conn[c] = "gone" => \A f \in Feeds : c \notin subscriptions[f]
    /\ (\A c \in Clients : conn[c] = "gone") => keys = {} /\ redis = {}

\* Every subscribe, unsubscribe and disconnect returns, although the holder of
\* the lock awaits a task that may itself be waiting for the lock (lines
\* 161-162); so does stop(), whatever the background task awaits when it is
\* cancelled (lines 90-96), its own unsubscribe of dead clients included.
CallsReturn ==
    /\ \A c \in Clients : pc[c] # "idle" ~> pc[c] = "idle"
    /\ pc[Server] = "stop_await" ~> pc[Server] = "stopped"

\* A message Redis has sent to an undisturbed service reaches each subscribed
\* client that stays subscribed (lines 274-281).
ChannelDelivery ==
    \A c \in Clients, ch \in Channels, k \in 1..MaxPublishes :
        (\E i \in 1..Len(inbox) : inbox[i] = [n |-> k, channel |-> ch])
            /\ c \in subscriptions[ch]
        ~> \/ c \notin subscriptions[ch] \/ ~Undisturbed
           \/ \E i \in 1..Len(received[c]) : received[c][i].n = k

\* "Single background task (_handle_pubsub) polls Redis" (line 37).
SingleBackgroundTask ==
    Cardinality({t \in Tasks : pc[t] \notin Done \cup {"new"}}) <= 1

=============================================================================
