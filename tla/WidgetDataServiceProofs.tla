----------------------- MODULE WidgetDataServiceProofs ----------------------
(***************************************************************************)
(* Proofs about WidgetDataService for any number of clients, tasks and     *)
(* feeds: the types, who is inside the critical section and that no feed   *)
(* stays subscribed which the registry has forgotten; then what clients    *)
(* that have left leave behind, that registry, Redis and background task   *)
(* agree, and the order of delivery; last, with the history of the stream, *)
(* that no message is lost and that the service implements Broadcast.      *)
(***************************************************************************)
EXTENDS WidgetDelivery, FiniteSetTheorems, TLAPS

(***************************************************************************)
(* Types.  TypeOK is not inductive alone: an action that reads a call or a *)
(* message needs to know that its program counter implies there is one.    *)
(***************************************************************************)
CallKnown ==
    \A a \in Actors : pc[a] \in {"sub_lock", "sub_redis", "unsub_redis"}
                        => call[a] \in Feeds \X Clients
MessageKnown == \A t \in Tasks : pc[t] = "send" => msg[t] \in Message

LinkType == redis \subseteq Feeds /\ live \subseteq Feeds /\ commands \in Seq(Command)

Types == TypeOK /\ CallKnown /\ MessageKnown

LEMMA InitTypes == Init => Types
BY ActorsAssumption, BoundsAssumption
DEF Init, Types, TypeOK, CallKnown, MessageKnown, Await, Done, Actors

USE ActorsAssumption DEF Types, TypeOK, CallKnown, MessageKnown, Actors, Await, Done,
    linkVars, registryVars, streamVars, fanoutVars, clientVars, callVars, LinkType

\* A command written, or an attempt that wrote none, keeps the types.
LEMMA SentTypes ==
    ASSUME Types, NEW f \in Feeds, NEW op \in {"subscribe", "unsubscribe"},
           Sent(op, f) \/ UNCHANGED linkVars
    PROVE  LinkType'
<1>1. CASE Sent(op, f)
  <2>1. <<op, f>> \in Command
    BY DEF Command
  <2>2. commands' \in Seq(Command)
    BY <1>1, <2>1 DEF Sent
  <2>3. QED
    BY <1>1, <2>2 DEF Sent
<1>2. CASE UNCHANGED linkVars
  BY <1>2
<1>3. QED
  BY <1>1, <1>2

LEMMA AcceptsTypes ==
    ASSUME Types, RedisAccepts
    PROVE  Types'
<1>1. Head(commands) \in Command /\ commands' \in Seq(Command)
  BY DEF RedisAccepts
<1>2. live' \subseteq Feeds
  BY <1>1 DEF RedisAccepts, Command
<1>3. QED
  BY <1>1, <1>2 DEF RedisAccepts

LEMMA CallTypes ==
    ASSUME Types, NEW c \in Clients,
           \/ \E f \in Feeds : Subscribe(c, f) \/ Unsubscribe(c, f)
           \/ Disconnect(c) \/ Close(c)
    PROVE  Types'
<1>1. ASSUME NEW f \in Feeds, Subscribe(c, f) PROVE Types'
  BY <1>1, BoundsAssumption DEF Subscribe
<1>2. ASSUME NEW f \in Feeds, Unsubscribe(c, f) PROVE Types'
  BY <1>2, BoundsAssumption DEF Unsubscribe
<1>3. CASE Disconnect(c)
  BY <1>3 DEF Disconnect
<1>4. CASE Close(c)
  BY <1>4 DEF Close
<1>5. QED
  BY <1>1, <1>2, <1>3, <1>4

LEMMA JoinTypes ==
    ASSUME Types, NEW c \in Clients, NEW f \in Feeds, JoinFeed(c, f),
           LinkType', failures' \in 0..MaxFailures
    PROVE  Types'
<1>1. CASE pubsubTask' = pubsubTask /\ pc' = [pc EXCEPT ![c] = "idle"]
  BY <1>1 DEF JoinFeed
<1>2. CASE \E t \in Tasks : pubsubTask' = t /\ pc' = [pc EXCEPT ![t] = "poll", ![c] = "idle"]
  <2>1. PICK t \in Tasks : pubsubTask' = t /\ pc' = [pc EXCEPT ![t] = "poll", ![c] = "idle"]
    BY <1>2
  <2>2. pc'[c] = "idle" /\ t # c
    BY <2>1
  <2>3. CallKnown' /\ MessageKnown'
    BY <2>1, <2>2 DEF JoinFeed
  <2>4. TypeOK'
    <3>1. pc' \in [Actors -> Await \cup Done \cup
                     {"idle", "new", "poll", "send", "stop_await", "stopped"}]
      BY <2>1
    <3>2. subscriptions' \in [Feeds -> SUBSET Clients]
      BY DEF JoinFeed
    <3>3. pubsubTask' \in Tasks /\ lock' = NoActor
      BY <2>1 DEF JoinFeed
    <3>4. QED
      BY <3>1, <3>2, <3>3 DEF JoinFeed
  <2>5. QED
    BY <2>3, <2>4
<1>3. QED
  BY <1>1, <1>2 DEF JoinFeed

LEMMA SubscribeTypes ==
    ASSUME Types, NEW c \in Clients,
           SubscribeKnown(c) \/ SubscribeNew(c) \/ SubscribeRedis(c) \/ SubscribeFails(c)
    PROVE  Types'
<1> call[c][1] \in Feeds
  BY DEF SubscribeKnown, SubscribeNew, SubscribeRedis, SubscribeFails
<1>1. CASE SubscribeKnown(c)
  BY <1>1, JoinTypes DEF SubscribeKnown
<1>2. CASE SubscribeNew(c)
  BY <1>2 DEF SubscribeNew
<1>3. CASE SubscribeRedis(c)
  <2>1. LinkType'
    BY <1>3, SentTypes DEF SubscribeRedis
  <2>2. failures' \in 0..MaxFailures
    BY <1>3 DEF SubscribeRedis
  <2>3. QED
    BY <1>3, <2>1, <2>2, JoinTypes DEF SubscribeRedis
<1>4. CASE SubscribeFails(c)
  <2>1. LinkType'
    BY <1>4, SentTypes DEF SubscribeFails
  <2>2. QED
    BY <1>4, <2>1, BoundsAssumption DEF SubscribeFails
<1>5. QED
  BY <1>1, <1>2, <1>3, <1>4

\* What the helpers do to the two variables they all write.
ConnType == conn \in [Clients -> {"open", "closed", "leaving", "gone", "aborted"}]

LEMMA ReturnTypes ==
    ASSUME Types, NEW a \in Actors, NEW left, Return(a, left)
    PROVE  /\ \E p \in {"poll", "idle", "unsub_lock"} : pc' = [pc EXCEPT ![a] = p]
           /\ ConnType'
<1>1. Left(a, "gone") \in [Clients -> {"open", "closed", "leaving", "gone", "aborted"}]
  BY DEF Left
<1>2. CASE left = {}
  BY <1>1, <1>2 DEF Return, Resume, ConnType
<1>3. CASE left # {}
  BY <1>3 DEF Return, ConnType
<1>4. QED
  BY <1>2, <1>3

LEMMA RaiseTypes ==
    ASSUME Types, NEW a \in Actors, Raise(a)
    PROVE  /\ \E p \in {"error", "idle"} : pc' = [pc EXCEPT ![a] = p]
           /\ todo' = [todo EXCEPT ![a] = {}]
           /\ ConnType'
<1>1. Left(a, "aborted") \in [Clients -> {"open", "closed", "leaving", "gone", "aborted"}]
  BY DEF Left
<1>2. QED
  BY <1>1 DEF Raise, ConnType

LEMMA StopPollerTypes ==
    ASSUME Types, NEW a \in Actors, StopPoller(a), pubsubTask # NoTask
    PROVE  /\ \E p \in {"unsub_self", "unsub_await"} : pc' = [pc EXCEPT ![a] = p]
           /\ ConnType' /\ lock' = a
           /\ cancelReq' \subseteq Tasks
           /\ awaiting' \in [Actors -> Tasks \cup {NoTask}]
BY DEF StopPoller, ConnType

\* Any step that moves one program counter to a place where no call and no
\* message is read, and keeps the other variables within their types.
LEMMA MoveTypes ==
    ASSUME Types, NEW a \in Actors,
           NEW p \in {"poll", "idle", "unsub_lock", "error", "runtime", "cancelled",
                      "unsub_self", "unsub_await", "stop_await", "stopped"},
           pc' = [pc EXCEPT ![a] = p],
           UNCHANGED <<inbox, published, received, msg, calls>>,
           keys' \subseteq Feeds, subscriptions' \in [Feeds -> SUBSET Clients],
           pubsubTask' \in Tasks \cup {NoTask}, lock' \in Actors \cup {NoActor},
           LinkType',
           todo' \in [Actors -> SUBSET (Feeds \X Clients)],
           call' = call \/ \E u \in Feeds \X Clients : call' = [call EXCEPT ![a] = u],
           awaiting' \in [Actors -> Tasks \cup {NoTask}], cancelReq' \subseteq Tasks,
           batch' \in [Tasks -> SUBSET Clients], ConnType', failures' \in 0..MaxFailures
    PROVE  Types'
<1>1. CallKnown'
  <2>1. CASE call' = call
    BY <2>1
  <2>2. CASE \E u \in Feeds \X Clients : call' = [call EXCEPT ![a] = u]
    BY <2>2
  <2>3. QED
    BY <2>1, <2>2
<1>2. call' \in [Actors -> (Feeds \X Clients) \cup {<<>>}]
  <2>1. CASE call' = call
    BY <2>1
  <2>2. CASE \E u \in Feeds \X Clients : call' = [call EXCEPT ![a] = u]
    BY <2>2
  <2>3. QED
    BY <2>1, <2>2
<1>3. MessageKnown'
  OBVIOUS
<1>4. TypeOK'
  BY <1>2 DEF ConnType
<1>5. QED
  BY <1>1, <1>3, <1>4

LEMMA DisconnectSnapshotTypes ==
    ASSUME Types, NEW c \in Clients, DisconnectSnapshot(c)
    PROVE  Types'
<1>1. todo' \in [Actors -> SUBSET (Feeds \X Clients)]
  BY DEF DisconnectSnapshot
<1>2. PICK p \in {"poll", "idle", "unsub_lock"} : pc' = [pc EXCEPT ![c] = p]
  BY ReturnTypes DEF DisconnectSnapshot
<1>3. ConnType'
  BY ReturnTypes DEF DisconnectSnapshot
<1>4. QED
  BY <1>1, <1>2, <1>3, MoveTypes DEF DisconnectSnapshot

LEMMA UnsubscribeEnterTypes ==
    ASSUME Types, NEW a \in Actors, UnsubscribeEnter(a)
    PROVE  Types'
<1>1. PICK u \in todo[a] :
        /\ todo' = [todo EXCEPT ![a] = @ \ {u}]
        /\ call' = [call EXCEPT ![a] = u]
        /\ UnsubscribeUnknown(a, u[1]) \/ UnsubscribeOne(a, u[1], u[2])
             \/ UnsubscribeLast(a, u[1], u[2])
  BY DEF UnsubscribeEnter
<1>2. u \in Feeds \X Clients /\ todo' \in [Actors -> SUBSET (Feeds \X Clients)]
  BY <1>1
<1>3. /\ \E w \in Feeds \X Clients : call' = [call EXCEPT ![a] = w]
      /\ UNCHANGED <<keys, pubsubTask, linkVars, inbox, published, received,
                     msg, batch, calls, failures>>
  BY <1>1, <1>2 DEF UnsubscribeEnter
<1>4. CASE UnsubscribeUnknown(a, u[1])
  <2>1. CASE StopPoller(a) /\ pubsubTask # NoTask
    <3>1. PICK p \in {"unsub_self", "unsub_await"} : pc' = [pc EXCEPT ![a] = p]
      BY <2>1, StopPollerTypes
    <3>2. ConnType' /\ lock' = a /\ cancelReq' \subseteq Tasks
            /\ awaiting' \in [Actors -> Tasks \cup {NoTask}]
      BY <2>1, StopPollerTypes
    <3>3. QED
      BY <1>2, <1>3, <1>4, <3>1, <3>2, MoveTypes DEF UnsubscribeUnknown
  <2>2. CASE Return(a, todo'[a]) /\ UNCHANGED <<lock, cancelReq, awaiting>>
    <3>1. PICK p \in {"poll", "idle", "unsub_lock"} : pc' = [pc EXCEPT ![a] = p]
      BY <2>2, ReturnTypes
    <3>2. ConnType'
      BY <2>2, ReturnTypes
    <3>3. QED
      BY <1>2, <1>3, <1>4, <2>2, <3>1, <3>2, MoveTypes DEF UnsubscribeUnknown
  <2>3. QED
    BY <1>4, <2>1, <2>2 DEF UnsubscribeUnknown
<1>5. CASE UnsubscribeOne(a, u[1], u[2])
  <2>1. PICK p \in {"poll", "idle", "unsub_lock"} : pc' = [pc EXCEPT ![a] = p]
    BY <1>5, ReturnTypes DEF UnsubscribeOne
  <2>2. ConnType'
    BY <1>5, ReturnTypes DEF UnsubscribeOne
  <2>3. subscriptions' \in [Feeds -> SUBSET Clients]
    BY <1>5 DEF UnsubscribeOne
  <2>4. QED
    BY <1>2, <1>3, <1>5, <2>1, <2>2, <2>3, MoveTypes DEF UnsubscribeOne
<1>6. CASE UnsubscribeLast(a, u[1], u[2])
  BY <1>1, <1>2, <1>3, <1>6 DEF UnsubscribeLast
<1>7. QED
  BY <1>1, <1>4, <1>5, <1>6

LEMMA UnsubscribeRedisTypes ==
    ASSUME Types, NEW a \in Actors, UnsubscribeRedis(a)
    PROVE  Types'
<1>0. call[a][1] \in Feeds /\ LinkType'
  BY SentTypes DEF UnsubscribeRedis
<1>1. CASE StopPoller(a) /\ pubsubTask # NoTask
  <2>1. PICK p \in {"unsub_self", "unsub_await"} : pc' = [pc EXCEPT ![a] = p]
    BY <1>1, StopPollerTypes
  <2>2. ConnType' /\ lock' = a /\ cancelReq' \subseteq Tasks
          /\ awaiting' \in [Actors -> Tasks \cup {NoTask}]
    BY <1>1, StopPollerTypes
  <2>3. QED
    BY <1>0, <2>1, <2>2, MoveTypes DEF UnsubscribeRedis
<1>2. CASE Return(a, todo[a]) /\ lock' = NoActor /\ UNCHANGED <<cancelReq, awaiting>>
  <2>1. PICK p \in {"poll", "idle", "unsub_lock"} : pc' = [pc EXCEPT ![a] = p]
    BY <1>2, ReturnTypes
  <2>2. ConnType'
    BY <1>2, ReturnTypes
  <2>3. QED
    BY <1>0, <1>2, <2>1, <2>2, MoveTypes DEF UnsubscribeRedis
<1>3. QED
  BY <1>1, <1>2 DEF UnsubscribeRedis

LEMMA UnsubscribeFailsTypes ==
    ASSUME Types, NEW a \in Actors, UnsubscribeFails(a)
    PROVE  Types'
<1>1. PICK p \in {"error", "idle"} : pc' = [pc EXCEPT ![a] = p]
  BY RaiseTypes DEF UnsubscribeFails
<1>2. ConnType' /\ todo' = [todo EXCEPT ![a] = {}]
  BY RaiseTypes DEF UnsubscribeFails
<1>3. LinkType' /\ failures' \in 0..MaxFailures
  BY SentTypes, BoundsAssumption DEF UnsubscribeFails
<1>4. QED
  BY <1>1, <1>2, <1>3, MoveTypes DEF UnsubscribeFails

LEMMA UnsubscribeAwaitedTypes ==
    ASSUME Types, NEW a \in Actors, UnsubscribeAwaited(a)
    PROVE  Types'
<1>1. CASE Raise(a) /\ UNCHANGED pubsubTask
  <2>1. PICK p \in {"error", "idle"} : pc' = [pc EXCEPT ![a] = p]
    BY <1>1, RaiseTypes
  <2>2. ConnType' /\ todo' = [todo EXCEPT ![a] = {}]
    BY <1>1, RaiseTypes
  <2>3. QED
    BY <1>1, <2>1, <2>2, MoveTypes DEF UnsubscribeAwaited
<1>2. CASE Return(a, todo[a]) /\ pubsubTask' = NoTask /\ UNCHANGED todo
  <2>1. PICK p \in {"poll", "idle", "unsub_lock"} : pc' = [pc EXCEPT ![a] = p]
    BY <1>2, ReturnTypes
  <2>2. ConnType'
    BY <1>2, ReturnTypes
  <2>3. QED
    BY <1>2, <2>1, <2>2, MoveTypes DEF UnsubscribeAwaited
<1>3. QED
  BY <1>1, <1>2 DEF UnsubscribeAwaited

LEMMA UnsubscribeSelfTypes ==
    ASSUME Types, NEW t \in Tasks, UnsubscribeSelf(t)
    PROVE  Types'
<1>1. PICK p \in {"poll", "idle", "unsub_lock"} : pc' = [pc EXCEPT ![t] = p]
  BY ReturnTypes DEF UnsubscribeSelf
<1>2. ConnType'
  BY ReturnTypes DEF UnsubscribeSelf
<1>3. QED
  BY <1>1, <1>2, MoveTypes DEF UnsubscribeSelf

LEMMA PollTypes ==
    ASSUME Types, NEW t \in Tasks, PollMessage(t)
    PROVE  Types'
<1>1. Head(inbox) \in Message /\ inbox' \in Seq(Message)
  BY DEF PollMessage
<1>2. CASE UNCHANGED <<msg, batch, pc>>
  BY <1>1, <1>2 DEF PollMessage
<1>3. CASE /\ msg' = [msg EXCEPT ![t] = Head(inbox)]
           /\ batch' = [batch EXCEPT ![t] = subscriptions[Head(inbox).channel]]
           /\ pc' = [pc EXCEPT ![t] = "send"]
  <2>1. Head(inbox).channel \in Feeds
    BY <1>1 DEF Message, Feeds
  <2>2. batch' \in [Tasks -> SUBSET Clients]
    BY <1>3, <2>1
  <2>3. QED
    BY <1>1, <1>3, <2>2 DEF PollMessage
<1>4. QED
  BY <1>2, <1>3 DEF PollMessage

LEMMA PollRaisesTypes ==
    ASSUME Types, NEW t \in Tasks, PollRaises(t)
    PROVE  Types'
<1>1. CASE failures < MaxFailures /\ failures' = failures + 1 /\ pc' = [pc EXCEPT ![t] = "error"]
  <2>1. failures' \in 0..MaxFailures
    BY <1>1, BoundsAssumption
  <2>2. QED
    BY <1>1, <2>1, MoveTypes DEF PollRaises, ConnType
<1>2. CASE pc' = [pc EXCEPT ![t] = "runtime"] /\ UNCHANGED failures
  BY <1>2, MoveTypes DEF PollRaises, ConnType
<1>3. QED
  BY <1>1, <1>2 DEF PollRaises

LEMMA SendTypes ==
    ASSUME Types, NEW t \in Tasks, Send(t)
    PROVE  Types'
<1>1. msg[t] \in Message /\ msg[t].channel \in Feeds
  BY DEF Send, Message, Feeds
<1>2. PICK w \in batch[t] :
        /\ batch' = [batch EXCEPT ![t] = @ \ {w}]
        /\ received' = received \/ received' = [received EXCEPT ![w] = Append(@, msg[t])]
        /\ todo' = [todo EXCEPT ![t] = @ \cup IF conn[w] = "open" THEN {}
                                              ELSE {<<msg[t].channel, w>>}]
        /\ \E p \in {"send", "unsub_lock", "poll"} : pc' = [pc EXCEPT ![t] = p]
  BY DEF Send
<1>3. w \in Clients /\ batch' \in [Tasks -> SUBSET Clients]
  BY <1>2
<1>4. received' \in [Clients -> Seq(Message)]
  <2>1. Append(received[w], msg[t]) \in Seq(Message)
    BY <1>1, <1>3
  <2>2. CASE received' = received
    BY <2>2
  <2>3. CASE received' = [received EXCEPT ![w] = Append(@, msg[t])]
    BY <1>3, <2>1, <2>3
  <2>4. QED
    BY <1>2, <2>2, <2>3
<1>5. todo' \in [Actors -> SUBSET (Feeds \X Clients)]
  BY <1>1, <1>2, <1>3
<1>6. QED
  BY <1>1, <1>2, <1>3, <1>4, <1>5 DEF Send

LEMMA CancelledTypes ==
    ASSUME Types, NEW t \in Tasks, Cancelled(t)
    PROVE  Types'
<1>1. LinkType'
  BY SentTypes DEF Cancelled
<1>2. QED
  BY <1>1, MoveTypes DEF Cancelled, ConnType

LEMMA ServerTypes ==
    ASSUME Types, Stop \/ StopAwaited
    PROVE  Types'
<1>1. CASE Stop
  BY <1>1, BoundsAssumption DEF Stop
<1>2. CASE StopAwaited
  BY <1>2 DEF StopAwaited
<1>3. QED
  BY <1>1, <1>2

\* A number of copies of one message is a sequence of messages.
LEMMA CopiesAreSequence ==
    ASSUME NEW S, NEW x \in S, NEW n \in Nat
    PROVE  [i \in 1..n |-> x] \in Seq(S)
OBVIOUS

\* The number of feeds a channel's message is sent for is finite because the
\* feeds are.
LEMMA PublishTypes ==
    ASSUME Types, NEW ch \in Channels, Publish(ch)
    PROVE  Types'
<1>1. IsFiniteSet(Matching(ch))
  BY BoundsAssumption, FS_Subset DEF Matching
<1>2. Cardinality(Matching(ch)) \in Nat
  BY <1>1, FS_CardinalityType
<1>3. published + 1 \in 1..MaxPublishes /\ published' \in 0..MaxPublishes
  BY BoundsAssumption DEF Publish
<1>4. [n |-> published + 1, channel |-> ch] \in Message
  BY <1>3 DEF Message
<1>5. [i \in 1..Cardinality(Matching(ch)) |-> [n |-> published + 1, channel |-> ch]]
        \in Seq(Message)
  BY <1>2, <1>4, CopiesAreSequence
<1>6. inbox' \in Seq(Message)
  BY <1>5 DEF Publish
<1>7. QED
  BY <1>3, <1>6 DEF Publish

LEMMA NextTypes == Types /\ [Next]_vars => Types'
<1> SUFFICES ASSUME Types, [Next]_vars PROVE Types'
  OBVIOUS
<1>1. ASSUME NEW a \in Actors, Enter(a) PROVE Types'
  BY <1>1, SubscribeTypes, DisconnectSnapshotTypes, UnsubscribeEnterTypes DEF Enter
<1>2. ASSUME NEW a \in Actors, Proceed(a) PROVE Types'
  BY <1>2, SubscribeTypes, UnsubscribeRedisTypes, UnsubscribeFailsTypes,
     UnsubscribeAwaitedTypes, UnsubscribeSelfTypes, PollTypes, PollRaisesTypes,
     SendTypes, CancelledTypes, ServerTypes DEF Proceed
<1>3. CASE Environment
  BY <1>3, CallTypes, PublishTypes, AcceptsTypes, ServerTypes DEF Environment
<1>4. CASE UNCHANGED vars
  BY <1>4 DEF vars
<1>5. QED
  BY <1>1, <1>2, <1>3, <1>4 DEF Next

\* Every variable keeps its type, for any clients, tasks and feeds.
THEOREM TypeCorrect == Spec => []TypeOK
<1>1. Types => TypeOK
  OBVIOUS
<1>2. Spec => []Types
  BY InitTypes, NextTypes, PTL DEF Spec
<1>3. QED
  BY <1>1, <1>2, PTL

(***************************************************************************)
(* The critical section.  An actor that awaits Redis or another task does  *)
(* so with the lock held, hence at most one of them is in mid-command.     *)
(* RedisSubscriptionTracked is not inductive alone: the subscribe command  *)
(* that is about to take effect must be for a feed that nobody can have    *)
(* deleted meanwhile.                                                      *)
(***************************************************************************)
Critical == {"sub_redis", "unsub_redis", "unsub_await", "unsub_self"}
LockHeld == \A a \in Actors : pc[a] \in Critical => lock = a
SubscribingRegistered ==
    \A a \in Actors : pc[a] = "sub_redis" => call[a][1] \in keys

Registry == LockHeld /\ SubscribingRegistered /\ RedisSubscriptionTracked

USE DEF Critical, LockHeld, SubscribingRegistered, RedisSubscriptionTracked, Registry, Sent

\* A step after which one actor, outside any subscribe command, may be in the
\* critical section only as the holder of the lock.
LEMMA MoveRegistry ==
    ASSUME Types, Registry, NEW a \in Actors,
           NEW p \in {"poll", "idle", "send", "unsub_lock", "error", "runtime", "cancelled",
                      "sub_lock", "disc_lock", "stop_await", "stopped",
                      "unsub_self", "unsub_await", "unsub_redis"},
           pc' = [pc EXCEPT ![a] = p],
           \/ lock' = lock /\ p \notin Critical
           \/ lock' = a /\ lock \in {a, NoActor}
           \/ lock' = NoActor /\ lock = a /\ p \notin Critical,
           \A b \in Actors \ {a} : call'[b] = call[b],
           \/ keys' = keys /\ redis' \subseteq redis
           \/ /\ pc[a] = "unsub_redis"
              /\ keys' = keys \ {call[a][1]} /\ redis' = redis \ {call[a][1]}
    PROVE  Registry'
<1>1. LockHeld'
  OBVIOUS
<1>2. \A b \in Actors \ {a} : pc[b] = "sub_redis" => keys' = keys
  BY DEF Critical
<1>3. SubscribingRegistered'
  BY <1>2
<1>4. RedisSubscriptionTracked'
  OBVIOUS
<1>5. QED
  BY <1>1, <1>3, <1>4

LEMMA InitRegistry == Init => Registry
BY DEF Init

LEMMA CallRegistry ==
    ASSUME Types, Registry, NEW c \in Clients,
           \/ \E f \in Feeds : Subscribe(c, f) \/ Unsubscribe(c, f)
           \/ Disconnect(c) \/ Close(c)
    PROVE  Registry'
<1>1. ASSUME NEW f \in Feeds, Subscribe(c, f) PROVE Registry'
  BY <1>1, MoveRegistry DEF Subscribe
<1>2. ASSUME NEW f \in Feeds, Unsubscribe(c, f) PROVE Registry'
  BY <1>2, MoveRegistry DEF Unsubscribe
<1>3. CASE Disconnect(c)
  BY <1>3, MoveRegistry DEF Disconnect
<1>4. CASE Close(c)
  BY <1>4 DEF Close
<1>5. QED
  BY <1>1, <1>2, <1>3, <1>4

\* The join step starts a task only from "new", so nobody enters the critical
\* section by it, and the client leaves it.
LEMMA JoinRegistry ==
    ASSUME Types, Registry, NEW c \in Clients, NEW f \in keys, JoinFeed(c, f),
           (pc[c] = "sub_lock" /\ lock = NoActor) \/ pc[c] = "sub_redis",
           redis' \subseteq redis \cup {f}
    PROVE  Registry'
<1>1. keys' = keys /\ call' = call /\ lock' = NoActor
  BY DEF JoinFeed
<1>2. \A a \in Actors : pc'[a] \in Critical => pc'[a] = pc[a] /\ a # c
  <2>1. CASE pc' = [pc EXCEPT ![c] = "idle"]
    BY <2>1
  <2>2. CASE \E t \in Tasks : pc' = [pc EXCEPT ![t] = "poll", ![c] = "idle"]
    BY <2>2
  <2>3. QED
    BY <2>1, <2>2 DEF JoinFeed
<1>3. \A a \in Actors : pc'[a] \notin Critical
  BY <1>2
<1>4. QED
  BY <1>1, <1>3

LEMMA SubscribeRegistry ==
    ASSUME Types, Registry, NEW c \in Clients,
           SubscribeKnown(c) \/ SubscribeNew(c) \/ SubscribeRedis(c) \/ SubscribeFails(c)
    PROVE  Registry'
<1>1. CASE SubscribeKnown(c)
  BY <1>1, JoinRegistry DEF SubscribeKnown
<1>2. CASE SubscribeNew(c)
  BY <1>2 DEF SubscribeNew
<1>3. CASE SubscribeRedis(c)
  BY <1>3, JoinRegistry DEF SubscribeRedis
<1>4. CASE SubscribeFails(c)
  <2>1. \A a \in Actors : pc'[a] \notin Critical
    BY <1>4 DEF SubscribeFails
  <2>2. redis' \subseteq keys'
    BY <1>4 DEF SubscribeFails
  <2>3. QED
    BY <2>1, <2>2
<1>5. QED
  BY <1>1, <1>2, <1>3, <1>4

LEMMA DisconnectSnapshotRegistry ==
    ASSUME Types, Registry, NEW c \in Clients, DisconnectSnapshot(c)
    PROVE  Registry'
<1>1. PICK p \in {"poll", "idle", "unsub_lock"} : pc' = [pc EXCEPT ![c] = p]
  BY ReturnTypes DEF DisconnectSnapshot
<1>2. QED
  BY <1>1, MoveRegistry DEF DisconnectSnapshot

LEMMA UnsubscribeEnterRegistry ==
    ASSUME Types, Registry, NEW a \in Actors, UnsubscribeEnter(a)
    PROVE  Registry'
<1>1. PICK u \in todo[a] :
        /\ call' = [call EXCEPT ![a] = u]
        /\ UnsubscribeUnknown(a, u[1]) \/ UnsubscribeOne(a, u[1], u[2])
             \/ UnsubscribeLast(a, u[1], u[2])
  BY DEF UnsubscribeEnter
<1>2. lock = NoActor /\ keys' = keys /\ redis' = redis
  BY DEF UnsubscribeEnter
<1>3. \/ lock' = lock /\ \E p \in {"poll", "idle", "unsub_lock"} : pc' = [pc EXCEPT ![a] = p]
      \/ lock' = a /\ \E p \in {"unsub_self", "unsub_await", "unsub_redis"} :
                        pc' = [pc EXCEPT ![a] = p]
  <2>1. CASE UnsubscribeUnknown(a, u[1])
    BY <2>1, ReturnTypes, StopPollerTypes DEF UnsubscribeUnknown
  <2>2. CASE UnsubscribeOne(a, u[1], u[2])
    BY <2>2, ReturnTypes DEF UnsubscribeOne
  <2>3. CASE UnsubscribeLast(a, u[1], u[2])
    BY <2>3 DEF UnsubscribeLast
  <2>4. QED
    BY <1>1, <2>1, <2>2, <2>3
<1>4. QED
  BY <1>1, <1>2, <1>3, MoveRegistry

LEMMA UnsubscribeRedisRegistry ==
    ASSUME Types, Registry, NEW a \in Actors, UnsubscribeRedis(a)
    PROVE  Registry'
<1>1. lock = a /\ call' = call /\ pc[a] = "unsub_redis"
        /\ keys' = keys \ {call[a][1]} /\ redis' = redis \ {call[a][1]}
  BY DEF UnsubscribeRedis
<1>2. \/ lock' = NoActor /\ \E p \in {"poll", "idle", "unsub_lock"} : pc' = [pc EXCEPT ![a] = p]
      \/ lock' = a /\ \E p \in {"unsub_self", "unsub_await"} : pc' = [pc EXCEPT ![a] = p]
  BY ReturnTypes, StopPollerTypes DEF UnsubscribeRedis
<1>3. QED
  BY <1>1, <1>2, MoveRegistry

LEMMA UnsubscribeEndRegistry ==
    ASSUME Types, Registry, NEW a \in Actors, UnsubscribeFails(a) \/ UnsubscribeAwaited(a)
    PROVE  Registry'
<1>1. /\ lock = a /\ lock' = NoActor /\ call' = call /\ keys' = keys
      /\ redis' \subseteq redis
  BY DEF UnsubscribeFails, UnsubscribeAwaited
<1>2. \E p \in {"poll", "idle", "unsub_lock", "error"} : pc' = [pc EXCEPT ![a] = p]
  BY ReturnTypes, RaiseTypes DEF UnsubscribeFails, UnsubscribeAwaited
<1>3. QED
  BY <1>1, <1>2, MoveRegistry

LEMMA PollerRegistry ==
    ASSUME Types, Registry, NEW t \in Tasks,
           UnsubscribeSelf(t) \/ PollMessage(t) \/ PollRaises(t) \/ Send(t) \/ Cancelled(t)
    PROVE  Registry'
<1>1. CASE UnsubscribeSelf(t)
  <2>1. PICK p \in {"poll", "idle", "unsub_lock"} : pc' = [pc EXCEPT ![t] = p]
    BY <1>1, ReturnTypes DEF UnsubscribeSelf
  <2>2. QED
    BY <1>1, <2>1, MoveRegistry DEF UnsubscribeSelf
<1>2. CASE PollMessage(t)
  BY <1>2, MoveRegistry DEF PollMessage
<1>3. CASE PollRaises(t)
  BY <1>3, MoveRegistry DEF PollRaises
<1>4. CASE Send(t)
  <2>1. PICK p \in {"send", "unsub_lock", "poll"} : pc' = [pc EXCEPT ![t] = p]
    BY <1>4 DEF Send
  <2>2. QED
    BY <1>4, <2>1, MoveRegistry DEF Send
<1>5. CASE Cancelled(t)
  <2>1. /\ pc' = [pc EXCEPT ![t] = "cancelled"] /\ call' = call
        /\ keys' = keys /\ redis' \subseteq redis
        /\ lock' = lock \/ (lock' = NoActor /\ lock = t)
    BY <1>5 DEF Cancelled
  <2>2. QED
    BY <2>1, MoveRegistry
<1>6. QED
  BY <1>1, <1>2, <1>3, <1>4, <1>5

LEMMA ServerRegistry ==
    ASSUME Types, Registry,
           Stop \/ StopAwaited \/ RedisAccepts \/ \E ch \in Channels : Publish(ch)
    PROVE  Registry'
<1>1. CASE Stop
  BY <1>1, MoveRegistry DEF Stop
<1>2. CASE StopAwaited
  BY <1>2, MoveRegistry DEF StopAwaited
<1>3. CASE RedisAccepts \/ \E ch \in Channels : Publish(ch)
  BY <1>3 DEF RedisAccepts, Publish
<1>4. QED
  BY <1>1, <1>2, <1>3

LEMMA NextRegistry == Types /\ Registry /\ [Next]_vars => Registry'
<1> SUFFICES ASSUME Types, Registry, [Next]_vars PROVE Registry'
  OBVIOUS
<1>1. ASSUME NEW a \in Actors, Enter(a) PROVE Registry'
  BY <1>1, SubscribeRegistry, DisconnectSnapshotRegistry, UnsubscribeEnterRegistry DEF Enter
<1>2. ASSUME NEW a \in Actors, Proceed(a) PROVE Registry'
  BY <1>2, SubscribeRegistry, UnsubscribeRedisRegistry, UnsubscribeEndRegistry,
     PollerRegistry, ServerRegistry DEF Proceed
<1>3. CASE Environment
  BY <1>3, CallRegistry, ServerRegistry DEF Environment
<1>4. CASE UNCHANGED vars
  BY <1>4 DEF vars
<1>5. QED
  BY <1>1, <1>2, <1>3, <1>4 DEF Next

\* Whatever command fails, whoever is cancelled or races, the commands sent leave
\* only feeds subscribed in Redis that the registry knows.
THEOREM SubscriptionsTracked == Spec => []RedisSubscriptionTracked
<1>1. Spec => []Types
  BY InitTypes, NextTypes, PTL DEF Spec
<1>2. Spec => []Registry
  BY <1>1, InitRegistry, NextRegistry, PTL DEF Spec
<1>3. Registry => RedisSubscriptionTracked
  OBVIOUS
<1>4. QED
  BY <1>2, <1>3, PTL

\* At most one coroutine is between two awaits of the critical section.
MutualExclusion ==
    \A a, b \in Actors : pc[a] \in Critical /\ pc[b] \in Critical => a = b

\* The lock of subscribe, unsubscribe and disconnect excludes, although stop()
\* cancels the background task without it and the task may cancel itself.
THEOREM LockExcludes == Spec => []MutualExclusion
<1>1. Spec => []Types
  BY InitTypes, NextTypes, PTL DEF Spec
<1>2. Spec => []Registry
  BY <1>1, InitRegistry, NextRegistry, PTL DEF Spec
<1>3. Registry => MutualExclusion
  BY DEF MutualExclusion
<1>4. QED
  BY <1>2, <1>3, PTL

HIDE DEF Types, TypeOK, CallKnown, MessageKnown, Await, Done, registryVars, streamVars,
    fanoutVars, clientVars, callVars, Critical, LockHeld, SubscribingRegistered,
    RedisSubscriptionTracked, Registry, LinkType

(***************************************************************************)
(* Departures.  A client that is leaving has, for every feed that holds    *)
(* it, a call left to make; and every feed of the registry is owed an      *)
(* unsubscribe by somebody: by a client that has not copied the keys yet,  *)
(* by one whose copy contains it, by the one that is removing it, or by    *)
(* one whose disconnect was broken off.  Who removes itself from a feed    *)
(* that others hold leaves the debt to them.                               *)
(***************************************************************************)
Owes(c, f) ==
    \/ conn[c] \in {"open", "closed", "aborted"}
    \/ /\ conn[c] = "leaving"
       /\ \/ pc[c] = "disc_lock" \/ <<f, c>> \in todo[c]
          \/ pc[c] = "unsub_redis" /\ call[c][1] = f

OwnCalls == \A c \in Clients : todo[c] \subseteq Feeds \X {c}
Emptied ==
    /\ \A f \in Feeds \ keys : subscriptions[f] = {}
    /\ \A a \in Actors : pc[a] = "unsub_redis" => subscriptions[call[a][1]] = {}
LeavePlaces == {"disc_lock", "unsub_lock", "unsub_redis", "unsub_await"}
Departing ==
    \A c \in Clients :
        /\ conn[c] = "leaving" =>
             /\ pc[c] \in LeavePlaces
             /\ pc[c] # "disc_lock" =>
                  \A f \in Feeds : c \in subscriptions[f] => <<f, c>> \in todo[c]
        /\ conn[c] = "gone" => pc[c] = "idle" /\ \A f \in Feeds : c \notin subscriptions[f]
Owed == \A f \in keys : \E c \in Clients : Owes(c, f)
Leave == OwnCalls /\ Emptied /\ Departing /\ Owed

LEMMA InitLeave == Init => Leave
BY ActorsAssumption
   DEF Init, Leave, OwnCalls, Emptied, Departing, Owed, Actors

\* Whoever a feed holds owes it an unsubscribe.
LEMMA HoldersOwe ==
    ASSUME Types, Departing, NEW c \in Clients, NEW f \in Feeds, c \in subscriptions[f]
    PROVE  Owes(c, f)
<1>1. conn[c] \in {"open", "closed", "leaving", "gone", "aborted"}
  BY DEF Types, TypeOK
<1>2. QED
  BY <1>1 DEF Owes, Departing

\* A step of one actor that adds no feed and no subscriber.
LEMMA LeaveKept ==
    ASSUME Types, Leave, NEW a \in Actors,
           \A b \in Actors \ {a} : pc'[b] = pc[b] /\ todo'[b] = todo[b] /\ call'[b] = call[b],
           \A c \in Clients \ {a} : conn'[c] = conn[c],
           keys' \subseteq keys, \A f \in Feeds : subscriptions'[f] \subseteq subscriptions[f],
           Emptied',
           a \in Clients =>
             /\ todo'[a] \subseteq Feeds \X {a}
             /\ conn'[a] = "leaving" =>
                  /\ pc'[a] \in LeavePlaces
                  /\ pc'[a] # "disc_lock" =>
                       \A f \in Feeds : a \in subscriptions'[f] => <<f, a>> \in todo'[a]
             /\ conn'[a] = "gone" =>
                  pc'[a] = "idle" /\ \A f \in Feeds : a \notin subscriptions'[f]
             /\ \A f \in keys' : Owes(a, f) =>
                  Owes(a, f)' \/ \E c \in Clients \ {a} : c \in subscriptions'[f]
    PROVE  Leave'
<1>1. Clients \subseteq Actors /\ keys \subseteq Feeds
  BY DEF Actors, Types, TypeOK
<1>2. \A c \in Clients \ {a}, f \in Feeds : Owes(c, f) => Owes(c, f)'
  BY <1>1 DEF Owes
<1>3. OwnCalls'
  BY <1>1 DEF Leave, OwnCalls
<1>4. Departing'
  <2>1. ASSUME NEW c \in Clients, c # a
        PROVE  /\ conn'[c] = "leaving" =>
                    /\ pc'[c] \in LeavePlaces
                    /\ pc'[c] # "disc_lock" =>
                         \A f \in Feeds : c \in subscriptions'[f] => <<f, c>> \in todo'[c]
               /\ conn'[c] = "gone" =>
                    pc'[c] = "idle" /\ \A f \in Feeds : c \notin subscriptions'[f]
    <3>1. pc'[c] = pc[c] /\ todo'[c] = todo[c] /\ conn'[c] = conn[c]
      BY <1>1, <2>1
    <3>2. QED
      BY <3>1 DEF Leave, Departing
  <2>2. QED
    BY <2>1 DEF Departing
<1>5. Owed'
  <2>1. ASSUME NEW f \in keys' PROVE \E c \in Clients : Owes(c, f)'
    <3>1. f \in keys /\ f \in Feeds
      BY <1>1
    <3>2. PICK c \in Clients : Owes(c, f)
      BY <3>1 DEF Leave, Owed
    <3>3. CASE c # a
      BY <1>2, <3>1, <3>2, <3>3
    <3>4. CASE c = a /\ ~Owes(a, f)'
      <4>1. PICK h \in Clients \ {a} : h \in subscriptions'[f]
        BY <3>2, <3>4
      <4>2. Owes(h, f)
        BY <3>1, <4>1, HoldersOwe DEF Leave
      <4>3. QED
        BY <1>2, <3>1, <4>2
    <3>5. QED
      BY <3>2, <3>3, <3>4
  <2>2. QED
    BY <2>1 DEF Owed
<1>6. QED
  BY <1>3, <1>4, <1>5 DEF Leave

\* What the ends of an unsubscribe call do to the program counters and the
\* connections.
LEMMA ReturnShape ==
    ASSUME Types, NEW a \in Actors, NEW left, Return(a, left)
    PROVE  /\ \A b \in Actors \ {a} : pc'[b] = pc[b]
           /\ pc'[a] = IF left = {} THEN Resume(a) ELSE "unsub_lock"
           /\ \A c \in Clients :
                conn'[c] = IF c = a /\ conn[a] = "leaving" /\ left = {} THEN "gone" ELSE conn[c]
BY DEF Return, Left, Types, TypeOK

LEMMA RaiseShape ==
    ASSUME Types, NEW a \in Actors, Raise(a)
    PROVE  /\ \A b \in Actors \ {a} : pc'[b] = pc[b] /\ todo'[b] = todo[b]
           /\ pc'[a] \in {"error", "idle"} /\ todo'[a] = {}
           /\ a \in Tasks => pc'[a] = "error"
           /\ \A c \in Clients :
                conn'[c] = IF c = a /\ conn[a] = "leaving" THEN "aborted" ELSE conn[c]
BY DEF Raise, Left, Types, TypeOK

\* An unsubscribe call that returns, having done what it owes.
LEMMA ReturnLeaves ==
    ASSUME Types, Leave, NEW a \in Actors, pc[a] \in {"disc_lock", "unsub_lock", "unsub_redis",
                                                     "unsub_await", "unsub_self"},
           Return(a, todo'[a]),
           \A b \in Actors \ {a} : todo'[b] = todo[b] /\ call'[b] = call[b],
           keys' \subseteq keys, \A f \in Feeds : subscriptions'[f] \subseteq subscriptions[f],
           Emptied',
           a \in Clients =>
             /\ todo'[a] \subseteq Feeds \X {a}
             /\ conn[a] = "leaving" =>
                  \A f \in Feeds : a \in subscriptions'[f] => <<f, a>> \in todo'[a]
             /\ conn[a] = "leaving" =>
                  \A f \in keys' : Owes(a, f) =>
                     <<f, a>> \in todo'[a] \/ \E c \in Clients \ {a} : c \in subscriptions'[f]
    PROVE  Leave'
<1>1. /\ \A b \in Actors \ {a} : pc'[b] = pc[b]
      /\ pc'[a] = IF todo'[a] = {} THEN Resume(a) ELSE "unsub_lock"
      /\ \A c \in Clients :
           conn'[c] = IF c = a /\ conn[a] = "leaving" /\ todo'[a] = {} THEN "gone" ELSE conn[c]
  BY ReturnShape
<1>2. ASSUME a \in Clients
      PROVE  /\ conn'[a] = "leaving" =>
                  /\ pc'[a] \in LeavePlaces
                  /\ \A f \in Feeds : a \in subscriptions'[f] => <<f, a>> \in todo'[a]
             /\ conn'[a] = "gone" =>
                  pc'[a] = "idle" /\ \A f \in Feeds : a \notin subscriptions'[f]
  <2>1. conn[a] # "gone" /\ a \notin Tasks
    BY <1>2, ActorsAssumption DEF Leave, Departing
  <2>2. QED
    BY <1>1, <1>2, <2>1 DEF Resume, LeavePlaces
<1>3. ASSUME a \in Clients, NEW f \in keys', Owes(a, f)
      PROVE  Owes(a, f)' \/ \E c \in Clients \ {a} : c \in subscriptions'[f]
  BY <1>1, <1>3 DEF Owes
<1>4. QED
  BY <1>1, <1>2, <1>3, LeaveKept

\* An unsubscribe call that has found no feed left and awaits the task.
LEMMA StopLeaves ==
    ASSUME Types, Leave, NEW a \in Actors, pc[a] \in {"unsub_lock", "unsub_redis"},
           StopPoller(a), pubsubTask # NoTask,
           \A b \in Actors \ {a} : todo'[b] = todo[b] /\ call'[b] = call[b],
           keys' \subseteq keys, \A f \in Feeds : subscriptions'[f] \subseteq subscriptions[f],
           Emptied',
           a \in Clients =>
             /\ todo'[a] \subseteq Feeds \X {a}
             /\ conn[a] = "leaving" =>
                  \A f \in Feeds : a \in subscriptions'[f] => <<f, a>> \in todo'[a]
             /\ conn[a] = "leaving" =>
                  \A f \in keys' : Owes(a, f) =>
                     <<f, a>> \in todo'[a] \/ \E c \in Clients \ {a} : c \in subscriptions'[f]
    PROVE  Leave'
<1>1. /\ \A b \in Actors \ {a} : pc'[b] = pc[b]
      /\ pc'[a] = IF pubsubTask = a THEN "unsub_self" ELSE "unsub_await"
      /\ conn' = conn
  BY DEF StopPoller, Types, TypeOK
<1>2. pubsubTask \in Tasks
  BY DEF Types, TypeOK
<1>3. ASSUME a \in Clients
      PROVE  conn'[a] # "gone" /\ pc'[a] = "unsub_await"
  BY <1>1, <1>2, <1>3, ActorsAssumption DEF Leave, Departing
<1>4. ASSUME a \in Clients, NEW f \in keys', Owes(a, f)
      PROVE  Owes(a, f)' \/ \E c \in Clients \ {a} : c \in subscriptions'[f]
  BY <1>1, <1>4 DEF Owes
<1>5. QED
  BY <1>1, <1>3, <1>4, LeaveKept DEF LeavePlaces

LEMMA CallLeaves ==
    ASSUME Types, Leave, NEW c \in Clients,
           \/ \E f \in Feeds : Subscribe(c, f) \/ Unsubscribe(c, f)
           \/ Disconnect(c) \/ Close(c)
    PROVE  Leave'
<1> USE DEF registryVars, clientVars, callVars
<1> c \in Actors /\ conn[c] # "leaving" /\ conn[c] # "gone"
  BY DEF Actors, Subscribe, Unsubscribe, Disconnect, Close
<1>1. /\ UNCHANGED <<keys, subscriptions>>
      /\ \A b \in Actors \ {c} : pc'[b] = pc[b] /\ todo'[b] = todo[b] /\ call'[b] = call[b]
      /\ \A d \in Clients \ {c} : conn'[d] = conn[d]
  BY DEF Subscribe, Unsubscribe, Disconnect, Close, Types, TypeOK
<1>2. todo'[c] \subseteq Feeds \X {c}
  BY DEF Subscribe, Unsubscribe, Disconnect, Close, Types, TypeOK, Leave, OwnCalls
<1>3. \/ conn'[c] \in {"open", "closed"}
      \/ conn'[c] = "leaving" /\ pc'[c] = "disc_lock"
  BY DEF Subscribe, Unsubscribe, Disconnect, Close, Types, TypeOK
<1>4. pc'[c] = "unsub_redis" => pc[c] = "unsub_redis" /\ call'[c] = call[c]
  BY DEF Subscribe, Unsubscribe, Disconnect, Close, Types, TypeOK
<1>5. Emptied'
  BY <1>1, <1>4 DEF Leave, Emptied
<1>6. \A f \in keys' : Owes(c, f)'
  BY <1>3 DEF Owes
<1>7. QED
  BY <1>1, <1>2, <1>3, <1>5, <1>6, LeaveKept DEF LeavePlaces

LEMMA SnapshotLeaves ==
    ASSUME Types, Leave, NEW c \in Clients, DisconnectSnapshot(c)
    PROVE  Leave'
<1> USE DEF registryVars, callVars
<1>1. c \in Actors /\ pc[c] = "disc_lock"
  BY DEF Actors, DisconnectSnapshot
<1>2. /\ UNCHANGED <<keys, subscriptions, call>> /\ Return(c, todo'[c])
      /\ todo'[c] = keys \X {c} /\ \A b \in Actors \ {c} : todo'[b] = todo[b]
  BY <1>1 DEF DisconnectSnapshot, Types, TypeOK
<1>3. keys \subseteq Feeds
  BY DEF Types, TypeOK
<1>4. Emptied'
  <2>1. pc'[c] # "unsub_redis" /\ \A b \in Actors \ {c} : pc'[b] = pc[b]
    BY <1>1, <1>2, ReturnShape DEF Resume
  <2>2. QED
    BY <1>2, <2>1 DEF Leave, Emptied
<1>5. \A f \in Feeds : c \in subscriptions[f] => f \in keys
  BY DEF Leave, Emptied
<1>6. QED
  BY <1>1, <1>2, <1>3, <1>4, <1>5, ReturnLeaves

\* The steps of subscribe add a feed or a subscriber; the client owes it.
LEMMA SubscribeLeaves ==
    ASSUME Types, Registry, Leave, NEW c \in Clients,
           SubscribeKnown(c) \/ SubscribeNew(c) \/ SubscribeRedis(c) \/ SubscribeFails(c)
    PROVE  Leave'
<1> USE DEF clientVars, callVars
<1> DEFINE f == call[c][1]
<1>1. c \in Actors /\ pc[c] \in {"sub_lock", "sub_redis"} /\ f \in Feeds /\ UNCHANGED <<conn, todo, call>>
  BY DEF Actors, SubscribeKnown, SubscribeNew, SubscribeRedis, SubscribeFails, JoinFeed,
         Types, TypeOK, CallKnown
<1>2. conn[c] \in {"open", "closed", "aborted"}
  BY <1>1 DEF Leave, Departing, LeavePlaces, Types, TypeOK
<1>3. \A g \in Feeds : Owes(c, g)'
  BY <1>1, <1>2 DEF Owes
<1>4. /\ \A d \in Clients \ {c} : pc'[d] = pc[d]
      /\ \A a \in Actors : pc'[a] # "unsub_redis"
  <2>1. \A a \in Actors : pc[a] # "unsub_redis"
    <3>1. lock \in {NoActor, c}
      BY <1>1 DEF SubscribeKnown, SubscribeNew, SubscribeRedis, SubscribeFails, Registry,
                  LockHeld, Critical
    <3>2. QED
      BY <1>1, <3>1, ActorsAssumption DEF Registry, LockHeld, Critical
  <2>2. \/ \E p \in {"idle", "sub_redis"} : pc' = [pc EXCEPT ![c] = p]
        \/ \E t \in Tasks : pc' = [pc EXCEPT ![t] = "poll", ![c] = "idle"]
    BY DEF SubscribeKnown, SubscribeNew, SubscribeRedis, SubscribeFails, JoinFeed
  <2>3. \A d \in Clients : d \in Actors /\ d \notin Tasks
    BY ActorsAssumption DEF Actors
  <2>4. pc \in [Actors -> Await \cup Done \cup
                   {"idle", "new", "poll", "send", "stop_await", "stopped"}] /\ Tasks \subseteq Actors
    BY DEF Types, TypeOK, Actors
  <2>5. QED
    BY <1>1, <2>1, <2>2, <2>3, <2>4
<1>5. \A g \in Feeds : \A d \in Clients \ {c} : d \in subscriptions'[g] => d \in subscriptions[g]
  <2>1. CASE subscriptions' = subscriptions
    BY <2>1
  <2>2. ASSUME NEW x \in {{}, subscriptions[f] \cup {c}},
               subscriptions' = [subscriptions EXCEPT ![f] = x]
        PROVE  \A g \in Feeds : \A d \in Clients \ {c} :
                  d \in subscriptions'[g] => d \in subscriptions[g]
    <3>1. \A g \in Feeds : subscriptions'[g] = IF g = f THEN x ELSE subscriptions[g]
      BY <2>2 DEF Types, TypeOK
    <3>2. QED
      BY <2>2, <3>1
  <2>3. QED
    BY <2>1, <2>2 DEF SubscribeKnown, SubscribeNew, SubscribeRedis, SubscribeFails, JoinFeed
<1>6. /\ keys' \in {keys, keys \cup {f}}
      /\ \A g \in Feeds \ {f} : subscriptions'[g] = subscriptions[g]
      /\ f \in keys' \/ subscriptions'[f] = subscriptions[f]
  <2>1. pc[c] = "sub_redis" => f \in keys
    BY <1>1 DEF Registry, SubscribingRegistered
  <2>2. QED
    BY <1>1, <2>1 DEF SubscribeKnown, SubscribeNew, SubscribeRedis, SubscribeFails, JoinFeed,
                      Types, TypeOK
<1> HIDE DEF f
<1>7. OwnCalls'
  BY <1>1 DEF Leave, OwnCalls
<1>8. Emptied'
  BY <1>1, <1>4, <1>6 DEF Leave, Emptied
<1>9. Departing'
  BY <1>1, <1>2, <1>4, <1>5 DEF Leave, Departing
<1>10. Owed'
  <2>1. keys' \subseteq Feeds
    BY <1>1, <1>6 DEF Types, TypeOK
  <2>2. QED
    BY <1>3, <2>1 DEF Owed
<1>11. QED
  BY <1>7, <1>8, <1>9, <1>10 DEF Leave

LEMMA EnterLeaves ==
    ASSUME Types, Registry, Leave, NEW a \in Actors, UnsubscribeEnter(a)
    PROVE  Leave'
<1>1. PICK u \in todo[a] :
        /\ todo' = [todo EXCEPT ![a] = @ \ {u}]
        /\ call' = [call EXCEPT ![a] = u]
        /\ UnsubscribeUnknown(a, u[1]) \/ UnsubscribeOne(a, u[1], u[2])
             \/ UnsubscribeLast(a, u[1], u[2])
  BY DEF UnsubscribeEnter
<1> DEFINE f == u[1]
           w == u[2]
<1>2. /\ pc[a] = "unsub_lock" /\ keys' = keys /\ keys \subseteq Feeds
      /\ u \in Feeds \X Clients /\ u = <<f, w>> /\ f \in Feeds
  BY DEF UnsubscribeEnter, Types, TypeOK
<1>3. todo'[a] = todo[a] \ {u} /\ call'[a] = u
        /\ \A b \in Actors \ {a} : todo'[b] = todo[b] /\ call'[b] = call[b]
  BY <1>1 DEF Types, TypeOK
<1>4. \A b \in Actors : pc[b] # "unsub_redis"
  BY ActorsAssumption DEF UnsubscribeEnter, Registry, LockHeld, Critical
<1>5. ASSUME a \in Clients
      PROVE  /\ w = a /\ todo'[a] \subseteq Feeds \X {a}
             /\ conn[a] = "leaving" => \A g \in Feeds : a \in subscriptions[g] => <<g, a>> \in todo[a]
             /\ conn[a] = "leaving" => \A g \in keys : Owes(a, g) => <<g, a>> \in todo[a]
  <2>1. todo[a] \subseteq Feeds \X {a}
    BY <1>5 DEF Leave, OwnCalls
  <2>2. w = a /\ todo'[a] \subseteq Feeds \X {a}
    BY <1>2, <1>3, <2>1
  <2>3. QED
    BY <1>2, <1>5, <2>2 DEF Leave, Departing, Owes
<1> HIDE DEF f, w
<1>6. CASE UnsubscribeUnknown(a, f)
  <2>1. f \notin keys /\ subscriptions' = subscriptions /\ subscriptions[f] = {}
    BY <1>2, <1>6 DEF UnsubscribeUnknown, Leave, Emptied
  <2>2. ASSUME a \in Clients, conn[a] = "leaving"
        PROVE  /\ \A g \in Feeds : a \in subscriptions'[g] => <<g, a>> \in todo'[a]
               /\ \A g \in keys' : Owes(a, g) => <<g, a>> \in todo'[a]
    <3>1. \A g \in Feeds : g # f => <<g, a>> # u
      BY <1>2
    <3>2. QED
      BY <1>2, <1>3, <1>5, <2>1, <2>2, <3>1
  <2>3. CASE StopPoller(a) /\ pubsubTask # NoTask
    <3>1. \A b \in Actors : pc'[b] # "unsub_redis"
      BY <1>4, <2>3 DEF StopPoller, Types, TypeOK
    <3>2. Emptied'
      BY <1>2, <2>1, <3>1 DEF Leave, Emptied
    <3>3. QED
      BY <1>2, <1>3, <1>5, <2>1, <2>2, <2>3, <3>2, StopLeaves
  <2>4. CASE Return(a, todo'[a])
    <3>1. \A b \in Actors : pc'[b] # "unsub_redis"
      BY <1>4, <2>4, ReturnShape DEF Resume
    <3>2. Emptied'
      BY <1>2, <2>1, <3>1 DEF Leave, Emptied
    <3>3. QED
      BY <1>2, <1>3, <1>5, <2>1, <2>2, <2>4, <3>2, ReturnLeaves
  <2>5. QED
    BY <1>6, <2>3, <2>4 DEF UnsubscribeUnknown
<1>7. CASE UnsubscribeOne(a, f, w)
  <2>1. /\ f \in keys /\ subscriptions[f] \ {w} # {} /\ Return(a, todo'[a])
        /\ subscriptions' = [subscriptions EXCEPT ![f] = @ \ {w}]
    BY <1>7 DEF UnsubscribeOne
  <2>2. /\ subscriptions'[f] = subscriptions[f] \ {w}
        /\ \A g \in Feeds \ {f} : subscriptions'[g] = subscriptions[g]
        /\ \A g \in Feeds : subscriptions[g] \subseteq Clients
    BY <1>2, <2>1 DEF Types, TypeOK
  <2>3. \A b \in Actors : pc'[b] # "unsub_redis"
    BY <1>4, <2>1, ReturnShape DEF Resume
  <2>4. Emptied'
    BY <1>2, <2>1, <2>2, <2>3 DEF Leave, Emptied
  <2>5. \A g \in Feeds : subscriptions'[g] \subseteq subscriptions[g]
    BY <2>2
  <2>6. ASSUME a \in Clients, conn[a] = "leaving"
        PROVE  /\ \A g \in Feeds : a \in subscriptions'[g] => <<g, a>> \in todo'[a]
               /\ \A g \in keys' : Owes(a, g) =>
                    <<g, a>> \in todo'[a] \/ \E c \in Clients \ {a} : c \in subscriptions'[g]
    <3>1. \A g \in Feeds : g # f => <<g, a>> # u
      BY <1>2
    <3>2. a \notin subscriptions'[f] /\ \E c \in Clients \ {a} : c \in subscriptions'[f]
      BY <1>2, <1>5, <2>1, <2>2, <2>6
    <3>3. QED
      BY <1>2, <1>3, <1>5, <2>2, <2>6, <3>1, <3>2
  <2>7. QED
    BY <1>2, <1>3, <1>5, <2>1, <2>4, <2>5, <2>6, ReturnLeaves
<1>8. CASE UnsubscribeLast(a, f, w)
  <2>1. /\ f \in keys /\ subscriptions' = [subscriptions EXCEPT ![f] = {}]
        /\ pc' = [pc EXCEPT ![a] = "unsub_redis"] /\ conn' = conn
    BY <1>8 DEF UnsubscribeLast
  <2>2. /\ subscriptions'[f] = {}
        /\ \A g \in Feeds \ {f} : subscriptions'[g] = subscriptions[g]
        /\ pc'[a] = "unsub_redis" /\ \A b \in Actors \ {a} : pc'[b] = pc[b]
    BY <1>2, <2>1 DEF Types, TypeOK
  <2>3. call'[a][1] = f
    BY <1>2, <1>3
  <2>4. Emptied'
    BY <1>2, <1>4, <2>2, <2>3 DEF Leave, Emptied
  <2>5. \A g \in Feeds : subscriptions'[g] \subseteq subscriptions[g]
    BY <2>2
  <2>6. ASSUME a \in Clients
        PROVE  /\ conn'[a] = "leaving" =>
                    \A g \in Feeds : a \in subscriptions'[g] => <<g, a>> \in todo'[a]
               /\ conn'[a] # "gone"
               /\ \A g \in keys' : Owes(a, g) => Owes(a, g)'
    <3>1. \A g \in Feeds : g # f => <<g, a>> # u
      BY <1>2
    <3>2. conn[a] # "gone"
      BY <1>2, <2>6 DEF Leave, Departing
    <3>3. conn[a] = "leaving" =>
            \A g \in Feeds : a \in subscriptions'[g] => <<g, a>> \in todo'[a]
      BY <1>3, <1>5, <2>2, <2>6, <3>1
    <3>4. ASSUME NEW g \in keys', Owes(a, g) PROVE Owes(a, g)'
      <4>1. CASE conn[a] # "leaving"
        BY <2>1, <3>4, <4>1 DEF Owes
      <4>2. CASE conn[a] = "leaving" /\ g = f
        BY <2>1, <2>2, <2>3, <4>2 DEF Owes
      <4>3. CASE conn[a] = "leaving" /\ g # f
        <5>1. <<g, a>> \in todo'[a]
          BY <1>2, <1>3, <1>5, <2>6, <3>1, <3>4, <4>3
        <5>2. QED
          BY <2>1, <4>3, <5>1 DEF Owes
      <4>4. QED
        BY <4>1, <4>2, <4>3
    <3>5. QED
      BY <2>1, <3>2, <3>3, <3>4
  <2>7. QED
    BY <1>2, <1>3, <1>5, <2>1, <2>2, <2>4, <2>5, <2>6, LeaveKept DEF LeavePlaces
<1>9. QED
  BY <1>1, <1>6, <1>7, <1>8 DEF f, w

LEMMA RedisLeaves ==
    ASSUME Types, Registry, Leave, NEW a \in Actors, UnsubscribeRedis(a)
    PROVE  Leave'
<1> DEFINE f == call[a][1]
<1>1. /\ pc[a] = "unsub_redis" /\ keys' = keys \ {f}
      /\ UNCHANGED <<subscriptions, todo, call>>
  BY DEF UnsubscribeRedis
<1>2. subscriptions[f] = {} /\ keys \subseteq Feeds
  BY <1>1 DEF Leave, Emptied, Types, TypeOK
<1>3. \A b \in Actors \ {a} : pc[b] # "unsub_redis"
  BY <1>1 DEF Registry, LockHeld, Critical
<1>4. ASSUME a \in Clients
      PROVE  /\ todo[a] \subseteq Feeds \X {a}
             /\ conn[a] = "leaving" => \A g \in Feeds : a \in subscriptions[g] => <<g, a>> \in todo[a]
             /\ conn[a] = "leaving" => \A g \in keys' : Owes(a, g) => <<g, a>> \in todo[a]
  BY <1>1, <1>4 DEF Leave, OwnCalls, Departing, Owes
<1> HIDE DEF f
<1>5. CASE StopPoller(a) /\ pubsubTask # NoTask
  <2>1. \A b \in Actors : pc'[b] # "unsub_redis"
    BY <1>3, <1>5 DEF StopPoller, Types, TypeOK
  <2>2. Emptied'
    BY <1>1, <1>2, <2>1 DEF Leave, Emptied
  <2>3. QED
    BY <1>1, <1>4, <1>5, <2>2, StopLeaves
<1>6. CASE Return(a, todo'[a])
  <2>1. \A b \in Actors : pc'[b] # "unsub_redis"
    BY <1>3, <1>6, ReturnShape DEF Resume
  <2>2. Emptied'
    BY <1>1, <1>2, <2>1 DEF Leave, Emptied
  <2>3. QED
    BY <1>1, <1>4, <1>6, <2>2, ReturnLeaves
<1>7. QED
  BY <1>1, <1>5, <1>6 DEF UnsubscribeRedis

LEMMA EndLeaves ==
    ASSUME Types, Registry, Leave, NEW a \in Actors, UnsubscribeFails(a) \/ UnsubscribeAwaited(a)
    PROVE  Leave'
<1>1. /\ pc[a] \in {"unsub_redis", "unsub_await"} /\ UNCHANGED <<keys, subscriptions, call>>
      /\ Raise(a) \/ (pc[a] = "unsub_await" /\ Return(a, todo[a]) /\ UNCHANGED todo)
  BY DEF UnsubscribeFails, UnsubscribeAwaited
<1>2. \A b \in Actors \ {a} : pc[b] # "unsub_redis"
  BY <1>1 DEF Registry, LockHeld, Critical
<1>3. ASSUME a \in Clients PROVE conn[a] # "gone" /\ conn[a] \in {"open", "closed", "leaving", "gone", "aborted"}
  BY <1>1, <1>3 DEF Leave, Departing, Types, TypeOK
<1>4. CASE Raise(a)
  <2>1. /\ \A b \in Actors \ {a} : pc'[b] = pc[b] /\ todo'[b] = todo[b]
        /\ pc'[a] \in {"error", "idle"} /\ todo'[a] = {}
        /\ \A c \in Clients :
             conn'[c] = IF c = a /\ conn[a] = "leaving" THEN "aborted" ELSE conn[c]
    BY <1>4, RaiseShape
  <2>2. Emptied'
    BY <1>1, <1>2, <2>1 DEF Leave, Emptied
  <2>3. a \in Clients => conn'[a] \in {"open", "closed", "aborted"}
    BY <1>3, <2>1
  <2>4. a \in Clients => \A f \in keys' : Owes(a, f)'
    BY <2>3 DEF Owes
  <2>5. QED
    BY <1>1, <2>1, <2>2, <2>3, <2>4, LeaveKept
<1>5. CASE pc[a] = "unsub_await" /\ Return(a, todo[a]) /\ UNCHANGED todo
  <2>1. \A b \in Actors : pc'[b] # "unsub_redis"
    BY <1>2, <1>5, ReturnShape DEF Resume
  <2>2. Emptied'
    BY <1>1, <2>1 DEF Leave, Emptied
  <2>3. ASSUME a \in Clients
        PROVE  /\ todo[a] \subseteq Feeds \X {a}
               /\ conn[a] = "leaving" => \A g \in Feeds : a \in subscriptions[g] => <<g, a>> \in todo[a]
               /\ conn[a] = "leaving" => \A g \in keys' : Owes(a, g) => <<g, a>> \in todo[a]
    BY <1>5, <2>3 DEF Leave, OwnCalls, Departing, Owes
  <2>4. QED
    BY <1>1, <1>5, <2>2, <2>3, ReturnLeaves
<1>6. QED
  BY <1>1, <1>4, <1>5

\* The background task's own steps, and the server's, touch no client.
LEMMA ElsewhereLeaves ==
    ASSUME Types, Leave,
           \/ \E t \in Tasks : UnsubscribeSelf(t) \/ PollMessage(t) \/ PollRaises(t) \/ Send(t)
                                  \/ Cancelled(t)
           \/ Stop \/ StopAwaited \/ RedisAccepts \/ \E ch \in Channels : Publish(ch)
    PROVE  Leave'
<1> USE DEF registryVars, clientVars, callVars
<1>1. UNCHANGED <<keys, subscriptions, call>>
  BY DEF UnsubscribeSelf, PollMessage, PollRaises, Send, Cancelled, Stop, StopAwaited, RedisAccepts,
         Publish
<1>2. PICK a \in Tasks \cup {Server} :
        /\ \A b \in Actors \ {a} : pc'[b] = pc[b] /\ todo'[b] = todo[b]
        /\ pc'[a] # "unsub_redis" \/ pc' = pc
        /\ \A c \in Clients : conn'[c] = conn[c]
  <2>1. ASSUME NEW t \in Tasks, UnsubscribeSelf(t)
        PROVE  /\ \A b \in Actors \ {t} : pc'[b] = pc[b] /\ todo'[b] = todo[b]
               /\ pc'[t] # "unsub_redis" /\ \A c \in Clients : conn'[c] = conn[c]
    <3>1. t \in Actors /\ Return(t, todo[t]) /\ UNCHANGED todo
      BY <2>1 DEF UnsubscribeSelf, Actors
    <3>2. QED
      BY <3>1, ReturnShape, ActorsAssumption DEF Resume
  <2>2. ASSUME NEW t \in Tasks, PollMessage(t) \/ PollRaises(t) \/ Send(t) \/ Cancelled(t)
        PROVE  /\ \A b \in Actors \ {t} : pc'[b] = pc[b] /\ todo'[b] = todo[b]
               /\ pc'[t] # "unsub_redis" \/ pc' = pc
               /\ conn' = conn
    <3>1. \/ pc' = pc
          \/ \E p \in {"send", "error", "runtime", "unsub_lock", "poll", "cancelled"} :
               pc' = [pc EXCEPT ![t] = p]
      BY <2>2 DEF PollMessage, PollRaises, Send, Cancelled
    <3>2. /\ conn' = conn
          /\ todo' = todo \/ \E x : todo' = [todo EXCEPT ![t] = x]
      BY <2>2 DEF PollMessage, PollRaises, Send, Cancelled
    <3>3. t \in Actors
      BY DEF Actors
    <3>4. QED
      BY <3>1, <3>2, <3>3 DEF Types, TypeOK
  <2>3. CASE Stop \/ StopAwaited
    BY <2>3 DEF Stop, StopAwaited, Types, TypeOK, Actors
  <2>4. CASE RedisAccepts \/ \E ch \in Channels : Publish(ch)
    BY <2>4 DEF RedisAccepts, Publish
  <2>5. QED
    BY <2>1, <2>2, <2>3, <2>4
<1>3. a \in Actors /\ a \notin Clients
  BY ActorsAssumption DEF Actors
<1>4. Emptied'
  BY <1>1, <1>2 DEF Leave, Emptied
<1>5. QED
  BY <1>1, <1>2, <1>3, <1>4, LeaveKept

LEMMA NextLeave == Types /\ Registry /\ Leave /\ [Next]_vars => Leave'
<1> SUFFICES ASSUME Types, Registry, Leave, [Next]_vars PROVE Leave'
  OBVIOUS
<1>1. ASSUME NEW a \in Actors, Enter(a) PROVE Leave'
  BY <1>1, SubscribeLeaves, SnapshotLeaves, EnterLeaves DEF Enter
<1>2. ASSUME NEW a \in Actors, Proceed(a) PROVE Leave'
  BY <1>2, SubscribeLeaves, RedisLeaves, EndLeaves, ElsewhereLeaves DEF Proceed
<1>3. CASE Environment
  BY <1>3, CallLeaves, ElsewhereLeaves DEF Environment
<1>4. CASE UNCHANGED vars
  <2>1. UNCHANGED <<keys, subscriptions, call, pc, todo, conn>>
    BY <1>4 DEF vars, registryVars, callVars, clientVars
  <2>2. QED
    BY <2>1 DEF Leave, OwnCalls, Emptied, Departing, Owed, Owes
<1>5. QED
  BY <1>1, <1>2, <1>3, <1>4 DEF Next

\* Nothing is left of the clients that have disconnected, whatever commands fail
\* and whoever is cancelled.
THEOREM DeparturesComplete == Spec => []NothingLeftBehind
<1>1. Spec => []Types
  BY InitTypes, NextTypes, PTL DEF Spec
<1>2. Spec => []Registry
  BY <1>1, InitRegistry, NextRegistry, PTL DEF Spec
<1>3. Spec => []Leave
  BY <1>1, <1>2, InitLeave, NextLeave, PTL DEF Spec
<1>4. Registry /\ Leave => NothingLeftBehind
  BY DEF Registry, RedisSubscriptionTracked, Leave, Departing, Owed, Owes, NothingLeftBehind
<1>5. QED
  BY <1>2, <1>3, <1>4, PTL

(***************************************************************************)
(* The task follows the registry, as long as nothing fails, no connection  *)
(* breaks and nobody calls stop().  What the registry promises between     *)
(* critical sections is broken inside them, so the invariant says for each *)
(* await of the critical section what is owed there.                       *)
(***************************************************************************)
Polling == {"poll", "send"}

OnePoller ==
    \A t \in Tasks : /\ pc[t] \in {"new", "poll", "send", "cancelled"} /\ todo[t] = {}
                     /\ pc[t] \in Polling => t = pubsubTask
Between ==
    (\A a \in Actors : pc[a] \notin Critical) =>
        redis = keys /\ \A f \in keys : subscriptions[f] # {}
Joining ==
    \A a \in Actors : pc[a] = "sub_redis" =>
        redis = keys \ {call[a][1]} /\ \A f \in redis : subscriptions[f] # {}
Parting ==
    \A a \in Actors : pc[a] = "unsub_redis" =>
        /\ redis = keys /\ call[a][1] \in keys
        /\ \A f \in keys \ {call[a][1]} : subscriptions[f] # {}
Ending ==
    \A a \in Actors : pc[a] = "unsub_await" =>
        /\ keys = {} /\ redis = {} /\ pubsubTask # NoTask /\ awaiting[a] = pubsubTask
        /\ cancelReq \subseteq {pubsubTask}
        /\ pc[pubsubTask] = "cancelled" => cancelReq = {}
Running ==
    (\A a \in Actors : pc[a] # "unsub_await") =>
        /\ cancelReq = {}
        /\ redis # {} <=> pubsubTask # NoTask
        /\ pubsubTask # NoTask => pc[pubsubTask] \in Polling
Poller == OnePoller /\ Between /\ Joining /\ Parting /\ Ending /\ Running

LEMMA InitPoller == Init => Poller
BY ActorsAssumption
   DEF Init, Poller, OnePoller, Between, Joining, Parting, Ending, Running, Polling, Critical, Actors

\* The server's coroutine makes no other call than stop().
Serving == pc[Server] \in {"idle", "stop_await", "stopped"}

\* Once disturbed, a service stays so.
LEMMA DisturbedStays ==
    ASSUME Types, Serving, [Next]_vars
    PROVE  Serving' /\ (Undisturbed' => Undisturbed)
<1> USE DEF registryVars, clientVars, callVars
<1> Server \in Actors /\ Clients \subseteq Actors /\ Tasks \subseteq Actors
  BY DEF Actors
<1> failures \in Nat /\ MaxFailures \in Nat
  BY BoundsAssumption DEF Types, TypeOK
<1>1. ASSUME NEW a \in Actors, Enter(a) \/ Proceed(a)
      PROVE  /\ failures <= failures' /\ failures' \in Nat
             /\ \/ pc'[Server] = pc[Server]
                \/ pc[Server] # "idle" /\ pc'[Server] = "stopped"
             /\ \A c \in Clients : conn'[c] = "open" => conn[c] = "open"
  <2>1. CASE a \in Clients /\ (SubscribeKnown(a) \/ SubscribeNew(a) \/ SubscribeRedis(a) \/ SubscribeFails(a))
    <3>1. conn' = conn /\ failures <= failures' /\ failures' \in Nat
      BY <2>1 DEF SubscribeKnown, SubscribeNew, SubscribeRedis, SubscribeFails, JoinFeed
    <3>2. \/ \E p \in {"idle", "sub_redis"} : pc' = [pc EXCEPT ![a] = p]
          \/ \E t \in Tasks : pc' = [pc EXCEPT ![t] = "poll", ![a] = "idle"]
      BY <2>1 DEF SubscribeKnown, SubscribeNew, SubscribeRedis, SubscribeFails, JoinFeed
    <3>3. pc'[Server] = pc[Server]
      BY <2>1, <3>2, ActorsAssumption DEF Types, TypeOK
    <3>4. QED
      BY <3>1, <3>3
  <2>2. CASE \/ a \in Clients /\ DisconnectSnapshot(a)
             \/ UnsubscribeEnter(a) \/ UnsubscribeRedis(a) \/ UnsubscribeFails(a)
             \/ UnsubscribeAwaited(a) \/ (a \in Tasks /\ UnsubscribeSelf(a))
    <3>1. a # Server
      BY <2>2, ActorsAssumption
         DEF UnsubscribeEnter, UnsubscribeRedis, UnsubscribeFails, UnsubscribeAwaited, Serving
    <3>2. /\ failures <= failures' /\ failures' \in Nat
          /\ \/ conn' = conn /\ \E p : pc' = [pc EXCEPT ![a] = p]
             \/ \E left : Return(a, left)
             \/ Raise(a)
      BY <2>2
         DEF DisconnectSnapshot, UnsubscribeEnter, UnsubscribeUnknown, UnsubscribeOne, UnsubscribeLast,
             UnsubscribeRedis, UnsubscribeFails, UnsubscribeAwaited, UnsubscribeSelf, StopPoller
    <3>3. CASE conn' = conn /\ \E p : pc' = [pc EXCEPT ![a] = p]
      BY <3>1, <3>2, <3>3 DEF Types, TypeOK
    <3>4. CASE (\E left : Return(a, left)) \/ Raise(a)
      <4>1. pc'[Server] = pc[Server]
        BY <3>1, <3>4, ReturnShape, RaiseShape
      <4>2. \A c \in Clients : conn'[c] = "open" => conn[c] = "open"
        BY <3>4, ReturnShape, RaiseShape
      <4>3. QED
        BY <3>2, <4>1, <4>2
    <3>5. QED
      BY <3>2, <3>3, <3>4
  <2>3. CASE a \in Tasks /\ (PollMessage(a) \/ PollRaises(a) \/ Send(a) \/ Cancelled(a))
    <3>1. conn' = conn /\ failures <= failures' /\ failures' \in Nat
      BY <2>3 DEF PollMessage, PollRaises, Send, Cancelled
    <3>2. pc'[Server] = pc[Server]
      BY <2>3, ActorsAssumption DEF PollMessage, PollRaises, Send, Cancelled, Types, TypeOK
    <3>3. QED
      BY <3>1, <3>2
  <2>4. CASE StopAwaited
    BY <2>4 DEF StopAwaited, Types, TypeOK
  <2>5. QED
    BY <1>1, <2>1, <2>2, <2>3, <2>4 DEF Enter, Proceed
<1>2. ASSUME NEW c \in Clients,
             Close(c) \/ Disconnect(c) \/ \E f \in Feeds : Subscribe(c, f) \/ Unsubscribe(c, f)
      PROVE  /\ failures' = failures /\ pc'[Server] = pc[Server]
             /\ \A d \in Clients : conn'[d] = "open" => conn[d] = "open"
  BY <1>2, ActorsAssumption DEF Close, Disconnect, Subscribe, Unsubscribe, Types, TypeOK
<1>3. CASE Stop
  BY <1>3 DEF Stop, Undisturbed, Serving, Types, TypeOK
<1>4. CASE UNCHANGED vars \/ RedisAccepts \/ \E ch \in Channels : Publish(ch)
  BY <1>4 DEF vars, RedisAccepts, Publish, Undisturbed, Serving
<1>5. ASSUME NEW a \in Actors, Enter(a) \/ Proceed(a)
      PROVE  Serving' /\ (Undisturbed' => Undisturbed)
  <2>1. failures' = 0 => failures = 0
    BY <1>1, <1>5
  <2>2. QED
    BY <1>1, <1>5, <2>1 DEF Undisturbed, Serving
<1>6. QED
  BY <1>2, <1>3, <1>4, <1>5 DEF Next, Environment, Undisturbed, Serving

\* Steps that leave the registry, its task and the critical section alone.
LEMMA PollerKept ==
    ASSUME Types, Poller,
           UNCHANGED <<keys, subscriptions, pubsubTask, redis, cancelReq>>,
           \A a \in Actors : /\ pc'[a] \in Critical <=> pc[a] \in Critical
                             /\ pc[a] \in Critical => /\ pc'[a] = pc[a] /\ call'[a] = call[a]
                                                      /\ awaiting'[a] = awaiting[a],
           \A t \in Tasks : /\ todo'[t] = todo[t]
                            /\ pc'[t] = pc[t] \/ (pc[t] \in Polling /\ pc'[t] \in Polling)
    PROVE  Poller'
<1>1. pubsubTask # NoTask => pubsubTask \in Tasks
  BY DEF Types, TypeOK
<1>2. OnePoller'
  BY DEF Poller, OnePoller, Polling
<1>3. \A a \in Actors : \A p \in Critical : pc'[a] = p <=> pc[a] = p
  OBVIOUS
<1>4. Between'
  BY DEF Poller, Between
<1>5. Joining' /\ Parting'
  BY <1>3 DEF Poller, Joining, Parting, Critical
<1>6. Ending' /\ Running'
  BY <1>1, <1>3 DEF Poller, Ending, Running, Critical, Polling
<1>7. QED
  BY <1>2, <1>4, <1>5, <1>6 DEF Poller

\* Nobody is in the critical section while the lock is free, and nobody else
\* while somebody is.
LEMMA OneCritical ==
    ASSUME Types, Registry
    PROVE  /\ lock = NoActor => \A a \in Actors : pc[a] \notin Critical
           /\ \A a, b \in Actors : pc[a] \in Critical /\ pc[b] \in Critical => a = b
BY ActorsAssumption DEF Registry, LockHeld

\* Only a client unsubscribes while nothing is disturbed.
LEMMA ClientsCall ==
    ASSUME Types, Poller, Undisturbed, NEW a \in Actors,
           pc[a] \in {"unsub_lock", "unsub_redis", "unsub_await", "unsub_self"}
    PROVE  a \in Clients
BY DEF Poller, OnePoller, Undisturbed, Actors

LEMMA CallPoller ==
    ASSUME Types, Poller, Undisturbed', NEW c \in Clients,
           \/ \E f \in Feeds : Subscribe(c, f) \/ Unsubscribe(c, f)
           \/ Disconnect(c) \/ Close(c)
    PROVE  Poller'
<1> USE DEF registryVars, clientVars, callVars
<1> c \in Actors /\ c \notin Tasks
  BY ActorsAssumption DEF Actors
<1>1. /\ UNCHANGED <<keys, subscriptions, pubsubTask, redis, cancelReq, awaiting>>
      /\ pc' = [pc EXCEPT ![c] = pc'[c]] /\ pc'[c] \notin Critical /\ pc[c] \notin Critical
      /\ \A b \in Actors \ {c} : pc'[b] = pc[b] /\ todo'[b] = todo[b] /\ call'[b] = call[b]
  BY DEF Subscribe, Unsubscribe, Disconnect, Close, Undisturbed, Types, TypeOK, Critical
<1>2. \A t \in Tasks : t \in Actors \ {c}
  BY DEF Actors
<1>3. QED
  BY <1>1, <1>2, PollerKept

LEMMA SnapshotPoller ==
    ASSUME Types, Poller, NEW c \in Clients, DisconnectSnapshot(c)
    PROVE  Poller'
<1> USE DEF registryVars, callVars
<1> c \in Actors /\ c \notin Tasks
  BY ActorsAssumption DEF Actors
<1>1. /\ UNCHANGED <<keys, subscriptions, pubsubTask, redis, cancelReq, call, awaiting>>
      /\ pc[c] = "disc_lock" /\ Return(c, keys \X {c})
      /\ \A b \in Actors \ {c} : todo'[b] = todo[b]
  BY DEF DisconnectSnapshot, Types, TypeOK
<1>2. pc'[c] \notin Critical /\ pc[c] \notin Critical /\ \A b \in Actors \ {c} : pc'[b] = pc[b]
  BY <1>1, ReturnShape DEF Resume, Critical
<1>3. \A t \in Tasks : t \in Actors \ {c}
  BY DEF Actors
<1>4. QED
  BY <1>1, <1>2, <1>3, PollerKept

LEMMA SubscribePoller ==
    ASSUME Types, Registry, Poller, NEW c \in Clients, failures' = failures,
           SubscribeKnown(c) \/ SubscribeNew(c) \/ SubscribeRedis(c) \/ SubscribeFails(c)
    PROVE  Poller'
<1> USE DEF callVars
<1> DEFINE f == call[c][1]
<1>1. /\ c \in Actors /\ c \notin Tasks /\ Tasks \subseteq Actors
      /\ pc[c] \in {"sub_lock", "sub_redis"} /\ f \in Feeds
      /\ UNCHANGED <<call, todo, awaiting, cancelReq>>
  BY ActorsAssumption
     DEF Actors, SubscribeKnown, SubscribeNew, SubscribeRedis, SubscribeFails, JoinFeed,
         Types, TypeOK, CallKnown
<1>2. /\ \A b \in Actors \ {c} : pc[b] \notin Critical
      /\ pc[c] = "sub_lock" => lock = NoActor
  BY <1>1, OneCritical DEF SubscribeKnown, SubscribeNew, SubscribeRedis, SubscribeFails, Critical
<1>3. cancelReq = {} /\ (redis # {} <=> pubsubTask # NoTask)
        /\ (pubsubTask # NoTask => pc[pubsubTask] \in Polling /\ pubsubTask \in Tasks)
  BY <1>1, <1>2 DEF Poller, Running, Critical, Types, TypeOK
<1>4. pc \in [Actors -> Await \cup Done \cup
                {"idle", "new", "poll", "send", "stop_await", "stopped"}]
        /\ subscriptions \in [Feeds -> SUBSET Clients] /\ keys \subseteq Feeds /\ redis \subseteq Feeds
  BY DEF Types, TypeOK
\* A client has joined the feed, the last one that Redis was missing.
<1>5. ASSUME JoinFeed(c, f), redis' = keys, f \in keys,
             \A g \in keys \ {f} : subscriptions[g] # {},
             redis = keys \/ redis = keys \ {f}
      PROVE  Poller'
  <2>1. /\ keys' = keys /\ subscriptions' = [subscriptions EXCEPT ![f] = @ \cup {c}]
        /\ \/ /\ Cardinality(keys) = 1 /\ pubsubTask = NoTask
              /\ \E t \in Tasks : /\ pc[t] = "new" /\ pubsubTask' = t
                                  /\ pc' = [pc EXCEPT ![t] = "poll", ![c] = "idle"]
           \/ /\ Cardinality(keys) # 1 \/ pubsubTask # NoTask
              /\ pc' = [pc EXCEPT ![c] = "idle"] /\ pubsubTask' = pubsubTask
    BY <1>5 DEF JoinFeed
  <2>2. \A g \in keys' : subscriptions'[g] # {}
    <3>1. subscriptions'[f] = subscriptions[f] \cup {c}
            /\ \A g \in Feeds \ {f} : subscriptions'[g] = subscriptions[g]
      BY <1>1, <1>4, <2>1
    <3>2. QED
      BY <1>4, <1>5, <2>1, <3>1
  <2>3. /\ pubsubTask' # NoTask /\ pc'[pubsubTask'] \in Polling
        /\ OnePoller' /\ \A a \in Actors : pc'[a] \notin Critical
    <3>1. CASE pubsubTask = NoTask
      <4>1. keys = {f}
        BY <1>3, <1>5, <3>1
      <4>2. Cardinality(keys) = 1
        BY <4>1, FS_Singleton
      <4>3. PICK t \in Tasks : /\ pc[t] = "new" /\ pubsubTask' = t
                               /\ pc' = [pc EXCEPT ![t] = "poll", ![c] = "idle"]
        BY <2>1, <3>1, <4>2
      <4>4. /\ pc'[t] = "poll" /\ pc'[c] = "idle" /\ t # c
            /\ \A a \in Actors \ {c, t} : pc'[a] = pc[a]
        BY <1>1, <1>4, <4>3
      <4>5. \A u \in Tasks : pc[u] \notin Polling
        BY <3>1, ActorsAssumption DEF Poller, OnePoller
      <4>6. OnePoller'
        BY <1>1, <4>3, <4>4, <4>5 DEF Poller, OnePoller, Polling
      <4>7. QED
        BY <1>2, <4>3, <4>4, <4>6, ActorsAssumption DEF Polling, Critical
    <3>2. CASE pubsubTask # NoTask
      <4>1. pc' = [pc EXCEPT ![c] = "idle"] /\ pubsubTask' = pubsubTask
        BY <2>1, <3>2
      <4>2. pc'[c] = "idle" /\ \A a \in Actors \ {c} : pc'[a] = pc[a]
        BY <1>1, <1>4, <4>1
      <4>3. OnePoller'
        BY <1>1, <4>1, <4>2 DEF Poller, OnePoller, Polling
      <4>4. QED
        BY <1>1, <1>2, <1>3, <3>2, <4>1, <4>2, <4>3 DEF Critical
    <3>3. QED
      BY <3>1, <3>2
  <2>4. Between' /\ Joining' /\ Parting' /\ Ending'
    BY <1>5, <2>1, <2>2, <2>3 DEF Between, Joining, Parting, Ending, Critical
  <2>5. Running'
    BY <1>1, <1>3, <1>5, <2>3 DEF Running
  <2>6. QED
    BY <2>3, <2>4, <2>5 DEF Poller
<1>6. CASE SubscribeKnown(c)
  <2>1. JoinFeed(c, f) /\ redis' = redis /\ f \in keys /\ pc[c] = "sub_lock"
    BY <1>6 DEF SubscribeKnown
  <2>2. redis = keys /\ \A g \in keys : subscriptions[g] # {}
    BY <1>2, <2>1 DEF Poller, Between, Critical
  <2>3. QED
    BY <1>5, <2>1, <2>2
<1>7. CASE SubscribeRedis(c)
  <2>1. JoinFeed(c, f) /\ redis' = redis \cup {f} /\ pc[c] = "sub_redis"
    BY <1>7 DEF SubscribeRedis
  <2>2. f \in keys /\ redis = keys \ {f} /\ \A g \in redis : subscriptions[g] # {}
    BY <1>1, <2>1 DEF Poller, Joining, Registry, SubscribingRegistered
  <2>3. QED
    BY <1>5, <2>1, <2>2
<1>8. CASE SubscribeNew(c)
  <2>1. /\ pc[c] = "sub_lock" /\ f \notin keys /\ keys' = keys \cup {f}
        /\ subscriptions' = [subscriptions EXCEPT ![f] = {}]
        /\ pc' = [pc EXCEPT ![c] = "sub_redis"] /\ UNCHANGED <<pubsubTask, redis>>
    BY <1>8 DEF SubscribeNew
  <2>2. pc'[c] = "sub_redis" /\ \A a \in Actors \ {c} : pc'[a] = pc[a]
    BY <1>1, <1>4, <2>1
  <2>3. redis = keys /\ \A g \in keys : subscriptions[g] # {}
    BY <1>2, <2>1 DEF Poller, Between, Critical
  <2>4. \A g \in Feeds \ {f} : subscriptions'[g] = subscriptions[g]
    BY <1>4, <2>1
  <2>5. OnePoller'
    BY <1>1, <2>1, <2>2 DEF Poller, OnePoller, Polling
  <2> HIDE DEF f
  <2>6. call'[c][1] = f
    BY <1>1 DEF f
  <2>7. Between' /\ Parting' /\ Ending'
    BY <1>1, <1>2, <2>2 DEF Between, Parting, Ending, Critical
  <2>8. Joining'
    <3>1. redis' = keys' \ {f} /\ \A g \in redis' : subscriptions'[g] # {}
      BY <1>4, <2>1, <2>3, <2>4
    <3>2. \A a \in Actors : pc'[a] = "sub_redis" => a = c
      BY <1>2, <2>2 DEF Critical
    <3>3. QED
      BY <2>6, <3>1, <3>2 DEF Joining
  <2>9. Running'
    BY <1>1, <1>3, <2>1, <2>2 DEF Running, Polling
  <2>10. QED
    BY <2>5, <2>7, <2>8, <2>9 DEF Poller
<1>9. CASE SubscribeFails(c)
  BY <1>9, BoundsAssumption DEF SubscribeFails, Types, TypeOK
<1>10. QED
  BY <1>6, <1>7, <1>8, <1>9

LEMMA EnterPoller ==
    ASSUME Types, Registry, Poller, Undisturbed, NEW a \in Actors, UnsubscribeEnter(a)
    PROVE  Poller'
<1>1. PICK u \in todo[a] :
        /\ todo' = [todo EXCEPT ![a] = @ \ {u}]
        /\ call' = [call EXCEPT ![a] = u]
        /\ UnsubscribeUnknown(a, u[1]) \/ UnsubscribeOne(a, u[1], u[2])
             \/ UnsubscribeLast(a, u[1], u[2])
  BY DEF UnsubscribeEnter
<1> DEFINE f == u[1]
           w == u[2]
<1>2. /\ pc[a] = "unsub_lock" /\ UNCHANGED <<keys, pubsubTask, redis>> /\ keys \subseteq Feeds
      /\ f \in Feeds /\ subscriptions \in [Feeds -> SUBSET Clients]
      /\ \A b \in Actors : pc[b] \notin Critical
  BY OneCritical DEF UnsubscribeEnter, Types, TypeOK
<1>3. call'[a] = u /\ \A b \in Actors \ {a} : todo'[b] = todo[b] /\ call'[b] = call[b]
  BY <1>1 DEF Types, TypeOK
<1>4. a \in Clients /\ a \notin Tasks /\ \A t \in Tasks : t \in Actors \ {a}
  BY <1>2, ClientsCall, ActorsAssumption DEF Actors
<1>5. redis = keys /\ \A g \in keys : subscriptions[g] # {}
  BY <1>2 DEF Poller, Between
<1>6. cancelReq = {} /\ (redis # {} <=> pubsubTask # NoTask)
        /\ (pubsubTask # NoTask => pc[pubsubTask] \in Polling /\ pubsubTask \in Tasks)
  BY <1>2 DEF Poller, Running, Critical, Types, TypeOK
<1> HIDE DEF f, w
<1>7. CASE UnsubscribeUnknown(a, f)
  <2>1. Return(a, todo'[a]) /\ UNCHANGED <<subscriptions, cancelReq, awaiting>>
    BY <1>5, <1>6, <1>7 DEF UnsubscribeUnknown
  <2>2. pc'[a] \notin Critical /\ \A b \in Actors \ {a} : pc'[b] = pc[b]
    BY <2>1, ReturnShape DEF Resume, Critical
  <2>3. QED
    BY <1>2, <1>3, <1>4, <2>1, <2>2, PollerKept
<1>8. CASE UnsubscribeOne(a, f, w)
  <2>1. /\ f \in keys /\ subscriptions[f] \ {w} # {} /\ Return(a, todo'[a])
        /\ subscriptions' = [subscriptions EXCEPT ![f] = @ \ {w}]
        /\ UNCHANGED <<cancelReq, awaiting>>
    BY <1>8 DEF UnsubscribeOne
  <2>2. pc'[a] \notin Critical /\ \A b \in Actors \ {a} : pc'[b] = pc[b]
    BY <2>1, ReturnShape DEF Resume, Critical
  <2>3. \A g \in keys : subscriptions'[g] # {}
    BY <1>2, <1>5, <2>1
  <2>4. OnePoller'
    BY <1>2, <1>3, <1>4, <2>2 DEF Poller, OnePoller, Polling
  <2>5. Between' /\ Joining' /\ Parting' /\ Ending'
    BY <1>2, <1>5, <2>2, <2>3 DEF Between, Joining, Parting, Ending, Critical
  <2>6. Running'
    BY <1>2, <1>4, <1>6, <2>1, <2>2 DEF Running
  <2>7. QED
    BY <2>4, <2>5, <2>6 DEF Poller
<1>9. CASE UnsubscribeLast(a, f, w)
  <2>1. /\ f \in keys /\ subscriptions' = [subscriptions EXCEPT ![f] = {}]
        /\ pc' = [pc EXCEPT ![a] = "unsub_redis"] /\ UNCHANGED <<cancelReq, awaiting>>
    BY <1>9 DEF UnsubscribeLast
  <2>2. pc'[a] = "unsub_redis" /\ \A b \in Actors \ {a} : pc'[b] = pc[b]
    BY <2>1 DEF Types, TypeOK
  <2>3. \A g \in Feeds \ {f} : subscriptions'[g] = subscriptions[g]
    BY <1>2, <2>1
  <2>4. OnePoller'
    BY <1>2, <1>3, <1>4, <2>2 DEF Poller, OnePoller, Polling
  <2>5. Between' /\ Joining' /\ Ending'
    BY <1>2, <2>2 DEF Between, Joining, Ending, Critical
  <2>6. Parting'
    <3>1. \A b \in Actors : pc'[b] = "unsub_redis" => b = a
      BY <1>2, <2>2 DEF Critical
    <3>2. call'[a][1] = f
      BY <1>3 DEF f
    <3>3. QED
      BY <1>2, <1>5, <2>1, <2>3, <3>1, <3>2 DEF Parting
  <2>7. Running'
    BY <1>2, <1>4, <1>6, <2>1, <2>2 DEF Running
  <2>8. QED
    BY <2>4, <2>5, <2>6, <2>7 DEF Poller
<1>10. QED
  BY <1>1, <1>7, <1>8, <1>9 DEF f, w

LEMMA RedisPoller ==
    ASSUME Types, Registry, Poller, Undisturbed, NEW a \in Actors, UnsubscribeRedis(a)
    PROVE  Poller'
<1> DEFINE f == call[a][1]
<1>1. /\ pc[a] = "unsub_redis" /\ redis' = redis \ {f} /\ keys' = keys \ {f}
      /\ UNCHANGED <<subscriptions, pubsubTask, todo, call>>
  BY DEF UnsubscribeRedis
<1>2. a \in Clients /\ a \notin Tasks /\ \A t \in Tasks : t \in Actors \ {a}
  BY <1>1, ClientsCall, ActorsAssumption DEF Actors
<1>3. \A b \in Actors \ {a} : pc[b] \notin Critical
  BY <1>1, OneCritical DEF Critical
<1>4. redis = keys /\ f \in keys /\ \A g \in keys \ {f} : subscriptions[g] # {}
  BY <1>1 DEF Poller, Parting
<1>5. cancelReq = {} /\ pubsubTask # NoTask /\ pc[pubsubTask] \in Polling /\ pubsubTask \in Tasks
  BY <1>1, <1>3, <1>4 DEF Poller, Running, Critical, Types, TypeOK
<1> HIDE DEF f
<1>6. CASE keys' = {} /\ StopPoller(a)
  <2>1. /\ cancelReq' = {pubsubTask}
        /\ awaiting' = [awaiting EXCEPT ![a] = pubsubTask] /\ pc' = [pc EXCEPT ![a] = "unsub_await"]
    BY <1>2, <1>5, <1>6 DEF StopPoller, Done, Polling
  <2>2. /\ awaiting'[a] = pubsubTask /\ pc'[a] = "unsub_await"
        /\ \A b \in Actors \ {a} : pc'[b] = pc[b]
    BY <2>1 DEF Types, TypeOK
  <2>3. OnePoller'
    BY <1>1, <1>2, <2>2 DEF Poller, OnePoller, Polling
  <2>4. \A b \in Actors : pc'[b] \in Critical => b = a
    BY <1>3, <2>2
  <2>5. Between' /\ Joining' /\ Parting' /\ Running'
    BY <2>2, <2>4 DEF Between, Joining, Parting, Running, Critical
  <2>6. Ending'
    <3>1. redis' = {}
      BY <1>1, <1>4, <1>6
    <3>2. pc'[pubsubTask] # "cancelled"
      BY <1>2, <1>5, <2>2 DEF Polling
    <3>3. QED
      BY <1>1, <1>5, <1>6, <2>1, <2>2, <2>4, <3>1, <3>2 DEF Ending, Critical
  <2>7. QED
    BY <2>3, <2>5, <2>6 DEF Poller
<1>7. CASE keys' # {} /\ Return(a, todo[a]) /\ UNCHANGED <<cancelReq, awaiting>>
  <2>1. pc'[a] \notin Critical /\ \A b \in Actors \ {a} : pc'[b] = pc[b]
    BY <1>7, ReturnShape DEF Resume, Critical
  <2>2. \A b \in Actors : pc'[b] \notin Critical
    BY <1>3, <2>1
  <2>3. OnePoller'
    BY <1>1, <1>2, <2>1 DEF Poller, OnePoller, Polling
  <2>4. Between' /\ Joining' /\ Parting' /\ Ending'
    BY <1>1, <1>4, <2>2 DEF Between, Joining, Parting, Ending, Critical
  <2>5. Running'
    <3>1. redis' # {}
      BY <1>1, <1>4, <1>7
    <3>2. pc'[pubsubTask] \in Polling
      BY <1>2, <1>5, <2>1
    <3>3. QED
      BY <1>1, <1>5, <1>7, <3>1, <3>2 DEF Running
  <2>6. QED
    BY <2>3, <2>4, <2>5 DEF Poller
<1>8. QED
  BY <1>1, <1>5, <1>6, <1>7 DEF UnsubscribeRedis

LEMMA AwaitedPoller ==
    ASSUME Types, Registry, Poller, Undisturbed, NEW a \in Actors, UnsubscribeAwaited(a)
    PROVE  Poller'
<1>1. /\ pc[a] = "unsub_await" /\ UNCHANGED <<keys, subscriptions, redis, cancelReq, call>>
      /\ pc[awaiting[a]] \in Done
  BY DEF UnsubscribeAwaited
<1>2. a \in Clients /\ a \notin Tasks /\ \A t \in Tasks : t \in Actors \ {a}
  BY <1>1, ClientsCall, ActorsAssumption DEF Actors
<1>3. \A b \in Actors \ {a} : pc[b] \notin Critical
  BY <1>1, OneCritical DEF Critical
<1>4. /\ keys = {} /\ redis = {} /\ pubsubTask \in Tasks /\ awaiting[a] = pubsubTask
      /\ pc[pubsubTask] = "cancelled" => cancelReq = {}
  BY <1>1 DEF Poller, Ending, Types, TypeOK
<1>5. pc[pubsubTask] = "cancelled" /\ cancelReq = {}
  BY <1>1, <1>4 DEF Poller, OnePoller, Done
<1>6. Return(a, todo[a]) /\ pubsubTask' = NoTask /\ todo' = todo
  BY <1>4, <1>5 DEF UnsubscribeAwaited
<1>7. pc'[a] \notin Critical /\ \A b \in Actors \ {a} : pc'[b] = pc[b]
  BY <1>6, ReturnShape DEF Resume, Critical
<1>8. \A b \in Actors : pc'[b] \notin Critical
  BY <1>3, <1>7
<1>9. \A t \in Tasks : pc[t] \notin Polling
  BY <1>5 DEF Poller, OnePoller, Polling
<1>10. OnePoller'
  BY <1>2, <1>6, <1>7, <1>9 DEF Poller, OnePoller
<1>11. Between' /\ Joining' /\ Parting' /\ Ending'
  BY <1>1, <1>4, <1>8 DEF Between, Joining, Parting, Ending, Critical
<1>12. Running'
  BY <1>1, <1>4, <1>5, <1>6 DEF Running
<1>13. QED
  BY <1>10, <1>11, <1>12 DEF Poller

LEMMA TaskPoller ==
    ASSUME Types, Registry, Poller, Undisturbed, failures' = failures, NEW t \in Tasks,
           \/ UnsubscribeSelf(t) \/ PollMessage(t) \/ PollRaises(t) \/ Send(t) \/ Cancelled(t)
    PROVE  Poller'
<1> USE DEF registryVars, callVars
<1>1. t \in Actors /\ Tasks \subseteq Actors /\ pc[t] \in Polling /\ t = pubsubTask /\ todo[t] = {}
  BY DEF Actors, Poller, OnePoller, Polling, UnsubscribeSelf, PollMessage, PollRaises, Send, Cancelled
<1>2. CASE UnsubscribeSelf(t)
  BY <1>1, <1>2 DEF UnsubscribeSelf, Polling
<1>3. CASE PollMessage(t)
  <2>1. /\ UNCHANGED <<keys, subscriptions, pubsubTask, redis, cancelReq, todo, call, awaiting>>
        /\ pc' = pc \/ pc' = [pc EXCEPT ![t] = "send"]
    BY <1>3 DEF PollMessage
  <2>2. \A a \in Actors : pc'[a] = pc[a] \/ (a = t /\ pc'[a] = "send")
    BY <2>1 DEF Types, TypeOK
  <2>3. QED
    BY <1>1, <2>1, <2>2, PollerKept DEF Polling, Critical
<1>4. CASE PollRaises(t)
  <2>1. PICK u \in Tasks \ {t} : pc[u] = "poll"
    BY <1>4, BoundsAssumption DEF PollRaises, Types, TypeOK
  <2>2. QED
    BY <1>1, <2>1 DEF Poller, OnePoller, Polling
<1>5. CASE Send(t)
  <2>1. /\ UNCHANGED <<keys, subscriptions, pubsubTask, redis, cancelReq, call, awaiting>>
        /\ \E w \in batch[t] :
             /\ todo' = [todo EXCEPT ![t] = @ \cup IF conn[w] = "open" THEN {}
                                                   ELSE {<<msg[t].channel, w>>}]
             /\ pc' = [pc EXCEPT ![t] = IF batch[t] # {w} THEN "send"
                         ELSE IF todo'[t] # {} THEN "unsub_lock" ELSE "poll"]
    BY <1>5 DEF Send
  <2>2. PICK w \in batch[t] :
             /\ todo' = [todo EXCEPT ![t] = @ \cup IF conn[w] = "open" THEN {}
                                                   ELSE {<<msg[t].channel, w>>}]
             /\ pc' = [pc EXCEPT ![t] = IF batch[t] # {w} THEN "send"
                         ELSE IF todo'[t] # {} THEN "unsub_lock" ELSE "poll"]
    BY <2>1
  <2>3. w \in Clients /\ conn[w] = "open"
    BY <2>2 DEF Types, TypeOK, Undisturbed
  <2>4. todo'[t] = {} /\ \A a \in Actors \ {t} : todo'[a] = todo[a]
    BY <1>1, <2>2, <2>3 DEF Types, TypeOK
  <2>5. pc'[t] \in {"send", "poll"} /\ \A a \in Actors \ {t} : pc'[a] = pc[a]
    BY <1>1, <2>2, <2>4 DEF Types, TypeOK
  <2>6. QED
    BY <1>1, <2>1, <2>4, <2>5, PollerKept DEF Polling, Critical
<1>6. CASE Cancelled(t)
  <2>1. /\ UNCHANGED <<keys, subscriptions, pubsubTask, call, awaiting>>
        /\ t \in cancelReq /\ cancelReq' = cancelReq \ {t}
        /\ pc' = [pc EXCEPT ![t] = "cancelled"] /\ todo' = [todo EXCEPT ![t] = {}]
        /\ redis' = redis
    BY <1>1, <1>6 DEF Cancelled, Polling
  <2>2. /\ pc'[t] = "cancelled" /\ todo'[t] = {}
        /\ \A a \in Actors \ {t} : pc'[a] = pc[a] /\ todo'[a] = todo[a]
    BY <1>1, <2>1 DEF Types, TypeOK
  <2>3. PICK a \in Actors : pc[a] = "unsub_await"
    BY <2>1 DEF Poller, Running
  <2>4. a # t /\ pc'[a] = "unsub_await"
    BY <1>1, <2>2, <2>3 DEF Polling
  <2>5. \A b \in Actors : pc'[b] \in Critical => b = a
    BY <2>2, <2>3, OneCritical DEF Critical
  <2>6. cancelReq' = {} /\ keys = {} /\ redis = {} /\ pubsubTask # NoTask /\ awaiting[a] = pubsubTask
    BY <1>1, <2>1, <2>3 DEF Poller, Ending
  <2>7. OnePoller'
    BY <1>1, <2>1, <2>2 DEF Poller, OnePoller, Polling
  <2>8. Between' /\ Joining' /\ Parting' /\ Running'
    BY <2>4, <2>5 DEF Between, Joining, Parting, Running, Critical
  <2>9. Ending'
    BY <2>1, <2>4, <2>5, <2>6 DEF Ending, Critical
  <2>10. QED
    BY <2>7, <2>8, <2>9 DEF Poller
<1>7. QED
  BY <1>2, <1>3, <1>4, <1>5, <1>6

LEMMA NextPoller ==
    ASSUME Types, Registry, Serving, Poller, Undisturbed, Undisturbed', [Next]_vars
    PROVE  Poller'
<1>1. failures' = failures /\ pc[Server] = "idle" /\ pc'[Server] = "idle"
        /\ \A c \in Clients : conn'[c] = "open"
  BY DEF Undisturbed
<1>2. ASSUME NEW a \in Actors, Enter(a) PROVE Poller'
  BY <1>1, <1>2, SubscribePoller, SnapshotPoller, EnterPoller DEF Enter
<1>3. ASSUME NEW a \in Actors, UnsubscribeFails(a) PROVE FALSE
  BY <1>1, <1>3, BoundsAssumption DEF UnsubscribeFails, Types, TypeOK
<1>4. ASSUME StopAwaited \/ Stop PROVE FALSE
  BY <1>1, <1>4 DEF StopAwaited, Stop, Types, TypeOK, Actors
<1>5. ASSUME NEW a \in Actors, Proceed(a) PROVE Poller'
  BY <1>1, <1>3, <1>4, <1>5, SubscribePoller, RedisPoller, AwaitedPoller, TaskPoller DEF Proceed
<1>6. CASE UNCHANGED vars \/ RedisAccepts \/ \E ch \in Channels : Publish(ch)
  <2>1. UNCHANGED <<keys, subscriptions, pubsubTask, redis, cancelReq, pc, call, awaiting, todo>>
    BY <1>6 DEF vars, RedisAccepts, Publish, registryVars, callVars
  <2>2. QED
    BY <2>1, PollerKept
<1>7. CASE Environment
  BY <1>4, <1>6, <1>7, CallPoller DEF Environment
<1>8. QED
  BY <1>2, <1>5, <1>6, <1>7 DEF Next

\* What is known of an undisturbed service.
Undisrupted == Serving /\ (Undisturbed => Poller)

LEMMA AlwaysPoller == Spec => [](Types /\ Registry /\ Undisrupted)
<1>1. Init => Undisrupted
  BY InitPoller DEF Undisrupted, Serving, Init, Actors, ActorsAssumption
<1>2. Types /\ Registry /\ Undisrupted /\ [Next]_vars => Undisrupted'
  BY DisturbedStays, NextPoller DEF Undisrupted
<1>3. QED
  BY <1>1, <1>2, InitTypes, NextTypes, InitRegistry, NextRegistry, PTL DEF Spec

\* Registry, commands sent to Redis and background task agree between critical
\* sections.
THEOREM PollerFollows == Spec => []PollerFollowsRegistry
<1>1. Types /\ Registry /\ Undisrupted => PollerFollowsRegistry
  <2> SUFFICES ASSUME Types, Registry, Poller, lock = NoActor
               PROVE  /\ keys = redis /\ \A f \in keys : subscriptions[f] # {}
                      /\ keys # {} <=> pubsubTask # NoTask
                      /\ pubsubTask # NoTask => pc[pubsubTask] \notin Done \cup {"new"}
    BY DEF Undisrupted, PollerFollowsRegistry
  <2>1. \A a \in Actors : pc[a] \notin Critical
    BY OneCritical
  <2>2. QED
    BY <2>1 DEF Poller, Between, Running, Critical, Polling, Done
<1>2. QED
  BY <1>1, AlwaysPoller, PTL

(***************************************************************************)
(* Order.  Without patterns Redis sends a message at most once, so the     *)
(* numbers in the inbox increase.  A task holds the message it took from   *)
(* the head of the inbox until it has sent it to every client of the       *)
(* snapshot; as one task at most polls or sends, what is still in the      *)
(* inbox is newer than what is being sent, and that is newer than what     *)
(* the clients it is still to be sent to have received.                    *)
(***************************************************************************)
Inboxed ==
    /\ \A i \in 1..Len(inbox) : inbox[i].n <= published
    /\ \A i, j \in 1..Len(inbox) : i < j => inbox[i].n < inbox[j].n
Seen ==
    \A c \in Clients : \A i \in 1..Len(received[c]) :
        /\ received[c][i].n <= published
        /\ \A j \in 1..Len(inbox) : received[c][i].n < inbox[j].n
Carried ==
    \A t \in Tasks : pc[t] = "send" =>
        /\ msg[t].n <= published
        /\ \A j \in 1..Len(inbox) : msg[t].n < inbox[j].n
        /\ \A c \in batch[t] : \A i \in 1..Len(received[c]) : received[c][i].n < msg[t].n
Increasing ==
    \A c \in Clients : \A i, j \in 1..Len(received[c]) :
        i < j => received[c][i].n < received[c][j].n
Stream == Inboxed /\ Seen /\ Carried /\ Increasing

LEMMA InitStream == Init => Stream
BY DEF Init, Stream, Inboxed, Seen, Carried, Increasing

\* Steps that neither take, send nor publish a message.
LEMMA StreamKept ==
    ASSUME Stream, UNCHANGED <<inbox, published, received, msg>>,
           \A t \in Tasks : pc'[t] = "send" => pc[t] = "send" /\ batch'[t] = batch[t]
    PROVE  Stream'
BY DEF Stream, Inboxed, Seen, Carried, Increasing

LEMMA CallStream ==
    ASSUME Types, Stream, NEW c \in Clients,
           \/ \E f \in Feeds : Subscribe(c, f) \/ Unsubscribe(c, f)
           \/ Disconnect(c) \/ Close(c)
    PROVE  Stream'
<1>1. UNCHANGED <<inbox, published, received, msg, batch>>
        /\ (pc' = pc \/ \E p \in {"sub_lock", "unsub_lock", "disc_lock"} : pc' = [pc EXCEPT ![c] = p])
  BY DEF Subscribe, Unsubscribe, Disconnect, Close, streamVars, fanoutVars
<1>2. \A t \in Tasks : pc'[t] = "send" => pc[t] = "send"
  BY <1>1 DEF Types, TypeOK
<1>3. QED
  BY <1>1, <1>2, StreamKept

LEMMA ActorStream ==
    ASSUME Types, Stream, NEW a \in Actors,
           \/ Enter(a)
           \/ a \in Clients /\ (SubscribeRedis(a) \/ SubscribeFails(a))
           \/ UnsubscribeRedis(a) \/ UnsubscribeFails(a) \/ UnsubscribeAwaited(a)
           \/ a \in Tasks /\ (UnsubscribeSelf(a) \/ PollRaises(a) \/ Cancelled(a))
           \/ a = Server /\ StopAwaited
    PROVE  Stream'
<1> USE DEF streamVars, fanoutVars
<1>1. CASE a \in Clients /\ (SubscribeKnown(a) \/ SubscribeNew(a) \/ SubscribeRedis(a) \/ SubscribeFails(a))
  <2>1. /\ UNCHANGED <<inbox, published, received, msg, batch>>
        /\ \/ \E p \in {"idle", "sub_redis"} : pc' = [pc EXCEPT ![a] = p]
           \/ \E t \in Tasks : pc' = [pc EXCEPT ![t] = "poll", ![a] = "idle"]
    BY <1>1 DEF SubscribeKnown, SubscribeNew, SubscribeRedis, SubscribeFails, JoinFeed
  <2>2. \A t \in Tasks : pc'[t] = "send" => pc[t] = "send"
    BY <2>1 DEF Types, TypeOK
  <2>3. QED
    BY <2>1, <2>2, StreamKept
<1>2. CASE \/ a \in Clients /\ DisconnectSnapshot(a)
           \/ UnsubscribeEnter(a) \/ UnsubscribeRedis(a) \/ UnsubscribeFails(a)
           \/ UnsubscribeAwaited(a) \/ (a \in Tasks /\ UnsubscribeSelf(a))
  <2>1. /\ UNCHANGED <<inbox, published, received, msg, batch>>
        /\ \/ \E p \in {"unsub_redis", "unsub_await", "unsub_self"} : pc' = [pc EXCEPT ![a] = p]
           \/ \E left : Return(a, left)
           \/ Raise(a)
    BY <1>2
       DEF DisconnectSnapshot, UnsubscribeEnter, UnsubscribeUnknown, UnsubscribeOne, UnsubscribeLast,
           UnsubscribeRedis, UnsubscribeFails, UnsubscribeAwaited, UnsubscribeSelf, StopPoller
  <2>2. \A t \in Tasks : pc'[t] = "send" => pc[t] = "send"
    <3>1. CASE \E p \in {"unsub_redis", "unsub_await", "unsub_self"} : pc' = [pc EXCEPT ![a] = p]
      BY <3>1 DEF Types, TypeOK
    <3>2. CASE (\E left : Return(a, left)) \/ Raise(a)
      BY <3>2, ReturnShape, RaiseShape DEF Resume, Actors
    <3>3. QED
      BY <2>1, <3>1, <3>2
  <2>3. QED
    BY <2>1, <2>2, StreamKept
<1>3. CASE a \in Tasks /\ (PollRaises(a) \/ Cancelled(a))
  <2>1. /\ UNCHANGED <<inbox, published, received, msg>>
        /\ \E p \in Done : pc' = [pc EXCEPT ![a] = p]
        /\ batch' = batch \/ batch' = [batch EXCEPT ![a] = {}]
    BY <1>3 DEF PollRaises, Cancelled, Done
  <2>2. \A t \in Tasks : pc'[t] = "send" => pc[t] = "send" /\ batch'[t] = batch[t]
    BY <1>3, <2>1 DEF Types, TypeOK, Done
  <2>3. QED
    BY <2>1, <2>2, StreamKept
<1>4. CASE a = Server /\ StopAwaited
  BY <1>4, StreamKept DEF StopAwaited, Types, TypeOK
<1>5. QED
  BY <1>1, <1>2, <1>3, <1>4 DEF Enter

\* The head of the inbox is newer than anything received and older than what
\* stays in the inbox.
LEMMA PollStream ==
    ASSUME Types, Stream, NEW t \in Tasks, PollMessage(t)
    PROVE  Stream'
<1> DEFINE m == Head(inbox)
<1>1. /\ inbox # <<>> /\ inbox' = Tail(inbox) /\ UNCHANGED <<published, received>>
      /\ \/ UNCHANGED <<msg, batch, pc>>
         \/ /\ msg' = [msg EXCEPT ![t] = m]
            /\ batch' = [batch EXCEPT ![t] = subscriptions[m.channel]]
            /\ pc' = [pc EXCEPT ![t] = "send"]
  BY DEF PollMessage
<1>2. inbox \in Seq(Message) /\ Tasks \subseteq Actors /\ published \in Nat
  BY BoundsAssumption DEF Types, TypeOK, Actors
<1>3. /\ Len(inbox') = Len(inbox) - 1 /\ m = inbox[1] /\ 1 \in 1..Len(inbox)
      /\ \A j \in 1..Len(inbox') : inbox'[j] = inbox[j+1] /\ j+1 \in 1..Len(inbox) /\ 1 < j+1
  BY <1>1, <1>2
<1>4. Inboxed'
  <2>1. \A j \in 1..Len(inbox') : inbox'[j].n <= published'
    BY <1>1, <1>3 DEF Stream, Inboxed
  <2>2. ASSUME NEW i \in 1..Len(inbox'), NEW j \in 1..Len(inbox'), i < j
        PROVE  inbox'[i].n < inbox'[j].n
    <3>1. i+1 < j+1
      BY <2>2
    <3>2. inbox[i+1].n < inbox[j+1].n
      BY <1>3, <3>1 DEF Stream, Inboxed
    <3>3. QED
      BY <1>3, <3>2
  <2>3. QED
    BY <2>1, <2>2 DEF Inboxed
<1>5. Seen'
  BY <1>1, <1>3 DEF Stream, Seen
<1>6. Increasing'
  BY <1>1 DEF Stream, Increasing
<1>7. \A j \in 1..Len(inbox') : m.n < inbox'[j].n
  BY <1>3 DEF Stream, Inboxed
<1>8. m.n <= published
  BY <1>3 DEF Stream, Inboxed
<1>9. \A c \in Clients : \A i \in 1..Len(received[c]) : received[c][i].n < m.n
  BY <1>3 DEF Stream, Seen
<1>10. ASSUME NEW u \in Tasks, pc'[u] = "send"
       PROVE  /\ msg'[u].n <= published'
              /\ \A j \in 1..Len(inbox') : msg'[u].n < inbox'[j].n
              /\ \A c \in batch'[u] : \A i \in 1..Len(received'[c]) : received'[c][i].n < msg'[u].n
  <2>1. CASE pc[u] = "send" /\ msg'[u] = msg[u] /\ batch'[u] = batch[u]
    BY <1>1, <1>3, <2>1 DEF Stream, Carried
  <2>2. CASE msg'[u] = m /\ batch'[u] \subseteq Clients
    BY <1>1, <1>7, <1>8, <1>9, <2>2
  <2>3. batch'[u] \subseteq Clients
    <3>1. m \in Message
      BY <1>2, <1>3
    <3>2. m.channel \in Feeds
      BY <3>1 DEF Message, Feeds
    <3>3. subscriptions[m.channel] \subseteq Clients /\ batch \in [Tasks -> SUBSET Clients]
      BY <3>2 DEF Types, TypeOK
    <3> HIDE DEF m
    <3>4. QED
      BY <1>1, <3>3
  <2>4. QED
    BY <1>1, <1>2, <1>10, <2>1, <2>2, <2>3 DEF Types, TypeOK
<1>11. QED
  BY <1>4, <1>5, <1>6, <1>10 DEF Stream, Carried

LEMMA SendStream ==
    ASSUME Types, Poller, Undisturbed, Stream, NEW t \in Tasks, Send(t)
    PROVE  Stream'
<1>1. PICK w \in batch[t] :
        /\ batch' = [batch EXCEPT ![t] = @ \ {w}]
        /\ received' = IF conn[w] = "open" THEN [received EXCEPT ![w] = Append(@, msg[t])]
                                           ELSE received
        /\ \E p : pc' = [pc EXCEPT ![t] = p]
  BY DEF Send
<1>2. /\ pc[t] = "send" /\ UNCHANGED <<inbox, published, msg>> /\ t \in Actors
      /\ w \in Clients /\ msg[t] \in Message
  BY <1>1 DEF Send, Types, TypeOK, MessageKnown, Actors
<1>3. received' = [received EXCEPT ![w] = Append(@, msg[t])]
  BY <1>1, <1>2 DEF Undisturbed
<1>4. \A u \in Tasks : pc'[u] = "send" => u = t
  BY <1>1, <1>2 DEF Poller, OnePoller, Polling, Types, TypeOK, Actors
<1>5. /\ received'[w] = Append(received[w], msg[t]) /\ received[w] \in Seq(Message)
      /\ \A c \in Clients \ {w} : received'[c] = received[c]
  BY <1>2, <1>3 DEF Types, TypeOK
<1>6. /\ Len(received'[w]) = Len(received[w]) + 1 /\ Len(received[w]) \in Nat
      /\ \A i \in 1..Len(received[w]) : received'[w][i] = received[w][i]
      /\ received'[w][Len(received[w]) + 1] = msg[t]
  BY <1>2, <1>5
<1>7. /\ msg[t].n <= published /\ \A j \in 1..Len(inbox) : msg[t].n < inbox[j].n
      /\ \A c \in batch[t] : \A i \in 1..Len(received[c]) : received[c][i].n < msg[t].n
  BY <1>2 DEF Stream, Carried
<1>8. \A i \in 1..Len(received'[w]) : i \in 1..Len(received[w]) \/ i = Len(received[w]) + 1
  BY <1>6
<1>9. Inboxed'
  BY <1>2 DEF Stream, Inboxed
<1>10. Seen'
  <2>1. ASSUME NEW c \in Clients, NEW i \in 1..Len(received'[c])
        PROVE  received'[c][i].n <= published /\ \A j \in 1..Len(inbox) : received'[c][i].n < inbox[j].n
    BY <1>5, <1>6, <1>7, <1>8 DEF Stream, Seen
  <2>2. QED
    BY <1>2, <2>1 DEF Seen
<1>11. Increasing'
  <2>1. ASSUME NEW i \in 1..Len(received'[w]), NEW j \in 1..Len(received'[w]), i < j
        PROVE  received'[w][i].n < received'[w][j].n
    <3>1. i \in 1..Len(received[w])
      BY <1>6, <2>1
    <3>2. CASE j \in 1..Len(received[w])
      BY <1>2, <1>6, <2>1, <3>1, <3>2 DEF Stream, Increasing
    <3>3. CASE j = Len(received[w]) + 1
      BY <1>6, <1>7, <3>1, <3>3
    <3>4. QED
      BY <1>8, <3>2, <3>3
  <2>2. QED
    BY <1>5, <2>1 DEF Stream, Increasing
<1>12. Carried'
  <2>1. batch'[t] = batch[t] \ {w} /\ batch[t] \subseteq Clients
    BY <1>1 DEF Types, TypeOK
  <2>2. \A c \in batch'[t] : c \in batch[t] /\ received'[c] = received[c]
    BY <1>5, <2>1
  <2>3. QED
    BY <1>2, <1>4, <1>7, <2>2 DEF Carried
<1>13. QED
  BY <1>9, <1>10, <1>11, <1>12 DEF Stream

LEMMA NumberTypes == \A m \in Message : m.n \in Nat
BY BoundsAssumption DEF Message

\* Without patterns a message goes out once at most, with a number of its own.
LEMMA PublishStream ==
    ASSUME Types, Stream, Matches = {}, NEW ch \in Channels, Publish(ch)
    PROVE  Stream'
<1> DEFINE k == Cardinality(Matching(ch))
           x == [n |-> published + 1, channel |-> ch]
<1>1. k \in {0, 1}
  <2>1. Matching(ch) \subseteq {ch}
    BY DEF Matching
  <2>2. Matching(ch) = {} \/ Matching(ch) = {ch}
    BY <2>1
  <2>3. QED
    BY <2>2, FS_EmptySet, FS_Singleton
<1>2. /\ published' = published + 1 /\ inbox' = inbox \o [i \in 1..k |-> x]
      /\ UNCHANGED <<received, msg, batch, pc>>
  BY DEF Publish, fanoutVars
<1>3. inbox \in Seq(Message) /\ published \in Nat
  BY BoundsAssumption DEF Types, TypeOK
<1> HIDE DEF k
<1>4. published' = published + 1 /\ published' \in Nat /\ published \in Nat /\ x.n = published'
  BY <1>2, <1>3
<1> HIDE DEF x
<1>5. \A j \in 1..Len(inbox') :
        \/ j \in 1..Len(inbox) /\ inbox'[j] = inbox[j]
        \/ j = Len(inbox) + 1 /\ inbox'[j] = x
  BY <1>1, <1>2, <1>3
<1>6. \A i \in 1..Len(inbox) : inbox[i] \in Message /\ inbox[i].n \in Nat
  <2>1. \A i \in 1..Len(inbox) : inbox[i] \in Message
    BY <1>3
  <2>2. QED
    BY <2>1, NumberTypes
<1>7. Inboxed'
  <2>1. ASSUME NEW i \in 1..Len(inbox') PROVE inbox'[i].n <= published'
    <3>1. CASE i \in 1..Len(inbox) /\ inbox'[i] = inbox[i]
      <4>1. inbox[i].n <= published /\ inbox[i].n \in Nat
        BY <1>6, <3>1 DEF Stream, Inboxed
      <4>2. QED
        BY <1>4, <3>1, <4>1
    <3>2. CASE inbox'[i] = x
      BY <1>4, <3>2
    <3>3. QED
      BY <1>5, <3>1, <3>2
  <2>2. ASSUME NEW i \in 1..Len(inbox'), NEW j \in 1..Len(inbox'), i < j
        PROVE  inbox'[i].n < inbox'[j].n
    <3>1. i \in 1..Len(inbox) /\ inbox'[i] = inbox[i]
      <4>1. Len(inbox) \in Nat /\ i # Len(inbox) + 1
        BY <1>3, <1>5, <2>2
      <4>2. QED
        BY <1>5, <4>1
    <3>2. CASE j \in 1..Len(inbox) /\ inbox'[j] = inbox[j]
      BY <2>2, <3>1, <3>2 DEF Stream, Inboxed
    <3>3. CASE inbox'[j] = x
      <4>1. inbox[i].n <= published /\ inbox[i].n \in Nat
        BY <1>6, <3>1 DEF Stream, Inboxed
      <4>2. QED
        BY <1>4, <3>1, <3>3, <4>1
    <3>4. QED
      BY <1>5, <3>2, <3>3
  <2>3. QED
    BY <2>1, <2>2 DEF Inboxed
<1>8. ASSUME NEW c \in Clients, NEW i \in 1..Len(received[c])
      PROVE  received[c][i].n \in Nat
  <2>1. received[c] \in Seq(Message)
    BY DEF Types, TypeOK
  <2>2. received[c][i] \in Message
    BY <1>8, <2>1
  <2>3. QED
    BY <2>2, NumberTypes
<1>9. Seen'
  <2>1. ASSUME NEW c \in Clients, NEW i \in 1..Len(received[c])
        PROVE  /\ received[c][i].n <= published'
               /\ \A j \in 1..Len(inbox') : received[c][i].n < inbox'[j].n
    <3>1. received[c][i].n < published'
      BY <1>2, <1>3, <1>8 DEF Stream, Seen
    <3>2. ASSUME NEW j \in 1..Len(inbox') PROVE received[c][i].n < inbox'[j].n
      <4>1. CASE j \in 1..Len(inbox) /\ inbox'[j] = inbox[j]
        BY <4>1 DEF Stream, Seen
      <4>2. CASE inbox'[j] = x
        BY <1>4, <3>1, <4>2
      <4>3. QED
        BY <1>5, <4>1, <4>2
    <3>3. QED
      BY <1>4, <1>8, <3>1, <3>2
  <2>2. QED
    BY <1>2, <2>1 DEF Seen
<1>10. Carried'
  <2>1. ASSUME NEW t \in Tasks, pc[t] = "send"
        PROVE  msg[t].n <= published' /\ \A j \in 1..Len(inbox') : msg[t].n < inbox'[j].n
    <3>1. msg[t].n \in Nat
      BY <2>1, NumberTypes DEF Types, MessageKnown
    <3>2. msg[t].n < published'
      BY <1>2, <1>3, <2>1, <3>1 DEF Stream, Carried
    <3>3. ASSUME NEW j \in 1..Len(inbox') PROVE msg[t].n < inbox'[j].n
      <4>1. CASE j \in 1..Len(inbox) /\ inbox'[j] = inbox[j]
        BY <2>1, <4>1 DEF Stream, Carried
      <4>2. CASE inbox'[j] = x
        BY <1>4, <3>2, <4>2
      <4>3. QED
        BY <1>5, <4>1, <4>2
    <3>4. QED
      BY <1>4, <3>1, <3>2, <3>3
  <2>2. QED
    BY <1>2, <2>1 DEF Stream, Carried
<1>11. Increasing'
  BY <1>2 DEF Stream, Increasing
<1>12. QED
  BY <1>7, <1>9, <1>10, <1>11 DEF Stream

LEMMA NextStream ==
    ASSUME Types, Poller, Undisturbed, Stream, Matches = {}, [Next]_vars
    PROVE  Stream'
<1>1. ASSUME NEW a \in Actors, Enter(a) \/ Proceed(a) PROVE Stream'
  BY <1>1, ActorStream, PollStream, SendStream DEF Proceed
<1>2. CASE UNCHANGED vars
  BY <1>2, StreamKept DEF vars, streamVars, fanoutVars
<1>3. CASE Stop
  BY <1>3 DEF Stop, streamVars, fanoutVars, Stream, Inboxed, Seen, Carried, Increasing,
              Types, TypeOK, Actors
<1>4. CASE RedisAccepts
  BY <1>4, StreamKept DEF RedisAccepts, streamVars, fanoutVars
<1>5. CASE Environment
  BY <1>3, <1>4, <1>5, CallStream, PublishStream DEF Environment
<1>6. QED
  BY <1>1, <1>2, <1>5 DEF Next

\* No client of an undisturbed service sees a message twice or a later one
\* before an earlier one, across restarts of the background task (lines
\* 161-167, 269-281).  The hypothesis is needed: Redis sends a message once for
\* the channel and once more for every subscribed pattern that matches it.
THEOREM DeliveredInOrder ==
    ASSUME Matches = {}
    PROVE  Spec => []OrderedDelivery
<1> DEFINE Flow == Undisturbed => Stream
<1>1. Init => Flow
  BY InitStream
<1>2. Types /\ Undisrupted /\ Serving /\ Flow /\ [Next]_vars => Flow'
  BY DisturbedStays, NextStream DEF Undisrupted
<1>3. Types /\ Registry /\ Undisrupted /\ Flow => OrderedDelivery
  BY DEF OrderedDelivery, Stream, Increasing
<1>4. Undisrupted => Serving
  BY DEF Undisrupted
<1> HIDE DEF Flow
<1>5. QED
  BY <1>1, <1>2, <1>3, <1>4, AlwaysPoller, PTL DEF Spec

(***************************************************************************)
(* Completeness.  A feed gets its first subscriber in the step that sends  *)
(* Redis its subscription, and loses its last one before the command that  *)
(* ends it is sent.  So whatever a client is promised is on a channel that *)
(* Redis delivers, and stays in the inbox, in the hands of the only task,  *)
(* or with the client.                                                     *)
(***************************************************************************)
Fed == \A f \in Feeds : subscriptions[f] # {} => f \in redis

\* What a step leaves alone that does not move the stream.
Aside ==
    /\ UNCHANGED <<inbox, published, received, msg, batch>>
    /\ \A t \in Tasks : pc'[t] = "send" <=> pc[t] = "send"

LEMMA CallAside ==
    ASSUME Types, NEW c \in Clients,
           \/ \E f \in Feeds : Subscribe(c, f) \/ Unsubscribe(c, f)
           \/ Disconnect(c) \/ Close(c)
    PROVE  Aside
<1>1. /\ UNCHANGED <<inbox, published, received, msg, batch>>
      /\ pc' = pc \/ \E p \in {"sub_lock", "unsub_lock", "disc_lock"} : pc' = [pc EXCEPT ![c] = p]
  BY DEF Subscribe, Unsubscribe, Disconnect, Close, streamVars, fanoutVars
<1>2. \A t \in Tasks : t # c
  BY ActorsAssumption
<1>3. QED
  BY <1>1, <1>2 DEF Aside, Types, TypeOK

LEMMA ActorAside ==
    ASSUME Types, NEW a \in Actors,
           \/ Enter(a)
           \/ a \in Clients /\ (SubscribeRedis(a) \/ SubscribeFails(a))
           \/ UnsubscribeRedis(a) \/ UnsubscribeFails(a) \/ UnsubscribeAwaited(a)
           \/ a \in Tasks /\ (UnsubscribeSelf(a) \/ PollRaises(a))
           \/ a = Server /\ StopAwaited
    PROVE  Aside
<1> USE DEF streamVars, fanoutVars
<1>1. CASE a \in Clients /\ (SubscribeKnown(a) \/ SubscribeNew(a) \/ SubscribeRedis(a) \/ SubscribeFails(a))
  <2>1. /\ UNCHANGED <<inbox, published, received, msg, batch>>
        /\ \/ \E p \in {"idle", "sub_redis"} : pc' = [pc EXCEPT ![a] = p]
           \/ \E t \in Tasks : pc[t] = "new" /\ pc' = [pc EXCEPT ![t] = "poll", ![a] = "idle"]
    BY <1>1 DEF SubscribeKnown, SubscribeNew, SubscribeRedis, SubscribeFails, JoinFeed
  <2>2. \A t \in Tasks : t # a
    BY <1>1, ActorsAssumption
  <2>3. QED
    BY <2>1, <2>2 DEF Aside, Types, TypeOK
<1>2. CASE \/ a \in Clients /\ DisconnectSnapshot(a)
           \/ UnsubscribeEnter(a) \/ UnsubscribeRedis(a) \/ UnsubscribeFails(a)
           \/ UnsubscribeAwaited(a) \/ (a \in Tasks /\ UnsubscribeSelf(a))
  <2>1. /\ UNCHANGED <<inbox, published, received, msg, batch>>
        /\ pc[a] # "send"
        /\ \/ \E p \in {"unsub_redis", "unsub_await", "unsub_self"} : pc' = [pc EXCEPT ![a] = p]
           \/ \E left : Return(a, left)
           \/ Raise(a)
    BY <1>2
       DEF DisconnectSnapshot, UnsubscribeEnter, UnsubscribeUnknown, UnsubscribeOne, UnsubscribeLast,
           UnsubscribeRedis, UnsubscribeFails, UnsubscribeAwaited, UnsubscribeSelf, StopPoller
  <2>2. CASE \E p \in {"unsub_redis", "unsub_await", "unsub_self"} : pc' = [pc EXCEPT ![a] = p]
    BY <2>1, <2>2 DEF Aside, Types, TypeOK
  <2>3. CASE (\E left : Return(a, left)) \/ Raise(a)
    <3>1. pc'[a] # "send" /\ \A b \in Actors \ {a} : pc'[b] = pc[b]
      BY <2>3, ReturnShape, RaiseShape DEF Resume
    <3>2. QED
      BY <2>1, <3>1 DEF Aside, Actors
  <2>4. QED
    BY <2>1, <2>2, <2>3
<1>3. CASE a \in Tasks /\ PollRaises(a)
  BY <1>3 DEF PollRaises, Aside, Types, TypeOK
<1>4. CASE a = Server /\ StopAwaited
  BY <1>4 DEF StopAwaited, Aside, Types, TypeOK
<1>5. QED
  BY <1>1, <1>2, <1>3, <1>4 DEF Enter

LEMMA StepAside ==
    ASSUME Types, [Next]_vars
    PROVE  \/ Aside
           \/ \E t \in Tasks : PollMessage(t) \/ Send(t) \/ Cancelled(t)
           \/ \E ch \in Channels : Publish(ch)
<1>1. ASSUME NEW a \in Actors, Enter(a) \/ Proceed(a)
      PROVE  Aside \/ \E t \in Tasks : PollMessage(t) \/ Send(t) \/ Cancelled(t)
  BY <1>1, ActorAside DEF Proceed
<1>2. CASE UNCHANGED vars
  BY <1>2 DEF vars, streamVars, fanoutVars, Aside
<1>3. CASE Stop
  BY <1>3, ActorsAssumption DEF Stop, streamVars, fanoutVars, Aside, Types, TypeOK, Actors
<1>4. CASE RedisAccepts
  BY <1>4 DEF RedisAccepts, streamVars, fanoutVars, Aside
<1>5. CASE Environment
  BY <1>3, <1>4, <1>5, CallAside DEF Environment
<1>6. QED
  BY <1>1, <1>2, <1>5 DEF Next

\* Taking the lock, and being told that Redis has subscribed, disturb nothing.
LEMMA CalmSteps ==
    ASSUME Types, Serving, Undisturbed, NEW a \in Actors,
           Enter(a) \/ (a \in Clients /\ SubscribeRedis(a))
    PROVE  Undisturbed'
<1> USE DEF clientVars
<1>1. a # Server
  BY ActorsAssumption DEF Enter, UnsubscribeEnter, Serving
<1>2. failures' = failures
  BY DEF Enter, SubscribeKnown, SubscribeNew, DisconnectSnapshot, UnsubscribeEnter, SubscribeRedis
<1>3. CASE a \in Clients /\ (SubscribeKnown(a) \/ SubscribeNew(a) \/ SubscribeRedis(a))
  <2>1. /\ conn' = conn
        /\ \/ \E p \in {"idle", "sub_redis"} : pc' = [pc EXCEPT ![a] = p]
           \/ \E t \in Tasks : pc[t] = "new" /\ pc' = [pc EXCEPT ![t] = "poll", ![a] = "idle"]
    BY <1>3 DEF SubscribeKnown, SubscribeNew, SubscribeRedis, JoinFeed
  <2>2. pc'[Server] = pc[Server]
    BY <1>1, <2>1, ActorsAssumption DEF Types, TypeOK
  <2>3. QED
    BY <1>2, <2>1, <2>2 DEF Undisturbed
<1>4. CASE (a \in Clients /\ DisconnectSnapshot(a)) \/ UnsubscribeEnter(a)
  <2>1. \/ \E left : Return(a, left)
        \/ conn' = conn /\ \E p : pc' = [pc EXCEPT ![a] = p]
    BY <1>4 DEF DisconnectSnapshot, UnsubscribeEnter, UnsubscribeUnknown, UnsubscribeOne,
                UnsubscribeLast, StopPoller
  <2>2. pc'[Server] = pc[Server]
    BY <1>1, <2>1, ReturnShape DEF Types, TypeOK, Actors
  <2>3. \A c \in Clients : conn'[c] = "open"
    BY <2>1, ReturnShape DEF Undisturbed
  <2>4. QED
    BY <1>2, <2>2, <2>3 DEF Undisturbed
<1>5. QED
  BY <1>3, <1>4 DEF Enter

\* The sets of clients change one client and one feed at a time, in steps that
\* disturb nothing and do not touch the stream.
Joins(c, f) == subscriptions' = [subscriptions EXCEPT ![f] = @ \cup {c}]
Parts(c, f) == subscriptions' = [subscriptions EXCEPT ![f] = @ \ {c}]

LEMMA SubscriptionSteps ==
    ASSUME Types, Serving, Leave, [Next]_vars
    PROVE  \/ subscriptions' = subscriptions
           \/ /\ Aside /\ published' = published
              /\ Undisturbed => Undisturbed'
              /\ \E c \in Clients, f \in Feeds : Joins(c, f) \/ Parts(c, f)
<1> USE DEF registryVars, streamVars
<1> subscriptions \in [Feeds -> SUBSET Clients]
  BY DEF Types, TypeOK
<1>1. ASSUME NEW a \in Actors, a \in Clients, SubscribeKnown(a) \/ SubscribeRedis(a)
      PROVE  \E f \in Feeds : Joins(a, f)
  <2>1. call[a][1] \in Feeds
    BY <1>1 DEF SubscribeKnown, SubscribeRedis, Types, CallKnown
  <2>2. QED
    BY <1>1, <2>1 DEF SubscribeKnown, SubscribeRedis, JoinFeed, Joins
<1>2. ASSUME NEW a \in Actors, a \in Clients, SubscribeNew(a)
      PROVE  subscriptions' = subscriptions
  <2>1. call[a][1] \in Feeds \ keys
    BY <1>2 DEF SubscribeNew, Types, CallKnown
  <2>2. subscriptions[call[a][1]] = {}
    BY <2>1 DEF Leave, Emptied
  <2>3. QED
    BY <1>2, <2>1, <2>2 DEF SubscribeNew
<1>3. ASSUME NEW a \in Actors, UnsubscribeEnter(a)
      PROVE  \/ subscriptions' = subscriptions
             \/ \E c \in Clients, f \in Feeds : Parts(c, f)
  <2>1. PICK u \in todo[a] : \/ UnsubscribeUnknown(a, u[1])
                             \/ UnsubscribeOne(a, u[1], u[2])
                             \/ UnsubscribeLast(a, u[1], u[2])
    BY <1>3 DEF UnsubscribeEnter
  <2>2. u[1] \in Feeds /\ u[2] \in Clients
    BY <2>1 DEF Types, TypeOK
  <2>3. CASE UnsubscribeUnknown(a, u[1])
    BY <2>3 DEF UnsubscribeUnknown
  <2>4. CASE UnsubscribeOne(a, u[1], u[2])
    BY <2>2, <2>4 DEF UnsubscribeOne, Parts
  <2>5. CASE UnsubscribeLast(a, u[1], u[2])
    BY <2>2, <2>5 DEF UnsubscribeLast, Parts
  <2>6. QED
    BY <2>1, <2>3, <2>4, <2>5
<1>4. ASSUME NEW a \in Actors, Enter(a)
      PROVE  \/ subscriptions' = subscriptions
             \/ \E c \in Clients, f \in Feeds : Joins(c, f) \/ Parts(c, f)
  BY <1>1, <1>2, <1>3, <1>4 DEF Enter, DisconnectSnapshot
<1>5. ASSUME NEW a \in Actors, Proceed(a)
      PROVE  subscriptions' = subscriptions \/ (a \in Clients /\ SubscribeRedis(a))
  BY <1>5 DEF Proceed, SubscribeFails, UnsubscribeRedis, UnsubscribeFails, UnsubscribeAwaited,
       UnsubscribeSelf, PollMessage, PollRaises, Send, Cancelled, StopAwaited
<1>6. ASSUME Environment \/ UNCHANGED vars PROVE subscriptions' = subscriptions
  BY <1>6 DEF Environment, vars, Close, Disconnect, Subscribe, Unsubscribe, Publish, RedisAccepts,
              Stop
<1>7. ASSUME NEW a \in Actors, Enter(a) \/ (a \in Clients /\ SubscribeRedis(a))
      PROVE  Aside /\ published' = published
  BY <1>7, ActorAside DEF Aside, Enter, SubscribeKnown, SubscribeNew, JoinFeed, DisconnectSnapshot,
                          UnsubscribeEnter, SubscribeRedis
<1>8. QED
  BY <1>1, <1>4, <1>5, <1>6, <1>7, CalmSteps DEF Next

\* What the history is known to record: the channel of every message that is
\* under way, that the promise of a served channel covers all its subscribers,
\* and that whoever a message is still to be sent to is subscribed or left after
\* it was published.
Told ==
    /\ log \in Seq(Channels) /\ Len(log) = published
    /\ since \in [Clients -> [Channels -> Nat]]
    /\ until \in [Clients -> [Channels -> Nat]]
OnChannel(m) == m.n \in 1..published /\ log[m.n] = m.channel
Logged ==
    /\ \A i \in 1..Len(inbox) : OnChannel(inbox[i])
    /\ \A t \in Tasks : pc[t] = "send" => OnChannel(msg[t])
Entitled ==
    \A t \in Tasks : pc[t] = "send" => \A c \in batch[t] :
        LET ch == msg[t].channel IN c \in subscriptions[ch] \/ msg[t].n <= until[c][ch]
Promises ==
    /\ promised \in [Channels -> SUBSET Clients]
    /\ \A ch \in Channels : /\ promised[ch] \subseteq subscriptions[ch]
                            /\ Served(ch) => promised[ch] = subscriptions[ch]
    /\ \A c \in Clients, ch \in Channels : c \notin promised[ch] => since[c][ch] = 0
History == Told /\ Promises /\ Logged /\ Entitled

LEMMA RecordShape ==
    ASSUME Types, Told, Promises, [Next /\ Record]_deliveryVars
    PROVE  /\ [Next]_vars
           /\ published' = published => log' = log
           /\ published' # published => \E ch \in Channels : Publish(ch) /\ log' = Append(log, ch)
           /\ since' \in [Clients -> [Channels -> Nat]] /\ until' \in [Clients -> [Channels -> Nat]]
           /\ promised' \in [Channels -> SUBSET Clients]
           /\ \A ch \in Channels :
                promised'[ch] = {c \in subscriptions'[ch] : c \in promised[ch] \/ Served(ch)'}
           /\ \A c \in Clients, ch \in Channels :
                /\ since'[c][ch] = IF c \notin promised'[ch] THEN 0
                                   ELSE IF c \in promised[ch] THEN since[c][ch] ELSE published
                /\ until'[c][ch] = IF c \in subscriptions[ch] \ subscriptions'[ch]
                                   THEN published ELSE until[c][ch]
<1>1. published \in Nat /\ Channels \subseteq Feeds
  BY BoundsAssumption DEF Types, TypeOK, Feeds
<1>2. CASE UNCHANGED deliveryVars
  <2>1. UNCHANGED <<vars, log, promised, since, until>>
    BY <1>2 DEF deliveryVars
  <2>2. UNCHANGED <<published, subscriptions, live, commands>>
    BY <2>1 DEF vars, registryVars, streamVars
  <2>3. \A ch \in Channels :
          promised'[ch] = {c \in subscriptions'[ch] : c \in promised[ch] \/ Served(ch)'}
    <3>1. ASSUME NEW ch \in Channels
          PROVE  promised[ch] = {c \in subscriptions[ch] : c \in promised[ch] \/ Served(ch)}
      BY DEF Promises
    <3>2. QED
      BY <2>1, <2>2, <3>1 DEF Served
  <2>4. QED
    BY <2>1, <2>2, <2>3 DEF Told, Promises
<1>3. CASE Next /\ Record
  <2>1. \A ch \in Channels : Publish(ch) => published' = published + 1
    BY DEF Publish
  <2>2. /\ published' = published => log' = log
        /\ published' # published => \E ch \in Channels : Publish(ch) /\ log' = Append(log, ch)
    BY <1>1, <1>3, <2>1 DEF Record
  <2>3. /\ promised' = [ch \in Channels |->
                       {c \in subscriptions'[ch] : c \in promised[ch] \/ Served(ch)'}]
        /\ since' = [c \in Clients |-> [ch \in Channels |->
                       IF c \notin promised'[ch] THEN 0
                       ELSE IF c \in promised[ch] THEN since[c][ch] ELSE published]]
        /\ until' = [c \in Clients |-> [ch \in Channels |->
                       IF c \in subscriptions[ch] \ subscriptions'[ch] THEN published ELSE until[c][ch]]]
    BY <1>3 DEF Record, Departed
  <2>4. Types'
    BY <1>3, NextTypes
  <2>5. \A ch \in Channels : subscriptions'[ch] \subseteq Clients
    BY <1>1, <2>4 DEF Types, TypeOK
  <2>6. promised' \in [Channels -> SUBSET Clients]
    BY <2>3, <2>5
  <2>7. since' \in [Clients -> [Channels -> Nat]] /\ until' \in [Clients -> [Channels -> Nat]]
    BY <1>1, <2>3 DEF Told
  <2>8. QED
    BY <1>3, <2>2, <2>3, <2>6, <2>7
<1>4. QED
  BY <1>2, <1>3

\* What one more message does to the inbox and to the log.
LEMMA PublishShape ==
    ASSUME Types, Told, NEW ch \in Channels, Publish(ch), log' = Append(log, ch)
    PROVE  /\ published' = published + 1 /\ UNCHANGED <<received, msg, batch, pc, subscriptions, live, commands>>
           /\ log' \in Seq(Channels) /\ Len(log') = published'
           /\ \A k \in 1..published : log'[k] = log[k]
           /\ log'[published'] = ch
           /\ \A j \in 1..Len(inbox) : j \in 1..Len(inbox') /\ inbox'[j] = inbox[j]
           /\ \A j \in 1..Len(inbox') : \/ j \in 1..Len(inbox) /\ inbox'[j] = inbox[j]
                                        \/ inbox'[j] = [n |-> published', channel |-> ch]
           /\ ch \in live =>
                \E j \in 1..Len(inbox') : inbox'[j] = [n |-> published', channel |-> ch]
<1> DEFINE k == Cardinality(Matching(ch))
           x == [n |-> published + 1, channel |-> ch]
<1>1. k \in Nat /\ (ch \in live => k # 0)
  <2>1. IsFiniteSet(Matching(ch))
    <3>1. Matching(ch) \subseteq Feeds
      BY DEF Matching, Types, TypeOK
    <3>2. QED
      BY <3>1, BoundsAssumption, FS_Subset
  <2>2. ch \in live => ch \in Matching(ch)
    BY DEF Matching
  <2>3. QED
    BY <2>1, <2>2, FS_CardinalityType, FS_EmptySet
<1>2. /\ published' = published + 1 /\ inbox' = inbox \o [i \in 1..k |-> x]
      /\ UNCHANGED <<received, msg, batch, pc, subscriptions, live, commands>>
  BY DEF Publish, fanoutVars, registryVars
<1>3. inbox \in Seq(Message) /\ published \in Nat
  BY BoundsAssumption DEF Types, TypeOK
<1>4. x = [n |-> published', channel |-> ch]
  BY <1>2
<1> HIDE DEF k, x
<1>5. /\ \A j \in 1..Len(inbox) : j \in 1..Len(inbox') /\ inbox'[j] = inbox[j]
      /\ \A j \in 1..Len(inbox') : (j \in 1..Len(inbox) /\ inbox'[j] = inbox[j]) \/ inbox'[j] = x
  BY <1>1, <1>2, <1>3
<1>6. ch \in live => \E j \in 1..Len(inbox') : inbox'[j] = x
  <2>1. ch \in live => Len(inbox) + 1 \in 1..Len(inbox') /\ inbox'[Len(inbox) + 1] = x
    BY <1>1, <1>2, <1>3
  <2>2. QED
    BY <2>1
<1>7. /\ log' \in Seq(Channels) /\ Len(log') = published'
      /\ \A i \in 1..published : log'[i] = log[i]
      /\ log'[published'] = ch
  BY <1>2, <1>3 DEF Told
<1>8. QED
  BY <1>2, <1>4, <1>5, <1>6, <1>7

\* A client that is entitled to a message stays so when the sets of clients
\* change: who leaves now leaves after the message was published.
LEMMA StaysEntitled ==
    ASSUME Types, History, [Next /\ Record]_deliveryVars,
           NEW c \in Clients, NEW m \in Message, m.n \in 1..published,
           c \in subscriptions[m.channel] \/ m.n <= until[c][m.channel]
    PROVE  c \in subscriptions'[m.channel] \/ m.n <= until'[c][m.channel]
<1>1. published \in Nat /\ m.n \in Nat /\ m.n <= published
  BY BoundsAssumption DEF Types, TypeOK
<1>2. m.channel \in Channels
  BY DEF Message
<1> DEFINE ch == m.channel
<1>3. until'[c][ch] = IF c \in subscriptions[ch] \ subscriptions'[ch]
                      THEN published ELSE until[c][ch]
  BY <1>2, RecordShape DEF History
<1> HIDE DEF ch
<1>4. c \in subscriptions[ch] \/ m.n <= until[c][ch]
  BY DEF ch
<1>5. c \in subscriptions'[ch] \/ m.n <= until'[c][ch]
  BY <1>1, <1>3, <1>4
<1>6. QED
  BY <1>5 DEF ch

LEMMA InitHistory == DeliveryInit => History
BY ActorsAssumption
   DEF DeliveryInit, Init, History, Told, Promises, Served, Logged, Entitled, Actors, Feeds

LEMMA NextHistory ==
    ASSUME Types, History, [Next /\ Record]_deliveryVars
    PROVE  History'
<1>1. /\ [Next]_vars
      /\ published' = published => log' = log
      /\ published' # published => \E ch \in Channels : Publish(ch) /\ log' = Append(log, ch)
      /\ since' \in [Clients -> [Channels -> Nat]] /\ until' \in [Clients -> [Channels -> Nat]]
  BY RecordShape DEF History
<1>2. /\ published \in Nat /\ inbox \in Seq(Message) /\ Tasks \subseteq Actors
      /\ \A t \in Tasks : batch[t] \subseteq Clients
      /\ \A t \in Tasks : pc[t] = "send" => msg[t] \in Message
  BY BoundsAssumption DEF Types, TypeOK, MessageKnown, Actors
<1>3. Told' /\ Promises'
  <2>1. published' = published => Told'
    BY <1>1 DEF History, Told
  <2>2. published' # published => Told'
    BY <1>1, PublishShape DEF History, Told
  <2>3. Promises'
    <3>1. \A ch \in Channels :
            promised'[ch] = {c \in subscriptions'[ch] : c \in promised[ch] \/ Served(ch)'}
      BY RecordShape DEF History
    <3>2. /\ promised' \in [Channels -> SUBSET Clients]
          /\ \A c \in Clients, ch \in Channels : c \notin promised'[ch] => since'[c][ch] = 0
      BY RecordShape DEF History
    <3>3. QED
      BY <3>1, <3>2 DEF Promises
  <2>4. QED
    BY <2>1, <2>2, <2>3
<1>4. \A i \in 1..Len(inbox) : OnChannel(inbox[i])
  BY DEF History, Logged
<1>5. \A t \in Tasks : pc[t] = "send" =>
          OnChannel(msg[t]) /\ \A c \in batch[t] :
             c \in subscriptions[msg[t].channel] \/ msg[t].n <= until[c][msg[t].channel]
  BY DEF History, Logged, Entitled
<1>6. \A t \in Tasks : pc[t] = "send" => \A c \in batch[t] :
          c \in subscriptions'[msg[t].channel] \/ msg[t].n <= until'[c][msg[t].channel]
  BY <1>2, <1>5, StaysEntitled DEF OnChannel
<1>7. ASSUME published' = published, Tasks \subseteq Actors,
             \A i \in 1..Len(inbox') : \E j \in 1..Len(inbox) : inbox'[i] = inbox[j],
             \A t \in Tasks : pc'[t] = "send" =>
                pc[t] = "send" /\ msg'[t] = msg[t] /\ batch'[t] \subseteq batch[t]
      PROVE  History'
  <2>1. log' = log
    BY <1>1, <1>7
  <2>2. Logged'
    BY <1>4, <1>5, <1>7, <2>1 DEF Logged, OnChannel
  <2>3. Entitled'
    BY <1>6, <1>7 DEF Entitled
  <2>4. QED
    BY <1>3, <2>2, <2>3 DEF History
<1>8. CASE Aside
  BY <1>2, <1>7, <1>8 DEF Aside
<1>9. ASSUME NEW t \in Tasks, Send(t) \/ Cancelled(t) PROVE History'
  <2>1. UNCHANGED <<inbox, published, msg>>
    BY <1>9 DEF Send, Cancelled, streamVars
  <2>2. \A u \in Tasks : pc'[u] = "send" => pc[u] = "send" /\ batch'[u] \subseteq batch[u]
    <3>1. CASE Send(t)
      <4>1. PICK w : batch' = [batch EXCEPT ![t] = @ \ {w}] /\ \E p : pc' = [pc EXCEPT ![t] = p]
        BY <3>1 DEF Send
      <4>2. pc[t] = "send"
        BY <3>1 DEF Send
      <4>3. QED
        BY <1>2, <4>1, <4>2 DEF Types, TypeOK
    <3>2. CASE Cancelled(t)
      BY <1>2, <3>2 DEF Cancelled, Types, TypeOK
    <3>3. QED
      BY <1>9, <3>1, <3>2
  <2>3. QED
    BY <1>2, <1>7, <2>1, <2>2
<1>10. ASSUME NEW t \in Tasks, PollMessage(t) PROVE History'
  <2> DEFINE m == Head(inbox)
  <2>1. /\ inbox # <<>> /\ inbox' = Tail(inbox)
        /\ UNCHANGED <<published, received, subscriptions>>
        /\ \/ UNCHANGED <<msg, batch, pc>>
           \/ /\ msg' = [msg EXCEPT ![t] = m]
              /\ batch' = [batch EXCEPT ![t] = subscriptions[m.channel]]
              /\ pc' = [pc EXCEPT ![t] = "send"]
    BY <1>10 DEF PollMessage, registryVars
  <2>2. /\ m \in Message /\ m = inbox[1] /\ 1 \in 1..Len(inbox)
        /\ \A j \in 1..Len(inbox') : inbox'[j] = inbox[j+1] /\ j+1 \in 1..Len(inbox)
    BY <1>2, <2>1
  <2>3. log' = log /\ OnChannel(m)
    BY <1>1, <1>4, <2>1, <2>2
  <2>4. \A j \in 1..Len(inbox') :
           inbox'[j].n \in 1..published' /\ log'[inbox'[j].n] = inbox'[j].channel
    BY <1>4, <2>1, <2>2, <2>3 DEF OnChannel
  <2>5. ASSUME NEW u \in Tasks, pc'[u] = "send"
        PROVE  /\ msg'[u].n \in 1..published' /\ log'[msg'[u].n] = msg'[u].channel
               /\ \A c \in batch'[u] :
                    c \in subscriptions'[msg'[u].channel] \/ msg'[u].n <= until'[c][msg'[u].channel]
    <3>1. CASE pc[u] = "send" /\ msg'[u] = msg[u] /\ batch'[u] = batch[u]
      BY <1>5, <1>6, <2>1, <2>3, <3>1 DEF OnChannel
    <3>2. CASE msg'[u] = m /\ batch'[u] = subscriptions[m.channel]
      BY <2>1, <2>3, <3>2 DEF OnChannel
    <3> HIDE DEF m
    <3>3. QED
      BY <1>2, <2>1, <2>5, <3>1, <3>2 DEF Types, TypeOK
  <2>6. QED
    BY <1>3, <2>4, <2>5 DEF History, Logged, Entitled, OnChannel
<1>11. ASSUME NEW ch \in Channels, Publish(ch) PROVE History'
  <2>1. published' = published + 1
    BY <1>11 DEF Publish
  <2>2. PICK d \in Channels : Publish(d) /\ log' = Append(log, d)
    BY <1>1, <1>2, <2>1
  <2>3. /\ UNCHANGED <<received, msg, batch, pc, subscriptions>>
        /\ \A k \in 1..published : log'[k] = log[k]
        /\ log'[published'] = d
        /\ \A j \in 1..Len(inbox') : \/ j \in 1..Len(inbox) /\ inbox'[j] = inbox[j]
                                     \/ inbox'[j] = [n |-> published', channel |-> d]
    BY <2>2, PublishShape DEF History
  <2>4. \A m : OnChannel(m) => m.n \in 1..published' /\ log'[m.n] = m.channel
    BY <1>2, <2>1, <2>3 DEF OnChannel
  <2>5. published' \in 1..published' /\ log'[published'] = d
    BY <1>2, <2>1, <2>3
  <2>6. Logged'
    <3>1. \A j \in 1..Len(inbox') :
            inbox'[j].n \in 1..published' /\ log'[inbox'[j].n] = inbox'[j].channel
      BY <1>4, <2>3, <2>4, <2>5
    <3>2. \A t \in Tasks : pc'[t] = "send" =>
            msg'[t].n \in 1..published' /\ log'[msg'[t].n] = msg'[t].channel
      BY <1>5, <2>3, <2>4
    <3>3. QED
      BY <3>1, <3>2 DEF Logged, OnChannel
  <2>7. Entitled'
    BY <1>6, <2>3 DEF Entitled
  <2>8. QED
    BY <1>3, <2>6, <2>7 DEF History
<1>12. QED
  BY <1>1, <1>8, <1>9, <1>10, <1>11, StepAside

LEMMA NextFed ==
    ASSUME Types, Registry, Serving, Leave, Poller, Fed, [Next]_vars
    PROVE  Fed'
<1> USE DEF registryVars
<1> /\ subscriptions \in [Feeds -> SUBSET Clients] /\ Clients \subseteq Actors
    /\ \A a \in Actors : pc[a] = "unsub_redis" => subscriptions[call[a][1]] = {}
  BY DEF Types, TypeOK, Actors, Leave, Emptied
<1>1. ASSUME redis \subseteq redis', \A f \in Feeds : subscriptions'[f] \subseteq subscriptions[f]
      PROVE  Fed'
  BY <1>1 DEF Fed
<1>2. ASSUME NEW a \in Actors, pc[a] = "unsub_redis", redis \ {call[a][1]} \subseteq redis',
             subscriptions' = subscriptions
      PROVE  Fed'
  BY <1>2 DEF Fed
<1>3. ASSUME NEW a \in Clients, NEW f \in Feeds, f \in redis', redis \subseteq redis', JoinFeed(a, f)
      PROVE  Fed'
  BY <1>3 DEF Fed, JoinFeed
<1>4. ASSUME NEW a \in Clients, SubscribeKnown(a) PROVE Fed'
  <2>1. call[a][1] \in Feeds /\ call[a][1] \in keys /\ redis' = redis
    BY <1>4 DEF SubscribeKnown, Types, CallKnown
  <2>2. redis = keys
    BY <1>4, OneCritical DEF SubscribeKnown, Poller, Between
  <2>3. QED
    BY <1>3, <1>4, <2>1, <2>2 DEF SubscribeKnown
<1>5. ASSUME NEW a \in Clients, SubscribeRedis(a) PROVE Fed'
  <2>1. call[a][1] \in Feeds
    BY <1>5 DEF SubscribeRedis, Types, CallKnown
  <2>2. QED
    BY <1>3, <1>5, <2>1 DEF SubscribeRedis
<1>6. ASSUME NEW a \in Clients, SubscribeNew(a) \/ SubscribeFails(a) \/ DisconnectSnapshot(a)
      PROVE  Fed'
  BY <1>1, <1>6 DEF SubscribeNew, SubscribeFails, DisconnectSnapshot, Types, CallKnown
<1>7. ASSUME NEW a \in Actors, UnsubscribeEnter(a) PROVE Fed'
  <2>1. redis' = redis
    BY <1>7 DEF UnsubscribeEnter
  <2>2. PICK u \in todo[a] : \/ UnsubscribeUnknown(a, u[1])
                             \/ UnsubscribeOne(a, u[1], u[2])
                             \/ UnsubscribeLast(a, u[1], u[2])
    BY <1>7 DEF UnsubscribeEnter
  <2>3. u[1] \in Feeds
    BY <2>2 DEF Types, TypeOK
  <2>4. \A f \in Feeds : subscriptions'[f] \subseteq subscriptions[f]
    BY <2>2, <2>3 DEF UnsubscribeUnknown, UnsubscribeOne, UnsubscribeLast
  <2>5. QED
    BY <1>1, <2>1, <2>4
<1>8. ASSUME NEW a \in Actors, UnsubscribeRedis(a) \/ UnsubscribeFails(a) PROVE Fed'
  BY <1>2, <1>8 DEF UnsubscribeRedis, UnsubscribeFails
<1>9. ASSUME NEW t \in Tasks, Cancelled(t) PROVE Fed'
  BY <1>1, <1>2, <1>9 DEF Cancelled, Actors
<1>10. ASSUME NEW a \in Actors,
              \/ UnsubscribeAwaited(a) \/ StopAwaited
              \/ UnsubscribeSelf(a) \/ PollMessage(a) \/ PollRaises(a) \/ Send(a)
       PROVE  Fed'
  BY <1>1, <1>10
     DEF UnsubscribeAwaited, UnsubscribeSelf, PollMessage, PollRaises, Send, StopAwaited
<1>11. ASSUME NEW a \in Actors, Enter(a) \/ Proceed(a) PROVE Fed'
  BY <1>4, <1>5, <1>6, <1>7, <1>8, <1>9, <1>10, <1>11 DEF Enter, Proceed
<1>12. ASSUME Environment \/ UNCHANGED vars PROVE Fed'
  BY <1>1, <1>12
     DEF Environment, vars, Close, Disconnect, Subscribe, Unsubscribe, Publish, RedisAccepts, Stop
<1>13. QED
  BY <1>11, <1>12 DEF Next

\* What a step does to the connection with Redis.
LEMMA LinkSteps ==
    ASSUME Types, [Next]_vars
    PROVE  \/ RedisAccepts
           \/ UNCHANGED <<live, commands>>
           \/ \E a \in Actors, op \in {"subscribe", "unsubscribe"} :
                pc[a] \in {"sub_redis", "unsub_redis"} /\ Sent(op, call[a][1])
<1> USE DEF registryVars
<1>1. ASSUME NEW a \in Actors, Enter(a) PROVE UNCHANGED <<live, commands>>
  BY <1>1 DEF Enter, SubscribeKnown, SubscribeNew, DisconnectSnapshot, UnsubscribeEnter
<1>2. ASSUME NEW a \in Actors, Proceed(a), ~UNCHANGED <<live, commands>>
      PROVE  /\ pc[a] \in {"sub_redis", "unsub_redis"}
             /\ \E op \in {"subscribe", "unsubscribe"} : Sent(op, call[a][1])
  <2> HIDE DEF Sent
  <2>1. \/ a \in Clients /\ (SubscribeRedis(a) \/ SubscribeFails(a))
        \/ UnsubscribeRedis(a) \/ UnsubscribeFails(a) \/ (a \in Tasks /\ Cancelled(a))
    BY <1>2 DEF Proceed, UnsubscribeAwaited, UnsubscribeSelf, PollMessage, PollRaises, Send, StopAwaited
  <2>2. QED
    BY <1>2, <2>1 DEF SubscribeRedis, SubscribeFails, UnsubscribeRedis, UnsubscribeFails, Cancelled
<1>3. ASSUME Environment \/ UNCHANGED vars PROVE RedisAccepts \/ UNCHANGED <<live, commands>>
  BY <1>3 DEF Environment, vars, Close, Disconnect, Subscribe, Unsubscribe, Publish, Stop
<1>4. QED
  BY <1>1, <1>2, <1>3 DEF Next

\* One more command ends what is promised of its own feed only.
LEMMA SentServed ==
    ASSUME Types, NEW op, NEW f, Sent(op, f), NEW ch \in Channels
    PROVE  Served(ch)' <=> Served(ch) /\ ch # f
<1>1. /\ commands \in Seq(Command) /\ commands' = Append(commands, <<op, f>>) /\ live' = live
  BY DEF Types, TypeOK
<1>2. /\ Len(commands) \in Nat /\ Len(commands') = Len(commands) + 1
      /\ commands'[Len(commands) + 1] = <<op, f>>
      /\ \A i \in 1..Len(commands) : commands'[i] = commands[i]
  BY <1>1
<1>3. \A i : i \in 1..Len(commands') <=> i \in 1..Len(commands) \/ i = Len(commands) + 1
  BY <1>2
<1>4. (\A i \in 1..Len(commands') : commands'[i][2] # ch)
        <=> (\A i \in 1..Len(commands) : commands[i][2] # ch) /\ f # ch
  BY <1>2, <1>3
<1>5. QED
  BY <1>1, <1>4 DEF Served

\* A command carried out was for a feed that is not served, and decides nothing
\* about the others.
LEMMA AcceptsServed ==
    ASSUME Types, RedisAccepts
    PROVE  \E f : /\ ~Served(f)
                  /\ \A ch \in Channels : ch # f => (Served(ch)' <=> Served(ch))
<1> DEFINE f == Head(commands)[2]
<1>1. /\ commands \in Seq(Command) /\ commands # <<>> /\ commands' = Tail(commands)
      /\ \A g : g # f => (g \in live' <=> g \in live)
  BY DEF RedisAccepts, Types, TypeOK
<1>2. /\ Len(commands) \in Nat \ {0} /\ Len(commands') = Len(commands) - 1
      /\ commands[1][2] = f /\ 1 \in 1..Len(commands)
      /\ \A i \in 1..Len(commands') : commands'[i] = commands[i + 1] /\ i + 1 \in 1..Len(commands)
      /\ \A i \in 1..Len(commands) : i = 1 \/ (i - 1 \in 1..Len(commands') /\ commands'[i - 1] = commands[i])
  BY <1>1
<1> HIDE DEF f
<1>3. ~Served(f)
  BY <1>2 DEF Served
<1>4. ASSUME NEW ch \in Channels, ch # f PROVE Served(ch)' <=> Served(ch)
  <2>1. ASSUME \A i \in 1..Len(commands) : commands[i][2] # ch
        PROVE  \A i \in 1..Len(commands') : commands'[i][2] # ch
    BY <1>2, <2>1
  <2>2. ASSUME \A i \in 1..Len(commands') : commands'[i][2] # ch
        PROVE  \A i \in 1..Len(commands) : commands[i][2] # ch
    BY <1>2, <1>4, <2>2
  <2>3. ch \in live' <=> ch \in live
    BY <1>1, <1>4
  <2>4. QED
    BY <2>1, <2>2, <2>3 DEF Served
<1>5. QED
  BY <1>3, <1>4

\* A channel that is promised to somebody is served: its commands are sent when
\* it has no subscriber.
Delivering == \A ch \in Channels : promised[ch] # {} => Served(ch)

LEMMA NextDelivering ==
    ASSUME Types, Leave, Poller, Fed, History, Delivering, [Next /\ Record]_deliveryVars
    PROVE  Delivering'
<1> SUFFICES ASSUME NEW ch \in Channels, NEW c, c \in promised'[ch], ~Served(ch)'
             PROVE  FALSE
  BY DEF Delivering
<1>1. [Next]_vars /\ c \in promised[ch]
  BY RecordShape DEF History
<1>2. Served(ch) /\ c \in subscriptions[ch] /\ ch \in Feeds
  BY <1>1 DEF Delivering, History, Promises, Feeds
<1>3. CASE RedisAccepts
  BY <1>2, <1>3, AcceptsServed
<1>4. CASE UNCHANGED <<live, commands>>
  BY <1>2, <1>4 DEF Served
<1>5. ASSUME NEW a \in Actors, NEW op \in {"subscribe", "unsubscribe"},
             pc[a] \in {"sub_redis", "unsub_redis"}, Sent(op, call[a][1])
      PROVE  FALSE
  <2>1. PICK f : f = call[a][1]
    OBVIOUS
  <2>2. ch = f
    BY <1>2, <1>5, <2>1, SentServed
  <2>3. CASE pc[a] = "unsub_redis"
    BY <1>2, <2>1, <2>2, <2>3 DEF Leave, Emptied
  <2>4. CASE pc[a] = "sub_redis"
    BY <1>2, <2>1, <2>2, <2>4 DEF Poller, Joining, Fed
  <2>5. QED
    BY <1>5, <2>3, <2>4
<1>6. QED
  BY <1>1, <1>3, <1>4, <1>5, LinkSteps

\* Where a message is that a client has a right to.
Safe(c, m) ==
    \/ \E i \in 1..Len(received[c]) : received[c][i] = m
    \/ \E i \in 1..Len(inbox) : inbox[i] = m
    \/ \E t \in Tasks : pc[t] = "send" /\ msg[t] = m /\ c \in batch[t]
AllSafe ==
    \A ch \in Channels : \A c \in promised[ch] :
        \A k \in (since[c][ch] + 1)..published :
            log[k] = ch => Safe(c, [n |-> k, channel |-> ch])

\* One task takes messages, so the one it takes is carried by nobody else.
LEMMA PollSafe ==
    ASSUME Types, Registry, Poller, Fed, NEW t \in Tasks, PollMessage(t),
           NEW c \in Clients, NEW m \in Message, c \in subscriptions[m.channel], Safe(c, m)
    PROVE  Safe(c, m)'
<1> DEFINE h == Head(inbox)
<1>1. /\ inbox # <<>> /\ inbox' = Tail(inbox) /\ pc[t] = "poll" /\ received' = received
      /\ IF h.channel \in keys /\ subscriptions[h.channel] # {}
         THEN /\ msg' = [msg EXCEPT ![t] = h]
              /\ batch' = [batch EXCEPT ![t] = subscriptions[h.channel]]
              /\ pc' = [pc EXCEPT ![t] = "send"]
         ELSE UNCHANGED <<msg, batch, pc>>
  BY DEF PollMessage
<1>2. inbox \in Seq(Message) /\ m.channel \in Feeds /\ t \in Actors
  BY DEF Types, TypeOK, Message, Feeds, Actors
<1>3. /\ h = inbox[1]
      /\ \A j \in 1..Len(inbox) : j = 1 \/ (j - 1 \in 1..Len(inbox') /\ inbox'[j - 1] = inbox[j])
  BY <1>1, <1>2
<1>4. CASE \E i \in 1..Len(received[c]) : received[c][i] = m
  BY <1>1, <1>4 DEF Safe
<1>5. CASE \E i \in 1..Len(inbox) : inbox[i] = m
  <2>1. PICK i \in 1..Len(inbox) : inbox[i] = m
    BY <1>5
  <2>2. CASE i # 1
    BY <1>3, <2>1, <2>2 DEF Safe
  <2>3. CASE h = m
    <3>1. m.channel \in keys
      BY <1>2 DEF Fed, Registry, RedisSubscriptionTracked
    <3>2. /\ msg' = [msg EXCEPT ![t] = m]
          /\ batch' = [batch EXCEPT ![t] = subscriptions[m.channel]]
          /\ pc' = [pc EXCEPT ![t] = "send"]
      BY <1>1, <2>3, <3>1
    <3>3. pc'[t] = "send" /\ msg'[t] = m /\ c \in batch'[t]
      BY <1>2, <3>2 DEF Types, TypeOK
    <3>4. QED
      BY <3>3 DEF Safe
  <2>4. QED
    BY <1>3, <2>1, <2>2, <2>3
<1>6. CASE \E u \in Tasks : pc[u] = "send" /\ msg[u] = m /\ c \in batch[u]
  <2>1. PICK u \in Tasks : pc[u] = "send" /\ msg[u] = m /\ c \in batch[u]
    BY <1>6
  <2>2. u = t
    BY <1>1, <2>1 DEF Poller, OnePoller, Polling
  <2>3. QED
    BY <1>1, <2>1, <2>2
<1>7. QED
  BY <1>4, <1>5, <1>6 DEF Safe

LEMMA SendSafe ==
    ASSUME Types, Undisturbed, NEW t \in Tasks, Send(t),
           NEW c \in Clients, NEW m, Safe(c, m)
    PROVE  Safe(c, m)'
<1>1. PICK w \in batch[t] :
        /\ batch' = [batch EXCEPT ![t] = @ \ {w}]
        /\ received' = IF conn[w] = "open" THEN [received EXCEPT ![w] = Append(@, msg[t])]
                                           ELSE received
        /\ pc' = [pc EXCEPT ![t] = IF batch[t] # {w} THEN "send"
                         ELSE IF todo'[t] # {} THEN "unsub_lock" ELSE "poll"]
  BY DEF Send
<1>2. /\ pc[t] = "send" /\ UNCHANGED <<inbox, msg>> /\ t \in Actors /\ w \in Clients
      /\ msg[t] \in Message
  BY <1>1 DEF Send, Types, TypeOK, MessageKnown, Actors
<1>3. received' = [received EXCEPT ![w] = Append(@, msg[t])]
  BY <1>1, <1>2 DEF Undisturbed
<1>4. /\ received'[w] = Append(received[w], msg[t]) /\ received[w] \in Seq(Message)
      /\ \A d \in Clients \ {w} : received'[d] = received[d]
  BY <1>2, <1>3 DEF Types, TypeOK
<1>5. /\ \A i \in 1..Len(received[w]) : i \in 1..Len(received'[w]) /\ received'[w][i] = received[w][i]
      /\ Len(received[w]) + 1 \in 1..Len(received'[w]) /\ received'[w][Len(received[w]) + 1] = msg[t]
  BY <1>2, <1>4
<1>6. CASE \E i \in 1..Len(received[c]) : received[c][i] = m
  BY <1>4, <1>5, <1>6 DEF Safe
<1>7. CASE \E i \in 1..Len(inbox) : inbox[i] = m
  BY <1>2, <1>7 DEF Safe
<1>8. CASE \E u \in Tasks : pc[u] = "send" /\ msg[u] = m /\ c \in batch[u]
  <2>1. PICK u \in Tasks : pc[u] = "send" /\ msg[u] = m /\ c \in batch[u]
    BY <1>8
  <2>2. CASE u # t
    BY <1>1, <1>2, <2>1, <2>2 DEF Safe, Types, TypeOK, Actors
  <2>3. CASE u = t /\ c = w
    BY <1>5, <2>1, <2>3 DEF Safe
  <2>4. CASE u = t /\ c # w
    <3>1. c \in batch'[t] /\ batch[t] # {w}
      BY <1>1, <2>1, <2>4 DEF Types, TypeOK
    <3>2. pc'[t] = "send"
      BY <1>1, <1>2, <3>1 DEF Types, TypeOK
    <3>3. QED
      BY <1>2, <2>1, <2>4, <3>1, <3>2 DEF Safe
  <2>5. QED
    BY <2>2, <2>3, <2>4
<1>9. QED
  BY <1>6, <1>7, <1>8 DEF Safe

\* A task is only cancelled when the last feed has gone.
LEMMA CancelledIdle ==
    ASSUME Types, Leave, Poller, NEW t \in Tasks, Cancelled(t)
    PROVE  \A f \in Feeds : subscriptions[f] = {}
<1>1. cancelReq # {}
  BY DEF Cancelled
<1>2. PICK a \in Actors : pc[a] = "unsub_await"
  BY <1>1 DEF Poller, Running
<1>3. keys = {}
  BY <1>2 DEF Poller, Ending
<1>4. QED
  BY <1>3 DEF Leave, Emptied

LEMMA NextSafe ==
    ASSUME Types, Registry, Serving, Leave, Poller, Undisturbed, History, Fed, Delivering,
           AllSafe, [Next /\ Record]_deliveryVars
    PROVE  AllSafe'
<1>1. /\ [Next]_vars /\ published \in Nat
      /\ published' = published => log' = log
      /\ \A c \in Clients, ch \in Channels : c \in promised'[ch] =>
           since'[c][ch] = IF c \in promised[ch] THEN since[c][ch] ELSE published
      /\ \A ch \in Channels :
           promised'[ch] = {c \in subscriptions'[ch] : c \in promised[ch] \/ Served(ch)'}
      /\ \A ch \in Channels : promised'[ch] \subseteq Clients
  BY RecordShape, BoundsAssumption DEF History, Types, TypeOK
<1>2. /\ \A c \in Clients, ch \in Channels : since[c][ch] \in Nat
      /\ \A ch \in Channels : promised[ch] \subseteq subscriptions[ch] /\ promised[ch] \subseteq Clients
  BY DEF History, Told, Promises
<1>3. ASSUME published' = published,
             \A c \in Clients, m \in Message :
                c \in subscriptions[m.channel] /\ Safe(c, m) => Safe(c, m)'
      PROVE  AllSafe'
  <2> SUFFICES ASSUME NEW ch \in Channels, NEW c \in promised'[ch],
                      NEW k \in (since'[c][ch] + 1)..published', log'[k] = ch
               PROVE  Safe(c, [n |-> k, channel |-> ch])'
    BY DEF AllSafe
  <2> DEFINE m == [n |-> k, channel |-> ch]
  <2>0. c \in Clients /\ (c \in promised[ch] \/ since'[c][ch] = published)
    BY <1>1
  <2>1. c \in promised[ch] /\ c \in subscriptions[ch] /\ since'[c][ch] = since[c][ch]
    BY <1>1, <1>2, <1>3, <2>0
  <2>2. k \in (since[c][ch] + 1)..published /\ log[k] = ch
    BY <1>1, <1>3, <2>1
  <2>3. Safe(c, m)
    BY <2>1, <2>2 DEF AllSafe
  <2>4. k \in 1..MaxPublishes
    BY <1>1, <1>2, <2>2, BoundsAssumption DEF Types, TypeOK
  <2>5. m \in Message /\ m.channel = ch
    BY <2>4 DEF Message
  <2> HIDE DEF m
  <2>6. QED
    BY <1>3, <2>0, <2>1, <2>3, <2>5 DEF m
<1>4. CASE Aside
  BY <1>3, <1>4 DEF Aside, Safe
<1>5. ASSUME NEW t \in Tasks, PollMessage(t) PROVE AllSafe'
  BY <1>3, <1>5, PollSafe DEF PollMessage
<1>6. ASSUME NEW t \in Tasks, Send(t) PROVE AllSafe'
  BY <1>3, <1>6, SendSafe DEF Send
<1>7. ASSUME NEW t \in Tasks, Cancelled(t) PROVE AllSafe'
  <2>1. published' = published
    BY <1>7 DEF Cancelled, streamVars
  <2>2. \A m \in Message : m.channel \in Feeds
    BY DEF Message, Feeds
  <2>3. QED
    BY <1>3, <1>7, <2>1, <2>2, CancelledIdle
<1>8. ASSUME NEW ch \in Channels, Publish(ch) PROVE AllSafe'
  <2>1. published' = published + 1
    BY <1>8 DEF Publish
  <2>2. PICK d \in Channels : Publish(d) /\ log' = Append(log, d)
    BY <1>1, <2>1, RecordShape DEF History
  <2>3. /\ UNCHANGED <<received, msg, batch, pc, subscriptions, live, commands>>
        /\ \A k \in 1..published : log'[k] = log[k]
        /\ log'[published'] = d
        /\ \A j \in 1..Len(inbox) : j \in 1..Len(inbox') /\ inbox'[j] = inbox[j]
        /\ d \in live => \E j \in 1..Len(inbox') : inbox'[j] = [n |-> published', channel |-> d]
    BY <2>2, PublishShape DEF History
  <2> SUFFICES ASSUME NEW e \in Channels, NEW c \in promised'[e],
                      NEW k \in (since'[c][e] + 1)..published', log'[k] = e
               PROVE  Safe(c, [n |-> k, channel |-> e])'
    BY DEF AllSafe
  <2>4. /\ c \in Clients /\ since'[c][e] = IF c \in promised[e] THEN since[c][e] ELSE published
        /\ c \in promised[e] \/ Served(e)'
    BY <1>1
  <2>5. CASE k = published'
    <3>0. Served(e)
      BY <2>3, <2>4 DEF Served, Delivering
    <3>1. e = d /\ e \in live
      BY <2>3, <2>5, <3>0 DEF Served
    <3>2. PICK i \in 1..Len(inbox') : inbox'[i] = [n |-> published', channel |-> d]
      BY <2>3, <3>1
    <3>3. \E j \in 1..Len(inbox') : inbox'[j] = [n |-> k, channel |-> e]
      BY <2>5, <3>1, <3>2
    <3>4. QED
      BY <3>3 DEF Safe
  <2>6. CASE k # published'
    <3>0. c \in promised[e]
      BY <1>1, <2>1, <2>4, <2>6
    <3>1. k \in (since[c][e] + 1)..published /\ k \in 1..published
      BY <1>1, <1>2, <2>1, <2>4, <2>6, <3>0
    <3>2. Safe(c, [n |-> k, channel |-> e])
      BY <2>3, <3>0, <3>1 DEF AllSafe
    <3>3. QED
      BY <2>3, <3>2 DEF Safe
  <2>7. QED
    BY <2>5, <2>6
<1>9. QED
  BY <1>1, <1>4, <1>5, <1>6, <1>7, <1>8, StepAside

\* What is known of the service with its history.
Watched == Types /\ Registry /\ Undisrupted /\ Leave /\ History
Complete == Undisturbed => Fed /\ Delivering /\ AllSafe

LEMMA AlwaysWatched == DeliverySpec => [](Watched /\ Complete)
<1>1. DeliveryInit => Watched /\ Complete
  <2> SUFFICES ASSUME DeliveryInit PROVE Watched /\ Complete
    OBVIOUS
  <2>1. Init
    BY DEF DeliveryInit
  <2>2. Types /\ Registry /\ Leave /\ History /\ Poller
    BY <2>1, InitTypes, InitRegistry, InitLeave, InitHistory, InitPoller
  <2>3. Undisrupted
    BY <2>1, <2>2, ActorsAssumption DEF Undisrupted, Serving, Init, Actors
  <2>4. Fed /\ Delivering /\ AllSafe
    BY <2>1 DEF DeliveryInit, Init, Fed, Delivering, AllSafe, Feeds
  <2>5. QED
    BY <2>2, <2>3, <2>4 DEF Watched, Complete
<1>2. Watched /\ Complete /\ [Next /\ Record]_deliveryVars => (Watched /\ Complete)'
  <2> SUFFICES ASSUME Watched, Complete, [Next /\ Record]_deliveryVars
               PROVE  (Watched /\ Complete)'
    OBVIOUS
  <2> USE DEF Watched, Complete, Undisrupted
  <2>1. [Next]_vars
    BY RecordShape DEF History
  <2>2. Types' /\ Registry' /\ Leave' /\ History'
    BY <2>1, NextTypes, NextRegistry, NextLeave, NextHistory
  <2>3. Serving' /\ (Undisturbed' => Undisturbed)
    BY <2>1, DisturbedStays
  <2>4. Undisturbed' => Poller' /\ Fed' /\ Delivering' /\ AllSafe'
    BY <2>1, <2>3, NextPoller, NextFed, NextDelivering, NextSafe
  <2>5. QED
    BY <2>2, <2>3, <2>4
<1>3. QED
  BY <1>1, <1>2, PTL DEF DeliverySpec

\* No message of an undisturbed service is lost, whatever feeds come and go and
\* however often the background task ends and starts, with overlapping patterns
\* too: a client that has stayed subscribed since Redis took the channel's
\* subscription, which is sent and carried out in two steps, has received it, or
\* it is still on its way to that client (lines 119-135, 144-167, 268-281).
THEOREM NothingIsMissed == DeliverySpec => []NothingMissed
<1>1. Complete => NothingMissed
  BY DEF Complete, AllSafe, Safe, NothingMissed
<1>2. QED
  BY <1>1, AlwaysWatched, PTL

(***************************************************************************)
(* Refinement.  The feeds of Channels are the channels of the broadcast, a *)
(* client's sequence of messages is the sequence of their numbers, and the *)
(* broadcast is excused once the service is disturbed.                     *)
(***************************************************************************)
LEMMA NumbersOf ==
    ASSUME NEW s \in Seq(Message)
    PROVE  /\ Numbers(s) \in Seq(Nat) /\ Len(Numbers(s)) = Len(s)
           /\ \A i \in 1..Len(s) : Numbers(s)[i] = s[i].n
<1>1. \A i \in 1..Len(s) : s[i].n \in Nat
  <2>1. \A i \in 1..Len(s) : s[i] \in Message
    OBVIOUS
  <2>2. QED
    BY <2>1, NumberTypes
<1>2. Len(s) \in Nat
  OBVIOUS
<1>3. QED
  BY <1>1, <1>2 DEF Numbers

LEMMA NumbersAppend ==
    ASSUME NEW s \in Seq(Message), NEW m \in Message
    PROVE  Numbers(Append(s, m)) = Append(Numbers(s), m.n)
<1> DEFINE a == Append(s, m)
           q == Numbers(s)
           l == Numbers(a)
           r == Append(q, m.n)
<1>1. /\ a \in Seq(Message) /\ Len(s) \in Nat /\ Len(a) = Len(s) + 1
      /\ a[Len(s) + 1] = m /\ \A i \in 1..Len(s) : a[i] = s[i]
  OBVIOUS
<1>2. m.n \in Nat
  BY NumberTypes
<1> HIDE DEF a
<1>3. /\ q \in Seq(Nat) /\ Len(q) = Len(s) /\ \A i \in 1..Len(s) : q[i] = s[i].n
      /\ l \in Seq(Nat) /\ Len(l) = Len(a) /\ \A i \in 1..Len(a) : l[i] = a[i].n
  BY <1>1, NumbersOf
<1> HIDE DEF q, l
<1>4. /\ r \in Seq(Nat) /\ Len(r) = Len(s) + 1
      /\ r[Len(s) + 1] = m.n /\ \A i \in 1..Len(s) : r[i] = q[i]
  BY <1>1, <1>2, <1>3
<1> HIDE DEF r
<1>5. \A i \in 1..(Len(s) + 1) : i \in 1..Len(s) \/ i = Len(s) + 1
  BY <1>1
<1>6. \A i \in 1..(Len(s) + 1) : l[i] = r[i]
  BY <1>1, <1>3, <1>4, <1>5
<1>7. l = r
  BY <1>1, <1>3, <1>4, <1>6
<1>8. QED
  BY <1>7 DEF a, q, l, r

LEMMA MapHas ==
    ASSUME Types, NEW c \in Clients, NEW k
    PROVE  B!Has(c, k) <=> \E i \in 1..Len(received[c]) : received[c][i].n = k
<1>1. received[c] \in Seq(Message)
  BY DEF Types, TypeOK
<1>2. Len(Numbers(received[c])) = Len(received[c])
      /\ \A i \in 1..Len(received[c]) : Numbers(received[c])[i] = received[c][i].n
  BY <1>1, NumbersOf
<1>3. QED
  BY <1>2 DEF B!Has

LEMMA InitBroadcast == DeliveryInit => B!Init
<1> SUFFICES ASSUME DeliveryInit PROVE B!Init
  OBVIOUS
<1>1. Init /\ Undisturbed
  BY ActorsAssumption DEF DeliveryInit, Init, Undisturbed, Actors
<1>2. Numbers(<<>>) = <<>>
  BY DEF Numbers
<1>3. [c \in Clients |-> Numbers(received[c])] = [c \in Clients |-> <<>>]
  BY <1>1, <1>2 DEF Init
<1>4. [ch \in Channels |-> subscriptions[ch]] = [ch \in Channels |-> {}]
  BY <1>1 DEF Init, Feeds
<1>5. QED
  BY <1>1, <1>3, <1>4 DEF B!Init, DeliveryInit

\* The message a task sends is the next one of that client.
LEMMA SendInTurn ==
    ASSUME Types, Poller, History, Stream, AllSafe, NEW t \in Tasks, pc[t] = "send",
           NEW c \in batch[t]
    PROVE  B!InTurn(c, msg[t].n)
<1> DEFINE k == msg[t].n
<1>1. /\ c \in Clients /\ k \in 1..published /\ k \in Nat /\ published \in Nat
      /\ since \in [Clients -> [Channels -> Nat]] /\ log \in Seq(Channels) /\ Len(log) = published
  BY BoundsAssumption DEF History, Told, Logged, OnChannel, Types, TypeOK
<1>2. /\ \A j \in 1..Len(inbox) : k < inbox[j].n
      /\ \A i \in 1..Len(received[c]) : received[c][i].n < k
  BY DEF Stream, Carried
<1>3. \A i \in 1..Len(Numbers(received[c])) : Numbers(received[c])[i] < k
  <2>1. received[c] \in Seq(Message)
    BY <1>1 DEF Types, TypeOK
  <2>2. QED
    BY <1>2, <2>1, NumbersOf
<1>4. ASSUME NEW j \in 1..(k - 1), c \in promised[log[j]], since[c][log[j]] < j
      PROVE  \E i \in 1..Len(received[c]) : received[c][i].n = j
  <2> DEFINE m == [n |-> j, channel |-> log[j]]
  <2>1. j \in 1..published /\ j # k
    BY <1>1
  <2>2. log[j] \in Channels
    BY <1>1, <2>1
  <2>3. since[c][log[j]] \in Nat
    BY <1>1, <2>2
  <2>4. j \in (since[c][log[j]] + 1)..published
    BY <1>4, <2>1, <2>3
  <2>5. Safe(c, m)
    BY <1>1, <1>4, <2>2, <2>4 DEF AllSafe
  <2>6. m.n = j
    OBVIOUS
  <2> HIDE DEF m
  <2>7. ~ \E i \in 1..Len(inbox) : inbox[i] = m
    <3>1. ~(k < j)
      BY <1>1
    <3>2. QED
      BY <1>2, <2>6, <3>1
  <2>8. \A u \in Tasks : pc[u] = "send" => u = t
    BY DEF Poller, OnePoller, Polling
  <2>9. \E i \in 1..Len(received[c]) : received[c][i] = m
    BY <2>1, <2>5, <2>6, <2>7, <2>8 DEF Safe
  <2>10. QED
    BY <2>6, <2>9
<1>5. \A j \in 1..(k - 1) : B!Due(c, j) => B!Has(c, j)
  <2> SUFFICES ASSUME NEW j \in 1..(k - 1), B!Due(c, j) PROVE B!Has(c, j)
    OBVIOUS
  <2>1. j \in 1..Len(log)
    BY <1>1
  <2>2. log[j] \in Channels
    BY <1>1, <2>1
  <2>3. c \in promised[log[j]] /\ since[c][log[j]] < j
    BY <2>2 DEF B!Due
  <2>4. QED
    BY <1>1, <1>4, <2>3, MapHas
<1>6. QED
  BY <1>1, <1>3, <1>5 DEF B!InTurn

\* Two tables of times are equal when they agree everywhere.
LEMMA SameTimes ==
    ASSUME NEW x \in [Clients -> [Channels -> Nat]], NEW y \in [Clients -> [Channels -> Nat]],
           \A c \in Clients, ch \in Channels : x[c][ch] = y[c][ch]
    PROVE  x = y
<1>1. ASSUME NEW c \in Clients PROVE x[c] = y[c]
  <2>1. x[c] \in [Channels -> Nat] /\ y[c] \in [Channels -> Nat]
    OBVIOUS
  <2>2. QED
    BY <2>1
<1>2. QED
  BY <1>1

\* Only a command that Redis carries out makes it serve a channel.
LEMMA ServedBefore ==
    ASSUME Types, [Next]_vars, ~RedisAccepts, NEW ch \in Channels, Served(ch)'
    PROVE  Served(ch)
<1>1. CASE UNCHANGED <<live, commands>>
  BY <1>1 DEF Served
<1>2. ASSUME NEW a \in Actors, NEW op \in {"subscribe", "unsubscribe"}, Sent(op, call[a][1])
      PROVE  Served(ch)
  <2>1. PICK f : f = call[a][1]
    OBVIOUS
  <2>2. QED
    BY <1>2, <2>1, SentServed
<1>3. QED
  BY <1>1, <1>2, LinkSteps

\* Only what Redis carries out, or somebody who comes or goes, changes what is
\* promised on a channel.
LEMMA PromiseKept ==
    ASSUME Types, History, [Next /\ Record]_deliveryVars, ~RedisAccepts,
           NEW ch \in Channels, subscriptions'[ch] = subscriptions[ch]
    PROVE  promised'[ch] = promised[ch]
<1>1. /\ [Next]_vars
      /\ promised'[ch] = {c \in subscriptions'[ch] : c \in promised[ch] \/ Served(ch)'}
  BY RecordShape DEF History
<1>2. /\ promised[ch] \subseteq subscriptions[ch]
      /\ Served(ch) => promised[ch] = subscriptions[ch]
  BY DEF History, Promises
<1>3. Served(ch)' => Served(ch)
  BY <1>1, ServedBefore
<1>4. QED
  BY <1>1, <1>2, <1>3

\* A step that changes nobody's promise and moves nobody changes no time.
LEMMA TimesKept ==
    ASSUME Types, History, [Next /\ Record]_deliveryVars,
           \A ch \in Channels : subscriptions'[ch] = subscriptions[ch] /\ promised'[ch] = promised[ch]
    PROVE  since' = since /\ until' = until /\ promised' = promised
<1>1. /\ since \in [Clients -> [Channels -> Nat]] /\ until \in [Clients -> [Channels -> Nat]]
      /\ promised \in [Channels -> SUBSET Clients]
      /\ \A c \in Clients, ch \in Channels : c \notin promised[ch] => since[c][ch] = 0
  BY DEF History, Told, Promises
<1>2. /\ since' \in [Clients -> [Channels -> Nat]] /\ until' \in [Clients -> [Channels -> Nat]]
      /\ promised' \in [Channels -> SUBSET Clients]
      /\ \A c \in Clients, ch \in Channels :
           /\ since'[c][ch] = IF c \notin promised'[ch] THEN 0
                              ELSE IF c \in promised[ch] THEN since[c][ch] ELSE published
           /\ until'[c][ch] = IF c \in subscriptions[ch] \ subscriptions'[ch]
                              THEN published ELSE until[c][ch]
  BY RecordShape DEF History
<1>3. \A c \in Clients, ch \in Channels :
         since'[c][ch] = since[c][ch] /\ until'[c][ch] = until[c][ch]
  <2> SUFFICES ASSUME NEW c \in Clients, NEW ch \in Channels
               PROVE  since'[c][ch] = since[c][ch] /\ until'[c][ch] = until[c][ch]
    OBVIOUS
  <2>1. subscriptions'[ch] = subscriptions[ch] /\ promised'[ch] = promised[ch]
    OBVIOUS
  <2>2. since'[c][ch] = since[c][ch]
    BY <1>1, <1>2, <2>1
  <2>3. until'[c][ch] = until[c][ch]
    BY <1>2, <2>1
  <2>4. QED
    BY <2>2, <2>3
<1>4. promised' = promised
  BY <1>1, <1>2
<1>5. QED
  BY <1>1, <1>2, <1>3, <1>4, SameTimes

\* The clients who are newly promised a channel are promised it from now on.
LEMMA NewlyServed ==
    ASSUME Types, History, [Next /\ Record]_deliveryVars, NEW f \in Channels,
           NEW fresh \in SUBSET Clients, fresh \cap promised[f] = {},
           promised'[f] = promised[f] \cup fresh,
           \A ch \in Channels \ {f} : promised'[ch] = promised[ch]
    PROVE  B!Serve(f, fresh)
<1>1. /\ since \in [Clients -> [Channels -> Nat]] /\ since' \in [Clients -> [Channels -> Nat]]
      /\ promised \in [Channels -> SUBSET Clients] /\ promised' \in [Channels -> SUBSET Clients]
      /\ published \in Nat /\ Len(log) = published
  <2>1. /\ since \in [Clients -> [Channels -> Nat]] /\ promised \in [Channels -> SUBSET Clients]
        /\ published \in Nat /\ Len(log) = published
    BY BoundsAssumption DEF History, Told, Promises, Types, TypeOK
  <2>2. since' \in [Clients -> [Channels -> Nat]] /\ promised' \in [Channels -> SUBSET Clients]
    BY RecordShape DEF History
  <2>3. QED
    BY <2>1, <2>2
<1>2. \A c \in Clients, ch \in Channels :
         /\ since'[c][ch] = IF c \notin promised'[ch] THEN 0
                            ELSE IF c \in promised[ch] THEN since[c][ch] ELSE published
         /\ c \notin promised[ch] => since[c][ch] = 0
  <2>1. \A c \in Clients, ch \in Channels : c \notin promised[ch] => since[c][ch] = 0
    BY DEF History, Promises
  <2>2. \A c \in Clients, ch \in Channels :
           since'[c][ch] = IF c \notin promised'[ch] THEN 0
                           ELSE IF c \in promised[ch] THEN since[c][ch] ELSE published
    BY RecordShape DEF History
  <2>3. QED
    BY <2>1, <2>2
<1> DEFINE times == [c \in Clients |-> IF c \in fresh THEN [since[c] EXCEPT ![f] = published]
                                                      ELSE since[c]]
<1>3. times \in [Clients -> [Channels -> Nat]]
  <2>1. \A c \in Clients : [since[c] EXCEPT ![f] = published] \in [Channels -> Nat]
    BY <1>1
  <2>2. QED
    BY <1>1, <2>1
<1>4. ASSUME NEW c \in Clients, NEW ch \in Channels PROVE since'[c][ch] = times[c][ch]
  <2>1. times[c][ch] = IF c \in fresh /\ ch = f THEN published ELSE since[c][ch]
    <3>1. since[c] \in [Channels -> Nat]
      BY <1>1
    <3>2. QED
      BY <3>1
  <2>2. c \in promised'[ch] <=> c \in promised[ch] \/ (c \in fresh /\ ch = f)
    OBVIOUS
  <2>3. c \in fresh /\ ch = f => c \notin promised[ch]
    OBVIOUS
  <2>4. QED
    BY <1>2, <2>1, <2>2, <2>3
<1>5. since' = times
  BY <1>1, <1>3, <1>4, SameTimes
<1>6. promised' = [promised EXCEPT ![f] = @ \cup fresh]
  BY <1>1
<1>7. QED
  BY <1>1, <1>5, <1>6 DEF B!Serve

\* Redis carrying out a command confirms a channel to its subscribers, or
\* changes nothing that anybody sees.
LEMMA AcceptsBroadcast ==
    ASSUME Types, History, [Next /\ Record]_deliveryVars, RedisAccepts
    PROVE  B!Next \/ UNCHANGED B!vars
<1>1. /\ UNCHANGED <<subscriptions, published, received, failures, conn, pc>> /\ log' = log
      /\ \A ch \in Channels :
           promised'[ch] = {c \in subscriptions'[ch] : c \in promised[ch] \/ Served(ch)'}
  BY RecordShape DEF RedisAccepts, History, streamVars, clientVars
<1>2. \A ch \in Channels : /\ promised[ch] \subseteq subscriptions[ch]
                           /\ Served(ch) => promised[ch] = subscriptions[ch]
                           /\ subscriptions[ch] \subseteq Clients
  BY DEF History, Promises, Types, TypeOK, Feeds
<1>3. PICK f : \A ch \in Channels : ch # f => (Served(ch)' <=> Served(ch))
  BY AcceptsServed
<1>4. \A ch \in Channels \ {f} : promised'[ch] = promised[ch]
  BY <1>1, <1>2, <1>3
<1>5. Undisturbed' = Undisturbed
  BY <1>1 DEF Undisturbed
<1>6. CASE \A ch \in Channels : promised'[ch] = promised[ch]
  <2>1. since' = since /\ until' = until /\ promised' = promised
    BY <1>1, <1>6, TimesKept
  <2>2. QED
    BY <1>1, <1>5, <2>1 DEF B!vars
<1>7. CASE ~ \A ch \in Channels : promised'[ch] = promised[ch]
  <2>1. f \in Channels /\ promised'[f] # promised[f]
    BY <1>4, <1>7
  <2>2. promised'[f] = subscriptions[f] /\ promised[f] \subseteq subscriptions[f]
    BY <1>1, <1>2, <2>1
  <2>3. PICK fresh : fresh = subscriptions[f] \ promised[f]
    OBVIOUS
  <2>4. /\ fresh \in SUBSET Clients /\ fresh \cap promised[f] = {} /\ fresh # {}
        /\ promised'[f] = promised[f] \cup fresh
    BY <1>2, <2>1, <2>2, <2>3
  <2>5. B!Serve(f, fresh)
    BY <1>4, <2>1, <2>4, NewlyServed
  <2>6. until' = until
    <3>1. /\ until \in [Clients -> [Channels -> Nat]] /\ until' \in [Clients -> [Channels -> Nat]]
          /\ \A c \in Clients, ch \in Channels : until'[c][ch] = until[c][ch]
      BY <1>1, RecordShape DEF History, Told
    <3>2. QED
      BY <3>1, SameTimes
  <2>7. B!Confirm(f)
    BY <1>1, <1>5, <2>1, <2>3, <2>4, <2>5, <2>6 DEF B!Confirm
  <2>8. QED
    BY <2>1, <2>7 DEF B!Next
<1>8. QED
  BY <1>6, <1>7

LEMMA SendBroadcast ==
    ASSUME Types, Serving, History, Undisturbed => Poller /\ AllSafe /\ Stream,
           NEW t \in Tasks, Send(t), log' = log, UNCHANGED <<promised, since, until>>
    PROVE  B!Next \/ UNCHANGED B!vars
<1>1. PICK w \in batch[t] :
        /\ received' = IF conn[w] = "open" THEN [received EXCEPT ![w] = Append(@, msg[t])]
                                           ELSE received
        /\ \E p : pc' = [pc EXCEPT ![t] = p]
  BY DEF Send
<1>2. /\ pc[t] = "send" /\ w \in Clients /\ msg[t] \in Message /\ t # Server
      /\ subscriptions' = subscriptions /\ conn' = conn /\ failures' = failures
  BY <1>1, ActorsAssumption DEF Send, Types, TypeOK, MessageKnown, registryVars, clientVars
<1>3. Undisturbed' = Undisturbed
  BY <1>1, <1>2 DEF Undisturbed, Types, TypeOK
<1>4. CASE received' = received
  BY <1>2, <1>3, <1>4 DEF B!vars
<1>5. CASE received' = [received EXCEPT ![w] = Append(@, msg[t])]
  <2> DEFINE k == msg[t].n
             rec == [c \in Clients |-> Numbers(received[c])]
  <2>1. received \in [Clients -> Seq(Message)]
    BY DEF Types, TypeOK
  <2>2. Numbers(received'[w]) = Append(Numbers(received[w]), k)
    <3>1. received[w] \in Seq(Message) /\ received'[w] = Append(received[w], msg[t])
      BY <1>2, <1>5, <2>1
    <3>2. QED
      BY <1>2, <3>1, NumbersAppend
  <2>3. \A c \in Clients \ {w} : Numbers(received'[c]) = Numbers(received[c])
    BY <1>5, <2>1
  <2>4. rec' = [rec EXCEPT ![w] = Append(@, k)]
    BY <1>2, <2>2, <2>3
  <2>5. k \in 1..Len(log) /\ log[k] = msg[t].channel /\ log[k] \in Channels
    BY <1>2 DEF History, Told, Logged, OnChannel
  <2>6. w \in subscriptions[log[k]] \/ k <= until[w][log[k]]
    BY <1>1, <1>2, <2>5 DEF History, Entitled
  <2>7. Undisturbed => B!InTurn(w, k)
    BY <1>1, <1>2, SendInTurn
  <2>8. B!Deliver(w, k)
    BY <1>2, <1>3, <2>4, <2>5, <2>6, <2>7 DEF B!Deliver
  <2>9. QED
    BY <1>2, <2>5, <2>8 DEF B!Next
<1>6. QED
  BY <1>1, <1>4, <1>5

LEMMA MemberBroadcast ==
    ASSUME Types, Serving, Leave, History, [Next /\ Record]_deliveryVars, ~RedisAccepts,
           Aside, published' = published, Undisturbed' = Undisturbed,
           NEW c \in Clients, NEW f \in Feeds, Joins(c, f) \/ Parts(c, f)
    PROVE  B!Next \/ UNCHANGED B!vars
<1> DEFINE mem == [ch \in Channels |-> subscriptions[ch]]
<1>0. [Next]_vars
  BY RecordShape DEF History
<1>1. /\ log' = log /\ received' = received
      /\ subscriptions \in [Feeds -> SUBSET Clients] /\ Channels \subseteq Feeds
      /\ Len(log) = published
  BY RecordShape DEF History, Told, Aside, Types, TypeOK, Feeds
<1>2. \A g \in Feeds \ {f} : subscriptions'[g] = subscriptions[g]
  BY <1>1 DEF Joins, Parts
<1>3. \A ch \in Channels \ {f} : promised'[ch] = promised[ch]
  BY <1>1, <1>2, PromiseKept
<1>4. CASE \A ch \in Channels : subscriptions'[ch] = subscriptions[ch]
  <2>1. \A ch \in Channels : promised'[ch] = promised[ch]
    BY <1>4, PromiseKept
  <2>2. since' = since /\ until' = until /\ promised' = promised /\ mem' = mem
    BY <1>4, <2>1, TimesKept
  <2>3. QED
    BY <1>1, <2>2 DEF B!vars
<1>5. CASE ~ \A ch \in Channels : subscriptions'[ch] = subscriptions[ch]
  <2>1. f \in Channels
    BY <1>1, <1>2, <1>5
  <2>2. /\ since \in [Clients -> [Channels -> Nat]] /\ until \in [Clients -> [Channels -> Nat]]
        /\ since' \in [Clients -> [Channels -> Nat]] /\ until' \in [Clients -> [Channels -> Nat]]
        /\ promised \in [Channels -> SUBSET Clients] /\ promised' \in [Channels -> SUBSET Clients]
        /\ published \in Nat
    BY RecordShape, BoundsAssumption DEF History, Told, Promises, Types, TypeOK
  <2>3. \A d \in Clients, ch \in Channels :
          /\ since'[d][ch] = IF d \notin promised'[ch] THEN 0
                             ELSE IF d \in promised[ch] THEN since[d][ch] ELSE published
          /\ until'[d][ch] = IF d \in subscriptions[ch] \ subscriptions'[ch]
                             THEN published ELSE until[d][ch]
    BY RecordShape DEF History
  <2>4. /\ promised'[f] = {d \in subscriptions'[f] : d \in promised[f] \/ Served(f)'}
        /\ promised[f] \subseteq subscriptions[f]
        /\ \A d \in Clients, ch \in Channels : d \notin promised[ch] => since[d][ch] = 0
    BY <2>1, RecordShape DEF History, Promises
  <2>5. CASE Joins(c, f)
    <3>1. c \notin subscriptions[f] /\ subscriptions'[f] = subscriptions[f] \cup {c}
      BY <1>1, <1>2, <1>5, <2>5 DEF Joins
    <3>2. mem' = [mem EXCEPT ![f] = @ \cup {c}]
      <4>1. \A ch \in Channels :
              subscriptions'[ch] = IF ch = f THEN subscriptions[f] \cup {c} ELSE subscriptions[ch]
        BY <1>1, <1>2, <3>1
      <4>2. QED
        BY <2>1, <4>1
    <3>3. until' = until
      <4>1. \A d \in Clients, ch \in Channels : until'[d][ch] = until[d][ch]
        BY <1>1, <1>2, <2>3, <3>1
      <4>2. QED
        BY <2>2, <4>1, SameTimes
    <3>4. promised'[f] = promised[f] \/ promised'[f] = promised[f] \cup {c}
      <4>1. CASE Served(f)'
        <5>1. Served(f)
          BY <1>0, <2>1, <4>1, ServedBefore
        <5>2. promised[f] = subscriptions[f]
          BY <2>1, <5>1 DEF History, Promises
        <5>3. QED
          BY <2>4, <3>1, <4>1, <5>2
      <4>2. CASE ~Served(f)'
        BY <2>4, <3>1, <4>2
      <4>3. QED
        BY <4>1, <4>2
    <3>5. CASE promised'[f] = promised[f] \cup {c}
      <4>1. B!Serve(f, {c})
        BY <1>3, <2>1, <2>4, <3>1, <3>5, NewlyServed
      <4>2. B!Join(c, f)
        BY <1>1, <2>1, <3>1, <3>2, <3>3, <4>1 DEF B!Join
      <4>3. QED
        BY <2>1, <4>2 DEF B!Next
    <3>6. CASE promised'[f] = promised[f]
      <4>1. \A d \in Clients, ch \in Channels : since'[d][ch] = since[d][ch]
        BY <1>3, <2>3, <2>4, <3>6
      <4>2. since' = since
        BY <2>2, <4>1, SameTimes
      <4>3. promised' = promised
        BY <1>3, <2>2, <3>6
      <4>4. B!Join(c, f)
        BY <1>1, <2>1, <3>1, <3>2, <3>3, <4>2, <4>3 DEF B!Join
      <4>5. QED
        BY <2>1, <4>4 DEF B!Next
    <3>7. QED
      BY <3>4, <3>5, <3>6
  <2>6. CASE Parts(c, f)
    <3>1. c \in subscriptions[f] /\ subscriptions'[f] = subscriptions[f] \ {c}
      BY <1>1, <1>2, <1>5, <2>6 DEF Parts
    <3>2. mem' = [mem EXCEPT ![f] = @ \ {c}]
      <4>1. \A ch \in Channels :
              subscriptions'[ch] = IF ch = f THEN subscriptions[f] \ {c} ELSE subscriptions[ch]
        BY <1>1, <1>2, <3>1
      <4>2. QED
        BY <2>1, <4>1
    <3>3. until' = [until EXCEPT ![c][f] = Len(log)]
      <4>1. [until EXCEPT ![c][f] = published] \in [Clients -> [Channels -> Nat]]
        BY <2>1, <2>2
      <4>2. ASSUME NEW d \in Clients, NEW ch \in Channels
            PROVE  until'[d][ch] = [until EXCEPT ![c][f] = published][d][ch]
        <5>1. [until EXCEPT ![c][f] = published][d][ch]
                 = IF d = c /\ ch = f THEN published ELSE until[d][ch]
          BY <2>1, <2>2
        <5>2. d \in subscriptions[ch] \ subscriptions'[ch] <=> d = c /\ ch = f
          BY <1>1, <1>2, <3>1
        <5>3. QED
          BY <2>3, <5>1, <5>2
      <4>3. until' = [until EXCEPT ![c][f] = published]
        BY <2>2, <4>1, <4>2, SameTimes
      <4>4. QED
        BY <1>1, <4>3
    <3>4. promised'[f] = promised[f] \ {c}
      <4>1. CASE Served(f)'
        <5>1. Served(f)
          BY <1>0, <2>1, <4>1, ServedBefore
        <5>2. promised[f] = subscriptions[f]
          BY <2>1, <5>1 DEF History, Promises
        <5>3. QED
          BY <2>4, <3>1, <4>1, <5>2
      <4>2. CASE ~Served(f)'
        BY <2>4, <3>1, <4>2
      <4>3. QED
        BY <4>1, <4>2
    <3>5. promised' = [promised EXCEPT ![f] = @ \ {c}]
      BY <1>3, <2>1, <2>2, <3>4
    <3>6. since' = [since EXCEPT ![c][f] = 0]
      <4>1. [since EXCEPT ![c][f] = 0] \in [Clients -> [Channels -> Nat]]
        BY <2>1, <2>2
      <4>2. ASSUME NEW d \in Clients, NEW ch \in Channels
            PROVE  since'[d][ch] = [since EXCEPT ![c][f] = 0][d][ch]
        <5>1. [since EXCEPT ![c][f] = 0][d][ch] = IF d = c /\ ch = f THEN 0 ELSE since[d][ch]
          BY <2>1, <2>2
        <5>2. d \in promised'[ch] <=> d \in promised[ch] /\ ~(d = c /\ ch = f)
          BY <1>3, <3>4
        <5>3. QED
          BY <2>3, <2>4, <5>1, <5>2
      <4>3. QED
        BY <2>2, <4>1, <4>2, SameTimes
    <3>7. B!Leave(c, f)
      BY <1>1, <2>1, <3>1, <3>2, <3>3, <3>5, <3>6 DEF B!Leave
    <3>8. QED
      BY <2>1, <3>7 DEF B!Next
  <2>7. QED
    BY <2>5, <2>6
<1>6. QED
  BY <1>4, <1>5

LEMMA NextBroadcast ==
    ASSUME Watched, Complete, Undisturbed => Stream, [Next /\ Record]_deliveryVars
    PROVE  [B!Next]_(B!vars)
<1> USE DEF Watched, Undisrupted, Complete
<1>1. /\ [Next]_vars /\ published \in Nat
      /\ published' = published => log' = log
  BY RecordShape, BoundsAssumption DEF History, Types, TypeOK
<1>2. Undisturbed' => Undisturbed
  BY <1>1, DisturbedStays
<1> Undisturbed \in BOOLEAN /\ Undisturbed' \in BOOLEAN
  BY DEF Undisturbed
<1>3. CASE RedisAccepts
  BY <1>3, AcceptsBroadcast
<1>4. CASE ~RedisAccepts /\ subscriptions' = subscriptions
  <2>0. \A ch \in Channels : promised'[ch] = promised[ch]
    BY <1>4, PromiseKept
  <2>1. UNCHANGED <<promised, since, until>>
    BY <1>4, <2>0, TimesKept
  <2>2. ASSUME published' = published, received' = received PROVE B!Next \/ UNCHANGED B!vars
    <3>1. CASE Undisturbed' = Undisturbed
      BY <1>1, <1>4, <2>1, <2>2, <3>1 DEF B!vars
    <3>2. CASE Undisturbed /\ ~Undisturbed'
      <4>1. B!Excuse
        BY <1>1, <1>4, <2>1, <2>2, <3>2 DEF B!Excuse
      <4>2. QED
        BY <4>1 DEF B!Next
    <3>3. QED
      BY <1>2, <3>1, <3>2
  <2>3. ASSUME NEW t \in Tasks, Send(t) PROVE B!Next \/ UNCHANGED B!vars
    BY <1>1, <2>1, <2>3, SendBroadcast DEF Send
  <2>4. ASSUME NEW ch \in Channels, Publish(ch) PROVE B!Next \/ UNCHANGED B!vars
    <3>1. published' # published
      BY <1>1, <2>4 DEF Publish
    <3>2. PICK d \in Channels : Publish(d) /\ log' = Append(log, d)
      BY <3>1, RecordShape DEF History
    <3>3. UNCHANGED <<received, pc, conn, failures>>
      BY <3>2 DEF Publish, clientVars
    <3>4. B!Publish(d)
      BY <1>4, <2>1, <3>2, <3>3 DEF B!Publish, Undisturbed
    <3>5. QED
      BY <3>4 DEF B!Next
  <2>5. ASSUME Aside \/ \E t \in Tasks : PollMessage(t) \/ Cancelled(t)
        PROVE  B!Next \/ UNCHANGED B!vars
    BY <2>2, <2>5 DEF Aside, PollMessage, Cancelled, streamVars
  <2>6. QED
    BY <1>1, <2>3, <2>4, <2>5, StepAside
<1>5. CASE ~RedisAccepts /\ subscriptions' # subscriptions
  <2>1. /\ Aside /\ published' = published /\ Undisturbed' = Undisturbed
        /\ \E c \in Clients, f \in Feeds : Joins(c, f) \/ Parts(c, f)
    BY <1>1, <1>2, <1>5, SubscriptionSteps
  <2>2. QED
    BY <1>5, <2>1, MemberBroadcast
<1>6. QED
  BY <1>3, <1>4, <1>5

\* The service implements the broadcast: what a client receives was published on
\* a channel before it left it, and until a command or a poll fails, a connection
\* breaks or somebody calls stop(), it receives everything published since Redis
\* took the subscription, once, in the order of publication (lines 119-135,
\* 144-167, 268-281).  The hypothesis is needed: Redis sends a message once more
\* for every pattern.
THEOREM ServiceBroadcasts ==
    ASSUME Matches = {}
    PROVE  DeliverySpec => InOrderBroadcast
<1> DEFINE Flow == Undisturbed => Stream
<1>1. DeliveryInit => Flow
  BY InitStream DEF DeliveryInit
<1>2. Watched /\ Flow /\ [Next /\ Record]_deliveryVars => Flow'
  <2> SUFFICES ASSUME Watched, Flow, [Next /\ Record]_deliveryVars, Undisturbed'
               PROVE  Stream'
    OBVIOUS
  <2>1. [Next]_vars
    BY RecordShape DEF Watched, History
  <2>2. QED
    BY <2>1, DisturbedStays, NextStream DEF Watched, Undisrupted
<1>3. Watched /\ Complete /\ Flow /\ [Next /\ Record]_deliveryVars => [B!Next]_(B!vars)
  BY NextBroadcast
<1> HIDE DEF Flow
<1>4. QED
  BY <1>1, <1>2, <1>3, AlwaysWatched, InitBroadcast, PTL DEF DeliverySpec, InOrderBroadcast, B!Spec
=============================================================================
