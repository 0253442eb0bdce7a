---------------------- MODULE MarketDataScannerProofs ----------------------
\* Proofs about MarketDataScanner for every bound: types; one consumer at a
\* time, which stop() reaches; a connected flag with a client behind it; and a
\* stop() that leaves nothing behind.
EXTENDS MarketDataScanner, TLAPS

Busy(a)      == pc[a] \in Stopping \cup Starting
Consumer(t)  == pc[t] \in {"new"} \cup Consuming

\* One coroutine at a time is inside start(), stop() or restart(); the others
\* are at rest, or the one task that consumes.
OneBusy == \A a, b \in Actors : Busy(a) /\ Busy(b) => a = b

\* A consumer is the task of the handle. While somebody is past the await of
\* stop() there is none. A task awaits nobody but itself.
Handled ==
    /\ \A t \in Tasks : Consumer(t) => handle = t
    /\ \A a \in Actors : Busy(a) /\ pc[a] # "await" => \A t \in Tasks : ~Consumer(t)
    /\ \A a \in Actors : pc[a] = "await" => awaited[a] = handle /\ handle # 0
    /\ \A t \in Tasks : pc[t] = "await" => handle = t

\* After a stop() nobody starts anything: what may still consume is what the
\* owner awaits.
Owned ==
    /\ Busy(Owner) /\ job[Owner] = "restart" => wanted
    /\ pc[Owner] \in Starting => wanted
    /\ ~wanted => \A t \in Tasks : ~Busy(t)
    /\ ~wanted /\ pc[Owner] # "await" => \A t \in Tasks : ~Consumer(t)

\* The flag has a client behind it, which start() has made before the ping.
ClientBehindFlag ==
    /\ connected => redis
    /\ \A a \in Actors : pc[a] \in {"ping", "rehydrate", "subscribe"} => redis

Clean == ~cutOff /\ \A t \in Tasks : pc[t] # "failed"

\* What is open in each phase of start() and stop(), when nothing was cut off.
Phase(a) ==
    /\ pc[a] \in {"unsubscribe", "close"} => pubsub # 0 /\ on[a] = pubsub
    /\ pc[a] \in {"release", "pause", "ping"} => pubsub = 0
    /\ pc[a] \in {"release", "pause"} \cup Starting => subscribed = {}
    /\ pc[a] = "pause" => ~redis
    /\ pc[a] \in {"rehydrate", "subscribe"} => pubsub # 0
    /\ pc[a] = "subscribe" => on[a] = pubsub

Subscriber == \A c \in subscribed : c = pubsub /\ c # 0
Stopped    == ~wanted /\ pc[Owner] = "idle" => pubsub = 0 /\ ~redis /\ subscribed = {}
Phases     == Subscriber /\ Stopped /\ \A a \in Actors : Phase(a)

\* A task that has not been made has no state to lose.
Fresh == \A t \in Tasks : t > starts => pc[t] = "none"

Alone == OneBusy /\ Handled /\ Owned
Inv   == ~overlapped => Alone /\ ClientBehindFlag
Quiet == Fresh /\ (~overlapped /\ Clean => Phases)

USE OwnerAssumption, BoundsAssumption
    DEF Tasks, Actors, Clients, local, scanner, made, network, history

---------------------------------------------------------------------------
\* Types.

PcType == pc \in [Actors -> Places]

LocalType ==
    /\ PcType /\ job \in [Actors -> {"start", "stop", "restart"}]
    /\ on \in [Actors -> 0..opened] /\ awaited \in [Actors -> 0..starts]
    /\ msg \in [Tasks -> 0..sent]
HasInput ==
    \A t \in Tasks : /\ pc[t] = "poll" => on[t] # 0
                     /\ pc[t] \in {"work", "write"} => msg[t] # 0
StateType ==
    /\ cancelled \subseteq Tasks /\ handle \in 0..starts /\ pubsub \in 0..opened
    /\ redis \in BOOLEAN /\ connected \in BOOLEAN
    /\ opened \in 0..MaxOpens /\ starts \in 0..MaxStarts
NetworkType ==
    /\ up \in BOOLEAN /\ subscribed \subseteq 0..opened
    /\ queue \in [Clients -> Seq(1..sent)] /\ sent \in 0..MaxMessages
    /\ results \in Seq(1..sent)
RestType ==
    /\ budget \in [{"outages", "poisons"} -> Nat]
    /\ calls \in 0..MaxCalls /\ wanted \in BOOLEAN
    /\ overlapped \in BOOLEAN /\ cutOff \in BOOLEAN

LEMMA TypeParts == TypeOK <=> LocalType /\ HasInput /\ StateType /\ NetworkType /\ RestType
BY DEF TypeOK, PcType, LocalType, HasInput, StateType, NetworkType, RestType

LEMMA PartsTyped == (LocalType /\ HasInput /\ StateType /\ NetworkType /\ RestType)' => TypeOK'
BY DEF TypeOK, PcType, LocalType, HasInput, StateType, NetworkType, RestType

LEMMA NetworkKept ==
    ASSUME TypeOK, UNCHANGED <<network, results>>, opened' = opened \/ opened' = opened + 1
    PROVE  NetworkType'
BY DEF TypeOK, NetworkType

LEMMA RestKept ==
    ASSUME TypeOK, UNCHANGED <<budget, calls, history>>, cutOff' \in BOOLEAN
    PROVE  RestType'
BY DEF TypeOK, RestType

LEMMA GotoType ==
    ASSUME PcType, NEW a \in Actors, NEW place \in Places, Goto(a, place)
    PROVE  PcType'
BY DEF PcType, Goto

LEMMA RaisesType ==
    ASSUME PcType, cutOff \in BOOLEAN, up \in BOOLEAN, NEW a \in Actors, Raises(a)
    PROVE  PcType' /\ cutOff' \in BOOLEAN
<1>1. Rest(a) \in Places
  BY DEF Rest, Places
<1>2. QED
  BY <1>1, GotoType DEF Raises

LEMMA ToReleaseType ==
    ASSUME PcType, NEW a \in Actors, NEW j, ToRelease(a, j)
    PROVE  PcType' /\ cutOff' = cutOff
<1> DEFINE place == CASE redis -> "release"
                      [] ~redis /\ j = "restart" -> "pause"
                      [] OTHER -> Rest(a)
<1>1. place \in Places
  BY DEF Rest, Places, Stopping, Starting
<1>2. QED
  BY <1>1, GotoType DEF ToRelease

LEMMA ToUnsubscribeType ==
    ASSUME TypeOK, NEW a \in Actors, NEW j, ToUnsubscribe(a, j)
    PROVE  PcType' /\ cutOff' = cutOff /\ on' \in [Actors -> 0..opened]
<1>1. PcType /\ on \in [Actors -> 0..opened] /\ pubsub \in 0..opened
  BY DEF TypeOK, PcType
<1>2. CASE pubsub = 0
  BY <1>1, <1>2, ToReleaseType DEF ToUnsubscribe
<1>3. CASE pubsub # 0
  <2>1. "unsubscribe" \in Places
    BY DEF Places, Stopping
  <2>2. QED
    BY <1>1, <1>3, <2>1, GotoType DEF ToUnsubscribe
<1>4. QED
  BY <1>2, <1>3

LEMMA EnterStopType ==
    ASSUME TypeOK, NEW a \in Actors, NEW j, EnterStop(a, j)
    PROVE  /\ PcType' /\ cutOff' = cutOff /\ on' \in [Actors -> 0..opened]
           /\ handle' = handle /\ cancelled' \subseteq Tasks
           /\ awaited' \in [Actors -> 0..starts]
<1>1. CASE handle = 0
  BY <1>1, ToUnsubscribeType DEF EnterStop, TypeOK
<1>2. CASE handle # 0
  <2>1. PcType /\ "await" \in Places
    BY DEF TypeOK, PcType, Places, Stopping
  <2>2. PcType' /\ cutOff' = cutOff /\ on' = on /\ handle' = handle
    BY <1>2, <2>1, GotoType DEF EnterStop
  <2>3. handle \in Tasks /\ handle \in 0..starts
    BY <1>2 DEF TypeOK
  <2>4. cancelled' \subseteq Tasks
    BY <1>2, <2>3 DEF EnterStop, TypeOK
  <2>5. awaited' \in [Actors -> 0..starts]
    BY <1>2, <2>3 DEF EnterStop, TypeOK
  <2>6. QED
    BY <2>2, <2>4, <2>5 DEF TypeOK
<1>3. QED
  BY <1>1, <1>2

LEMMA OpenType ==
    ASSUME TypeOK, NEW a \in Actors, Open(a)
    PROVE  /\ PcType' /\ cutOff' \in BOOLEAN /\ opened' \in 0..MaxOpens
           /\ pubsub' \in 0..opened' /\ (opened' = opened \/ opened' = opened + 1)
<1>1. /\ PcType /\ cutOff \in BOOLEAN /\ up \in BOOLEAN
      /\ opened \in 0..MaxOpens /\ pubsub \in 0..opened
  BY DEF TypeOK, PcType
<1>2. CASE redis' /\ opened < MaxOpens /\ opened' = opened + 1 /\ pubsub' = opened + 1
           /\ Goto(a, "rehydrate") /\ UNCHANGED cutOff
  <2>1. "rehydrate" \in Places
    BY DEF Places, Starting
  <2>2. PcType'
    BY <1>1, <1>2, <2>1, GotoType
  <2>3. QED
    BY <1>1, <1>2, <2>2
<1>3. CASE Raises(a) /\ UNCHANGED <<opened, pubsub>>
  BY <1>1, <1>3, RaisesType
<1>4. QED
  BY <1>2, <1>3 DEF Open

LEMMA EnterStartType ==
    ASSUME TypeOK, NEW a \in Actors, EnterStart(a)
    PROVE  /\ PcType' /\ cutOff' \in BOOLEAN /\ opened' \in 0..MaxOpens
           /\ pubsub' \in 0..opened' /\ (opened' = opened \/ opened' = opened + 1)
           /\ redis' \in BOOLEAN
<1>1. /\ PcType /\ cutOff \in BOOLEAN /\ redis \in BOOLEAN
      /\ opened \in 0..MaxOpens /\ pubsub \in 0..opened /\ "ping" \in Places
  BY DEF TypeOK, PcType, Places, Starting
<1>2. CASE ~connected
  <2>1. PcType'
    BY <1>1, <1>2, GotoType DEF EnterStart
  <2>2. QED
    BY <1>1, <1>2, <2>1 DEF EnterStart
<1>3. CASE connected
  <2>1. Open(a) /\ redis' = redis
    BY <1>3 DEF EnterStart
  <2>2. QED
    BY <1>1, <2>1, OpenType
<1>4. QED
  BY <1>2, <1>3

LEMMA PollType ==
    ASSUME TypeOK, NEW t \in Tasks, Poll(t)
    PROVE  PcType' /\ on' \in [Actors -> 0..opened] /\ connected' \in BOOLEAN
<1>1. PcType /\ (IF pubsub # 0 THEN "poll" ELSE "failed") \in Places
  BY DEF TypeOK, PcType, Places, Consuming
<1>2. PcType'
  BY <1>1, GotoType DEF Poll
<1>3. QED
  BY <1>2 DEF TypeOK, Poll

\* In start() and stop() one actor moves, and to a place without an input.
Moves(a) ==
    /\ \A b \in Actors : b # a => /\ pc'[b] = pc[b] \/ pc'[b] = "new"
                                  /\ on'[b] = on[b]
    /\ pc'[a] \notin Consuming
    /\ msg' = msg

LEMMA MovesInput ==
    ASSUME TypeOK, NEW a \in Actors, Moves(a)
    PROVE  HasInput'
BY DEF TypeOK, HasInput, Moves, Consuming

LEMMA GotoMoves ==
    ASSUME TypeOK, NEW a \in Actors, NEW place, Goto(a, place),
           place \notin {"new"} \cup Consuming, msg' = msg,
           on' = on \/ \E c : on' = [on EXCEPT ![a] = c]
    PROVE  Moves(a)
BY DEF TypeOK, Moves, Goto

LEMMA RaisesMoves ==
    ASSUME TypeOK, NEW a \in Actors, Raises(a), msg' = msg,
           on' = on \/ \E c : on' = [on EXCEPT ![a] = c]
    PROVE  Moves(a)
<1>1. Rest(a) \notin {"new"} \cup Consuming
  BY DEF Rest, Consuming
<1>2. QED
  BY <1>1, GotoMoves DEF Raises

LEMMA ToReleaseMoves ==
    ASSUME TypeOK, NEW a \in Actors, NEW j, ToRelease(a, j), msg' = msg,
           on' = on \/ \E c : on' = [on EXCEPT ![a] = c]
    PROVE  Moves(a)
<1> DEFINE place == CASE redis -> "release"
                      [] ~redis /\ j = "restart" -> "pause"
                      [] OTHER -> Rest(a)
<1>1. place \notin {"new"} \cup Consuming
  BY DEF Rest, Consuming
<1>2. Goto(a, place)
  BY DEF ToRelease
<1>3. QED
  BY <1>1, <1>2, GotoMoves

LEMMA ToUnsubscribeMoves ==
    ASSUME TypeOK, NEW a \in Actors, NEW j, ToUnsubscribe(a, j), msg' = msg
    PROVE  Moves(a)
<1>1. "unsubscribe" \notin {"new"} \cup Consuming
  BY DEF Consuming
<1>2. QED
  BY <1>1, GotoMoves, ToReleaseMoves DEF ToUnsubscribe

LEMMA EnterStopMoves ==
    ASSUME TypeOK, NEW a \in Actors, NEW j, EnterStop(a, j), msg' = msg
    PROVE  Moves(a)
<1>1. "await" \notin {"new"} \cup Consuming
  BY DEF Consuming
<1>2. QED
  BY <1>1, GotoMoves, ToUnsubscribeMoves DEF EnterStop

LEMMA EnterStartMoves ==
    ASSUME TypeOK, NEW a \in Actors, EnterStart(a) \/ Open(a), msg' = msg, on' = on
    PROVE  Moves(a)
<1>1. "ping" \notin {"new"} \cup Consuming /\ "rehydrate" \notin {"new"} \cup Consuming
  BY DEF Consuming
<1>2. QED
  BY <1>1, GotoMoves, RaisesMoves DEF EnterStart, Open

LEMMA RestartMoves ==
    ASSUME TypeOK, NEW a \in Actors, Restart(a)
    PROVE  Moves(a)
<1>1. CASE Awaited(a)
  BY <1>1, ToUnsubscribeMoves, RaisesMoves DEF Awaited
<1>2. CASE Unsubscribed(a)
  <2>1. "close" \notin {"new"} \cup Consuming
    BY DEF Consuming
  <2>2. QED
    BY <1>2, <2>1, GotoMoves, RaisesMoves DEF Unsubscribed
<1>3. CASE Closed(a)
  BY <1>3, ToReleaseMoves DEF Closed
<1>4. CASE Released(a)
  <2>1. (IF job[a] = "restart" THEN "pause" ELSE Rest(a)) \notin {"new"} \cup Consuming
    BY DEF Rest, Consuming
  <2>2. QED
    BY <1>4, <2>1, GotoMoves DEF Released
<1>5. CASE Paused(a)
  BY <1>5, EnterStartMoves DEF Paused
<1>6. CASE Pinged(a)
  BY <1>6, EnterStartMoves, RaisesMoves DEF Pinged
<1>7. CASE Rehydrated(a)
  <2>1. "subscribe" \notin {"new"} \cup Consuming
    BY DEF Consuming
  <2>2. QED
    BY <1>7, <2>1, GotoMoves, RaisesMoves DEF Rehydrated
<1>8. CASE Subscribed(a)
  <2>1. CASE Raises(a)
    BY <1>8, <2>1, RaisesMoves DEF Subscribed
  <2>2. CASE pc' = [pc EXCEPT ![a] = Rest(a), ![starts + 1] = "new"]
    BY <1>8, <2>2 DEF Subscribed, Moves, Rest, Consuming, TypeOK
  <2>3. QED
    BY <1>8, <2>1, <2>2 DEF Subscribed
<1>9. QED
  BY <1>1, <1>2, <1>3, <1>4, <1>5, <1>6, <1>7, <1>8 DEF Restart

LEMMA InitType == Init => TypeOK
<1> SUFFICES ASSUME Init PROVE TypeOK
  OBVIOUS
<1>1. PcType /\ job \in [Actors -> {"start", "stop", "restart"}]
  BY DEF Init, PcType, Places
<1>2. /\ queue \in [Clients -> Seq(1..sent)] /\ results \in Seq(1..sent)
      /\ budget \in [{"outages", "poisons"} -> Nat]
  BY DEF Init
<1>3. 0 \in 0..opened /\ 0 \in 0..starts /\ 0 \in 0..sent
  BY DEF Init
<1>4. LocalType /\ HasInput
  BY <1>1, <1>3 DEF Init, LocalType, HasInput
<1>5. StateType
  <2>1. redis \in BOOLEAN /\ connected \in BOOLEAN
    BY DEF Init
  <2>2. /\ cancelled \subseteq Tasks /\ handle \in 0..starts /\ pubsub \in 0..opened
        /\ opened \in 0..MaxOpens /\ starts \in 0..MaxStarts
    BY DEF Init
  <2>3. QED
    BY <2>1, <2>2 DEF StateType
<1>6. NetworkType
  BY <1>2 DEF Init, NetworkType
<1>7. RestType
  <2>1. wanted \in BOOLEAN /\ overlapped \in BOOLEAN /\ cutOff \in BOOLEAN
    BY DEF Init
  <2>2. calls \in 0..MaxCalls
    BY DEF Init
  <2>3. QED
    BY <1>2, <2>1, <2>2 DEF RestType
<1>8. QED
  BY <1>4, <1>5, <1>6, <1>7, TypeParts

LEMMA RestartType ==
    ASSUME TypeOK, NEW a \in Actors, Restart(a)
    PROVE  TypeOK'
<1>t. /\ LocalType /\ HasInput /\ StateType /\ NetworkType /\ RestType /\ PcType
      /\ up \in BOOLEAN /\ cutOff \in BOOLEAN
  BY TypeParts DEF LocalType, NetworkType, RestType
<1>i. HasInput'
  BY RestartMoves, MovesInput
<1>1. CASE Awaited(a)
  <2>1. /\ PcType' /\ cutOff' \in BOOLEAN /\ on' \in [Actors -> 0..opened]
        /\ handle' \in 0..starts
    <3>1. CASE handle' = 0 /\ ToUnsubscribe(a, job[a])
      BY <1>t, <3>1, ToUnsubscribeType DEF StateType
    <3>2. CASE Raises(a) /\ UNCHANGED <<handle, on>>
      BY <1>t, <3>2, RaisesType DEF StateType, LocalType
    <3>3. QED
      BY <1>1, <3>1, <3>2 DEF Awaited
  <2>2. UNCHANGED <<job, msg, pubsub, redis, connected, made, network, results,
                    calls, history>>
        /\ cancelled' \subseteq Tasks /\ awaited' \in [Actors -> 0..starts]
    <3>1. cancelled' = cancelled \ {a} /\ awaited' = [awaited EXCEPT ![a] = 0]
      BY <1>1 DEF Awaited
    <3>2. cancelled' \subseteq Tasks
      BY <1>t, <3>1 DEF StateType
    <3>3. 0 \in 0..starts
      BY <1>t DEF StateType
    <3>4. awaited' \in [Actors -> 0..starts]
      BY <1>t, <3>1, <3>3 DEF LocalType
    <3>5. QED
      BY <1>1, <3>2, <3>4 DEF Awaited
  <2>3. LocalType' /\ StateType'
    BY <1>t, <2>1, <2>2 DEF LocalType, StateType
  <2>4. QED
    BY <2>1, <2>2, <2>3, NetworkKept, RestKept, PartsTyped, <1>i
<1>2. CASE Unsubscribed(a)
  <2>1. "close" \in Places
    BY DEF Places, Stopping
  <2>2. /\ PcType' /\ cutOff' \in BOOLEAN /\ on' \in [Actors -> 0..opened]
        /\ UNCHANGED <<job, awaited, msg, cancelled, scanner, made, network,
                       results, calls, history>>
    BY <1>t, <1>2, <2>1, GotoType, RaisesType DEF Unsubscribed, LocalType, StateType
  <2>3. LocalType' /\ StateType'
    BY <1>t, <2>2 DEF LocalType, StateType
  <2>4. QED
    BY <2>2, <2>3, NetworkKept, RestKept, PartsTyped, <1>i
<1>3. CASE Closed(a)
  <2>1. PcType' /\ cutOff' = cutOff
    BY <1>t, <1>3, ToReleaseType DEF Closed
  <2>2. /\ UNCHANGED <<job, awaited, msg, cancelled, handle, redis, connected, made,
                       up, sent, budget, results, calls, history>>
        /\ subscribed' \subseteq subscribed /\ pubsub' = 0
        /\ queue' = [queue EXCEPT ![on[a]] = <<>>] /\ on' = [on EXCEPT ![a] = 0]
    BY <1>3 DEF Closed
  <2>3. LocalType' /\ StateType'
    BY <1>t, <2>1, <2>2 DEF LocalType, StateType
  <2>4. NetworkType'
    <3>1. <<>> \in Seq(1..sent) /\ queue \in [Clients -> Seq(1..sent)]
      BY <1>t DEF NetworkType
    <3>2. queue' \in [Clients -> Seq(1..sent)]
      BY <2>2, <3>1
    <3>3. QED
      BY <1>t, <2>2, <3>2 DEF NetworkType
  <2>5. RestType'
    BY <2>1, <2>2, <1>t, RestKept
  <2>6. QED
    BY <2>3, <2>4, <2>5, PartsTyped, <1>i
<1>4. CASE Released(a)
  <2>1. (IF job[a] = "restart" THEN "pause" ELSE Rest(a)) \in Places
    BY DEF Places, Starting, Rest
  <2>2. PcType'
    BY <1>t, <1>4, <2>1, GotoType DEF Released
  <2>3. UNCHANGED <<local, cancelled, handle, pubsub, made, network, results,
                    calls, history, cutOff>>
        /\ redis' = FALSE /\ connected' = FALSE
    BY <1>4 DEF Released
  <2>4. LocalType' /\ StateType'
    BY <1>t, <2>2, <2>3 DEF LocalType, StateType
  <2>5. QED
    BY <1>t, <2>3, <2>4, NetworkKept, RestKept, PartsTyped, <1>i
<1>5. CASE Paused(a)
  <2>1. UNCHANGED <<local, cancelled, handle, connected, starts, network, results,
                    calls, history>> /\ EnterStart(a)
    BY <1>5 DEF Paused
  <2>2. LocalType' /\ StateType' /\ cutOff' \in BOOLEAN
        /\ (opened' = opened \/ opened' = opened + 1)
    BY <1>t, <2>1, EnterStartType DEF LocalType, StateType
  <2>3. QED
    BY <2>1, <2>2, NetworkKept, RestKept, PartsTyped, <1>i
<1>6. CASE Pinged(a)
  <2>1. UNCHANGED <<local, cancelled, handle, redis, starts, network, results,
                    calls, history>> /\ connected' \in BOOLEAN
    BY <1>t, <1>6 DEF Pinged, StateType
  <2>2. /\ PcType' /\ cutOff' \in BOOLEAN /\ opened' \in 0..MaxOpens
        /\ pubsub' \in 0..opened' /\ (opened' = opened \/ opened' = opened + 1)
    BY <1>t, <1>6, OpenType, RaisesType DEF Pinged, StateType
  <2>3. LocalType' /\ StateType'
    BY <1>t, <2>1, <2>2 DEF LocalType, StateType
  <2>4. QED
    BY <2>1, <2>2, <2>3, NetworkKept, RestKept, PartsTyped, <1>i
<1>7. CASE Rehydrated(a)
  <2>1. "subscribe" \in Places
    BY DEF Places, Starting
  <2>2. /\ PcType' /\ cutOff' \in BOOLEAN /\ on' \in [Actors -> 0..opened]
        /\ UNCHANGED <<job, awaited, msg, cancelled, scanner, made, network,
                       results, calls, history>>
    BY <1>t, <1>7, <2>1, GotoType, RaisesType DEF Rehydrated, LocalType, StateType
  <2>3. LocalType' /\ StateType'
    BY <1>t, <2>2 DEF LocalType, StateType
  <2>4. QED
    BY <2>2, <2>3, NetworkKept, RestKept, PartsTyped, <1>i
<1>8. CASE Subscribed(a)
  <2>1. UNCHANGED <<job, awaited, msg, cancelled, pubsub, redis, connected, opened,
                    up, queue, sent, budget, results, calls, history>>
        /\ on' = [on EXCEPT ![a] = 0]
    BY <1>8 DEF Subscribed
  <2>2. CASE up /\ starts < MaxStarts /\ UNCHANGED cutOff
    <3>1. /\ starts' = starts + 1 /\ handle' = starts + 1
          /\ pc' = [pc EXCEPT ![a] = Rest(a), ![starts + 1] = "new"]
          /\ subscribed' = subscribed \cup {on[a]}
      BY <1>8, <2>2 DEF Subscribed, Raises
    <3>2. PcType'
      BY <1>t, <3>1 DEF PcType, Places, Rest
    <3>3. LocalType' /\ StateType'
      BY <1>t, <2>1, <2>2, <3>1, <3>2 DEF LocalType, StateType
    <3>4. NetworkType'
      <4>1. on[a] \in 0..opened
        BY <1>t DEF LocalType
      <4>2. QED
        BY <1>t, <2>1, <3>1, <4>1 DEF NetworkType
    <3>5. QED
      BY <1>t, <2>1, <2>2, <3>3, <3>4, RestKept, PartsTyped, <1>i
  <2>3. CASE Raises(a) /\ UNCHANGED <<subscribed, starts, handle>>
    <3>1. LocalType' /\ StateType' /\ cutOff' \in BOOLEAN
      BY <1>t, <2>1, <2>3, RaisesType DEF LocalType, StateType
    <3>2. QED
      BY <2>1, <2>3, <3>1, NetworkKept, RestKept, PartsTyped, <1>i
  <2>4. QED
    BY <1>8, <2>2, <2>3 DEF Subscribed
<1>9. QED
  BY <1>1, <1>2, <1>3, <1>4, <1>5, <1>6, <1>7, <1>8 DEF Restart

LEMMA CallsType ==
    ASSUME TypeOK, Calls
    PROVE  TypeOK'
<1>t. LocalType /\ HasInput /\ StateType /\ NetworkType /\ RestType /\ PcType /\ Owner \in Actors
  BY TypeParts DEF LocalType
<1>1. ASSUME NEW what \in {"start", "stop", "restart"}, Call(what)
      PROVE  /\ job' \in [Actors -> {"start", "stop", "restart"}]
             /\ calls' \in 0..MaxCalls /\ wanted' \in BOOLEAN
             /\ overlapped' \in BOOLEAN
  <2>1. job' \in [Actors -> {"start", "stop", "restart"}]
    BY <1>t, <1>1 DEF Call, LocalType
  <2>2. calls' \in 0..MaxCalls
    BY <1>t, <1>1 DEF Call, RestType
  <2>3. wanted' \in BOOLEAN /\ overlapped' \in BOOLEAN
    BY <1>1 DEF Call
  <2>4. QED
    BY <2>1, <2>2, <2>3
<1>2. CASE CallStart
  <2>1. Call("start") /\ EnterStart(Owner)
        /\ UNCHANGED <<on, awaited, msg, cancelled, handle, connected, starts,
                       network, results>>
    BY <1>2 DEF CallStart
  <2>2. LocalType' /\ StateType' /\ cutOff' \in BOOLEAN
        /\ (opened' = opened \/ opened' = opened + 1)
    <3>1. /\ PcType' /\ cutOff' \in BOOLEAN /\ opened' \in 0..MaxOpens
          /\ pubsub' \in 0..opened' /\ (opened' = opened \/ opened' = opened + 1)
          /\ redis' \in BOOLEAN
      BY <1>t, <2>1, EnterStartType
    <3>2. job' \in [Actors -> {"start", "stop", "restart"}]
      BY <1>1, <2>1
    <3>3. LocalType'
      BY <1>t, <2>1, <3>1, <3>2 DEF LocalType, StateType
    <3>4. StateType'
      BY <1>t, <2>1, <3>1 DEF StateType
    <3>5. QED
      BY <3>1, <3>3, <3>4
  <2>3. RestType'
    BY <1>t, <1>1, <2>1, <2>2 DEF RestType
  <2>4. QED
    BY <2>1, <2>2, <2>3, NetworkKept, PartsTyped, MovesInput, EnterStartMoves, EnterStopMoves
<1>3. ASSUME NEW what \in {"stop", "restart"}, CallStop(what) PROVE TypeOK'
  <2>1. Call(what) /\ EnterStop(Owner, what)
        /\ UNCHANGED <<msg, pubsub, redis, connected, made, network, results>>
    BY <1>3 DEF CallStop
  <2>2. LocalType' /\ StateType' /\ cutOff' = cutOff
    BY <1>t, <1>1, <2>1, EnterStopType DEF LocalType, StateType
  <2>3. RestType'
    BY <1>t, <1>1, <2>1, <2>2 DEF RestType
  <2>4. QED
    BY <2>1, <2>2, <2>3, NetworkKept, PartsTyped, MovesInput, EnterStartMoves, EnterStopMoves
<1>4. QED
  BY <1>2, <1>3 DEF Calls

LEMMA PollHasClient ==
    ASSUME HasInput, NEW t \in Tasks, pc[t] = "poll"
    PROVE  on[t] # 0
BY DEF HasInput

\* What is taken from a sequence, added to it, or allowed in it.
LEMMA ElementsOf ==
    ASSUME NEW n \in Nat, NEW s \in Seq(1..n), s # <<>>
    PROVE  Head(s) \in 1..n /\ Tail(s) \in Seq(1..n)
BY SMT

LEMMA PositiveNumber ==
    ASSUME NEW n \in Nat, NEW k \in 1..n
    PROVE  k \in 0..n /\ k # 0
BY SMT

LEMMA Appended ==
    ASSUME NEW n \in Nat, NEW s \in Seq(1..n), NEW e \in 1..n
    PROVE  Append(s, e) \in Seq(1..n)
BY SMT

LEMMA Widened ==
    ASSUME NEW n \in Nat, NEW s \in Seq(1..n)
    PROVE  s \in Seq(1..(n + 1))
<1>1. \A i \in 1..Len(s) : s[i] \in 1..(n + 1)
  BY SMT
<1>2. QED
  BY <1>1, SMT

LEMMA PollInput ==
    ASSUME TypeOK, NEW t \in Tasks, Poll(t), \A u \in Tasks : u # t => msg'[u] = msg[u]
    PROVE  HasInput'
BY DEF TypeOK, HasInput, Poll, Goto

LEMMA GotoInput ==
    ASSUME TypeOK, NEW t \in Tasks, NEW place, Goto(t, place),
           \A u \in Tasks : u # t => msg'[u] = msg[u] /\ on'[u] = on[u],
           place # "poll", place \in {"work", "write"} => msg'[t] # 0
    PROVE  HasInput'
BY DEF TypeOK, HasInput, Goto

LEMMA ConsumeType ==
    ASSUME TypeOK, NEW t \in Tasks, Consume(t) \/ PollRaises(t)
    PROVE  TypeOK'
<1>t. LocalType /\ HasInput /\ StateType /\ NetworkType /\ RestType /\ PcType
      /\ t \in Actors /\ cutOff \in BOOLEAN
  BY TypeParts DEF LocalType, RestType
<1>p. {"work", "write", "done", "failed"} \subseteq Places
  BY DEF Places, Consuming
<1>s. sent \in Nat
  BY <1>t DEF NetworkType
<1>m. pc[t] = "write" => msg[t] \in 1..sent
  <2>1. msg[t] \in 0..sent
    BY <1>t DEF LocalType
  <2>2. pc[t] = "write" => msg[t] # 0
    BY <1>t, Zenon DEF HasInput
  <2>3. QED
    BY <1>s, <2>1, <2>2
<1>1. CASE Begin(t) \/ Idle(t)
  <2>1. Poll(t) /\ UNCHANGED <<job, awaited, msg, cancelled, handle, pubsub, redis,
                               made, network, results, calls, history, cutOff>>
    BY <1>1 DEF Begin, Idle
  <2>2. LocalType' /\ HasInput' /\ StateType'
    BY <1>t, <2>1, PollType, PollInput DEF LocalType, StateType
  <2>3. QED
    BY <1>t, <2>1, <2>2, NetworkKept, RestKept, PartsTyped
<1>2. CASE Receive(t)
  <2>1. /\ pc[t] = "poll" /\ queue[on[t]] # <<>> /\ Goto(t, "work")
        /\ msg' = [msg EXCEPT ![t] = Head(queue[on[t]])]
        /\ queue' = [queue EXCEPT ![on[t]] = Tail(@)]
        /\ UNCHANGED <<job, on, awaited, cancelled, scanner, made, up, subscribed,
                       sent, budget, results, calls, history, cutOff>>
    BY <1>2 DEF Receive, At
  <2>2. on[t] \in Clients
    <3>1. on[t] \in 0..opened
      BY <1>t DEF LocalType
    <3>2. on[t] # 0
      BY <1>t, <2>1, PollHasClient
    <3>3. opened \in 0..MaxOpens
      BY <1>t DEF StateType
    <3>4. QED
      BY <3>1, <3>2, <3>3
  <2>3. /\ queue[on[t]] \in Seq(1..sent)
        /\ Head(queue[on[t]]) \in 1..sent /\ Tail(queue[on[t]]) \in Seq(1..sent)
    <3>1. queue[on[t]] \in Seq(1..sent) /\ queue[on[t]] # <<>>
      BY <1>t, <2>1, <2>2 DEF NetworkType
    <3>2. QED
      BY <1>s, <3>1, ElementsOf
  <2>4. PcType'
    BY <1>t, <1>p, <2>1, GotoType
  <2>5. msg' \in [Tasks -> 0..sent] /\ msg'[t] # 0
        /\ \A u \in Tasks : u # t => msg'[u] = msg[u]
    <3>1. msg \in [Tasks -> 0..sent] /\ sent \in Nat
      BY <1>t DEF LocalType, NetworkType
    <3>2. Head(queue[on[t]]) \in 0..sent /\ Head(queue[on[t]]) # 0
      BY <2>3, <3>1, PositiveNumber
    <3>3. QED
      BY <2>1, <3>1, <3>2
  <2>6. LocalType' /\ HasInput' /\ StateType'
    BY <1>t, <2>1, <2>4, <2>5, GotoInput DEF LocalType, StateType
  <2>7. queue' \in [Clients -> Seq(1..sent)]
    BY <1>t, <2>1, <2>3 DEF NetworkType
  <2>8. NetworkType'
    BY <1>t, <2>1, <2>7 DEF NetworkType
  <2>9. QED
    BY <1>t, <2>1, <2>6, <2>8, RestKept, PartsTyped
<1>3. CASE PollRaises(t)
  <2>1. /\ Goto(t, "failed") /\ connected' = FALSE /\ on' = [on EXCEPT ![t] = 0]
        /\ UNCHANGED <<job, awaited, msg, cancelled, handle, pubsub, redis, made, up,
                       subscribed, queue, sent, results, calls, history, cutOff>>
    BY <1>3 DEF PollRaises
  <2>2. budget' \in [{"outages", "poisons"} -> Nat]
    BY <1>t, <1>3 DEF PollRaises, Spend, RestType
  <2>3. PcType'
    BY <1>t, <1>p, <2>1, GotoType
  <2>4. HasInput'
    <3>1. \A u \in Tasks : u # t => msg'[u] = msg[u] /\ on'[u] = on[u]
      BY <1>t, <2>1 DEF LocalType
    <3>2. QED
      BY <2>1, <3>1, GotoInput
  <2>5. LocalType' /\ StateType'
    <3>1. on' \in [Actors -> 0..opened]
      BY <1>t, <2>1 DEF LocalType, StateType
    <3>2. QED
      BY <1>t, <2>1, <2>3, <3>1 DEF LocalType, StateType
  <2>6. NetworkType'
    BY <1>t, <2>1 DEF NetworkType
  <2>7. RestType'
    BY <1>t, <2>1, <2>2 DEF RestType
  <2>8. QED
    BY <2>4, <2>5, <2>6, <2>7, PartsTyped
<1>4. CASE LostConnection(t)
  <2>1. /\ EnterStop(t, "restart") /\ connected' = FALSE
        /\ UNCHANGED <<job, msg, pubsub, redis, made, network, results, calls, wanted>>
        /\ overlapped' \in BOOLEAN
    BY <1>4 DEF LostConnection
  <2>2. LocalType' /\ StateType' /\ cutOff' = cutOff
    BY <1>t, <2>1, EnterStopType DEF LocalType, StateType
  <2>3. RestType'
    BY <1>t, <2>1, <2>2 DEF RestType
  <2>4. QED
    BY <1>t, <2>1, <2>2, <2>3, NetworkKept, PartsTyped, MovesInput, EnterStopMoves
<1>5. CASE Analyzed(t)
  <2>1. UNCHANGED <<job, awaited, cancelled, handle, pubsub, redis, made, network,
                    results, calls, history, cutOff>>
    BY <1>5 DEF Analyzed
  <2>2. /\ PcType' /\ on' \in [Actors -> 0..opened] /\ connected' \in BOOLEAN
        /\ msg' \in [Tasks -> 0..sent] /\ HasInput'
    <3>1. CASE Goto(t, "write") /\ UNCHANGED <<on, msg, connected>>
      <4>1. pc[t] = "work" /\ msg'[t] # 0
        BY <1>5, <1>t, <3>1 DEF Analyzed, At, HasInput
      <4>2. QED
        BY <1>t, <1>p, <3>1, <4>1, GotoType, GotoInput DEF LocalType, StateType
    <3>2. CASE Poll(t) /\ msg' = [msg EXCEPT ![t] = 0]
      <4>1. msg' \in [Tasks -> 0..sent] /\ \A u \in Tasks : u # t => msg'[u] = msg[u]
        BY <1>t, <3>2 DEF LocalType, NetworkType
      <4>2. QED
        BY <3>2, <4>1, PollType, PollInput
    <3>3. QED
      BY <1>5, <3>1, <3>2 DEF Analyzed
  <2>3. LocalType' /\ StateType'
    BY <1>t, <2>1, <2>2 DEF LocalType, StateType
  <2>4. QED
    BY <1>t, <2>1, <2>2, <2>3, NetworkKept, RestKept, PartsTyped
<1>6. CASE Written(t)
  <2>1. /\ pc[t] = "write" /\ Poll(t) /\ msg' = [msg EXCEPT ![t] = 0]
        /\ results' = results \/ results' = Append(results, msg[t])
        /\ UNCHANGED <<job, awaited, cancelled, handle, pubsub, redis, made, network,
                       calls, history, cutOff>>
    BY <1>6 DEF Written, At
  <2>2. msg' \in [Tasks -> 0..sent] /\ \A u \in Tasks : u # t => msg'[u] = msg[u]
    BY <1>t, <2>1 DEF LocalType, NetworkType
  <2>3. LocalType' /\ HasInput' /\ StateType'
    BY <1>t, <2>1, <2>2, PollType, PollInput DEF LocalType, StateType
  <2>4. msg[t] \in 1..sent
    BY <1>m, <2>1
  <2>5. results' \in Seq(1..sent)
    BY <1>t, <1>s, <2>1, <2>4, Appended DEF NetworkType
  <2>6. NetworkType'
    BY <1>t, <2>1, <2>5 DEF NetworkType
  <2>7. QED
    BY <1>t, <2>1, <2>3, <2>6, RestKept, PartsTyped
<1>7. CASE Cancelled(t)
  <2>1. /\ Goto(t, "done") /\ on' = [on EXCEPT ![t] = 0]
        /\ msg' = [msg EXCEPT ![t] = 0] /\ cancelled' = cancelled \ {t}
        /\ results' = results \/ (pc[t] = "write" /\ results' = Append(results, msg[t]))
        /\ UNCHANGED <<job, awaited, handle, pubsub, redis, made, network, calls,
                       history, cutOff>>
        /\ connected' \in BOOLEAN
    BY <1>7 DEF Cancelled
  <2>2. PcType'
    BY <1>t, <1>p, <2>1, GotoType
  <2>3. /\ msg' \in [Tasks -> 0..sent] /\ on' \in [Actors -> 0..opened]
        /\ \A u \in Tasks : u # t => msg'[u] = msg[u] /\ on'[u] = on[u]
    BY <1>t, <2>1, SMTT(20) DEF LocalType, NetworkType, StateType
  <2>4. HasInput'
    BY <2>1, <2>3, GotoInput
  <2>5. LocalType' /\ StateType'
    BY <1>t, <2>1, <2>2, <2>3 DEF LocalType, StateType
  <2>6. results' \in Seq(1..sent)
    <3>1. results \in Seq(1..sent)
      BY <1>t DEF NetworkType
    <3>2. CASE results' = results
      BY <3>1, <3>2
    <3>3. CASE pc[t] = "write" /\ results' = Append(results, msg[t])
      BY <1>m, <1>s, <3>1, <3>3, Appended
    <3>4. QED
      BY <2>1, <3>2, <3>3
  <2>7. NetworkType'
    BY <1>t, <2>1, <2>6 DEF NetworkType
  <2>8. QED
    BY <1>t, <2>1, <2>4, <2>5, <2>7, RestKept, PartsTyped
<1>8. QED
  BY <1>1, <1>2, <1>3, <1>4, <1>5, <1>6, <1>7 DEF Consume

LEMMA RedisType ==
    ASSUME TypeOK, Publish \/ Outage \/ Back
    PROVE  TypeOK'
<1>t. LocalType /\ HasInput /\ StateType /\ NetworkType /\ RestType /\ PcType
  BY TypeParts DEF LocalType
<1>k. UNCHANGED <<pc, local, cancelled, scanner, made, results, calls, history, cutOff>>
  BY DEF Publish, Outage, Back
<1>h. HasInput'
  BY <1>t, <1>k, Zenon DEF HasInput
<1>1. CASE Publish
  <2>1. sent' = sent + 1 /\ sent' \in 0..MaxMessages /\ sent \in Nat
        /\ UNCHANGED <<up, subscribed, budget>>
    BY <1>t, <1>1 DEF Publish, NetworkType
  <2>2. queue' \in [Clients -> Seq(1..sent')]
    <3>1. \A c \in Clients : queue[c] \in Seq(1..sent')
      BY <1>t, <2>1, Widened DEF NetworkType
    <3>2. sent' \in Nat /\ sent' \in 1..sent'
      BY <2>1
    <3>3. \A c \in Clients : Append(queue[c], sent') \in Seq(1..sent')
      BY <3>1, <3>2, Appended
    <3>4. QED
      BY <1>1, <3>1, <3>3 DEF Publish
  <2>3. results' \in Seq(1..sent')
    BY <1>t, <1>k, <2>1, Widened DEF NetworkType
  <2>4. NetworkType'
    BY <1>t, <1>k, <2>1, <2>2, <2>3 DEF NetworkType
  <2>5. msg' \in [Tasks -> 0..sent']
    BY <1>t, <1>k, <2>1 DEF LocalType, NetworkType
  <2>6. LocalType' /\ StateType' /\ RestType'
    BY <1>t, <1>k, <2>1, <2>5 DEF PcType, LocalType, StateType, RestType
  <2>7. QED
    BY <1>h, <2>4, <2>6, PartsTyped
<1>2. CASE Outage \/ Back
  <2>1. sent' = sent /\ up' \in BOOLEAN
    BY <1>2 DEF Outage, Back
  <2>2. subscribed' \subseteq 0..opened /\ queue' \in [Clients -> Seq(1..sent)]
    <3>1. <<>> \in Seq(1..sent)
      OBVIOUS
    <3>2. QED
      BY <1>t, <1>2, <3>1 DEF Outage, Back, NetworkType
  <2>3. budget' \in [{"outages", "poisons"} -> Nat]
    BY <1>t, <1>2 DEF Outage, Back, Spend, RestType
  <2>4. NetworkType'
    BY <1>t, <1>k, <2>1, <2>2 DEF NetworkType
  <2>5. RestType'
    BY <1>t, <1>k, <2>3 DEF RestType
  <2>6. LocalType' /\ StateType'
    BY <1>t, <1>k, <2>1 DEF PcType, LocalType, StateType
  <2>7. QED
    BY <1>h, <2>4, <2>5, <2>6, PartsTyped
<1>3. QED
  BY <1>1, <1>2

LEMMA NextType == TypeOK /\ [Next]_vars => TypeOK'
<1>1. TypeOK /\ UNCHANGED vars => TypeOK'
  BY DEF TypeOK, vars
<1>2. QED
  BY <1>1, CallsType, RestartType, ConsumeType, RedisType DEF Next

\* Every variable of the scanner keeps its type, for any bounds.
THEOREM TypeCorrect == Spec => []TypeOK
BY InitType, NextType, PTL DEF Spec

---------------------------------------------------------------------------
\* One coroutine at a time, and the flag.

\* One actor moves, to a place outside the consumer's loop.
Leaves(a) ==
    /\ \A b \in Actors : b # a => pc'[b] = pc[b]
    /\ pc'[a] \notin {"new", "await"} \cup Consuming

LEMMA GotoLeaves ==
    ASSUME TypeOK, NEW a \in Actors, NEW place, Goto(a, place),
           place \notin {"new", "await"} \cup Consuming
    PROVE  Leaves(a) /\ pc'[a] = place
BY DEF TypeOK, Goto, Leaves

LEMMA RaisesLeaves ==
    ASSUME TypeOK, NEW a \in Actors, Raises(a)
    PROVE  Leaves(a) /\ pc'[a] \in {"idle", "done"}
<1>1. Rest(a) \in {"idle", "done"} /\ Rest(a) \notin {"new", "await"} \cup Consuming
  BY DEF Rest, Consuming
<1>2. QED
  BY <1>1, GotoLeaves DEF Raises

LEMMA ToReleaseLeaves ==
    ASSUME TypeOK, NEW a \in Actors, NEW j, ToRelease(a, j)
    PROVE  /\ Leaves(a) /\ pc'[a] \in {"release", "pause", "idle", "done"}
           /\ pc'[a] = "pause" => j = "restart"
<1> DEFINE place == CASE redis -> "release"
                      [] ~redis /\ j = "restart" -> "pause"
                      [] OTHER -> Rest(a)
<1>1. /\ place \in {"release", "pause", "idle", "done"}
      /\ place = "pause" => j = "restart"
  BY DEF Rest
<1>2. Goto(a, place)
  BY DEF ToRelease
<1> HIDE DEF place
<1>3. place \notin {"new", "await"} \cup Consuming
  BY <1>1 DEF Consuming
<1>4. QED
  BY <1>1, <1>2, <1>3, GotoLeaves

LEMMA ToUnsubscribeLeaves ==
    ASSUME TypeOK, NEW a \in Actors, NEW j, ToUnsubscribe(a, j)
    PROVE  /\ Leaves(a)
           /\ pc'[a] \in {"unsubscribe", "release", "pause", "idle", "done"}
           /\ pc'[a] = "pause" => j = "restart"
<1>1. "unsubscribe" \notin {"new", "await"} \cup Consuming
  BY DEF Consuming
<1>2. QED
  BY <1>1, GotoLeaves, ToReleaseLeaves DEF ToUnsubscribe

LEMMA OpenLeaves ==
    ASSUME TypeOK, NEW a \in Actors, Open(a)
    PROVE  /\ Leaves(a) /\ pc'[a] \in {"rehydrate", "idle", "done"}
           /\ pc'[a] = "rehydrate" => redis'
<1>1. "rehydrate" \notin {"new", "await"} \cup Consuming
  BY DEF Consuming
<1>2. QED
  BY <1>1, GotoLeaves, RaisesLeaves DEF Open

LEMMA EnterStartLeaves ==
    ASSUME TypeOK, NEW a \in Actors, EnterStart(a)
    PROVE  /\ Leaves(a) /\ pc'[a] \in {"ping", "rehydrate", "idle", "done"}
           /\ pc'[a] \in {"ping", "rehydrate"} => redis'
           /\ redis => redis'
<1>1. "ping" \notin {"new", "await"} \cup Consuming
  BY DEF Consuming
<1>2. QED
  BY <1>1, GotoLeaves, OpenLeaves DEF EnterStart

\* A busy actor that goes on while nobody consumes disturbs nothing.
LEMMA LeavesAlone ==
    ASSUME TypeOK, Alone, NEW a \in Actors, Leaves(a),
           Busy(a) \/ \A b \in Actors : ~Busy(b),
           \A t \in Tasks : ~Consumer(t),
           \A b \in Actors : b # a => awaited'[b] = awaited[b],
           a = Owner /\ pc'[a] \in Stopping /\ job'[a] = "restart" => wanted',
           a = Owner /\ pc'[a] \in Starting => wanted',
           a # Owner => Busy(a) /\ UNCHANGED <<job, wanted>>
    PROVE  Alone'
<1>1. \A b \in Actors : pc'[b] # "await"
  BY DEF Alone, OneBusy, Leaves, Busy, Stopping
<1>2. \A t \in Tasks : ~Consumer(t)'
  BY DEF Leaves, Consumer
<1>3. OneBusy'
  BY DEF Alone, OneBusy, Leaves, Busy
<1>4. Handled'
  BY <1>1, <1>2 DEF Handled
<1>5. Owned'
  BY <1>2 DEF Alone, Owned, Leaves, Busy, OneBusy
<1>6. QED
  BY <1>3, <1>4, <1>5 DEF Alone

LEMMA FlagKept ==
    ASSUME TypeOK, ClientBehindFlag, NEW a \in Actors,
           \A b \in Actors : b # a => pc'[b] = pc[b] \/ pc'[b] = "new",
           redis => redis', connected' => connected,
           pc'[a] \in {"ping", "rehydrate", "subscribe"} => redis'
    PROVE  ClientBehindFlag'
BY DEF ClientBehindFlag, TypeOK

LEMMA RestartAlone ==
    ASSUME TypeOK, Alone, ClientBehindFlag, NEW a \in Actors, Restart(a)
    PROVE  (Alone /\ ClientBehindFlag)'
<1>u. UNCHANGED <<job, wanted>>
  BY DEF Restart, Awaited, Unsubscribed, Closed, Released, Paused, Pinged,
         Rehydrated, Subscribed
<1>w. /\ a = Owner /\ Busy(a) /\ job[a] = "restart" => wanted
      /\ a = Owner /\ pc[a] \in Starting => wanted
  BY DEF Alone, Owned
<1>n. Busy(a) /\ pc[a] # "await" => \A t \in Tasks : ~Consumer(t)
  BY DEF Alone, Handled
<1>1. CASE Awaited(a)
  <2>1. pc[a] = "await" /\ Busy(a)
    BY <1>1 DEF Awaited, Busy, Stopping
  <2>2. \A t \in Tasks : ~Consumer(t)
    <3>1. awaited[a] = handle /\ handle # 0 /\ (a \in Tasks => handle = a)
      BY <2>1 DEF Alone, Handled
    <3>2. handle \in Tasks
      BY <3>1 DEF TypeOK
    <3>3. ~Consumer(handle)
      BY <1>1, <2>1, <3>1, <3>2 DEF Awaited, Consumer, Consuming
    <3>4. QED
      BY <3>3 DEF Alone, Handled
  <2>3. /\ Leaves(a)
        /\ pc'[a] \in {"unsubscribe", "release", "pause", "idle", "done"}
        /\ pc'[a] = "pause" => job[a] = "restart"
    BY <1>1, ToUnsubscribeLeaves, RaisesLeaves DEF Awaited
  <2>4. \A b \in Actors : b # a => awaited'[b] = awaited[b]
    BY <1>1 DEF Awaited, TypeOK
  <2>5. Alone'
    BY <1>u, <1>w, <2>1, <2>2, <2>3, <2>4, LeavesAlone DEF Starting
  <2>6. ClientBehindFlag'
    BY <1>1, <2>3, FlagKept DEF Awaited, Leaves
  <2>7. QED
    BY <2>5, <2>6
<1>2. ASSUME pc[a] # "await", Busy(a), UNCHANGED awaited, Leaves(a),
             pc'[a] = "pause" => pc[a] \in Starting \/ job[a] = "restart",
             pc'[a] \in {"ping", "rehydrate", "subscribe"} => pc[a] \in Starting
      PROVE  Alone'
  BY <1>u, <1>w, <1>n, <1>2, LeavesAlone DEF Starting
<1>3. CASE Unsubscribed(a)
  <2>1. pc[a] # "await" /\ Busy(a) /\ UNCHANGED <<awaited, redis, connected>>
    BY <1>3 DEF Unsubscribed, Busy, Stopping
  <2>2. "close" \notin {"new", "await"} \cup Consuming
    BY DEF Consuming
  <2>3. Leaves(a) /\ pc'[a] \in {"close", "idle", "done"}
    BY <1>3, <2>2, GotoLeaves, RaisesLeaves DEF Unsubscribed
  <2>4. QED
    BY <1>2, <2>1, <2>3, FlagKept DEF Leaves
<1>4. CASE Closed(a)
  <2>1. pc[a] # "await" /\ Busy(a) /\ UNCHANGED <<awaited, redis, connected>>
    BY <1>4 DEF Closed, Busy, Stopping
  <2>2. Leaves(a) /\ pc'[a] \in {"release", "pause", "idle", "done"}
        /\ (pc'[a] = "pause" => job[a] = "restart")
    BY <1>4, ToReleaseLeaves DEF Closed
  <2>3. QED
    BY <1>2, <2>1, <2>2, FlagKept DEF Leaves
<1>5. CASE Released(a)
  <2>1. pc[a] # "await" /\ Busy(a) /\ UNCHANGED awaited
        /\ redis' = FALSE /\ connected' = FALSE
    BY <1>5 DEF Released, Busy, Stopping
  <2>2. /\ (IF job[a] = "restart" THEN "pause" ELSE Rest(a)) \in {"pause", "idle", "done"}
        /\ (IF job[a] = "restart" THEN "pause" ELSE Rest(a))
             \notin {"new", "await"} \cup Consuming
    BY DEF Rest, Consuming
  <2>3. Leaves(a) /\ pc'[a] = IF job[a] = "restart" THEN "pause" ELSE Rest(a)
    BY <1>5, <2>2, GotoLeaves DEF Released
  <2>4. Leaves(a) /\ pc'[a] \in {"pause", "idle", "done"}
        /\ (pc'[a] = "pause" => job[a] = "restart")
    BY <2>2, <2>3 DEF Rest
  <2>5. ClientBehindFlag'
    BY <2>1, <2>4 DEF Alone, OneBusy, Busy, Starting, Leaves, ClientBehindFlag
  <2>6. QED
    BY <1>2, <2>1, <2>4, <2>5
<1>6. CASE Paused(a)
  <2>1. pc[a] \in Starting /\ pc[a] # "await" /\ Busy(a) /\ UNCHANGED <<awaited, connected>>
    BY <1>6 DEF Paused, Busy, Starting
  <2>2. /\ Leaves(a) /\ pc'[a] \in {"ping", "rehydrate", "idle", "done"}
        /\ pc'[a] \in {"ping", "rehydrate"} => redis'
        /\ redis => redis'
    BY <1>6, EnterStartLeaves DEF Paused
  <2>3. QED
    BY <1>2, <2>1, <2>2, FlagKept DEF Leaves
<1>7. CASE Pinged(a)
  <2>1. /\ pc[a] \in Starting /\ pc[a] # "await" /\ Busy(a)
        /\ UNCHANGED <<awaited, redis>>
    BY <1>7 DEF Pinged, Busy, Starting
  <2>2. Leaves(a) /\ pc'[a] \in {"rehydrate", "idle", "done"}
    BY <1>7, OpenLeaves, RaisesLeaves DEF Pinged
  <2>3. redis
    BY <1>7 DEF Pinged, ClientBehindFlag
  <2>4. ClientBehindFlag'
    BY <2>1, <2>3 DEF ClientBehindFlag
  <2>5. QED
    BY <1>2, <2>1, <2>2, <2>4
<1>8. CASE Rehydrated(a)
  <2>1. /\ pc[a] \in Starting /\ pc[a] # "await" /\ Busy(a) /\ redis
        /\ UNCHANGED <<awaited, redis, connected>>
    BY <1>8 DEF Rehydrated, Busy, Starting, ClientBehindFlag
  <2>2. "subscribe" \notin {"new", "await"} \cup Consuming
    BY DEF Consuming
  <2>3. Leaves(a) /\ pc'[a] \in {"subscribe", "idle", "done"}
    BY <1>8, <2>2, GotoLeaves, RaisesLeaves DEF Rehydrated
  <2>4. QED
    BY <1>2, <2>1, <2>3, FlagKept DEF Leaves
<1>9. CASE Subscribed(a)
  <2>1. /\ pc[a] \in Starting /\ pc[a] # "await" /\ Busy(a)
        /\ UNCHANGED <<awaited, redis, connected>>
    BY <1>9 DEF Subscribed, Busy, Starting
  <2>2. CASE Raises(a)
    <3>1. Leaves(a) /\ pc'[a] \in {"idle", "done"}
      BY <2>2, RaisesLeaves
    <3>2. QED
      BY <1>2, <2>1, <3>1, FlagKept DEF Leaves
  <2>3. CASE starts < MaxStarts /\ handle' = starts + 1
             /\ pc' = [pc EXCEPT ![a] = Rest(a), ![starts + 1] = "new"]
    <3>1. starts + 1 \in Tasks /\ starts + 1 # Owner
      BY <2>3 DEF TypeOK
    <3>2. /\ pc'[starts + 1] = "new"
          /\ a # starts + 1 => pc'[a] \in {"idle", "done"}
          /\ \A b \in Actors : b \notin {a, starts + 1} => pc'[b] = pc[b]
      BY <2>3, <3>1 DEF TypeOK, Rest
    <3>3. \A t \in Tasks : ~Consumer(t)
      BY <1>n, <2>1
    <3>4. \A b \in Actors : ~Busy(b)'
      BY <2>1, <3>2 DEF Alone, OneBusy, Busy, Stopping, Starting
    <3>5. \A t \in Tasks : Consumer(t)' => t = starts + 1
      BY <3>2, <3>3 DEF Consumer, Consuming
    <3>6. wanted'
      BY <1>u, <2>1 DEF Alone, Owned
    <3>7. OneBusy' /\ Owned'
      BY <3>4, <3>6 DEF OneBusy, Owned, Busy
    <3>8. Handled'
      BY <2>3, <3>4, <3>5 DEF Handled, Busy, Stopping
    <3>9. ClientBehindFlag'
      BY <2>1, <3>4 DEF ClientBehindFlag, Busy, Starting
    <3>10. QED
      BY <3>7, <3>8, <3>9 DEF Alone
  <2>4. QED
    BY <1>9, <2>2, <2>3 DEF Subscribed
<1>10. QED
  BY <1>1, <1>3, <1>4, <1>5, <1>6, <1>7, <1>8, <1>9 DEF Restart

\* stop() begins with the await, or finds no task to wait for.
LEMMA EnterStopAlone ==
    ASSUME TypeOK, Alone, NEW a \in Actors, NEW j, EnterStop(a, j),
           \A b \in Actors : ~Busy(b), a = Owner \/ Consumer(a),
           j = "restart" => wanted', a = Owner => job'[Owner] = j,
           a # Owner => wanted /\ UNCHANGED <<job, wanted>>
    PROVE  Alone'
<1>1. CASE handle = 0
  <2>1. \A t \in Tasks : ~Consumer(t)
    BY <1>1 DEF Alone, Handled
  <2>2. a = Owner /\ ToUnsubscribe(a, j) /\ UNCHANGED awaited
    BY <1>1, <2>1 DEF EnterStop
  <2>3. /\ Leaves(a)
        /\ pc'[a] \in {"unsubscribe", "release", "pause", "idle", "done"}
        /\ pc'[a] = "pause" => j = "restart"
    BY <2>2, ToUnsubscribeLeaves
  <2>4. QED
    BY <2>1, <2>2, <2>3, LeavesAlone DEF Starting
<1>2. CASE handle # 0
  <2>1. /\ pc' = [pc EXCEPT ![a] = "await"] /\ handle' = handle
        /\ awaited' = [awaited EXCEPT ![a] = handle]
    BY <1>2 DEF EnterStop, Goto
  <2>2. /\ pc'[a] = "await" /\ awaited'[a] = handle
        /\ \A b \in Actors : b # a => pc'[b] = pc[b]
    BY <2>1 DEF TypeOK
  <2>3. /\ \A b \in Actors : b # a => ~Busy(b)' /\ pc'[b] # "await"
        /\ \A t \in Tasks : Consumer(t)' => Consumer(t)
    BY <2>2 DEF Busy, Stopping, Consumer, Consuming
  <2>4. a # Owner => handle = a
    BY DEF Alone, Handled
  <2>5. OneBusy'
    BY <2>3 DEF OneBusy
  <2>6. Handled'
    BY <1>2, <2>1, <2>2, <2>3, <2>4 DEF Alone, Handled
  <2>7. Owned'
    <3>1. CASE a = Owner
      BY <2>2, <2>3, <3>1 DEF Owned, Busy, Starting
    <3>2. CASE a # Owner
      BY <2>2, <2>3, <3>2 DEF Owned, Starting
    <3>3. QED
      BY <3>1, <3>2
  <2>8. QED
    BY <2>5, <2>6, <2>7 DEF Alone
<1>3. QED
  BY <1>1, <1>2

LEMMA CallsSafe ==
    ASSUME TypeOK, Alone, ClientBehindFlag, Calls, ~overlapped'
    PROVE  (Alone /\ ClientBehindFlag)'
<1>o. Owner \in Actors
  OBVIOUS
<1>1. ASSUME NEW what, Call(what)
      PROVE  /\ \A b \in Actors : ~Busy(b)
             /\ what # "stop" => wanted'
             /\ job'[Owner] = what /\ pc[Owner] = "idle"
  <2>1. pc[Owner] = "idle" /\ \A t \in Tasks : ~Restarting(t)
    BY <1>1 DEF Call
  <2>2. \A b \in Actors : ~Busy(b)
    BY <2>1 DEF Busy, Restarting, Stopping, Starting
  <2>3. QED
    BY <1>1, <2>1, <2>2 DEF Call, TypeOK
<1>2. CASE CallStart
  <2>1. /\ Call("start") /\ EnterStart(Owner) /\ ~wanted
        /\ UNCHANGED <<awaited, connected>>
    BY <1>2 DEF CallStart
  <2>2. /\ \A b \in Actors : ~Busy(b)
        /\ wanted' /\ job'[Owner] = "start" /\ pc[Owner] = "idle"
    BY <1>1, <2>1
  <2>3. \A t \in Tasks : ~Consumer(t)
    BY <2>1, <2>2 DEF Alone, Owned
  <2>4. /\ Leaves(Owner) /\ pc'[Owner] \in {"ping", "rehydrate", "idle", "done"}
        /\ pc'[Owner] \in {"ping", "rehydrate"} => redis'
        /\ redis => redis'
    BY <1>o, <2>1, EnterStartLeaves
  <2>5. Alone'
    BY <1>o, <2>1, <2>2, <2>3, <2>4, LeavesAlone
  <2>6. ClientBehindFlag'
    BY <1>o, <2>1, <2>4, FlagKept DEF Leaves
  <2>7. QED
    BY <2>5, <2>6
<1>3. ASSUME NEW what \in {"stop", "restart"}, CallStop(what)
      PROVE  (Alone /\ ClientBehindFlag)'
  <2>1. Call(what) /\ EnterStop(Owner, what) /\ UNCHANGED <<redis, connected>>
    BY <1>3 DEF CallStop
  <2>2. /\ \A b \in Actors : ~Busy(b)
        /\ (what # "stop" => wanted') /\ job'[Owner] = what
    BY <1>1, <2>1
  <2>3. Alone'
    BY <1>o, <2>1, <2>2, EnterStopAlone
  <2>4. ClientBehindFlag'
    <3>1. CASE handle = 0
      <4>1. ToUnsubscribe(Owner, what)
        BY <2>1, <3>1 DEF EnterStop
      <4>2. /\ Leaves(Owner)
            /\ pc'[Owner] \in {"unsubscribe", "release", "pause", "idle", "done"}
        BY <1>o, <4>1, ToUnsubscribeLeaves
      <4>3. QED
        BY <1>o, <2>1, <4>2, FlagKept DEF Leaves
    <3>2. CASE handle # 0
      BY <1>o, <2>1, <3>2, FlagKept DEF EnterStop, Goto, TypeOK
    <3>3. QED
      BY <3>1, <3>2
  <2>5. QED
    BY <2>3, <2>4
<1>4. QED
  BY <1>2, <1>3 DEF Calls

\* A consumer that goes on consuming, or ends.
LEMMA ConsumesOn ==
    ASSUME TypeOK, Alone, ClientBehindFlag, NEW t \in Tasks, Consumer(t),
           NEW place \in {"poll", "work", "write", "failed", "done"}, Goto(t, place),
           UNCHANGED <<handle, awaited, job, wanted, redis>>, connected' => connected
    PROVE  (Alone /\ ClientBehindFlag)'
<1>1. /\ pc'[t] = place /\ t \in Actors
      /\ \A b \in Actors : b # t => pc'[b] = pc[b]
  BY DEF TypeOK, Goto
<1>2. /\ \A b \in Actors : Busy(b)' <=> Busy(b)
      /\ \A u \in Tasks : Consumer(u)' => Consumer(u)
      /\ t # Owner /\ ~Busy(t)
  BY <1>1 DEF Busy, Stopping, Starting, Consumer, Consuming
<1>3. OneBusy'
  BY <1>2 DEF Alone, OneBusy
<1>4. Handled'
  BY <1>1, <1>2 DEF Alone, Handled
<1>5. Owned'
  BY <1>1, <1>2 DEF Alone, Owned
<1>6. ClientBehindFlag'
  BY <1>1, FlagKept
<1>7. QED
  BY <1>3, <1>4, <1>5, <1>6 DEF Alone

LEMMA PollsOn ==
    ASSUME TypeOK, Alone, ClientBehindFlag, NEW t \in Tasks, Consumer(t), Poll(t),
           UNCHANGED <<handle, awaited, job, wanted, redis>>
    PROVE  (Alone /\ ClientBehindFlag)'
<1>1. Goto(t, IF pubsub # 0 THEN "poll" ELSE "failed") /\ (connected' => connected)
  BY DEF Poll
<1>2. QED
  BY <1>1, ConsumesOn

LEMMA ConsumeSafe ==
    ASSUME TypeOK, Alone, ClientBehindFlag, NEW t \in Tasks,
           Consume(t) \/ PollRaises(t), ~overlapped'
    PROVE  (Alone /\ ClientBehindFlag)'
<1>1. Consumer(t)
  BY DEF Consumer, Consuming, Consume, Begin, Idle, Receive, PollRaises,
         LostConnection, Analyzed, Written, Cancelled, At
<1>2. CASE LostConnection(t)
  <2>1. /\ EnterStop(t, "restart") /\ pc[t] = "poll" /\ pc[Owner] = "idle"
        /\ connected' = FALSE /\ UNCHANGED <<job, redis, wanted>>
    BY <1>2 DEF LostConnection, At
  <2>2. wanted
    BY <1>1, <2>1 DEF Alone, Owned
  <2>3. \A b \in Actors : ~Busy(b)
    <3>1. ASSUME NEW b \in Actors, Busy(b) PROVE FALSE
      <4>1. b \in Tasks
        BY <2>1, <3>1 DEF Busy, Stopping, Starting
      <4>2. pc[b] = "await"
        BY <1>1, <3>1 DEF Alone, Handled
      <4>3. handle = b /\ handle = t
        BY <1>1, <4>1, <4>2 DEF Alone, Handled
      <4>4. QED
        BY <2>1, <4>2, <4>3
    <3>2. QED
      BY <3>1
  <2>4. Alone'
    BY <1>1, <2>1, <2>2, <2>3, EnterStopAlone
  <2>5. ClientBehindFlag'
    <3>1. handle # 0 /\ t \in Actors
      BY <1>1 DEF Alone, Handled
    <3>2. QED
      BY <2>1, <3>1, FlagKept DEF EnterStop, Goto, TypeOK
  <2>6. QED
    BY <2>4, <2>5
<1>3. CASE Begin(t) \/ Idle(t) \/ Written(t)
  BY <1>1, <1>3, PollsOn DEF Begin, Idle, Written
<1>4. CASE Analyzed(t)
  BY <1>1, <1>4, PollsOn, ConsumesOn DEF Analyzed
<1>5. CASE Receive(t)
  BY <1>1, <1>5, ConsumesOn DEF Receive
<1>6. CASE PollRaises(t)
  BY <1>1, <1>6, ConsumesOn DEF PollRaises
<1>7. CASE Cancelled(t)
  <2>1. Goto(t, "done") /\ (connected' => connected)
        /\ UNCHANGED <<handle, awaited, job, wanted, redis>>
    BY <1>7 DEF Cancelled
  <2>2. QED
    BY <1>1, <2>1, ConsumesOn
<1>8. QED
  BY <1>2, <1>3, <1>4, <1>5, <1>6, <1>7 DEF Consume

LEMMA NextSafe == TypeOK /\ Inv /\ [Next]_vars => Inv'
<1> SUFFICES ASSUME TypeOK, Inv, [Next]_vars, ~overlapped'
             PROVE  (Alone /\ ClientBehindFlag)'
  BY DEF Inv
<1>1. ~overlapped
  BY DEF Next, vars, Calls, CallStart, CallStop, Call, Restart, Awaited,
         Unsubscribed, Closed, Released, Paused, Pinged, Rehydrated, Subscribed,
         Consume, PollRaises, Begin, Idle, Receive, LostConnection, Analyzed,
         Written, Cancelled, Publish, Outage, Back
<1>2. Alone /\ ClientBehindFlag
  BY <1>1 DEF Inv
<1>3. CASE UNCHANGED vars \/ Publish \/ Outage \/ Back
  <2>1. UNCHANGED <<pc, job, awaited, handle, redis, connected, wanted>>
    BY <1>3 DEF vars, Publish, Outage, Back
  <2>2. QED
    BY <1>2, <2>1 DEF Alone, OneBusy, Handled, Owned, Busy, Consumer, ClientBehindFlag
<1>4. QED
  BY <1>2, <1>3, CallsSafe, RestartAlone, ConsumeSafe DEF Next

LEMMA InitSafe == Init => Inv
BY DEF Init, Inv, Alone, OneBusy, Handled, Owned, ClientBehindFlag, Busy, Consumer,
       Stopping, Starting, Consuming

LEMMA AlwaysSafe == Spec => [](TypeOK /\ Inv)
<1>1. TypeOK /\ Inv /\ [Next]_vars => (TypeOK /\ Inv)'
  BY NextType, NextSafe
<1>2. QED
  BY <1>1, InitType, InitSafe, PTL DEF Spec

\* As long as no call of the owner meets a task's own restart, no two tasks are
\* alive, and the one that consumes is the one that stop() cancels.
THEOREM StopReachesConsumer == Spec => []OneConsumer
<1>1. TypeOK /\ Inv => OneConsumer
  <2>1. \A t \in Tasks : Live(t) <=> Consumer(t) \/ Busy(t)
    BY DEF Live, Consumer, Busy
  <2>2. \A t \in Tasks : Consumer(t) <=> pc[t] \in {"new"} \cup Consuming
    BY DEF Consumer
  <2>3. QED
    BY <2>1, <2>2 DEF Inv, Alone, OneBusy, Handled, OneConsumer
<1>2. QED
  BY <1>1, AlwaysSafe, PTL

\* Under the same condition mdc_connected is never set without a Redis client,
\* so that no start() fails on the connection it has skipped.
THEOREM FlagHasClient == Spec => []ConnectedHasClient
<1>1. Inv => ConnectedHasClient
  BY DEF Inv, ClientBehindFlag, ConnectedHasClient
<1>2. QED
  BY <1>1, AlwaysSafe, PTL

---------------------------------------------------------------------------
\* What stop() leaves.

LEMMA FreshKept ==
    ASSUME TypeOK, Fresh, [Next]_vars
    PROVE  Fresh' /\ \A t \in Tasks : pc[t] = "failed" => pc'[t] = "failed"
<1>1. ASSUME NEW a \in Actors, pc[a] \notin {"none", "failed"}, starts' = starts,
             \A b \in Actors : b # a => pc'[b] = pc[b]
      PROVE  Fresh' /\ \A t \in Tasks : pc[t] = "failed" => pc'[t] = "failed"
  BY <1>1 DEF Fresh, TypeOK
<1>2. ASSUME NEW a \in Actors, NEW place, Goto(a, place)
      PROVE  \A b \in Actors : b # a => pc'[b] = pc[b]
  BY <1>2 DEF Goto, TypeOK
<1>3. CASE UNCHANGED vars \/ Publish \/ Outage \/ Back
  BY <1>3 DEF Fresh, vars, Publish, Outage, Back
<1>4. ASSUME NEW a \in Actors, NEW j, EnterStop(a, j)
      PROVE  \A b \in Actors : b # a => pc'[b] = pc[b]
  BY <1>2, <1>4, ToUnsubscribeLeaves DEF EnterStop, Leaves
<1>5. CASE Calls
  <2>1. Owner \in Actors /\ pc[Owner] = "idle" /\ starts' = starts
    BY <1>5 DEF Calls, CallStart, CallStop, Call
  <2>2. \A b \in Actors : b # Owner => pc'[b] = pc[b]
    BY <1>4, <1>5, <2>1, EnterStartLeaves DEF Calls, CallStart, CallStop, Leaves
  <2>3. QED
    BY <1>1, <2>1, <2>2
<1>6. ASSUME NEW a \in Actors, Restart(a)
      PROVE  Fresh' /\ \A t \in Tasks : pc[t] = "failed" => pc'[t] = "failed"
  <2>1. pc[a] \notin {"none", "failed"}
    BY <1>6 DEF Restart, Awaited, Unsubscribed, Closed, Released, Paused, Pinged,
                Rehydrated, Subscribed
  <2>2. CASE ~Subscribed(a)
    <3>1. starts' = starts
      BY <1>6, <2>2 DEF Restart, Awaited, Unsubscribed, Closed, Released, Paused,
                        Pinged, Rehydrated
    <3>2. \A b \in Actors : b # a => pc'[b] = pc[b]
      BY <1>2, <1>6, <2>2, ToUnsubscribeLeaves, ToReleaseLeaves, RaisesLeaves,
         EnterStartLeaves, OpenLeaves
         DEF Leaves, Restart, Awaited, Unsubscribed, Closed, Released, Paused,
             Pinged, Rehydrated
    <3>3. QED
      BY <1>1, <2>1, <3>1, <3>2
  <2>3. CASE Subscribed(a)
    <3>1. CASE Raises(a) /\ UNCHANGED starts
      BY <1>1, <2>1, <3>1, RaisesLeaves DEF Leaves
    <3>2. CASE starts < MaxStarts /\ starts' = starts + 1
               /\ pc' = [pc EXCEPT ![a] = Rest(a), ![starts + 1] = "new"]
      <4>1. starts \in Nat /\ starts + 1 \in Tasks /\ pc[starts + 1] = "none"
        BY <3>2 DEF Fresh, TypeOK
      <4>2. \A t \in Tasks : t \notin {a, starts + 1} => pc'[t] = pc[t]
        BY <3>2 DEF TypeOK
      <4>3. \A t \in Tasks : t > starts + 1 => t # a /\ t # starts + 1 /\ t > starts
        BY <2>1, <4>1 DEF Fresh
      <4>4. Fresh'
        BY <3>2, <4>2, <4>3 DEF Fresh
      <4>5. QED
        BY <2>1, <4>1, <4>2, <4>4
    <3>3. QED
      BY <2>3, <3>1, <3>2 DEF Subscribed
  <2>4. QED
    BY <2>2, <2>3
<1>7. ASSUME NEW t \in Tasks, Consume(t) \/ PollRaises(t)
      PROVE  Fresh' /\ \A u \in Tasks : pc[u] = "failed" => pc'[u] = "failed"
  <2>1. pc[t] \notin {"none", "failed"} /\ starts' = starts /\ t \in Actors
    BY <1>7 DEF Consume, PollRaises, Begin, Idle, Receive, LostConnection, Analyzed,
                Written, Cancelled, At, Consuming
  <2>2. \A b \in Actors : b # t => pc'[b] = pc[b]
    BY <1>2, <1>4, <1>7, <2>1 DEF Consume, PollRaises, Begin, Idle, Receive,
       LostConnection, Analyzed, Written, Cancelled, Poll
  <2>3. QED
    BY <1>1, <2>1, <2>2
<1>8. QED
  BY <1>3, <1>5, <1>6, <1>7 DEF Next

\* The phase of the one actor that moves decides.
LEMMA OnePhase ==
    ASSUME NEW a \in Actors, \A b \in Actors : b # a => ~Busy(b)',
           Phase(a)', Subscriber', Stopped'
    PROVE  Phases'
<1>1. \A b \in Actors : ~Busy(b)' => Phase(b)'
  BY DEF Busy, Phase, Stopping, Starting
<1>2. QED
  BY <1>1 DEF Phases

LEMMA ToReleasePhases ==
    ASSUME TypeOK, NEW a \in Actors, NEW j, ToRelease(a, j),
           \A b \in Actors : b # a => ~Busy(b), a # Owner => wanted',
           pubsub' = 0, subscribed' = {}, redis' = redis
    PROVE  Phases'
<1>1. /\ Leaves(a) /\ pc'[a] \in {"release", "pause", "idle", "done"}
      /\ pc'[a] # "release" => ~redis
  <2> DEFINE place == CASE redis -> "release"
                        [] ~redis /\ j = "restart" -> "pause"
                        [] OTHER -> Rest(a)
  <2>1. Goto(a, place) /\ (place # "release" => ~redis)
    BY DEF ToRelease
  <2> HIDE DEF place
  <2>2. pc'[a] = place
    BY <2>1 DEF Goto, TypeOK
  <2>3. QED
    BY <2>1, <2>2, ToReleaseLeaves
<1>2. \A b \in Actors : b # a => ~Busy(b)'
  BY <1>1 DEF Leaves, Busy
<1>3. Phase(a)' /\ Subscriber'
  BY <1>1 DEF Phase, Subscriber
<1>4. Stopped'
  <2>1. CASE pc'[a] = "release"
    <3>1. a = Owner => pc'[Owner] # "idle"
      BY <2>1
    <3>2. QED
      BY <3>1 DEF Stopped
  <2>2. CASE pc'[a] # "release"
    BY <1>1, <2>2 DEF Stopped
  <2>3. QED
    BY <2>1, <2>2
<1>5. QED
  BY <1>2, <1>3, <1>4, OnePhase

LEMMA ToUnsubscribePhases ==
    ASSUME TypeOK, Subscriber, NEW a \in Actors, NEW j, ToUnsubscribe(a, j),
           \A b \in Actors : b # a => ~Busy(b), a # Owner => wanted',
           UNCHANGED <<pubsub, subscribed, redis>>
    PROVE  Phases'
<1>1. CASE pubsub = 0
  <2>1. subscribed = {} /\ ToRelease(a, j)
    BY <1>1 DEF Subscriber, ToUnsubscribe
  <2>2. QED
    BY <1>1, <2>1, ToReleasePhases
<1>2. CASE pubsub # 0
  <2>1. on' = [on EXCEPT ![a] = pubsub] /\ Goto(a, "unsubscribe")
    BY <1>2 DEF ToUnsubscribe
  <2>2. on'[a] = pubsub /\ pc'[a] = "unsubscribe"
        /\ \A b \in Actors : b # a => pc'[b] = pc[b]
    BY <2>1 DEF TypeOK, Goto
  <2>3. \A b \in Actors : b # a => ~Busy(b)'
    BY <2>2 DEF Busy
  <2>4. Phase(a)'
    BY <1>2, <2>2 DEF Phase, Starting
  <2>5. Subscriber' /\ Stopped'
    BY <2>2 DEF Subscriber, Stopped
  <2>6. QED
    BY <2>3, <2>4, <2>5, OnePhase
<1>3. QED
  BY <1>1, <1>2

\* The actor goes to a place that is not the end of its call.
LEMMA GoesOn ==
    ASSUME TypeOK, NEW a \in Actors, NEW place, Goto(a, place), place # "idle",
           \A b \in Actors : b # a => ~Busy(b), a # Owner => wanted',
           pc'[a] = place => Phase(a)' /\ Subscriber'
    PROVE  Phases'
<1>1. pc'[a] = place /\ \A b \in Actors : b # a => pc'[b] = pc[b]
  BY DEF Goto, TypeOK
<1>2. \A b \in Actors : b # a => ~Busy(b)'
  BY <1>1 DEF Busy
<1>3. Stopped'
  BY <1>1 DEF Stopped
<1>4. QED
  BY <1>1, <1>2, <1>3, OnePhase

LEMMA RestartPhases ==
    ASSUME TypeOK, Alone, ClientBehindFlag, Phases, Clean, Clean',
           NEW a \in Actors, Restart(a)
    PROVE  Phases'
<1>b. Busy(a) /\ wanted' = wanted
  BY DEF Restart, Awaited, Unsubscribed, Closed, Released, Paused, Pinged,
         Rehydrated, Subscribed, Busy, Stopping, Starting
<1>o. \A b \in Actors : b # a => ~Busy(b)
  BY <1>b DEF Alone, OneBusy
<1>w. (a # Owner => wanted') /\ (pc[a] \in Starting => wanted')
  BY <1>b DEF Alone, Owned
<1>r. Raises(a) => up
  BY DEF Raises, Clean
<1>p. Phase(a) /\ Subscriber
  BY DEF Phases
<1>1. CASE Awaited(a)
  <2>1. pc[awaited[a]] # "failed" \/ awaited[a] = Owner
    <3>1. handle \in 0..starts /\ starts \in 0..MaxStarts /\ handle # 0
          /\ awaited[a] = handle
      BY <1>1 DEF Alone, Handled, Awaited, TypeOK
    <3>2. handle \in Tasks
      BY <3>1
    <3>3. QED
      BY <3>1, <3>2 DEF Clean
  <2>2. awaited[a] # Owner
    BY <1>1 DEF Awaited, TypeOK
  <2>3. ToUnsubscribe(a, job[a]) /\ UNCHANGED <<pubsub, subscribed, redis>>
    BY <1>1, <2>1, <2>2 DEF Awaited
  <2>4. QED
    BY <1>o, <1>w, <1>p, <2>3, ToUnsubscribePhases
<1>2. CASE Unsubscribed(a)
  <2>1. pubsub # 0
    BY <1>2, <1>p DEF Unsubscribed, Phase
  <2>2. /\ Goto(a, "close") /\ on' = [on EXCEPT ![a] = pubsub]
        /\ UNCHANGED <<pubsub, subscribed, redis>>
    BY <1>2, <1>r, <2>1 DEF Unsubscribed
  <2>3. on'[a] = pubsub
    BY <2>2 DEF TypeOK
  <2>4. pc'[a] = "close" => Phase(a)' /\ Subscriber'
    BY <1>p, <2>1, <2>2, <2>3 DEF Phase, Subscriber, Starting
  <2>5. QED
    BY <1>o, <1>w, <2>2, <2>4, GoesOn
<1>3. CASE Closed(a)
  <2>1. on[a] = pubsub
    BY <1>3, <1>p DEF Closed, Phase
  <2>2. subscribed' = {}
    BY <1>3, <1>p, <2>1 DEF Closed, Subscriber
  <2>3. ToRelease(a, job[a]) /\ pubsub' = 0 /\ redis' = redis
    BY <1>3 DEF Closed
  <2>4. QED
    BY <1>o, <1>w, <2>2, <2>3, ToReleasePhases
<1>4. CASE Released(a)
  <2>1. pubsub = 0 /\ subscribed = {}
    BY <1>4, <1>p DEF Released, Phase
  <2>2. pubsub' = 0 /\ subscribed' = {} /\ redis' = FALSE
    BY <1>4, <2>1 DEF Released
  <2>3. /\ pc'[a] = IF job[a] = "restart" THEN "pause" ELSE Rest(a)
        /\ \A b \in Actors : b # a => pc'[b] = pc[b]
    BY <1>4 DEF Released, Goto, TypeOK
  <2>4. pc'[a] \in {"pause", "idle", "done"}
    BY <2>3 DEF Rest
  <2>5. Phase(a)' /\ Subscriber' /\ Stopped'
    BY <2>2, <2>4 DEF Phase, Subscriber, Stopped
  <2>6. \A b \in Actors : b # a => ~Busy(b)'
    BY <1>o, <2>3 DEF Busy
  <2>7. QED
    BY <2>5, <2>6, OnePhase
<1>5. CASE Paused(a)
  <2>1. ~redis /\ ~connected /\ pubsub = 0 /\ subscribed = {}
    BY <1>5, <1>p DEF Paused, Phase, ClientBehindFlag
  <2>2. Goto(a, "ping") /\ UNCHANGED <<pubsub, subscribed>>
    BY <1>5, <2>1 DEF Paused, EnterStart
  <2>3. pc'[a] = "ping" => Phase(a)' /\ Subscriber'
    BY <2>1, <2>2 DEF Phase, Subscriber
  <2>4. QED
    BY <1>o, <1>w, <2>2, <2>3, GoesOn
<1>6. CASE Pinged(a)
  <2>1. redis /\ subscribed = {} /\ pc[a] \in Starting
    BY <1>6, <1>p DEF Pinged, Phase, ClientBehindFlag, Starting
  <2>2. /\ Goto(a, "rehydrate") /\ pubsub' = opened + 1 /\ opened \in Nat
        /\ UNCHANGED subscribed
    BY <1>6, <1>r, <2>1 DEF Pinged, Open, TypeOK
  <2>3. pc'[a] = "rehydrate" => Phase(a)' /\ Subscriber'
    BY <2>1, <2>2 DEF Phase, Subscriber
  <2>4. QED
    BY <1>o, <1>w, <2>2, <2>3, GoesOn
<1>7. CASE Rehydrated(a)
  <2>1. pubsub # 0 /\ subscribed = {}
    BY <1>7, <1>p DEF Rehydrated, Phase, Starting
  <2>2. /\ Goto(a, "subscribe") /\ on' = [on EXCEPT ![a] = pubsub]
        /\ UNCHANGED <<pubsub, subscribed>>
    BY <1>7, <1>r, <2>1 DEF Rehydrated
  <2>3. on'[a] = pubsub
    BY <2>2 DEF TypeOK
  <2>4. pc'[a] = "subscribe" => Phase(a)' /\ Subscriber'
    BY <2>1, <2>2, <2>3 DEF Phase, Subscriber
  <2>5. QED
    BY <1>o, <1>w, <2>2, <2>4, GoesOn
<1>8. CASE Subscribed(a)
  <2>1. pc[a] \in Starting /\ subscribed = {} /\ on[a] = pubsub /\ pubsub # 0
    BY <1>8, <1>p DEF Subscribed, Phase, Starting
  <2>2. /\ subscribed' = {pubsub} /\ pubsub' = pubsub
        /\ starts < MaxStarts
        /\ pc' = [pc EXCEPT ![a] = Rest(a), ![starts + 1] = "new"]
    BY <1>8, <1>r, <2>1 DEF Subscribed
  <2>3. starts + 1 \in Tasks
    BY <2>2 DEF TypeOK
  <2>4. /\ pc'[a] \in {"idle", "done", "new"}
        /\ \A b \in Actors : b # a => pc'[b] \in {pc[b], "new"}
    BY <2>2, <2>3 DEF TypeOK, Rest
  <2>5. \A b \in Actors : b # a => ~Busy(b)'
    BY <1>o, <2>4 DEF Busy, Stopping, Starting
  <2>6. Phase(a)'
    BY <2>4 DEF Phase, Starting
  <2>7. Subscriber' /\ Stopped'
    BY <1>w, <2>1, <2>2 DEF Subscriber, Stopped
  <2>8. QED
    BY <2>5, <2>6, <2>7, OnePhase
<1>9. QED
  BY <1>1, <1>2, <1>3, <1>4, <1>5, <1>6, <1>7, <1>8 DEF Restart

LEMMA CallsPhases ==
    ASSUME TypeOK, Alone, ClientBehindFlag, Phases, Calls, ~overlapped'
    PROVE  Phases'
<1>o. Owner \in Actors
  OBVIOUS
<1>1. pc[Owner] = "idle" /\ \A b \in Actors : ~Busy(b)
  <2>1. pc[Owner] = "idle" /\ \A t \in Tasks : ~Restarting(t)
    BY DEF Calls, CallStart, CallStop, Call
  <2>2. QED
    BY <2>1 DEF Busy, Restarting, Stopping, Starting
<1>p. Subscriber /\ Stopped
  BY DEF Phases
<1>2. CASE CallStart
  <2>1. /\ EnterStart(Owner) /\ UNCHANGED subscribed
        /\ pubsub = 0 /\ ~redis /\ subscribed = {} /\ ~connected
    BY <1>1, <1>2, <1>p DEF CallStart, Stopped, ClientBehindFlag
  <2>2. Goto(Owner, "ping") /\ UNCHANGED <<pubsub, subscribed>>
    BY <2>1 DEF EnterStart
  <2>3. pc'[Owner] = "ping" => Phase(Owner)' /\ Subscriber'
    BY <2>1, <2>2 DEF Phase, Subscriber
  <2>4. QED
    BY <1>o, <1>1, <2>2, <2>3, GoesOn
<1>3. ASSUME NEW what, CallStop(what) PROVE Phases'
  <2>1. EnterStop(Owner, what) /\ UNCHANGED <<pubsub, subscribed, redis>>
    BY <1>3 DEF CallStop
  <2>2. CASE handle = 0
    <3>1. ToUnsubscribe(Owner, what)
      BY <2>1, <2>2 DEF EnterStop
    <3>2. QED
      BY <1>o, <1>1, <1>p, <2>1, <3>1, ToUnsubscribePhases
  <2>3. CASE handle # 0
    <3>1. Goto(Owner, "await")
      BY <2>1, <2>3 DEF EnterStop
    <3>2. pc'[Owner] = "await" => Phase(Owner)' /\ Subscriber'
      BY <1>p, <2>1 DEF Phase, Subscriber, Starting
    <3>3. QED
      BY <1>o, <1>1, <3>1, <3>2, GoesOn
  <2>4. QED
    BY <2>2, <2>3
<1>4. QED
  BY <1>2, <1>3 DEF Calls

\* A task that consumes has nothing of the phases in its hand.
LEMMA ConsumePhases ==
    ASSUME TypeOK, Alone, Phases, NEW t \in Tasks, Consume(t) \/ PollRaises(t),
           ~overlapped'
    PROVE  Phases'
<1>1. Consumer(t) /\ t \in Actors /\ t # Owner
  BY DEF Consumer, Consuming, Consume, Begin, Idle, Receive, PollRaises,
         LostConnection, Analyzed, Written, Cancelled, At
<1>2. UNCHANGED <<pubsub, subscribed, redis, wanted>>
  BY DEF Consume, Begin, Idle, Receive, PollRaises, LostConnection, Analyzed,
         Written, Cancelled
<1>3. \E place \in {"poll", "work", "write", "failed", "done", "await"} : Goto(t, place)
  <2>1. handle # 0
    BY <1>1 DEF Alone, Handled
  <2>2. Poll(t) => \E place \in {"poll", "failed"} : Goto(t, place)
    BY DEF Poll
  <2>3. QED
    BY <2>1, <2>2 DEF Consume, Begin, Idle, Receive, PollRaises, LostConnection,
       Analyzed, Written, Cancelled, EnterStop
<1>4. /\ pc'[t] \in {"poll", "work", "write", "failed", "done", "await"}
      /\ \A b \in Actors : b # t => pc'[b] = pc[b]
  BY <1>1, <1>3 DEF Goto, TypeOK
<1>5. \A b \in Actors : Busy(b) => pc[b] = "await"
  BY <1>1 DEF Alone, Handled
<1>6. \A b \in Actors : pc'[b] \in Stopping \cup Starting => pc'[b] = "await"
  BY <1>4, <1>5 DEF Busy, Stopping, Starting
<1>7. \A b \in Actors : Phase(b)'
  BY <1>6 DEF Phase, Stopping, Starting
<1>8. Subscriber' /\ Stopped'
  BY <1>1, <1>2, <1>4 DEF Phases, Subscriber, Stopped
<1>9. QED
  BY <1>7, <1>8 DEF Phases

LEMMA NextQuiet == TypeOK /\ Inv /\ Quiet /\ [Next]_vars => Quiet'
<1> SUFFICES ASSUME TypeOK, Inv, Quiet, [Next]_vars PROVE Quiet'
  OBVIOUS
<1>1. Fresh' /\ \A t \in Tasks : pc[t] = "failed" => pc'[t] = "failed"
  BY FreshKept DEF Quiet
<1>2. ASSUME ~overlapped', Clean' PROVE Phases'
  <2>1. ~overlapped
    BY <1>2 DEF Next, vars, Calls, CallStart, CallStop, Call, Restart, Awaited,
       Unsubscribed, Closed, Released, Paused, Pinged, Rehydrated, Subscribed,
       Consume, PollRaises, Begin, Idle, Receive, LostConnection, Analyzed,
       Written, Cancelled, Publish, Outage, Back
  <2>2. ~cutOff
    BY <1>2 DEF Next, vars, Calls, CallStart, CallStop, EnterStart, EnterStop, Open,
       Raises, ToUnsubscribe, ToRelease, Restart, Awaited, Unsubscribed, Closed,
       Released, Paused, Pinged, Rehydrated, Subscribed, Consume, PollRaises, Begin,
       Idle, Receive, LostConnection, Analyzed, Written, Cancelled, Publish, Outage,
       Back, Clean
  <2>3. Clean /\ Phases /\ Alone /\ ClientBehindFlag
    BY <1>1, <1>2, <2>1, <2>2 DEF Clean, Quiet, Inv
  <2>4. CASE UNCHANGED vars \/ Publish \/ Outage \/ Back
    <3>1. /\ UNCHANGED <<pc, on, pubsub, redis, wanted>>
          /\ subscribed' = subscribed \/ subscribed' = {}
      BY <2>4 DEF vars, Publish, Outage, Back
    <3>2. QED
      BY <2>3, <3>1 DEF Phases, Phase, Subscriber, Stopped
  <2>5. QED
    BY <1>2, <2>3, <2>4, RestartPhases, CallsPhases, ConsumePhases DEF Next
<1>3. QED
  BY <1>1, <1>2 DEF Quiet

LEMMA InitQuiet == Init => Quiet
<1> SUFFICES ASSUME Init PROVE Quiet
  OBVIOUS
<1>1. \A t \in Tasks : pc[t] = "none"
  BY DEF Init
<1>2. \A a \in Actors : pc[a] \in {"none", "idle"}
  BY DEF Init
<1>3. \A a \in Actors : Phase(a)
  BY <1>2 DEF Phase, Starting
<1>4. Subscriber /\ Stopped
  BY DEF Init, Subscriber, Stopped
<1>5. QED
  BY <1>1, <1>3, <1>4 DEF Quiet, Fresh, Phases

\* A stop() that no task's own restart has met leaves nothing behind: no task, no
\* client, no subscription in Redis; nor has anything come back until the next
\* start().
THEOREM StopIsFinal == Spec => []StoppedIsQuiet
<1>1. TypeOK /\ Inv /\ Quiet /\ [Next]_vars => (TypeOK /\ Inv /\ Quiet)'
  BY NextType, NextSafe, NextQuiet
<1>2. TypeOK /\ Inv /\ Quiet => StoppedIsQuiet
  <2> SUFFICES ASSUME TypeOK, Inv, Quiet, ~wanted, pc[Owner] = "idle", ~overlapped,
                      ~cutOff, \A t \in Tasks : pc[t] # "failed"
               PROVE  /\ \A t \in Tasks : ~Live(t)
                      /\ pubsub = 0 /\ ~redis /\ ~connected /\ subscribed = {}
    BY DEF StoppedIsQuiet
  <2>1. Alone /\ ClientBehindFlag /\ Phases
    BY DEF Inv, Quiet, Clean
  <2>2. \A t \in Tasks : ~Busy(t) /\ ~Consumer(t)
    BY <2>1 DEF Alone, Owned
  <2>3. \A t \in Tasks : ~Live(t)
    BY <2>2 DEF Live, Busy, Consumer
  <2>4. pubsub = 0 /\ ~redis /\ ~connected /\ subscribed = {}
    BY <2>1 DEF Phases, Stopped, ClientBehindFlag
  <2>5. QED
    BY <2>3, <2>4
<1>3. QED
  BY <1>1, <1>2, InitType, InitSafe, InitQuiet, PTL DEF Spec
---------------------------------------------------------------------------
\* The order of the results.

Increasing(s) == \A i, j \in DOMAIN s : i < j => s[i] < s[j]
Before(s, n)  == \A i \in DOMAIN s : s[i] < n
Working(t)    == pc[t] \in {"work", "write"}

\* Messages reach the results by one way: the queue of the current client, which
\* is the one that the task polls, then the task. Each place on it holds later
\* messages than the next one.
InOrder ==
    /\ Increasing(results)
    /\ \A t \in Tasks : /\ pc[t] = "poll" => on[t] = pubsub
                        /\ Working(t) => Before(results, msg[t])
    /\ pubsub # 0 =>
         \A i \in DOMAIN queue[pubsub] :
            /\ Before(results, queue[pubsub][i])
            /\ \A t \in Tasks : Working(t) => msg[t] < queue[pubsub][i]

\* The queue of a client that has not been made is empty.
Queues  == \A c \in Clients : /\ Increasing(queue[c])
                              /\ c > opened => queue[c] = <<>>
Ordered == Queues /\ (~overlapped => InOrder)

LEMMA TailIncreases ==
    ASSUME NEW n \in Nat, NEW s \in Seq(1..n), s # <<>>, Increasing(s)
    PROVE  /\ Increasing(Tail(s)) /\ Head(s) = s[1] /\ 1 \in DOMAIN s
           /\ \A i \in DOMAIN Tail(s) : Head(s) < Tail(s)[i]
           /\ \A i \in DOMAIN Tail(s) : i + 1 \in DOMAIN s /\ Tail(s)[i] = s[i + 1]
<1>1. /\ Head(s) = s[1] /\ 1 \in DOMAIN s
      /\ \A i \in DOMAIN Tail(s) : i \in Nat \ {0} /\ i + 1 \in DOMAIN s /\ Tail(s)[i] = s[i + 1]
  OBVIOUS
<1>2. \A i \in DOMAIN Tail(s) : Head(s) < Tail(s)[i]
  BY <1>1 DEF Increasing
<1>3. Increasing(Tail(s))
  BY <1>1 DEF Increasing
<1>4. QED
  BY <1>1, <1>2, <1>3

LEMMA AppendIncreases ==
    ASSUME NEW n \in Nat, NEW s \in Seq(1..n), NEW e \in Nat, Increasing(s), Before(s, e)
    PROVE  /\ Increasing(Append(s, e))
           /\ \A m \in Nat : Before(s, m) /\ e < m => Before(Append(s, e), m)
           /\ \A i \in DOMAIN Append(s, e) :
                \/ i \in DOMAIN s /\ Append(s, e)[i] = s[i]
                \/ i = Len(s) + 1 /\ Append(s, e)[i] = e
<1>1. /\ DOMAIN Append(s, e) = 1..(Len(s) + 1) /\ DOMAIN s = 1..Len(s) /\ Len(s) \in Nat
      /\ \A i \in DOMAIN Append(s, e) :
           \/ i \in DOMAIN s /\ Append(s, e)[i] = s[i]
           \/ i = Len(s) + 1 /\ Append(s, e)[i] = e
  OBVIOUS
<1>2. \A i, j \in DOMAIN Append(s, e) : i < j => i \in DOMAIN s /\ Append(s, e)[i] = s[i]
  BY <1>1
<1>3. Increasing(Append(s, e))
  <2> SUFFICES ASSUME NEW i \in DOMAIN Append(s, e), NEW j \in DOMAIN Append(s, e), i < j
               PROVE  Append(s, e)[i] < Append(s, e)[j]
    BY DEF Increasing
  <2>1. i \in DOMAIN s /\ Append(s, e)[i] = s[i]
    BY <1>2
  <2>2. CASE j \in DOMAIN s /\ Append(s, e)[j] = s[j]
    BY <2>1, <2>2 DEF Increasing
  <2>3. CASE Append(s, e)[j] = e
    BY <2>1, <2>3 DEF Before
  <2>4. QED
    BY <1>1, <2>2, <2>3
<1>4. ASSUME NEW m \in Nat, Before(s, m), e < m PROVE Before(Append(s, e), m)
  BY <1>1, <1>4 DEF Before
<1>5. QED
  BY <1>1, <1>3, <1>4

LEMMA UpToNow ==
    ASSUME NEW n \in Nat, NEW s \in Seq(1..n)
    PROVE  Before(s, n + 1) /\ \A i \in DOMAIN s : s[i] \in Nat
<1>1. \A i \in 1..Len(s) : s[i] \in 1..n
  BY SMT
<1>2. DOMAIN s = 1..Len(s)
  BY SMT
<1>3. QED
  BY <1>1, <1>2 DEF Before

\* A client that is named has been made; what it holds has been sent.
LEMMA CurrentClient ==
    ASSUME TypeOK
    PROVE  /\ pubsub # 0 => pubsub \in Clients
           /\ sent \in Nat /\ results \in Seq(1..sent) /\ \A c \in Clients : queue[c] \in Seq(1..sent)
           /\ \A t \in Tasks : msg[t] \in 0..sent
           /\ opened \in Nat
BY DEF TypeOK

\* Nothing is read, written or sent; messages may be lost, and a new client comes
\* with an empty queue.
LEMMA NothingTaken ==
    ASSUME TypeOK, Queues, InOrder, results' = results,
           \A c \in Clients : queue'[c] = queue[c] \/ queue'[c] = <<>>,
           pubsub' \in {pubsub, 0} \/ (pubsub' \in Clients /\ queue[pubsub'] = <<>>),
           \A t \in Tasks : pc'[t] = "poll" => on'[t] = pubsub',
           \A t \in Tasks : Working(t)' => Working(t) /\ msg'[t] = msg[t]
    PROVE  InOrder'
<1>1. ASSUME pubsub' # 0, NEW i \in DOMAIN queue'[pubsub']
      PROVE  /\ Before(results, queue'[pubsub'][i])
             /\ \A t \in Tasks : Working(t)' => msg[t] < queue'[pubsub'][i]
  <2>1. pubsub' \in Clients
    BY <1>1, CurrentClient
  <2>2. queue'[pubsub'] # <<>>
    BY <1>1
  <2>3. queue'[pubsub'] = queue[pubsub'] /\ pubsub' = pubsub
    BY <1>1, <2>1, <2>2
  <2>4. QED
    BY <1>1, <2>3 DEF InOrder
<1>2. QED
  BY <1>1 DEF InOrder, Before, Increasing

\* Calls and restarts touch what a consumer uses when there is none.
LEMMA RestartOrdered ==
    ASSUME TypeOK, Queues, Alone, InOrder, NEW a \in Actors, Restart(a)
    PROVE  InOrder'
<1>1. /\ Moves(a) /\ results' = results
      /\ \A c \in Clients : queue'[c] = queue[c] \/ queue'[c] = <<>>
  BY RestartMoves DEF Restart, Awaited, Unsubscribed, Closed, Released, Paused, Pinged,
     Rehydrated, Subscribed, TypeOK
<1>2. pubsub' \in {pubsub, 0} \/ (pubsub' = opened + 1 /\ opened < MaxOpens)
  BY DEF Restart, Awaited, Unsubscribed, Closed, Released, Paused, Pinged, Rehydrated,
     Subscribed, EnterStart, Open
<1>3. pubsub' \in {pubsub, 0} \/ (pubsub' \in Clients /\ queue[pubsub'] = <<>>)
  BY <1>2, CurrentClient DEF Queues
<1>4. pubsub' = pubsub \/ \A t \in Tasks : ~Consumer(t)
  <2>1. CASE Awaited(a)
    BY <2>1 DEF Awaited
  <2>2. CASE ~Awaited(a)
    <3>1. Busy(a) /\ pc[a] # "await"
      BY <2>2 DEF Restart, Unsubscribed, Closed, Released, Paused, Pinged, Rehydrated,
         Subscribed, Busy, Stopping, Starting
    <3>2. QED
      BY <3>1 DEF Alone, Handled
  <2>3. QED
    BY <2>1, <2>2
<1>5. \A t \in Tasks : pc'[t] \in Consuming => pc[t] = pc'[t] /\ on'[t] = on[t] /\ msg'[t] = msg[t]
  BY <1>1 DEF Moves, Consuming
<1>6. \A t \in Tasks : pc'[t] = "poll" => on'[t] = pubsub'
  <2> SUFFICES ASSUME NEW t \in Tasks, pc'[t] = "poll" PROVE on'[t] = pubsub'
    OBVIOUS
  <2>1. pc[t] = "poll" /\ on'[t] = on[t] /\ Consumer(t)
    BY <1>5 DEF Consumer, Consuming
  <2>2. QED
    BY <1>4, <2>1 DEF InOrder
<1>7. \A t \in Tasks : Working(t)' => Working(t) /\ msg'[t] = msg[t]
  BY <1>5 DEF Working, Consuming
<1>8. QED
  BY <1>1, <1>3, <1>6, <1>7, NothingTaken

LEMMA CallsOrdered ==
    ASSUME TypeOK, Queues, Alone, InOrder, Calls
    PROVE  InOrder'
<1>1. Owner \in Actors /\ results' = results /\ queue' = queue /\ msg' = msg
  BY DEF Calls, CallStart, CallStop
<1>2. Moves(Owner)
  BY <1>1, EnterStartMoves, EnterStopMoves DEF Calls, CallStart, CallStop
<1>3. /\ pubsub' \in {pubsub, 0} \/ (pubsub' = opened + 1 /\ opened < MaxOpens)
      /\ pubsub' = pubsub \/ (~wanted /\ pc[Owner] = "idle")
  BY DEF Calls, CallStart, CallStop, Call, EnterStart, Open
<1>4. pubsub' \in {pubsub, 0} \/ (pubsub' \in Clients /\ queue[pubsub'] = <<>>)
  BY <1>3, CurrentClient DEF Queues
<1>5. pubsub' = pubsub \/ \A t \in Tasks : ~Consumer(t)
  BY <1>3 DEF Alone, Owned
<1>6. \A t \in Tasks : pc'[t] \in Consuming => pc[t] = pc'[t] /\ on'[t] = on[t] /\ msg'[t] = msg[t]
  BY <1>2 DEF Moves, Consuming
<1>7. \A t \in Tasks : pc'[t] = "poll" => on'[t] = pubsub'
  <2> SUFFICES ASSUME NEW t \in Tasks, pc'[t] = "poll" PROVE on'[t] = pubsub'
    OBVIOUS
  <2>1. pc[t] = "poll" /\ on'[t] = on[t] /\ Consumer(t)
    BY <1>6 DEF Consumer, Consuming
  <2>2. QED
    BY <1>5, <2>1 DEF InOrder
<1>8. \A t \in Tasks : Working(t)' => Working(t) /\ msg'[t] = msg[t]
  BY <1>6 DEF Working, Consuming
<1>9. QED
  BY <1>1, <1>4, <1>7, <1>8, NothingTaken

\* A result is written: the task was the only one at work, and is not any more.
LEMMA WritesNext ==
    ASSUME TypeOK, InOrder, NEW t \in Tasks, pc[t] = "write",
           \A u \in Tasks : Consumer(u) => u = t,
           results' = Append(results, msg[t]), UNCHANGED <<queue, pubsub>>,
           \A u \in Tasks : u # t => pc'[u] = pc[u], ~Working(t)',
           pc'[t] = "poll" => on'[t] = pubsub
    PROVE  InOrder'
<1>1. Working(t) /\ sent \in Nat /\ results \in Seq(1..sent) /\ msg[t] \in Nat
  BY CurrentClient DEF Working
<1>2. Increasing(results) /\ Before(results, msg[t])
  BY <1>1 DEF InOrder
<1>3. \A u \in Tasks : ~Working(u)' /\ (pc'[u] = "poll" => u = t)
  BY DEF Working, Consumer, Consuming
<1>4. /\ Increasing(results')
      /\ \A m \in Nat : Before(results, m) /\ msg[t] < m => Before(results', m)
  BY <1>1, <1>2, AppendIncreases
<1>5. ASSUME pubsub # 0, NEW i \in DOMAIN queue[pubsub]
      PROVE  Before(results', queue[pubsub][i])
  <2>1. queue[pubsub] \in Seq(1..sent)
    BY <1>5, CurrentClient
  <2>2. queue[pubsub][i] \in Nat
    BY <1>1, <1>5, <2>1, UpToNow
  <2>3. QED
    BY <1>1, <1>4, <1>5, <2>2 DEF InOrder
<1>6. QED
  BY <1>3, <1>4, <1>5 DEF InOrder

LEMMA ConsumeOrdered ==
    ASSUME TypeOK, Queues, Alone, InOrder, NEW t \in Tasks, Consume(t) \/ PollRaises(t)
    PROVE  InOrder'
<1>1. Consumer(t) /\ handle = t /\ t \in Actors /\ t # Owner /\ pubsub' = pubsub
  <2>1. Consumer(t) /\ pubsub' = pubsub
    BY DEF Consumer, Consuming, Consume, Begin, Idle, Receive, PollRaises,
           LostConnection, Analyzed, Written, Cancelled, At
  <2>2. QED
    BY <2>1 DEF Alone, Handled
<1>2. \A u \in Tasks : Consumer(u) => u = t
  BY <1>1 DEF Alone, Handled
<1>3. ASSUME NEW place, Goto(t, place)
      PROVE  pc'[t] = place /\ \A u \in Tasks : u # t => pc'[u] = pc[u]
  BY <1>1, <1>3 DEF Goto, TypeOK
<1>4. \A u \in Tasks : pc[u] \in Consuming => u = t
  BY <1>2 DEF Consumer
<1>5. ASSUME UNCHANGED <<results, queue>>, NEW place, Goto(t, place),
             place = "poll" => on'[t] = pubsub,
             place \in {"work", "write"} => Working(t) /\ msg'[t] = msg[t]
      PROVE  InOrder'
  <2>1. pc'[t] = place /\ \A u \in Tasks : u # t => pc'[u] \notin Consuming
    BY <1>3, <1>4, <1>5
  <2>2. \A u \in Tasks : pc'[u] = "poll" => on'[u] = pubsub'
    BY <1>1, <1>5, <2>1 DEF Consuming
  <2>3. \A u \in Tasks : Working(u)' => Working(u) /\ msg'[u] = msg[u]
    BY <1>5, <2>1 DEF Working, Consuming
  <2>4. QED
    BY <1>1, <1>5, <2>2, <2>3, NothingTaken
<1>6. ASSUME Poll(t)
      PROVE  \E place \in {"poll", "failed"} : Goto(t, place) /\ on'[t] = pubsub
  BY <1>1, <1>6 DEF Poll, TypeOK
<1>7. CASE Begin(t) \/ Idle(t)
  <2>1. Poll(t) /\ UNCHANGED <<results, queue>>
    BY <1>7 DEF Begin, Idle
  <2>2. QED
    BY <1>5, <1>6, <2>1
<1>8. CASE PollRaises(t)
  BY <1>5, <1>8 DEF PollRaises
<1>9. CASE LostConnection(t)
  <2>1. Goto(t, "await") /\ UNCHANGED <<results, queue>>
    <3>1. handle # 0
      BY <1>1
    <3>2. QED
      BY <1>9, <3>1 DEF LostConnection, EnterStop
  <2>2. QED
    BY <1>5, <2>1
<1>10. CASE Analyzed(t)
  <2>1. UNCHANGED <<results, queue>> /\ Working(t)
    BY <1>10 DEF Analyzed, At, Working
  <2>2. (Goto(t, "write") /\ msg' = msg) \/ Poll(t)
    BY <1>10 DEF Analyzed
  <2>3. QED
    BY <1>5, <1>6, <2>1, <2>2
<1>11. CASE Written(t)
  <2>1. pc[t] = "write" /\ Poll(t) /\ queue' = queue
        /\ (results' = results \/ results' = Append(results, msg[t]))
    BY <1>11 DEF Written, At
  <2>2. PICK place \in {"poll", "failed"} : Goto(t, place) /\ on'[t] = pubsub
    BY <1>6, <2>1
  <2>3. CASE results' = results
    BY <1>5, <2>1, <2>2, <2>3
  <2>4. CASE results' = Append(results, msg[t])
    <3>1. ~Working(t)' /\ \A u \in Tasks : u # t => pc'[u] = pc[u]
      BY <1>3, <2>2 DEF Working
    <3>2. QED
      BY <1>1, <1>2, <2>1, <2>2, <2>4, <3>1, WritesNext
  <2>5. QED
    BY <2>1, <2>3, <2>4
<1>12. CASE Cancelled(t)
  <2>1. /\ Goto(t, "done") /\ queue' = queue
        /\ results' = results \/ (pc[t] = "write" /\ results' = Append(results, msg[t]))
    BY <1>12 DEF Cancelled
  <2>2. CASE results' = results
    BY <1>5, <2>1, <2>2
  <2>3. CASE pc[t] = "write" /\ results' = Append(results, msg[t])
    <3>1. /\ ~Working(t)' /\ pc'[t] = "done"
          /\ \A u \in Tasks : u # t => pc'[u] = pc[u]
      BY <1>3, <2>1 DEF Working
    <3>2. QED
      BY <1>1, <1>2, <2>1, <2>3, <3>1, WritesNext
  <2>4. QED
    BY <2>1, <2>2, <2>3
<1>13. CASE Receive(t)
  <2>1. /\ pc[t] = "poll" /\ on[t] = pubsub /\ queue[pubsub] # <<>> /\ results' = results
        /\ Goto(t, "work") /\ msg' = [msg EXCEPT ![t] = Head(queue[pubsub])]
        /\ queue' = [queue EXCEPT ![pubsub] = Tail(@)]
    BY <1>13 DEF Receive, At, InOrder
  <2>2. pubsub \in Clients /\ pubsub # 0
    <3>1. on[t] # 0
      BY <2>1 DEF TypeOK
    <3>2. QED
      BY <2>1, <3>1, CurrentClient
  <2>3. /\ msg'[t] = Head(queue[pubsub]) /\ queue'[pubsub] = Tail(queue[pubsub])
        /\ pc'[t] = "work" /\ \A u \in Tasks : u # t => pc'[u] \notin Consuming
    BY <1>3, <1>4, <2>1, <2>2 DEF TypeOK
  <2> DEFINE q == queue[pubsub]
  <2>4. /\ Head(q) = q[1] /\ 1 \in DOMAIN q
        /\ \A i \in DOMAIN Tail(q) : Head(q) < Tail(q)[i]
        /\ \A i \in DOMAIN Tail(q) : i + 1 \in DOMAIN q /\ Tail(q)[i] = q[i + 1]
    <3>1. sent \in Nat /\ q \in Seq(1..sent) /\ q # <<>> /\ Increasing(q)
      BY <2>1, <2>2, CurrentClient DEF Queues
    <3>2. QED
      BY <3>1, TailIncreases
  <2>5. Before(results, Head(q)) /\ \A i \in DOMAIN Tail(q) : Before(results, Tail(q)[i])
    BY <2>2, <2>4 DEF InOrder
  <2>6. \A u \in Tasks : /\ pc'[u] # "poll"
                         /\ Working(u)' => u = t
    BY <2>3 DEF Working, Consuming
  <2>7. Increasing(results)
    BY DEF InOrder
  <2> HIDE DEF q
  <2>8. queue'[pubsub'] = Tail(q) /\ msg'[t] = Head(q)
    BY <1>1, <2>3 DEF q
  <2>9. ASSUME NEW i \in DOMAIN queue'[pubsub']
        PROVE  /\ Before(results', queue'[pubsub'][i])
               /\ \A u \in Tasks : Working(u)' => msg'[u] < queue'[pubsub'][i]
    BY <2>1, <2>4, <2>5, <2>6, <2>8, <2>9
  <2>10. \A u \in Tasks : Working(u)' => Before(results', msg'[u])
    BY <2>1, <2>5, <2>6, <2>8
  <2>11. QED
    BY <2>1, <2>6, <2>7, <2>9, <2>10 DEF InOrder
<1>14. QED
  BY <1>7, <1>8, <1>9, <1>10, <1>11, <1>12, <1>13 DEF Consume

\* A message is later than all that were sent before it.
LEMMA PublishOrdered ==
    ASSUME TypeOK, Queues, Publish
    PROVE  Queues' /\ (InOrder => InOrder')
<1>t. /\ sent \in Nat /\ results \in Seq(1..sent) /\ \A t \in Tasks : msg[t] \in 0..sent
      /\ \A c \in Clients : queue[c] \in Seq(1..sent)
  BY CurrentClient
<1>1. /\ sent' = sent + 1 /\ UNCHANGED <<pc, on, msg, results, pubsub, opened>>
      /\ \A c \in Clients : \/ queue'[c] = queue[c]
                            \/ c \in subscribed /\ queue'[c] = Append(queue[c], sent')
  BY DEF Publish
<1>2. \A c \in Clients : Before(queue[c], sent')
  BY <1>t, <1>1, UpToNow
<1>3. ASSUME NEW c \in Clients
      PROVE  /\ Increasing(queue'[c])
             /\ \A i \in DOMAIN queue'[c] :
                  \/ i \in DOMAIN queue[c] /\ queue'[c][i] = queue[c][i]
                  \/ queue'[c][i] = sent'
  <2>1. CASE queue'[c] = queue[c]
    BY <2>1 DEF Queues
  <2>2. CASE queue'[c] = Append(queue[c], sent')
    BY <1>t, <1>1, <1>2, <2>2, AppendIncreases DEF Queues
  <2>3. QED
    BY <1>1, <2>1, <2>2
<1>4. Queues'
  <2>1. \A c \in Clients : c > opened => c \notin subscribed
    BY DEF TypeOK
  <2>2. QED
    BY <1>1, <1>3, <2>1 DEF Queues
<1>5. ASSUME InOrder PROVE InOrder'
  <2>1. ASSUME pubsub # 0, NEW i \in DOMAIN queue'[pubsub]
        PROVE  /\ Before(results, queue'[pubsub][i])
               /\ \A t \in Tasks : Working(t) => msg[t] < queue'[pubsub][i]
    <3>1. pubsub \in Clients
      BY <2>1, CurrentClient
    <3>2. CASE i \in DOMAIN queue[pubsub] /\ queue'[pubsub][i] = queue[pubsub][i]
      BY <1>5, <2>1, <3>2 DEF InOrder
    <3>3. CASE queue'[pubsub][i] = sent'
      BY <1>t, <1>1, <3>3 DEF Before
    <3>4. QED
      BY <1>3, <2>1, <3>1, <3>2, <3>3
  <2>2. QED
    BY <1>1, <1>5, <2>1 DEF InOrder, Working
<1>6. QED
  BY <1>4, <1>5

LEMMA QueuesKept ==
    ASSUME TypeOK, Queues, [Next]_vars, ~Publish
    PROVE  Queues'
<1>1. opened' = opened \/ opened' = opened + 1
  BY DEF Next, vars, Calls, CallStart, CallStop, EnterStart, Open, Restart, Awaited,
     Unsubscribed, Closed, Released, Paused, Pinged, Rehydrated, Subscribed, Consume,
     PollRaises, Begin, Idle, Receive, LostConnection, Analyzed, Written, Cancelled,
     Outage, Back
<1>2. \A c \in Clients : queue'[c] \in {queue[c], <<>>} \/ (queue[c] # <<>> /\ queue'[c] = Tail(queue[c]))
  <2>1. queue \in [Clients -> Seq(1..sent)]
    BY DEF TypeOK
  <2>2. CASE queue' = queue \/ \E a \in Actors : queue' = [queue EXCEPT ![on[a]] = <<>>]
    BY <2>1, <2>2
  <2>3. CASE \E a \in Actors : queue[on[a]] # <<>> /\ queue' = [queue EXCEPT ![on[a]] = Tail(@)]
    BY <2>1, <2>3
  <2>4. CASE Outage
    BY <2>4 DEF Outage
  <2>5. QED
    BY <2>2, <2>3, <2>4 DEF Next, vars, Calls, CallStart, CallStop, Restart, Awaited,
     Unsubscribed, Closed, Released, Paused, Pinged, Rehydrated, Subscribed, Consume,
     PollRaises, Begin, Idle, Receive, LostConnection, Analyzed, Written, Cancelled,
     Back
<1>3. ASSUME NEW c \in Clients
      PROVE  Increasing(queue'[c]) /\ (c > opened' => queue'[c] = <<>>)
  <2>1. /\ sent \in Nat /\ queue[c] \in Seq(1..sent) /\ Increasing(queue[c])
        /\ c > opened => queue[c] = <<>>
    BY CurrentClient DEF Queues
  <2>2. c > opened' => c > opened
    BY <1>1, CurrentClient
  <2>3. CASE queue'[c] \in {queue[c], <<>>}
    BY <2>1, <2>2, <2>3 DEF Increasing
  <2>4. CASE queue[c] # <<>> /\ queue'[c] = Tail(queue[c])
    BY <2>1, <2>2, <2>4, TailIncreases
  <2>5. QED
    BY <1>2, <2>3, <2>4
<1>4. QED
  BY <1>3 DEF Queues

LEMMA NextOrdered == TypeOK /\ Inv /\ Ordered /\ [Next]_vars => Ordered'
<1> SUFFICES ASSUME TypeOK, Inv, Ordered, [Next]_vars PROVE Ordered'
  OBVIOUS
<1>1. Queues /\ Queues'
  BY QueuesKept, PublishOrdered DEF Ordered
<1>2. ASSUME ~overlapped' PROVE InOrder'
  <2>1. ~overlapped
    BY <1>2 DEF Next, vars, Calls, CallStart, CallStop, Call, Restart, Awaited,
       Unsubscribed, Closed, Released, Paused, Pinged, Rehydrated, Subscribed,
       Consume, PollRaises, Begin, Idle, Receive, LostConnection, Analyzed,
       Written, Cancelled, Publish, Outage, Back
  <2>2. InOrder /\ Alone
    BY <2>1 DEF Ordered, Inv
  <2>3. CASE UNCHANGED vars \/ Outage \/ Back
    <3>1. /\ UNCHANGED <<pc, on, msg, results, pubsub>>
          /\ \A c \in Clients : queue'[c] = queue[c] \/ queue'[c] = <<>>
      BY <2>3 DEF vars, Outage, Back
    <3>2. QED
      BY <1>1, <2>2, <3>1, NothingTaken DEF InOrder, Working
  <2>4. QED
    BY <1>1, <2>2, <2>3, CallsOrdered, RestartOrdered, ConsumeOrdered, PublishOrdered DEF Next
<1>3. QED
  BY <1>1, <1>2 DEF Ordered

LEMMA InitOrdered == Init => Ordered
<1> SUFFICES ASSUME Init PROVE Ordered
  OBVIOUS
<1>1. results = <<>> /\ pubsub = 0 /\ \A c \in Clients : queue[c] = <<>>
  BY DEF Init
<1>2. \A t \in Tasks : pc[t] = "none"
  BY DEF Init
<1>3. Increasing(<<>>)
  BY DEF Increasing
<1>4. Queues
  BY <1>1, <1>3 DEF Queues
<1>5. InOrder
  BY <1>1, <1>2, <1>3 DEF InOrder, Working
<1>6. QED
  BY <1>4, <1>5 DEF Ordered

\* Results are published in the order of the messages: no restart, no lost
\* connection and no cancelled write lets an older one follow a newer one, as long
\* as no call of the owner meets a task's own restart.
THEOREM PublishedInOrder == Spec => []ResultsInOrder
<1>1. Ordered => ResultsInOrder
  BY DEF Ordered, InOrder, Increasing, ResultsInOrder
<1>2. TypeOK /\ Inv /\ Ordered /\ [Next]_vars => (TypeOK /\ Inv /\ Ordered)'
  BY NextType, NextSafe, NextOrdered
<1>3. QED
  BY <1>1, <1>2, InitType, InitSafe, InitOrdered, PTL DEF Spec
=============================================================================
