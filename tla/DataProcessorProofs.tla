------------------------ MODULE DataProcessorProofs ------------------------
(***************************************************************************)
(* Proofs about DataProcessor for any queue, any number of deliveries,     *)
(* failures, lost connections, kills and restarts: the types, that a       *)
(* delivery which can still be settled owns its message, that what is      *)
(* acknowledged has been written, that nothing is rejected that has        *)
(* neither failed nor been cut off, and that all of it together implements *)
(* the at-least-once queue.                                                *)
(***************************************************************************)
EXTENDS DataProcessor, TLAPS

USE BoundsAssumption
    DEF Actors, brokerVars, connVars, taskVars, lifeVars, boundVars

(***************************************************************************)
(* Types, by groups of variables                                           *)
(***************************************************************************)
BrokerType ==
    /\ where \in [Messages -> {"ready", "unacked", "acked", "dropped"}]
    /\ written \in [Messages -> BOOLEAN] /\ failed \in [Messages -> BOOLEAN]
    /\ cut \in SUBSET Messages
TaskType ==
    /\ msgOf \in Seq(Messages) /\ Len(msgOf) <= MaxDeliveries
    /\ phase \in [Deliveries -> {"free", "slot", "analyze", "cache", "ack",
                                 "reject", "done"}]
    /\ \A d \in Deliveries : phase[d] # "free" => d <= Len(msgOf)
    /\ left \in [Deliveries -> 0..MaxResults]
    /\ \A d \in Deliveries : phase[d] = "cache" => left[d] > 0
    /\ live \in [Deliveries -> BOOLEAN]
ConnType ==
    /\ channel \in {"none", "open", "closed"}
    /\ mdqConnected \in BOOLEAN /\ mdcConnected \in BOOLEAN /\ consuming \in BOOLEAN
LifeType ==
    /\ proc \in {"up", "down"} /\ shutdown \in BOOLEAN /\ running \in BOOLEAN
    /\ stopped \in BOOLEAN
    /\ pc \in [Actors -> Stopping \cup {"connect", "rehydrate", "queue", "consume",
                                        "run", "abandon", "done", "wait",
                                        "cancelling", "cleanup", "drain"}]
    /\ waiting \in [Actors -> SUBSET Deliveries]
    /\ attempts \in 0..MaxRetries
BoundType ==
    /\ failures \in 0..MaxFailures /\ drops \in 0..MaxDrops
    /\ timeouts \in 0..MaxTimeouts /\ starts \in 0..MaxStarts

LEMMA TypeGroups ==
    /\ TypeOK <=> BrokerType /\ ConnType /\ TaskType /\ LifeType /\ BoundType
    /\ TypeOK' <=> BrokerType' /\ ConnType' /\ TaskType' /\ LifeType' /\ BoundType'
BY DEF TypeOK, BrokerType, ConnType, TaskType, LifeType, BoundType

LEMMA InitType == Init => TypeOK
<1> SUFFICES ASSUME Init PROVE TypeOK
  OBVIOUS
<1>1. BrokerType
  BY DEF Init, BrokerType
<1>2. ConnType
  BY DEF Init, ConnType
<1>3. BoundType
  BY DEF Init, BoundType
<1>4. TaskType
  <2>1. msgOf \in Seq(Messages) /\ Len(msgOf) <= MaxDeliveries
    <3>1. msgOf = <<>>
      BY DEF Init
    <3>2. QED
      BY <3>1
  <2>2. live \in [Deliveries -> BOOLEAN]
    BY DEF Init
  <2>3. QED
    BY <2>1, <2>2 DEF Init, TaskType
<1>5. LifeType
  <2>1. /\ shutdown \in BOOLEAN /\ running \in BOOLEAN /\ stopped \in BOOLEAN
        /\ proc \in {"up", "down"}
    BY DEF Init
  <2>2. QED
    BY <2>1 DEF Init, LifeType
<1>6. QED
  BY <1>1, <1>2, <1>3, <1>4, <1>5, TypeGroups

\* Every active delivery has a message.
LEMMA ActiveHasMessage ==
    ASSUME TaskType, NEW d \in Deliveries, phase[d] # "free"
    PROVE  d \in 1..Len(msgOf) /\ msgOf[d] \in Messages
BY DEF TaskType, Deliveries

LEMMA CancelType ==
    ASSUME BrokerType, TaskType, NEW ds \in SUBSET Deliveries, CancelTasks(ds),
           UNCHANGED <<written, failed, msgOf, left, live>>, ds \subseteq Active
    PROVE  BrokerType' /\ TaskType'
<1>1. where' \in [Messages -> {"ready", "unacked", "acked", "dropped"}]
  BY DEF CancelTasks, BrokerType
<1>2. \A d \in Deliveries : phase'[d] # "free" => phase[d] # "free"
  BY DEF CancelTasks, Active, TaskType
<1>3. phase' \in [Deliveries -> {"free", "slot", "analyze", "cache", "ack",
                                 "reject", "done"}]
  BY DEF CancelTasks, TaskType
<1>4. \A d \in Deliveries : phase'[d] = "cache" => phase[d] = "cache"
  BY DEF CancelTasks, TaskType
<1>5. cut' \in SUBSET Messages
  <2>1. \A d \in ds : msgOf[d] \in Messages
    BY ActiveHasMessage DEF Active
  <2>2. QED
    BY <2>1 DEF CancelTasks, BrokerType
<1>6. BrokerType'
  BY <1>1, <1>5 DEF BrokerType
<1>7. QED
  BY <1>1, <1>2, <1>3, <1>4, <1>6 DEF TaskType

LEMMA RequeueType ==
    ASSUME BrokerType, TaskType, Requeue, UNCHANGED <<written, failed, cut, msgOf, left>>,
           UNCHANGED phase \/ phase' = [d \in Deliveries |->
                                IF d \in Active THEN "done" ELSE phase[d]]
    PROVE  BrokerType' /\ TaskType'
<1>1. BrokerType'
  BY DEF Requeue, BrokerType
<1>2. live' \in [Deliveries -> BOOLEAN]
  BY DEF Requeue
<1>3. phase' \in [Deliveries -> {"free", "slot", "analyze", "cache", "ack",
                                 "reject", "done"}]
  BY DEF TaskType
<1>4. \A d \in Deliveries : phase'[d] # "free" => phase[d] # "free"
  BY DEF TaskType, Active
<1>5. QED
  BY <1>1, <1>2, <1>3, <1>4 DEF TaskType

LEMMA TasksType ==
    ASSUME TypeOK, NEW d \in Deliveries, Task(d)
    PROVE  TypeOK'
<1> BrokerType /\ ConnType /\ TaskType /\ LifeType /\ BoundType
  BY TypeGroups
<1>1. LifeType' /\ ConnType'
  BY DEF Task, TakeSlot, Analyze, CacheResult, ProcessingFails, Settle, LifeType,
         ConnType, Stopping
<1>2. BoundType'
  BY DEF Task, TakeSlot, Analyze, CacheResult, ProcessingFails, Settle, Fail, BoundType
<1> SUFFICES BrokerType' /\ TaskType'
  BY <1>1, <1>2, TypeGroups
<1>3. ASSUME NEW n \in 0..MaxResults, Write(d, n), phase[d] # "free",
             UNCHANGED <<where, failed, cut, msgOf, live>>
      PROVE  BrokerType' /\ TaskType'
  <2>1. BrokerType'
    BY <1>3 DEF Write, BrokerType
  <2>2. left' \in [Deliveries -> 0..MaxResults] /\ left'[d] = n
    BY <1>3 DEF Write, TaskType
  <2>3. phase' \in [Deliveries -> {"free", "slot", "analyze", "cache", "ack",
                                   "reject", "done"}]
    BY <1>3 DEF Write, TaskType
  <2>4. \A e \in Deliveries : phase'[e] = "cache" => left'[e] > 0
    BY <1>3 DEF Write, TaskType
  <2>5. \A e \in Deliveries : phase'[e] # "free" => e <= Len(msgOf')
    BY <1>3 DEF Write, TaskType
  <2>6. QED
    BY <1>3, <2>1, <2>2, <2>3, <2>4, <2>5 DEF TaskType
<1>4. CASE TakeSlot(d)
  BY <1>4 DEF TakeSlot, BrokerType, TaskType
<1>5. CASE Analyze(d)
  <2>1. PICK n \in 0..MaxResults : Write(d, n)
    BY <1>5 DEF Analyze
  <2>2. QED
    BY <1>3, <1>5, <2>1 DEF Analyze
<1>6. CASE CacheResult(d)
  <2>1. left[d] - 1 \in 0..MaxResults
    BY <1>6 DEF CacheResult, TaskType
  <2>2. QED
    BY <1>3, <1>6, <2>1 DEF CacheResult
<1>7. CASE ProcessingFails(d)
  <2>1. BrokerType'
    BY <1>7 DEF ProcessingFails, BrokerType
  <2>2. TaskType'
    BY <1>7 DEF ProcessingFails, TaskType
  <2>3. QED
    BY <2>1, <2>2
<1>8. CASE Settle(d)
  <2>1. BrokerType'
    BY <1>8 DEF Settle, BrokerType
  <2>2. TaskType'
    BY <1>8 DEF Settle, TaskType
  <2>3. QED
    BY <2>1, <2>2
<1>9. QED
  BY <1>4, <1>5, <1>6, <1>7, <1>8 DEF Task

LEMMA DeliverType ==
    ASSUME TypeOK, NEW m \in Messages, Deliver(m)
    PROVE  TypeOK'
<1> BrokerType /\ ConnType /\ TaskType /\ LifeType /\ BoundType
  BY TypeGroups
<1>1. ConnType' /\ LifeType' /\ BoundType'
  BY DEF Deliver, ConnType, LifeType, BoundType
<1>2. BrokerType'
  BY DEF Deliver, BrokerType
<1>3. TaskType'
  <2>1. msgOf' \in Seq(Messages) /\ Len(msgOf') = Len(msgOf) + 1
    BY DEF Deliver, TaskType
  <2>2. phase' = [phase EXCEPT ![Len(msgOf) + 1] = "slot"] /\ UNCHANGED left
    BY DEF Deliver
  <2>3. live' \in [Deliveries -> BOOLEAN]
    BY DEF Deliver, TaskType
  <2>4. Len(msgOf') <= MaxDeliveries
    BY <2>1 DEF Deliver, TaskType
  <2>5. QED
    BY <2>1, <2>2, <2>3, <2>4 DEF TaskType, Deliveries
<1>4. QED
  BY <1>1, <1>2, <1>3, TypeGroups

\* The steps that move neither messages nor tasks.
Quiet ==
    \/ StartWorker \/ RabbitConnects \/ RabbitFails \/ RedisConnects \/ Prepare
    \/ PrepareFails \/ Signal \/ CancelWorker \/ Abandon \/ Join
    \/ \E a \in Actors : StopEnter(a) \/ Gathered(a) \/ CloseFails(a)

LEMMA QuietUnchanged ==
    Quiet => UNCHANGED <<where, written, failed, cut, msgOf, phase, left, live, drops, timeouts>>
BY DEF Quiet, StartWorker, RabbitConnects, RabbitFails, RedisConnects, Prepare,
       PrepareFails, Signal, CancelWorker, Abandon, Join, StopEnter, Gathered,
         CloseFails, Fail

LEMMA QuietType ==
    ASSUME TypeOK, Quiet
    PROVE  TypeOK'
<1> BrokerType /\ ConnType /\ TaskType /\ LifeType /\ BoundType
  BY TypeGroups
<1>1. UNCHANGED <<where, written, failed, cut, msgOf, phase, left, live, drops, timeouts>>
  BY QuietUnchanged
<1>2. BrokerType' /\ TaskType'
  BY <1>1 DEF BrokerType, TaskType
<1>3. BoundType'
  BY DEF Quiet, StartWorker, RabbitConnects, RabbitFails, RedisConnects, Prepare,
         PrepareFails, Signal, CancelWorker, Abandon, Join, StopEnter, Gathered,
         CloseFails, Fail,
         BoundType
<1>4. ConnType'
  BY DEF Quiet, StartWorker, RabbitConnects, RabbitFails, RedisConnects, Prepare,
         Advance, PrepareFails, Signal, CancelWorker, Abandon, Join, StopEnter,
         Gathered, CloseFails, ConnType
<1>5. LifeType'
  <2>1. CASE StartWorker
    <3>1. pc' \in [Actors -> {"connect", "wait"}]
      BY <2>1 DEF StartWorker
    <3>2. UNCHANGED waiting /\ attempts' \in 0..MaxRetries
      BY <2>1 DEF StartWorker
    <3>3. proc' = "up" /\ shutdown' = FALSE /\ running' = FALSE /\ stopped' = FALSE
      BY <2>1 DEF StartWorker
    <3>4. pc' \in [Actors -> Stopping \cup {"connect", "rehydrate", "queue", "consume",
                                             "run", "abandon", "done", "wait",
                                             "cancelling", "cleanup", "drain"}]
      BY <3>1
    <3>5. /\ proc' \in {"up", "down"} /\ shutdown' \in BOOLEAN /\ running' \in BOOLEAN
          /\ stopped' \in BOOLEAN
      BY <3>3
    <3>6. waiting' \in [Actors -> SUBSET Deliveries]
      BY <3>2 DEF LifeType
    <3>7. QED
      BY <3>2, <3>4, <3>5, <3>6 DEF LifeType
  <2>2. CASE RabbitConnects
    BY <2>2 DEF RabbitConnects, LifeType
  <2>3. CASE RabbitFails
    BY <2>3 DEF RabbitFails, Retry, Goto, LifeType
  <2>4. CASE RedisConnects
    BY <2>4 DEF RedisConnects, Goto, LifeType
  <2>5. CASE Prepare
    BY <2>5 DEF Prepare, Advance, Goto, LifeType
  <2>6. CASE PrepareFails
    BY <2>6 DEF PrepareFails, Goto, LifeType
  <2>7. CASE Signal
    BY <2>7 DEF Signal, LifeType
  <2>8. CASE CancelWorker
    BY <2>8 DEF CancelWorker, LifeType, Stopping
  <2>9. CASE Abandon \/ Join
    BY <2>9 DEF Abandon, Join, Goto, LifeType, Stopping
  <2>10. ASSUME NEW a \in Actors, StopEnter(a) \/ Gathered(a) \/ CloseFails(a)
         PROVE  LifeType'
    <3>1. Active \in SUBSET Deliveries
      BY DEF Active
    <3>2. CASE StopEnter(a)
      BY <3>1, <3>2 DEF StopEnter, Goto, LifeType, Stopping
    <3>3. CASE Gathered(a)
      BY <3>3 DEF Gathered, Goto, LifeType, Stopping
    <3>4. CASE CloseFails(a)
      BY <3>4 DEF CloseFails, Leave, Goto, LifeType, Stopping
    <3>5. QED
      BY <2>10, <3>2, <3>3, <3>4
  <2>11. QED
    BY <2>1, <2>2, <2>3, <2>4, <2>5, <2>6, <2>7, <2>8, <2>9, <2>10 DEF Quiet
<1>6. QED
  BY <1>2, <1>3, <1>4, <1>5, TypeGroups

\* The steps that cancel tasks or lose the channel.
Loss ==
    \/ RedisFails \/ CancelTimesOut \/ Cleanup \/ Exit \/ Kill \/ LoseConnection
    \/ \E a \in Actors : Close(a)

LEMMA LossType ==
    ASSUME TypeOK, Loss
    PROVE  TypeOK'
<1> BrokerType /\ ConnType /\ TaskType /\ LifeType /\ BoundType
  BY TypeGroups
<1>1. CASE RedisFails
  <2>1. BrokerType' /\ TaskType'
    BY <1>1, RequeueType DEF RedisFails
  <2>2. ConnType' /\ BoundType'
    BY <1>1 DEF RedisFails, Fail, ConnType, BoundType
  <2>3. LifeType'
    BY <1>1 DEF RedisFails, Retry, Goto, LifeType
  <2>4. QED
    BY <2>1, <2>2, <2>3, TypeGroups
<1>2. CASE CancelTimesOut
  <2>1. BrokerType' /\ TaskType'
    <3>1. CASE pc["start"] = "gather"
      <4>1. waiting["start"] \cap Active \in SUBSET Deliveries
        BY DEF Active
      <4>2. QED
        BY <1>2, <3>1, <4>1, CancelType DEF CancelTimesOut
    <3>2. CASE pc["start"] # "gather"
      BY <1>2, <3>2 DEF CancelTimesOut, BrokerType, TaskType
    <3>3. QED
      BY <3>1, <3>2
  <2>2. ConnType' /\ BoundType'
    BY <1>2 DEF CancelTimesOut, ConnType, BoundType
  <2>3. LifeType'
    BY <1>2 DEF CancelTimesOut, Goto, LifeType
  <2>4. QED
    BY <2>1, <2>2, <2>3, TypeGroups
<1>3. CASE Cleanup
  <2>1. BrokerType' /\ TaskType'
    <3>1. Active \in SUBSET Deliveries
      BY DEF Active
    <3>2. QED
      BY <1>3, <3>1, CancelType DEF Cleanup
  <2>2. ConnType' /\ BoundType'
    BY <1>3 DEF Cleanup, ConnType, BoundType
  <2>3. LifeType'
    BY <1>3 DEF Cleanup, Goto, LifeType, Active
  <2>4. QED
    BY <2>1, <2>2, <2>3, TypeGroups
<1>4. CASE End
  <2>1. BrokerType' /\ TaskType'
    BY <1>4, RequeueType DEF End
  <2>2. ConnType' /\ BoundType'
    BY <1>4 DEF End, ConnType, BoundType
  <2>3. LifeType'
    BY <1>4 DEF End, LifeType
  <2>4. QED
    BY <2>1, <2>2, <2>3, TypeGroups
<1>5. CASE LoseConnection
  <2>1. BrokerType' /\ TaskType'
    BY <1>5, RequeueType DEF LoseConnection
  <2>2. ConnType' /\ BoundType'
    BY <1>5 DEF LoseConnection, ConnType, BoundType
  <2>3. LifeType'
    BY <1>5 DEF LoseConnection, LifeType
  <2>4. QED
    BY <2>1, <2>2, <2>3, TypeGroups
<1>6. ASSUME NEW a \in Actors, Close(a)
      PROVE  TypeOK'
  <2>1. BrokerType' /\ TaskType'
    BY <1>6, RequeueType DEF Close
  <2>2. ConnType' /\ BoundType'
    BY <1>6 DEF Close, ConnType, BoundType
  <2>3. LifeType'
    <3>1. stopped' \in BOOLEAN
      BY <1>6 DEF Close, Leave, LifeType
    <3>2. QED
      BY <1>6, <3>1 DEF Close, Leave, Goto, LifeType, Stopping
  <2>4. QED
    BY <2>1, <2>2, <2>3, TypeGroups
<1>7. QED
  BY <1>1, <1>2, <1>3, <1>4, <1>5, <1>6 DEF Loss, Exit, Kill

\* Next, sorted by what a step may disturb.
LEMMA Steps ==
    Next => \/ Quiet \/ Loss
            \/ \E m \in Messages : Deliver(m)
            \/ \E d \in Deliveries : Task(d)
BY DEF Next, Lifecycle, Environment, Quiet, Loss

LEMMA NextType == TypeOK /\ [Next]_vars => TypeOK'
<1>1. TypeOK /\ UNCHANGED vars => TypeOK'
  BY DEF TypeOK, vars, Stopping
<1>2. QED
  BY <1>1, Steps, QuietType, LossType, DeliverType, TasksType

\* Every variable keeps its type, for any queue and any bounds.
THEOREM TypeCorrect == Spec => []TypeOK
BY InitType, NextType, PTL DEF Spec

(***************************************************************************)
(* The order of the shutdown: once run_worker is in stop(), start() is     *)
(* over, so nobody opens a channel again, and the event loop is emptied    *)
(* only after stop().                                                      *)
(***************************************************************************)
Order ==
    /\ proc = "down" => channel = "none" /\ pc["start"] = "done" /\ pc["main"] = "done"
    /\ stopped => pc["start"] = "done"
    /\ pc["main"] \in Stopping \cup {"cleanup", "drain"} => pc["start"] = "done"
    /\ pc["main"] \in {"cleanup", "drain"} => stopped

LEMMA QuietOrder ==
    ASSUME TypeOK, Order, Quiet
    PROVE  Order'
<1> LifeType /\ ConnType
  BY TypeGroups
<1>1. CASE StartWorker
  BY <1>1 DEF StartWorker, Order, LifeType, Stopping
<1>2. CASE RabbitConnects
  BY <1>2 DEF RabbitConnects, Order, LifeType, Stopping
<1>3. CASE RabbitFails
  BY <1>3 DEF RabbitFails, Retry, Goto, Order, LifeType, Stopping
<1>4. CASE RedisConnects
  BY <1>4 DEF RedisConnects, Goto, Order, LifeType, Stopping
<1>5. CASE Prepare
  BY <1>5 DEF Prepare, Advance, Goto, Order, LifeType, Stopping
<1>6. CASE PrepareFails
  BY <1>6 DEF PrepareFails, Goto, Order, LifeType, Stopping
<1>7. CASE Signal
  BY <1>7 DEF Signal, Order, LifeType, Stopping
<1>8. CASE CancelWorker
  BY <1>8 DEF CancelWorker, Order, LifeType, Stopping
<1>9. CASE Abandon
  BY <1>9 DEF Abandon, Goto, Order, LifeType, Stopping
<1>10. CASE Join
  BY <1>10 DEF Join, Goto, Order, LifeType, Stopping
<1>11. ASSUME NEW a \in Actors, StopEnter(a)
       PROVE  Order'
  BY <1>11 DEF StopEnter, Goto, Order, LifeType, Stopping
<1>12. ASSUME NEW a \in Actors, Gathered(a)
       PROVE  Order'
  BY <1>12 DEF Gathered, Goto, Order, LifeType, Stopping
<1>13. ASSUME NEW a \in Actors, CloseFails(a)
       PROVE  Order'
  <2>1. UNCHANGED <<channel, proc>> /\ (stopped' <=> stopped \/ a = "main")
    BY <1>13 DEF CloseFails, Leave, LifeType
  <2>2. CASE a = "start"
    BY <1>13, <2>1, <2>2 DEF CloseFails, Leave, Goto, Order, LifeType, Stopping
  <2>3. CASE a = "main"
    BY <1>13, <2>1, <2>3 DEF CloseFails, Leave, Goto, Order, LifeType, Stopping
  <2>4. QED
    BY <2>2, <2>3
<1>14. QED
  BY <1>1, <1>2, <1>3, <1>4, <1>5, <1>6, <1>7, <1>8, <1>9, <1>10, <1>11, <1>12, <1>13
     DEF Quiet

LEMMA LossOrder ==
    ASSUME TypeOK, Order, Loss
    PROVE  Order'
<1> LifeType /\ ConnType
  BY TypeGroups
<1>1. CASE RedisFails
  BY <1>1 DEF RedisFails, Retry, Goto, Order, LifeType, Stopping
<1>2. CASE CancelTimesOut
  BY <1>2 DEF CancelTimesOut, Goto, Order, LifeType, Stopping
<1>3. CASE Cleanup
  BY <1>3 DEF Cleanup, Goto, Order, LifeType, Stopping
<1>4. CASE End
  <2>1. pc'["start"] = "done" /\ pc'["main"] = "done"
    BY <1>4 DEF End
  <2>2. channel' = "none" /\ stopped' = stopped
    BY <1>4 DEF End
  <2>3. QED
    BY <2>1, <2>2 DEF Order, Stopping
<1>5. CASE LoseConnection
  BY <1>5 DEF LoseConnection, Order, LifeType, Stopping
<1>6. ASSUME NEW a \in Actors, Close(a)
      PROVE  Order'
  <2>1. channel' # "open" /\ proc' = proc /\ (channel = "none" => channel' = "none")
    BY <1>6 DEF Close, ConnType
  <2>2. CASE a = "start"
    <3>1. pc'["start"] = "done" /\ pc'["main"] = pc["main"] /\ pc["start"] = "close"
      BY <1>6, <2>2 DEF Close, Leave, Goto, LifeType
    <3>2. stopped' = stopped
      BY <1>6, <2>2 DEF Close, Leave, LifeType
    <3>3. QED
      BY <2>1, <3>1, <3>2 DEF Order, Stopping
  <2>3. CASE a = "main"
    <3>1. pc'["start"] = pc["start"] /\ pc["main"] = "close"
      BY <1>6, <2>3 DEF Close, Leave, Goto, LifeType
    <3>2. stopped' = TRUE
      BY <1>6, <2>3 DEF Close, Leave, LifeType
    <3>3. pc["start"] = "done"
      BY <3>1 DEF Order, Stopping
    <3>4. proc # "down"
      BY <3>1 DEF Order
    <3>5. QED
      BY <2>1, <3>1, <3>2, <3>3, <3>4 DEF Order, Stopping
  <2>4. QED
    BY <2>2, <2>3
<1>7. QED
  BY <1>1, <1>2, <1>3, <1>4, <1>5, <1>6 DEF Loss, Exit, Kill

LEMMA OrderInvariant == TypeOK /\ Order /\ [Next]_vars => Order'
<1>1. Order /\ UNCHANGED vars => Order'
  BY DEF Order, vars
<1>2. ASSUME Order, NEW m \in Messages, Deliver(m) PROVE Order'
  BY <1>2 DEF Deliver, Order
<1>3. ASSUME Order, NEW d \in Deliveries, Task(d) PROVE Order'
  BY <1>3 DEF Task, TakeSlot, Analyze, CacheResult, ProcessingFails, Settle, Order
<1>4. QED
  BY <1>1, <1>2, <1>3, Steps, QuietOrder, LossOrder

(***************************************************************************)
(* Messages.  UnackedIsOwned is inductive with LiveIsOpen; AckedIsWritten  *)
(* and DroppedForCause say what a settled message owes to the phase its    *)
(* task was in.                                                            *)
(***************************************************************************)
LiveIsOpen == \A d \in Deliveries : live[d] => channel = "open"
AckPhaseIsWritten ==
    /\ AckedIsWritten
    /\ \A d \in Deliveries : phase[d] = "ack" => written[msgOf[d]]
RejectHasCause ==
    /\ DroppedForCause
    /\ \A d \in Deliveries :
         phase[d] = "reject" /\ live[d] => failed[msgOf[d]] \/ msgOf[d] \in cut
MessageInv == LiveIsOpen /\ UnackedIsOwned /\ AckPhaseIsWritten /\ RejectHasCause

LEMMA InitMessage == Init => Order /\ MessageInv
<1> SUFFICES ASSUME Init PROVE Order /\ MessageInv
  OBVIOUS
<1>1. Order
  BY DEF Init, Order, Stopping
<1>2. Active = {} /\ Unacked = {} /\ LiveIsOpen
  BY DEF Init, Active, Unacked, LiveIsOpen
<1>3. UnackedIsOwned
  BY <1>2 DEF UnackedIsOwned
<1>4. AckPhaseIsWritten /\ RejectHasCause
  BY DEF Init, AckPhaseIsWritten, RejectHasCause, AckedIsWritten, DroppedForCause
<1>5. QED
  BY <1>1, <1>2, <1>3, <1>4 DEF MessageInv

\* A step that only moves the life cycle, and not out of "drain".
LEMMA QuietMessage ==
    ASSUME TypeOK, Order, MessageInv, Quiet
    PROVE  MessageInv'
<1> LifeType /\ ConnType
  BY TypeGroups
<1>1. UNCHANGED <<where, written, failed, cut, msgOf, phase, left, live, drops, timeouts>>
  BY QuietUnchanged
<1>2. Active' = Active /\ Unacked' = Unacked
  BY <1>1 DEF Active, Unacked
<1>3. pc'["main"] = "drain" <=> pc["main"] = "drain"
  <2>1. CASE StartWorker
    BY <2>1 DEF StartWorker, Order
  <2>2. ASSUME NEW a \in Actors, StopEnter(a) \/ Gathered(a) \/ CloseFails(a)
        PROVE  pc'["main"] = "drain" <=> pc["main"] = "drain"
    BY <2>2 DEF StopEnter, Gathered, CloseFails, Leave, Goto, LifeType
  <2>3. CASE ~StartWorker /\ ~\E a \in Actors : StopEnter(a) \/ Gathered(a) \/ CloseFails(a)
    BY <2>3 DEF Quiet, RabbitConnects, RabbitFails, Retry, RedisConnects, Prepare,
           Advance, PrepareFails, Signal, CancelWorker, Abandon, Join, Goto, LifeType
  <2>4. QED
    BY <2>1, <2>2, <2>3
<1>4. LiveIsOpen'
  <2>1. channel' = channel \/ channel' = "open" \/ channel = "none"
    BY DEF Quiet, StartWorker, RabbitConnects, RabbitFails, RedisConnects, Prepare,
           PrepareFails, Signal, CancelWorker, Abandon, Join, StopEnter, Gathered,
           CloseFails, Order
  <2>2. QED
    BY <1>1, <2>1 DEF LiveIsOpen, MessageInv
<1>5. UnackedIsOwned'
  BY <1>1, <1>2, <1>3 DEF UnackedIsOwned, MessageInv
<1>6. AckPhaseIsWritten'
  BY <1>1 DEF AckPhaseIsWritten, AckedIsWritten, MessageInv
<1>7. RejectHasCause'
  BY <1>1, <1>3 DEF RejectHasCause, DroppedForCause, MessageInv
<1>8. QED
  BY <1>4, <1>5, <1>6, <1>7 DEF MessageInv

LEMMA DeliverMessage ==
    ASSUME TypeOK, MessageInv, NEW m \in Messages, Deliver(m)
    PROVE  MessageInv'
<1> BrokerType /\ TaskType
  BY TypeGroups
<1> DEFINE new == Len(msgOf) + 1
<1>1. /\ new \in Deliveries /\ new \notin Active
      /\ \A d \in Deliveries : phase[d] # "free" => d # new
  BY DEF Deliver, TaskType, Deliveries, Active
<1>2. msgOf'[new] = m /\ \A d \in Deliveries : phase[d] # "free" => msgOf'[d] = msgOf[d]
  BY ActiveHasMessage DEF Deliver, TaskType
<1>3. phase' = [phase EXCEPT ![new] = "slot"] /\ live' = [live EXCEPT ![new] = TRUE]
  BY DEF Deliver
<1>4. /\ Active' = Active \cup {new}
      /\ \A d \in Active : live'[d] = live[d] /\ msgOf'[d] = msgOf[d]
      /\ live'[new]
  BY <1>1, <1>2, <1>3 DEF Active, TaskType
<1>5. where[m] = "ready" /\ where' = [where EXCEPT ![m] = "unacked"]
  BY DEF Deliver
<1>6. UNCHANGED <<written, failed, cut, channel, pc, timeouts>> /\ channel = "open"
  BY DEF Deliver
<1>7. LiveIsOpen'
  BY <1>6 DEF LiveIsOpen
<1>8. UnackedIsOwned'
  <2>1. \A d \in Active : msgOf[d] \in Messages
    BY ActiveHasMessage DEF Active
  <2>2. \A d \in Active : live[d] => msgOf[d] # m
    BY <1>5 DEF MessageInv, UnackedIsOwned
  <2>3. \A d \in Active' : live'[d] => where'[msgOf'[d]] = "unacked"
    BY <1>2, <1>4, <1>5, <2>1 DEF MessageInv, UnackedIsOwned, BrokerType
  <2>4. \A d, e \in Active' : live'[d] /\ live'[e] /\ msgOf'[d] = msgOf'[e] => d = e
    BY <1>2, <1>4, <2>2 DEF MessageInv, UnackedIsOwned
  <2>5. Unacked' \subseteq Unacked \cup {m}
    BY <1>5 DEF Unacked, BrokerType
  <2>6. timeouts' = 0 /\ pc'["main"] # "drain" =>
          \A n \in Unacked' : \E d \in Active' : live'[d] /\ msgOf'[d] = n
    BY <1>2, <1>4, <1>6, <2>5 DEF MessageInv, UnackedIsOwned
  <2>7. QED
    BY <2>3, <2>4, <2>6 DEF UnackedIsOwned
<1>9. AckPhaseIsWritten'
  BY <1>1, <1>2, <1>3, <1>5, <1>6
     DEF AckPhaseIsWritten, AckedIsWritten, MessageInv, TaskType, BrokerType
<1>10. RejectHasCause'
  BY <1>1, <1>2, <1>3, <1>5, <1>6
     DEF RejectHasCause, DroppedForCause, MessageInv, TaskType, BrokerType
<1>11. QED
  BY <1>7, <1>8, <1>9, <1>10 DEF MessageInv

LEMMA TaskMessage ==
    ASSUME TypeOK, Order, MessageInv, NEW d \in Deliveries, Task(d)
    PROVE  MessageInv'
<1> BrokerType /\ TaskType
  BY TypeGroups
<1>1. UNCHANGED <<channel, cut, pc, timeouts, msgOf, live, stopped>>
  BY DEF Task, TakeSlot, Analyze, CacheResult, ProcessingFails, Settle, Fail
<1>2. LiveIsOpen'
  BY <1>1 DEF MessageInv, LiveIsOpen
<1>3. d \in Active /\ msgOf[d] \in Messages
  BY ActiveHasMessage DEF Task, TakeSlot, Analyze, CacheResult, ProcessingFails, Settle,
     Active
<1>4. ASSUME UNCHANGED where, Active' = Active PROVE UnackedIsOwned'
  BY <1>1, <1>4 DEF MessageInv, UnackedIsOwned, Unacked
<1>5. CASE TakeSlot(d)
  <2>1. UNCHANGED <<where, written, failed>> /\ phase' = [phase EXCEPT ![d] = "analyze"]
    BY <1>5 DEF TakeSlot
  <2>2. Active' = Active
    BY <1>3, <2>1 DEF Active, TaskType
  <2>3. AckPhaseIsWritten' /\ RejectHasCause'
    BY <1>1, <2>1 DEF MessageInv, AckPhaseIsWritten, AckedIsWritten, RejectHasCause,
       DroppedForCause, TaskType
  <2>4. QED
    BY <1>2, <1>4, <2>1, <2>2, <2>3 DEF MessageInv
<1>6. ASSUME NEW n, Write(d, n), UNCHANGED <<where, failed>>
      PROVE  MessageInv'
  <2>1. phase' = [phase EXCEPT ![d] = IF n = 0 THEN "ack" ELSE "cache"]
    BY <1>6 DEF Write
  <2>2. Active' = Active
    BY <1>3, <2>1 DEF Active, TaskType
  <2>3. /\ \A m \in Messages : written[m] => written'[m]
        /\ n = 0 => written'[msgOf[d]]
    BY <1>3, <1>6 DEF Write, BrokerType
  <2>4. AckPhaseIsWritten'
    <3>1. AckedIsWritten'
      BY <1>6, <2>3 DEF MessageInv, AckPhaseIsWritten, AckedIsWritten
    <3>2. ASSUME NEW e \in Deliveries, phase'[e] = "ack" PROVE written'[msgOf[e]]
      <4>1. CASE e = d
        BY <2>1, <2>3, <3>2, <4>1 DEF TaskType
      <4>2. CASE e # d
        <5>1. phase[e] = "ack"
          BY <2>1, <3>2, <4>2 DEF TaskType
        <5>2. msgOf[e] \in Messages
          BY <5>1, ActiveHasMessage
        <5>3. QED
          BY <2>3, <5>1, <5>2 DEF MessageInv, AckPhaseIsWritten
      <4>3. QED
        BY <4>1, <4>2
    <3>3. QED
      BY <1>1, <3>1, <3>2 DEF AckPhaseIsWritten
  <2>5. RejectHasCause'
    BY <1>1, <1>6, <2>1 DEF MessageInv, RejectHasCause, DroppedForCause, TaskType
  <2>6. QED
    BY <1>2, <1>4, <1>6, <2>2, <2>4, <2>5 DEF MessageInv
<1>7. CASE Analyze(d)
  BY <1>6, <1>7 DEF Analyze
<1>8. CASE CacheResult(d)
  BY <1>6, <1>8 DEF CacheResult
<1>9. CASE ProcessingFails(d)
  <2>1. /\ UNCHANGED <<where, written>> /\ phase' = [phase EXCEPT ![d] = "reject"]
        /\ failed' = [failed EXCEPT ![msgOf[d]] = TRUE]
    BY <1>9 DEF ProcessingFails
  <2>2. Active' = Active
    BY <1>3, <2>1 DEF Active, TaskType
  <2>3. (\A m \in Messages : failed[m] => failed'[m]) /\ failed'[msgOf[d]]
    BY <1>3, <2>1 DEF BrokerType
  <2>4. AckPhaseIsWritten'
    BY <1>1, <2>1 DEF MessageInv, AckPhaseIsWritten, AckedIsWritten, TaskType
  <2>5. RejectHasCause'
    <3>1. DroppedForCause'
      BY <1>1, <2>1, <2>3 DEF MessageInv, RejectHasCause, DroppedForCause
    <3>2. ASSUME NEW e \in Deliveries, phase'[e] = "reject", live[e]
          PROVE  failed'[msgOf[e]] \/ msgOf[e] \in cut
      <4>1. CASE e = d
        BY <2>3, <4>1
      <4>2. CASE e # d
        <5>1. phase[e] = "reject"
          BY <2>1, <3>2, <4>2 DEF TaskType
        <5>2. msgOf[e] \in Messages
          BY <5>1, ActiveHasMessage
        <5>3. QED
          BY <2>3, <3>2, <5>1, <5>2 DEF MessageInv, RejectHasCause
      <4>3. QED
        BY <4>1, <4>2
    <3>3. QED
      BY <1>1, <3>1, <3>2 DEF RejectHasCause
  <2>6. QED
    BY <1>2, <1>4, <2>1, <2>2, <2>4, <2>5 DEF MessageInv
<1>10. CASE Settle(d)
  <2>1. /\ UNCHANGED <<written, failed>> /\ phase' = [phase EXCEPT ![d] = "done"]
        /\ phase[d] \in {"ack", "reject"}
        /\ ~live[d] => where' = where
        /\ live[d] => where' = [where EXCEPT ![msgOf[d]] =
                                  IF phase[d] = "ack" THEN "acked" ELSE "dropped"]
    BY <1>10 DEF Settle
  <2>2. Active' = Active \ {d}
    BY <1>3, <2>1 DEF Active, TaskType
  <2>4. \A m \in Messages : m # msgOf[d] \/ ~live[d] => where'[m] = where[m]
    BY <2>1 DEF BrokerType
  <2>5. UnackedIsOwned'
    <3>1. \A e \in Active : msgOf[e] \in Messages
      BY ActiveHasMessage DEF Active
    <3>2. \A e \in Active' : live[e] => where'[msgOf[e]] = "unacked"
      BY <1>3, <2>2, <2>4, <3>1 DEF MessageInv, UnackedIsOwned
    <3>3. \A m \in Unacked' : m \in Unacked /\ (m # msgOf[d] \/ ~live[d])
      BY <1>3, <2>1, <2>4 DEF Unacked, BrokerType
    <3>4. timeouts = 0 /\ pc["main"] # "drain" =>
            \A m \in Unacked' : \E e \in Active' : live[e] /\ msgOf[e] = m
      BY <2>2, <3>3 DEF MessageInv, UnackedIsOwned
    <3>5. QED
      BY <1>1, <2>2, <3>2, <3>4 DEF MessageInv, UnackedIsOwned
  <2>6. AckPhaseIsWritten'
    <3>1. phase[d] = "ack" => written[msgOf[d]]
      BY DEF MessageInv, AckPhaseIsWritten
    <3>2. AckedIsWritten'
      BY <1>3, <2>1, <2>4, <3>1 DEF MessageInv, AckPhaseIsWritten, AckedIsWritten, BrokerType
    <3>3. QED
      BY <1>1, <2>1, <3>2 DEF MessageInv, AckPhaseIsWritten, TaskType
  <2>7. RejectHasCause'
    <3>1. live[d] /\ phase[d] = "reject" => failed[msgOf[d]] \/ msgOf[d] \in cut
      BY DEF MessageInv, RejectHasCause
    <3>2. DroppedForCause'
      BY <1>1, <1>3, <2>1, <2>4, <3>1
         DEF MessageInv, RejectHasCause, DroppedForCause, BrokerType
    <3>3. QED
      BY <1>1, <2>1, <3>2 DEF MessageInv, RejectHasCause, TaskType
  <2>8. QED
    BY <1>2, <2>5, <2>6, <2>7 DEF MessageInv
<1>11. QED
  BY <1>5, <1>7, <1>8, <1>9, <1>10 DEF Task

\* Losing the channel gives every delivered message back.
LEMMA RequeueMessage ==
    ASSUME TypeOK, MessageInv, Requeue, UNCHANGED <<written, failed, cut, msgOf, timeouts>>,
           \/ UNCHANGED phase
           \/ phase' = [d \in Deliveries |-> IF d \in Active THEN "done" ELSE phase[d]]
    PROVE  MessageInv'
<1> BrokerType /\ TaskType
  BY TypeGroups
<1>1. \A m \in Messages : /\ where'[m] # "unacked"
                          /\ where'[m] = where[m] \/ where'[m] = "ready"
  BY DEF Requeue
<1>2. \A d \in Deliveries : ~live'[d]
  BY DEF Requeue
<1>3. Active' \subseteq Deliveries /\ Unacked' = {}
  BY <1>1 DEF Active, Unacked
<1>4. LiveIsOpen' /\ UnackedIsOwned'
  BY <1>2, <1>3 DEF LiveIsOpen, UnackedIsOwned
<1>5. \A d \in Deliveries : phase'[d] \in {"ack", "reject"} =>
        phase'[d] = phase[d]
  BY DEF Active, TaskType
<1>6. AckPhaseIsWritten'
  BY <1>1, <1>5 DEF MessageInv, AckPhaseIsWritten, AckedIsWritten
<1>7. RejectHasCause'
  BY <1>1, <1>2 DEF MessageInv, RejectHasCause, DroppedForCause
<1>8. QED
  BY <1>4, <1>6, <1>7 DEF MessageInv

\* Cancelling tasks takes them out of, or moves them within, their message's
\* ownership; a shutdown has timed out, or the event loop is being emptied.
LEMMA CancelMessage ==
    ASSUME TypeOK, MessageInv, NEW ds \in SUBSET Active, CancelTasks(ds),
           UNCHANGED <<written, failed, msgOf, live, channel>>,
           timeouts' # 0 \/ pc'["main"] = "drain"
    PROVE  MessageInv'
<1> BrokerType /\ TaskType
  BY TypeGroups
<1>1. PICK sent \in SUBSET {d \in ds : phase[d] \in {"ack", "reject"} /\ live[d]} :
        where' = [m \in Messages |->
             IF \E d \in sent : msgOf[d] = m
             THEN IF \E d \in sent : msgOf[d] = m /\ phase[d] = "ack"
                  THEN "acked" ELSE "dropped"
             ELSE where[m]]
  BY DEF CancelTasks
<1>2. phase' = [d \in Deliveries |->
         IF d \notin ds THEN phase[d]
         ELSE IF phase[d] \in {"analyze", "cache"} THEN "reject" ELSE "done"]
  BY DEF CancelTasks
<1>3. /\ Active' \subseteq Active
      /\ \A d \in sent : d \in Active /\ live[d] /\ d \notin Active'
  BY <1>1, <1>2 DEF Active, TaskType
<1>4. \A d \in Active : msgOf[d] \in Messages
  BY ActiveHasMessage DEF Active
<1>5. LiveIsOpen'
  BY DEF MessageInv, LiveIsOpen
<1>6. UnackedIsOwned'
  <2>1. ASSUME NEW d \in Active', live[d] PROVE where'[msgOf[d]] = "unacked"
    <3>1. \A e \in sent : msgOf[e] # msgOf[d]
      BY <1>3, <2>1 DEF MessageInv, UnackedIsOwned
    <3>2. QED
      BY <1>1, <1>3, <1>4, <2>1, <3>1 DEF MessageInv, UnackedIsOwned
  <2>2. \A d, e \in Active' : live[d] /\ live[e] /\ msgOf[d] = msgOf[e] => d = e
    BY <1>3 DEF MessageInv, UnackedIsOwned
  <2>3. QED
    BY <2>1, <2>2 DEF UnackedIsOwned
<1>7. AckPhaseIsWritten'
  <2>1. ASSUME NEW m \in Messages, where'[m] = "acked" PROVE written[m]
    <3>1. CASE \E d \in sent : msgOf[d] = m /\ phase[d] = "ack"
      BY <1>3, <3>1 DEF MessageInv, AckPhaseIsWritten, Active
    <3>2. CASE ~\E d \in sent : msgOf[d] = m
      BY <1>1, <2>1, <3>2 DEF MessageInv, AckPhaseIsWritten, AckedIsWritten
    <3>3. QED
      BY <1>1, <2>1, <3>1, <3>2
  <2>2. \A d \in Deliveries : phase'[d] = "ack" => phase[d] = "ack"
    BY <1>2
  <2>3. QED
    BY <2>1, <2>2 DEF MessageInv, AckPhaseIsWritten, AckedIsWritten
<1>8. RejectHasCause'
  <2>1. cut \subseteq cut'
    BY DEF CancelTasks
  <2>2. ASSUME NEW m \in Messages, where'[m] = "dropped"
        PROVE  failed[m] \/ m \in cut'
    <3>1. CASE \E d \in sent : msgOf[d] = m
      <4>1. PICK d \in sent : msgOf[d] = m
        BY <3>1
      <4>2. phase[d] = "reject" /\ live[d] /\ d \in Deliveries
        BY <1>1, <2>2, <4>1 DEF Active
      <4>3. QED
        BY <2>1, <4>1, <4>2 DEF MessageInv, RejectHasCause
    <3>2. CASE ~\E d \in sent : msgOf[d] = m
      BY <1>1, <2>1, <2>2, <3>2 DEF MessageInv, RejectHasCause, DroppedForCause
    <3>3. QED
      BY <3>1, <3>2
  <2>3. ASSUME NEW d \in Deliveries, phase'[d] = "reject", live[d]
        PROVE  failed[msgOf[d]] \/ msgOf[d] \in cut'
    <3>1. CASE d \in ds
      <4>1. phase[d] \in {"analyze", "cache"}
        BY <1>2, <2>3, <3>1
      <4>2. QED
        BY <2>3, <3>1, <4>1 DEF CancelTasks
    <3>2. CASE d \notin ds
      BY <1>2, <2>1, <2>3, <3>2 DEF MessageInv, RejectHasCause
    <3>3. QED
      BY <3>1, <3>2
  <2>4. QED
    BY <2>2, <2>3 DEF RejectHasCause, DroppedForCause
<1>9. QED
  BY <1>5, <1>6, <1>7, <1>8 DEF MessageInv

LEMMA LossMessage ==
    ASSUME TypeOK, Order, MessageInv, Loss
    PROVE  MessageInv'
<1> LifeType /\ BoundType /\ TaskType
  BY TypeGroups
<1>1. CASE RedisFails
  BY <1>1, RequeueMessage DEF RedisFails, Fail
<1>2. CASE CancelTimesOut
  <2>1. timeouts' # 0
    BY <1>2 DEF CancelTimesOut, BoundType
  <2>2. CASE pc["start"] = "gather"
    <3>1. waiting["start"] \cap Active \in SUBSET Active
      OBVIOUS
    <3>2. QED
      BY <1>2, <2>1, <2>2, <3>1, CancelMessage DEF CancelTimesOut
  <2>3. CASE pc["start"] # "gather"
    <3>1. UNCHANGED <<where, phase, written, failed, cut, msgOf, live, channel>>
      BY <1>2, <2>3 DEF CancelTimesOut
    <3>2. Active' = Active
      BY <3>1 DEF Active
    <3>3. LiveIsOpen' /\ UnackedIsOwned'
      BY <2>1, <3>1, <3>2 DEF MessageInv, LiveIsOpen, UnackedIsOwned
    <3>4. AckPhaseIsWritten' /\ RejectHasCause'
      BY <2>1, <3>1 DEF MessageInv, AckPhaseIsWritten, AckedIsWritten, RejectHasCause,
         DroppedForCause
    <3>5. QED
      BY <3>3, <3>4 DEF MessageInv
  <2>4. QED
    BY <2>2, <2>3
<1>3. CASE Cleanup
  <2>1. pc'["main"] = "drain"
    BY <1>3 DEF Cleanup, Goto, LifeType
  <2>2. QED
    BY <1>3, <2>1, CancelMessage DEF Cleanup
<1>4. CASE End
  BY <1>4, RequeueMessage DEF End
<1>5. CASE LoseConnection
  BY <1>5, RequeueMessage DEF LoseConnection
<1>6. ASSUME NEW a \in Actors, Close(a)
      PROVE  MessageInv'
  BY <1>6, RequeueMessage DEF Close
<1>7. QED
  BY <1>1, <1>2, <1>3, <1>4, <1>5, <1>6 DEF Loss, Exit, Kill

LEMMA MessageInvariant == TypeOK /\ Order /\ MessageInv /\ [Next]_vars => MessageInv'
<1>1. ASSUME MessageInv, UNCHANGED vars PROVE MessageInv'
  <2>1. Active' = Active /\ Unacked' = Unacked
    BY <1>1 DEF vars, Active, Unacked
  <2>2. UNCHANGED <<where, written, failed, cut, channel, pc, timeouts, msgOf, phase, live>>
    BY <1>1 DEF vars
  <2>3. LiveIsOpen' /\ UnackedIsOwned'
    BY <1>1, <2>1, <2>2 DEF MessageInv, LiveIsOpen, UnackedIsOwned
  <2>4. AckPhaseIsWritten' /\ RejectHasCause'
    BY <1>1, <2>2 DEF MessageInv, AckPhaseIsWritten, AckedIsWritten, RejectHasCause,
       DroppedForCause
  <2>5. QED
    BY <2>3, <2>4 DEF MessageInv
<1>2. QED
  BY <1>1, Steps, QuietMessage, DeliverMessage, TaskMessage, LossMessage

LEMMA Invariant == Spec => [](TypeOK /\ Order /\ MessageInv)
BY InitType, InitMessage, NextType, OrderInvariant, MessageInvariant, PTL DEF Spec

\* What RabbitMQ counts as acknowledged is in Redis, through any sequence of
\* failures, lost connections, kills, restarts and shutdowns.
THEOREM AcknowledgedIsWritten == Spec => []AckedIsWritten
<1>1. MessageInv => AckedIsWritten
  BY DEF MessageInv, AckPhaseIsWritten
<1>2. QED
  BY <1>1, Invariant, PTL

\* At most one task can settle a message, and until a shutdown cancels tasks
\* every delivered message has one.
THEOREM DeliveredIsOwned == Spec => []UnackedIsOwned
<1>1. MessageInv => UnackedIsOwned
  BY DEF MessageInv
<1>2. QED
  BY <1>1, Invariant, PTL

\* Only a message whose processing raised, or was cut off by a shutdown while it was
\* analysed or written, is rejected for good.
THEOREM RejectedForCause == Spec => []DroppedForCause
<1>1. MessageInv => DroppedForCause
  BY DEF MessageInv, RejectHasCause
<1>2. QED
  BY <1>1, Invariant, PTL

(***************************************************************************)
(* The refinement: every step of the processor, of RabbitMQ and of the     *)
(* worker's life is one step of an at-least-once queue, or none.  Losing   *)
(* the channel returns all of its deliveries at once; only a shutdown that *)
(* cuts tasks off settles several messages in one step.                    *)
(***************************************************************************)
Seen(w) == [m \in Messages |-> IF w[m] = "unacked" THEN "out" ELSE w[m]]

LEMMA SeenOut == BrokerType => Queue!Out = Unacked
BY DEF BrokerType, Queue!Out, Unacked

LEMMA SameCount == Queue!Cardinality(Unacked) = Cardinality(Unacked)
BY DEF Queue!Cardinality, Cardinality

LEMMA SameQueue ==
    ASSUME UNCHANGED <<where, written, failed, cut, msgOf>>
    PROVE  UNCHANGED Queue!vars
BY DEF Queue!vars, Delivered

LEMMA InitQueue == Init => Queue!Init
<1> SUFFICES ASSUME Init PROVE Queue!Init
  OBVIOUS
<1>1. Seen(where) = [m \in Messages |-> "ready"]
  BY DEF Init, Seen
<1>2. Delivered = {}
  BY DEF Init, Delivered
<1>3. {m \in Messages : written[m]} = {} /\ {m \in Messages : failed[m]} = {}
  BY DEF Init
<1>4. cut = {}
  BY DEF Init
<1>5. QED
  BY <1>1, <1>2, <1>3, <1>4 DEF Queue!Init, Seen

LEMMA DeliverQueue ==
    ASSUME TypeOK, NEW m \in Messages, Deliver(m)
    PROVE  Queue!Take(m)
<1> BrokerType /\ TaskType
  BY TypeGroups
<1>1. UNCHANGED <<written, failed, cut>> /\ where[m] = "ready"
      /\ Cardinality(Unacked) < Prefetch /\ where' = [where EXCEPT ![m] = "unacked"]
      /\ msgOf' = Append(msgOf, m)
  BY DEF Deliver, boundVars
<1>2. Seen(where') = [Seen(where) EXCEPT ![m] = "out"]
  BY <1>1 DEF Seen, BrokerType
<1>3. Delivered' = Delivered \cup {m}
  <2>1. /\ Len(msgOf') = Len(msgOf) + 1 /\ Len(msgOf) \in Nat
        /\ msgOf'[Len(msgOf) + 1] = m
        /\ \A i \in 1..Len(msgOf) : msgOf'[i] = msgOf[i]
    BY <1>1 DEF TaskType
  <2>2. QED
    BY <2>1 DEF Delivered
<1>4. Seen(where)[m] = "ready"
  BY <1>1 DEF Seen
<1>5. QED
  BY <1>1, <1>2, <1>3, <1>4, SeenOut, SameCount DEF Queue!Take, Seen

LEMMA TaskQueue ==
    ASSUME TypeOK, Order, MessageInv, NEW d \in Deliveries, Task(d)
    PROVE  Queue!Next \/ UNCHANGED Queue!vars
<1> BrokerType /\ TaskType
  BY TypeGroups
<1>1. UNCHANGED <<channel, cut, pc, timeouts, msgOf, live, stopped>>
  BY DEF Task, TakeSlot, Analyze, CacheResult, ProcessingFails, Settle, Fail
<1>2. d \in Active
  BY DEF Task, TakeSlot, Analyze, CacheResult, ProcessingFails, Settle, Active
<1>3. PICK m \in Messages : m = msgOf[d] /\ m \in Delivered
  BY <1>2, ActiveHasMessage DEF Active, Delivered
<1>4. Delivered' = Delivered
  BY <1>1 DEF Delivered
<1>5. CASE TakeSlot(d)
  BY <1>1, <1>5, SameQueue DEF TakeSlot
<1>6. ASSUME NEW n, Write(d, n), UNCHANGED <<where, failed>>
      PROVE  Queue!Next \/ UNCHANGED Queue!vars
  <2>1. CASE n = 0
    <3>1. written' = [written EXCEPT ![m] = TRUE]
      BY <1>3, <1>6, <2>1 DEF Write
    <3>2. {x \in Messages : written'[x]} = {x \in Messages : written[x]} \cup {m}
      BY <1>3, <3>1 DEF BrokerType
    <3>3. Queue!Complete(m)
      BY <1>1, <1>3, <1>4, <1>6, <3>2 DEF Queue!Complete
    <3>4. QED
      BY <1>3, <3>3 DEF Queue!Next
  <2>2. CASE n # 0
    BY <1>1, <1>6, <2>2, SameQueue DEF Write
  <2>3. QED
    BY <2>1, <2>2
<1>7. CASE Analyze(d) \/ CacheResult(d)
  BY <1>6, <1>7 DEF Analyze, CacheResult
<1>8. CASE ProcessingFails(d)
  <2>1. UNCHANGED <<where, written>> /\ failed' = [failed EXCEPT ![m] = TRUE]
    BY <1>3, <1>8 DEF ProcessingFails
  <2>2. {x \in Messages : failed'[x]} = {x \in Messages : failed[x]} \cup {m}
    BY <1>3, <2>1 DEF BrokerType
  <2>3. Queue!Fail(m)
    BY <1>1, <1>3, <1>4, <2>1, <2>2 DEF Queue!Fail
  <2>4. QED
    BY <1>3, <2>3 DEF Queue!Next
<1>9. CASE Settle(d)
  <2>1. UNCHANGED <<written, failed>> /\ phase[d] \in {"ack", "reject"}
    BY <1>9 DEF Settle
  <2>2. CASE ~live[d]
    BY <1>1, <1>9, <2>1, <2>2, SameQueue DEF Settle
  <2>3. CASE live[d]
    <3>1. m \in Queue!Out
      BY <1>2, <1>3, <2>3, SeenOut DEF MessageInv, UnackedIsOwned, Unacked
    <3>3. CASE phase[d] = "ack"
      <4>1. where' = [where EXCEPT ![m] = "acked"]
        BY <1>3, <1>9, <2>3, <3>3 DEF Settle
      <4>2. Seen(where') = [Seen(where) EXCEPT ![m] = "acked"]
        BY <1>3, <4>1 DEF Seen, BrokerType
      <4>3. m \in {x \in Messages : written[x]}
        BY <1>3, <3>3 DEF MessageInv, AckPhaseIsWritten
      <4>4. Queue!Ack(m)
        BY <1>1, <1>4, <2>1, <3>1, <4>2, <4>3 DEF Queue!Ack, Seen
      <4>5. QED
        BY <1>3, <4>4 DEF Queue!Next
    <3>4. CASE phase[d] = "reject"
      <4>1. where' = [where EXCEPT ![m] = "dropped"]
        BY <1>3, <1>9, <2>3, <3>4 DEF Settle
      <4>2. Seen(where') = [Seen(where) EXCEPT ![m] = "dropped"]
        BY <1>3, <4>1 DEF Seen, BrokerType
      <4>3. m \in {x \in Messages : failed[x]} \cup cut
        BY <1>3, <2>3, <3>4 DEF MessageInv, RejectHasCause
      <4>4. Queue!Drop(m)
        BY <1>1, <1>4, <2>1, <3>1, <4>2, <4>3 DEF Queue!Drop, Seen
      <4>5. QED
        BY <1>3, <4>4 DEF Queue!Next
    <3>5. QED
      BY <2>1, <3>3, <3>4
  <2>4. QED
    BY <2>2, <2>3
<1>10. QED
  BY <1>5, <1>7, <1>8, <1>9 DEF Task

LEMMA RequeueQueue ==
    ASSUME TypeOK, Requeue, UNCHANGED <<written, failed, cut, msgOf>>
    PROVE  Queue!Next
<1> BrokerType
  BY TypeGroups
<1>1. Delivered' = Delivered
  BY DEF Delivered
<1>2. Seen(where') = [m \in Messages |-> IF m \in Unacked THEN "ready" ELSE Seen(where)[m]]
  BY DEF Requeue, Seen, Unacked, BrokerType
<1>3. Queue!Return
  BY <1>1, <1>2, SeenOut DEF Queue!Return, Seen
<1>4. QED
  BY <1>3 DEF Queue!Next

LEMMA CancelQueue ==
    ASSUME TypeOK, MessageInv, NEW ds \in SUBSET Active, CancelTasks(ds),
           UNCHANGED <<written, failed, msgOf, live>>
    PROVE  Queue!Next
<1> BrokerType /\ TaskType
  BY TypeGroups
<1>1. PICK sent \in SUBSET {d \in ds : phase[d] \in {"ack", "reject"} /\ live[d]} :
        where' = [m \in Messages |->
             IF \E d \in sent : msgOf[d] = m
             THEN IF \E d \in sent : msgOf[d] = m /\ phase[d] = "ack"
                  THEN "acked" ELSE "dropped"
             ELSE where[m]]
  BY DEF CancelTasks
<1> DEFINE acks  == {m \in Messages : \E d \in sent : msgOf[d] = m /\ phase[d] = "ack"}
           rejs  == {m \in Messages : \E d \in sent : msgOf[d] = m} \ acks
<1>2. \A d \in sent : d \in Active /\ live[d] /\ d \in Deliveries
  BY <1>1 DEF Active
<1>3. acks \cup rejs \subseteq Unacked
  BY <1>2 DEF MessageInv, UnackedIsOwned, Unacked
<1>4. acks \subseteq {m \in Messages : written[m]}
  BY <1>2 DEF MessageInv, AckPhaseIsWritten
<1>5. Seen(where') = [m \in Messages |-> IF m \in acks THEN "acked"
                        ELSE IF m \in rejs THEN "dropped" ELSE Seen(where)[m]]
  BY <1>1 DEF Seen
<1>6. Delivered' = Delivered
  BY DEF Delivered
<1> DEFINE torn == {msgOf[d] : d \in {e \in ds : live[e] /\ phase[e] \in {"analyze", "cache"}}}
<1>7. /\ acks \in SUBSET Messages /\ rejs \in SUBSET Messages /\ rejs \cap acks = {}
      /\ cut' = cut \cup torn
  BY DEF CancelTasks
<1>8. torn \subseteq Unacked \ (acks \cup rejs)
  <2>1. ASSUME NEW d \in ds, live[d], phase[d] \in {"analyze", "cache"}
        PROVE  msgOf[d] \in Unacked /\ \A e \in sent : msgOf[e] # msgOf[d]
    <3>1. d \in Active /\ d \in Deliveries
      BY DEF Active
    <3>2. msgOf[d] \in Messages
      BY <3>1, ActiveHasMessage DEF Active
    <3>3. \A e \in sent : e # d
      BY <2>1
    <3>4. QED
      BY <1>2, <2>1, <3>1, <3>2, <3>3 DEF MessageInv, UnackedIsOwned, Unacked
  <2>2. QED
    BY <2>1
<1>9. rejs \subseteq {m \in Messages : failed[m]} \cup cut
  <2>1. ASSUME NEW m \in rejs PROVE failed[m] \/ m \in cut
    <3>1. PICK d \in sent : msgOf[d] = m
      OBVIOUS
    <3>2. phase[d] = "reject" /\ live[d] /\ d \in Deliveries
      BY <1>1, <1>2, <3>1
    <3>3. QED
      BY <3>1, <3>2 DEF MessageInv, RejectHasCause
  <2>2. QED
    BY <2>1
<1> HIDE DEF acks, rejs, torn
<1>10. torn \in SUBSET Messages
  BY <1>8 DEF Unacked
<1>11. PICK as, rs, ts \in SUBSET Messages : as = acks /\ rs = rejs /\ ts = torn
  BY <1>7, <1>10
<1>12. Queue!CutOff(as, rs, ts)
  <2>1. as \subseteq Queue!Out \cap {m \in Messages : written[m]}
    BY <1>3, <1>4, <1>11, SeenOut
  <2>2. rs \subseteq (Queue!Out \cap ({m \in Messages : failed[m]} \cup cut)) \ as
    BY <1>3, <1>7, <1>9, <1>11, SeenOut
  <2>3. ts \subseteq Queue!Out \ (as \cup rs) /\ cut' = cut \cup ts
    BY <1>7, <1>8, <1>11, SeenOut
  <2>4. QED
    BY <1>5, <1>6, <1>11, <2>1, <2>2, <2>3 DEF Queue!CutOff, Seen
<1>13. QED
  BY <1>12 DEF Queue!Next

LEMMA LossQueue ==
    ASSUME TypeOK, Order, MessageInv, Loss
    PROVE  Queue!Next \/ UNCHANGED Queue!vars
<1> LifeType /\ BoundType
  BY TypeGroups
<1>1. CASE RedisFails
  BY <1>1, RequeueQueue DEF RedisFails, Fail
<1>2. CASE CancelTimesOut
  <2>1. CASE pc["start"] = "gather"
    BY <1>2, <2>1, CancelQueue DEF CancelTimesOut
  <2>2. CASE pc["start"] # "gather"
    <3>1. UNCHANGED <<where, written, failed, cut, msgOf>>
      BY <1>2, <2>2 DEF CancelTimesOut
    <3>2. QED
      BY <3>1, SameQueue
  <2>3. QED
    BY <2>1, <2>2
<1>3. CASE Cleanup
  BY <1>3, CancelQueue DEF Cleanup
<1>4. CASE End
  BY <1>4, RequeueQueue DEF End
<1>5. CASE LoseConnection
  BY <1>5, RequeueQueue DEF LoseConnection
<1>6. ASSUME NEW a \in Actors, Close(a)
      PROVE  Queue!Next
  BY <1>6, RequeueQueue DEF Close
<1>7. QED
  BY <1>1, <1>2, <1>3, <1>4, <1>5, <1>6 DEF Loss, Exit, Kill

LEMMA NextQueue ==
    TypeOK /\ Order /\ MessageInv /\ [Next]_vars => Queue!Next \/ UNCHANGED Queue!vars
<1>1. UNCHANGED vars => UNCHANGED <<where, written, failed, cut, msgOf>>
  BY DEF vars, brokerVars, taskVars, boundVars
<1>2. Quiet => UNCHANGED Queue!vars
  BY QuietUnchanged, SameQueue
<1>3. ASSUME TypeOK, NEW m \in Messages, Deliver(m) PROVE Queue!Next
  BY <1>3, DeliverQueue DEF Queue!Next
<1>4. QED
  BY <1>1, <1>2, <1>3, Steps, SameQueue, TaskQueue, LossQueue

\* The processor implements the at-least-once queue: for any number of messages,
\* deliveries, failures, lost connections and restarts, a message is handed out
\* again only after its channel is gone, is acknowledged only with its results
\* written, and is never handed out again once settled.
THEOREM ProcessorImplementsQueue == Spec => ProcessedAtLeastOnce
<1>1. Init => Queue!Init
  BY InitQueue
<1>2. TypeOK /\ Order /\ MessageInv /\ [Next]_vars => [Queue!Next]_(Queue!vars)
  BY NextQueue
<1>3. QED
  BY <1>1, <1>2, Invariant, PTL DEF Spec, ProcessedAtLeastOnce, Queue!Spec
=============================================================================
