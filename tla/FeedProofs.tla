----------------------- MODULE FeedProofs -----------------------
(***************************************************************************)
(* Proofs about Feed: that stop() of a Finlight listener reaches the task  *)
(* at work, that a stream has the configuration the setters left, and that *)
(* shutdown() of a publisher leaves no connection open.  The first two are *)
(* about the listener, whose steps come first; the steps of the other      *)
(* parts leave it alone but for the number of calls.                       *)
(***************************************************************************)
EXTENDS Feed, TLAPS

USE CallersAssumption, BoundsAssumption
---------------------------------------------------------------------------
\* A step of Feed is one of the listener, or leaves the listener alone.
Alone ==
    /\ Listener!Still
    /\ (calls' = calls) \/ (calls < MaxCalls /\ calls' = calls + 1)

LEMMA OwnerCalls ==
    ASSUME Outlet!Next
    PROVE  (calls' = calls) \/ (calls < MaxCalls /\ calls' = calls + 1)
<1>1. CASE Outlet!Dial("connect") \/ Outlet!Dial("setup") \/ Outlet!Shutdown
  <2>1. Outlet!Call
    BY <1>1 DEF Outlet!Dial, Outlet!Shutdown
  <2>2. QED
    BY <2>1 DEF Outlet!Call
<1>2. CASE Outlet!Refused
  BY <1>2 DEF Outlet!Refused
<1>3. CASE Outlet!OwnerStep
  BY <1>3 DEF Outlet!OwnerStep, Outlet!Ready, Outlet!Forget, Outlet!HangUp,
              Outlet!OpenChannel, Outlet!CloseChannel
<1>4. CASE Outlet!HandlerStep
  BY <1>4 DEF Outlet!HandlerStep, Outlet!Handle, Outlet!Publish
<1>5. QED
  BY <1>1, <1>2, <1>3, <1>4 DEF Outlet!Next

LEMMA FeedSteps ==
    ASSUME [Next]_vars
    PROVE  Listener!Next \/ Alone
<1>1. CASE Listener!Next /\ ListenerAlone
  BY <1>1
<1>2. CASE Outlet!Next /\ OutletAlone
  BY <1>2, OwnerCalls DEF OutletAlone, Alone
<1>3. CASE \E t \in Listener!Tasks : Article(t)
  BY <1>3 DEF Article, OutletAlone, Alone, Outlet!Receive
<1>4. CASE MassiveFrame
  BY <1>4 DEF MassiveFrame, OutletAlone, Alone, Outlet!Receive
<1>5. CASE \E m \in Messages : Stopped(m)
  BY <1>5 DEF Stopped, OutletAlone, Alone, Outlet!Interrupt
<1>6. CASE UNCHANGED vars
  BY <1>6 DEF vars, Alone, Listener!Still
<1>7. QED
  BY <1>1, <1>2, <1>3, <1>4, <1>5, <1>6 DEF Next

USE DEF Listener!tasks, Listener!status, Listener!caller, Listener!past, Listener!listener,
        Listener!vars

---------------------------------------------------------------------------
\* What the calls do, by name, for whoever makes them.

Waits == \E c \in Callers : pc[c] = "awaiting"

Launch ==
    /\ simple \/ ~Listener!Alive
    /\ starts < MaxStarts
    /\ starts' = starts + 1 /\ task' = starts + 1 /\ running' = TRUE
    /\ place' = [place EXCEPT ![starts + 1] = "new"]

LEMMA StartCases ==
    ASSUME Listener!Start
    PROVE  /\ crossed' = (crossed \/ Waits)
           /\ Launch \/ UNCHANGED <<starts, task, running, place>>
BY DEF Listener!Start, Launch, Waits

\* stop() either cancels the task and waits for it, or has nothing to wait for.
Cancels(c, j) ==
    /\ Listener!Alive
    /\ cancelled' = cancelled \cup {task}
    /\ awaited' = [awaited EXCEPT ![c] = task]
    /\ pc' = [pc EXCEPT ![c] = "awaiting"]
    /\ UNCHANGED <<task, connected>>

Skips(c, j) ==
    /\ ~Listener!Alive
    /\ awaited' = [awaited EXCEPT ![c] = 0]
    /\ Listener!Finish(c, j)
    /\ UNCHANGED cancelled

LEMMA StopCases ==
    ASSUME NEW c, NEW j, Listener!EnterStop(c, j)
    PROVE  /\ running' = FALSE /\ job' = [job EXCEPT ![c] = j]
           /\ Cancels(c, j) \/ Skips(c, j)
           /\ UNCHANGED <<simple, place, made, reconnects, version, starts, drops, crossed>>
BY DEF Listener!EnterStop, Cancels, Skips

---------------------------------------------------------------------------
\* Types.

LEMMA StartTyped ==
    ASSUME Listener!TypeOK, Listener!Start
    PROVE  /\ crossed' \in BOOLEAN /\ starts' \in 0..MaxStarts /\ starts <= starts'
           /\ task' \in 0..starts' /\ running' \in BOOLEAN
           /\ place' \in [Listener!Tasks -> {"none", "new", "streaming", "resting", "done"}]
<1>1. crossed' \in BOOLEAN
  BY StartCases DEF Listener!TypeOK, Waits
<1>2. CASE Launch
  BY <1>1, <1>2 DEF Launch, Listener!TypeOK, Listener!Tasks
<1>3. CASE UNCHANGED <<starts, task, running, place>>
  BY <1>1, <1>3 DEF Listener!TypeOK
<1>4. QED
  BY <1>2, <1>3, StartCases

LEMMA StopTyped ==
    ASSUME Listener!TypeOK, NEW c \in Callers, NEW j \in {"stop", "restart"},
           Listener!EnterStop(c, j)
    PROVE  /\ cancelled' \subseteq Listener!Tasks
           /\ pc' \in [Callers -> {"idle", "spawned", "awaiting", "pause"}]
           /\ job' \in [Callers -> {"stop", "restart"}] /\ awaited' \in [Callers -> 0..starts]
           /\ task' \in 0..starts /\ running' \in BOOLEAN /\ connected' \in BOOLEAN
<1>0. running' = FALSE /\ job' = [job EXCEPT ![c] = j]
  BY StopCases
<1>1. job' \in [Callers -> {"stop", "restart"}] /\ running' \in BOOLEAN
  BY <1>0 DEF Listener!TypeOK
<1>2. CASE Cancels(c, j)
  <2>1. task \in 1..starts /\ task \in Listener!Tasks
    BY <1>2 DEF Cancels, Listener!Alive, Listener!TypeOK, Listener!Tasks
  <2>2. QED
    BY <1>1, <1>2, <2>1 DEF Cancels, Listener!TypeOK
<1>3. CASE Skips(c, j)
  <2>1. /\ cancelled' = cancelled /\ awaited' = [awaited EXCEPT ![c] = 0]
        /\ task' \in {0, task} /\ connected' \in BOOLEAN
        /\ \E p \in {"pause", "idle"} : pc' = [pc EXCEPT ![c] = p]
    BY <1>3 DEF Skips, Listener!Finish
  <2>2. QED
    BY <1>1, <2>1 DEF Listener!TypeOK
<1>4. QED
  BY <1>2, <1>3, StopCases

LEMMA CallsTyped ==
    ASSUME Listener!TypeOK, NEW c \in Callers, Listener!Calls(c) \/ Listener!CallerStep(c)
    PROVE  Listener!TypeOK'
<1>1. CASE Listener!CallStart(c)
  <2>1. calls' \in 0..MaxCalls /\ calls <= calls'
    BY <1>1 DEF Listener!CallStart, Listener!Call, Listener!TypeOK
  <2>2. Listener!Start /\ wanted' = TRUE
    BY <1>1 DEF Listener!CallStart
  <2>3. UNCHANGED <<simple, cancelled, made, Listener!caller, connected, reconnects, version,
                    drops>>
    BY <1>1 DEF Listener!CallStart
  <2>4. QED
    BY <2>1, <2>2, <2>3, StartTyped DEF Listener!TypeOK
<1>2. CASE Listener!CallStop(c) \/ Listener!CallRestart(c) \/ Listener!Spawned(c)
  <2>1. calls' \in 0..MaxCalls /\ calls <= calls' /\ wanted' \in BOOLEAN
    <3>1. CASE Listener!CallStop(c) \/ Listener!CallRestart(c)
      <4>1. calls < MaxCalls /\ calls' = calls + 1
        BY <3>1 DEF Listener!CallStop, Listener!CallRestart, Listener!Call
      <4>2. wanted' \in BOOLEAN
        BY <3>1 DEF Listener!CallStop, Listener!CallRestart
      <4>3. QED
        BY <4>1, <4>2 DEF Listener!TypeOK
    <3>2. CASE Listener!Spawned(c)
      BY <3>2 DEF Listener!Spawned, Listener!TypeOK
    <3>3. QED
      BY <1>2, <3>1, <3>2
  <2>2. \E j \in {"stop", "restart"} : Listener!EnterStop(c, j)
    BY <1>2 DEF Listener!CallStop, Listener!CallRestart, Listener!Spawned
  <2>3. UNCHANGED <<simple, place, made, reconnects, version, starts, drops, crossed>>
    BY <2>2, StopCases
  <2>4. QED
    BY <2>1, <2>2, <2>3, StopTyped DEF Listener!TypeOK
<1>3. CASE Listener!Set(c)
  <2>1. /\ calls' \in 0..MaxCalls /\ version' \in 0..calls'
        /\ version <= version' /\ version \in Nat /\ version' \in Nat
    BY <1>3 DEF Listener!Set, Listener!Call, Listener!TypeOK
  <2>2. pc' \in [Callers -> {"idle", "spawned", "awaiting", "pause"}]
    BY <1>3 DEF Listener!Set, Listener!TypeOK
  <2>3. UNCHANGED <<simple, Listener!tasks, job, awaited, Listener!status, reconnects,
                    starts, drops, Listener!past>>
    BY <1>3 DEF Listener!Set
  <2>4. made' \in [Listener!Tasks -> 0..version']
    BY <2>1, <2>3 DEF Listener!TypeOK
  <2>5. QED
    BY <2>1, <2>2, <2>3, <2>4 DEF Listener!TypeOK
<1>4. CASE Listener!Awaited(c)
  <2>1. /\ task' \in {0, task} /\ connected' \in BOOLEAN
        /\ \E p \in {"pause", "idle"} : pc' = [pc EXCEPT ![c] = p]
        /\ UNCHANGED <<simple, Listener!tasks, job, awaited, running, reconnects, version, starts,
                       drops, Listener!past, calls>>
    BY <1>4 DEF Listener!Awaited, Listener!Finish
  <2>2. QED
    BY <2>1 DEF Listener!TypeOK
<1>5. CASE Listener!Paused(c)
  <2>1. Listener!Start /\ pc' = [pc EXCEPT ![c] = "idle"]
    BY <1>5 DEF Listener!Paused
  <2>2. UNCHANGED <<simple, cancelled, made, job, awaited, connected, reconnects,
                    version, drops, wanted, calls>>
    BY <1>5 DEF Listener!Paused
  <2>3. QED
    BY <2>1, <2>2, StartTyped DEF Listener!TypeOK
<1>6. QED
  BY <1>1, <1>2, <1>3, <1>4, <1>5 DEF Listener!Calls, Listener!CallerStep

LEMMA TasksTyped ==
    ASSUME Listener!TypeOK, NEW t \in Listener!Tasks,
           Listener!TaskStep(t) \/ Listener!Drop(t) \/ Listener!SimpleDrop(t)
    PROVE  Listener!TypeOK'
<1> USE DEF Listener!EndLoop, Listener!Connect, Listener!TypeOK
<1> DEFINE Places == {"none", "new", "streaming", "resting", "done"}
<1>1. CASE Listener!Head(t)
  <2>1. /\ UNCHANGED <<simple, cancelled, Listener!caller, task, running, reconnects, version,
                       starts, drops, Listener!past, calls>>
        /\ \E p \in Places : place' = [place EXCEPT ![t] = p]
        /\ connected' \in BOOLEAN
        /\ made' = [made EXCEPT ![t] = version] \/ made' = made
    BY <1>1 DEF Listener!Head
  <2>2. QED
    BY <2>1
<1>2. CASE Listener!Cancelled(t)
  BY <1>2 DEF Listener!Cancelled
<1>3. CASE Listener!Drop(t)
  <2>1. drops' \in 0..MaxDrops /\ reconnects' \in 0..drops'
    BY <1>3 DEF Listener!Drop, Listener!Ends
  <2>2. UNCHANGED <<simple, cancelled, made, Listener!caller, task, running, version, starts,
                    Listener!past, calls>>
    BY <1>3 DEF Listener!Drop, Listener!Ends
  <2>3. /\ place' \in [Listener!Tasks -> {"none", "new", "streaming", "resting", "done"}]
        /\ connected' \in BOOLEAN
    BY <1>3 DEF Listener!Drop
  <2>4. QED
    BY <2>1, <2>2, <2>3
<1>4. CASE Listener!SimpleDrop(t)
  <2>1. /\ UNCHANGED <<simple, cancelled, Listener!caller, task, running, reconnects, version,
                       starts, Listener!past, calls>>
        /\ \E p \in Places : place' = [place EXCEPT ![t] = p]
        /\ connected' \in BOOLEAN
        /\ made' = [made EXCEPT ![t] = version] \/ made' = made
    BY <1>4 DEF Listener!SimpleDrop, Listener!Ends
  <2>2. drops' \in 0..MaxDrops /\ drops <= drops'
    BY <1>4 DEF Listener!SimpleDrop, Listener!Ends
  <2>3. QED
    BY <2>1, <2>2
<1>5. QED
  BY <1>1, <1>2, <1>3, <1>4 DEF Listener!TaskStep

LEMMA StepTyped == Listener!TypeOK /\ [Next]_vars => Listener!TypeOK'
<1> SUFFICES ASSUME Listener!TypeOK, [Next]_vars PROVE Listener!TypeOK'
  OBVIOUS
<1>1. CASE Listener!Next
  BY <1>1, CallsTyped, TasksTyped DEF Listener!Next
<1>2. CASE Alone
  <2>1. Listener!Still
    BY <1>2 DEF Alone
  <2>2. calls' \in 0..MaxCalls /\ version \in 0..calls'
    BY <1>2 DEF Alone, Listener!TypeOK
  <2>3. QED
    BY <2>1, <2>2 DEF Listener!Still, Listener!TypeOK
<1>3. QED
  BY <1>1, <1>2, FeedSteps

LEMMA InitTyped == Listener!Init => Listener!TypeOK
<1> SUFFICES ASSUME Listener!Init PROVE Listener!TypeOK
  OBVIOUS
<1>1. /\ place \in [Listener!Tasks -> {"none"}] /\ made \in [Listener!Tasks -> {0}]
      /\ pc \in [Callers -> {"idle"}] /\ job \in [Callers -> {"stop"}]
      /\ awaited \in [Callers -> {0}]
  BY DEF Listener!Init
<1>2. /\ cancelled = {} /\ task = 0 /\ reconnects = 0 /\ version = 0 /\ starts = 0
      /\ calls = 0 /\ drops = 0
  BY DEF Listener!Init
<1>3. /\ simple \in BOOLEAN /\ running \in BOOLEAN /\ connected \in BOOLEAN
      /\ wanted \in BOOLEAN /\ crossed \in BOOLEAN
  BY DEF Listener!Init
<1>4. QED
  BY <1>1, <1>2, <1>3 DEF Listener!TypeOK

\* The variables keep their types; in particular the reconnects counted are
\* connections that ended.
THEOREM TypeCorrect == Spec => []Listener!TypeOK
<1>1. Init => Listener!TypeOK
  BY InitTyped DEF Init
<1>2. QED
  BY <1>1, StepTyped, PTL DEF Spec

---------------------------------------------------------------------------
\* The inductive invariant. Until a start() runs while a stop() waits, there is
\* one task at work and it is _task: whoever cancels it waits for its end, and
\* only then forgets it.

\* The handle names whatever is alive.
OneTask == \A t \in Listener!Tasks : Listener!Live(t) => task = t

\* A cancelled task is alive, and has somebody who waits for it.
CancelledAwaited ==
    \A t \in cancelled :
        Listener!Live(t) /\ \E c \in Callers : pc[c] = "awaiting" /\ awaited[c] = t

\* Whoever waits waits for the handle, unless another has reset it.
AwaitsHandle == \A c \in Callers : pc[c] = "awaiting" => task \in {0, awaited[c]}

\* The simple listener has no restart, and when it is not wanted nothing of it
\* is left that is not cancelled.
SimpleStops ==
    simple => /\ \A c \in Callers : pc[c] \in {"idle", "awaiting"} /\ job[c] = "stop"
              /\ wanted \/ \A t \in Listener!Tasks : Listener!Live(t) => t \in cancelled

\* A stream is behind the flag, and made with the last configuration or about
\* to be restarted.
StreamFlagged ==
    ~simple => \A t \in Listener!Tasks :
        Listener!Streaming(t) =>
            /\ connected
            /\ made[t] = version \/ \E c \in Callers : pc[c] = "spawned"

FeedInv == ~crossed => /\ OneTask
                       /\ CancelledAwaited
                       /\ AwaitsHandle
                       /\ SimpleStops
                       /\ StreamFlagged

LEMMA InitFeed == Listener!Init => FeedInv
BY DEF Listener!Init, FeedInv, OneTask, CancelledAwaited, AwaitsHandle, SimpleStops, StreamFlagged,
       Listener!Live, Listener!Streaming

\* A task that is not alive is not streaming.
LEMMA StreamLives ==
    ASSUME NEW t \in Listener!Tasks, Listener!Streaming(t) PROVE Listener!Live(t)
BY DEF Listener!Streaming, Listener!Live

\* start(): a new task comes only when nothing is alive.
LEMMA StartsAlone ==
    ASSUME Listener!TypeOK, FeedInv, Listener!Start, ~crossed', simple => ~wanted,
           NEW t \in Listener!Tasks, Launch
    PROVE  ~Listener!Live(t)
<1>1. ~crossed /\ ~Waits
  BY StartCases
<1>2. OneTask /\ CancelledAwaited /\ SimpleStops
  BY <1>1 DEF FeedInv
<1>3. t \notin cancelled
  BY <1>1, <1>2 DEF CancelledAwaited, Waits
<1>4. CASE simple
  BY <1>2, <1>3, <1>4 DEF SimpleStops
<1>5. CASE ~simple
  <2>1. ~Listener!Alive
    BY <1>5 DEF Launch
  <2>2. t # 0
    BY DEF Listener!Tasks
  <2>3. QED
    BY <1>2, <2>1, <2>2 DEF OneTask, Listener!Alive
<1>6. QED
  BY <1>4, <1>5

LEMMA StartFeed ==
    ASSUME Listener!TypeOK, FeedInv, Listener!Start, ~crossed',
           simple => ~wanted, wanted' \/ ~simple,
           UNCHANGED <<simple, cancelled, made, job, awaited, connected, version>>,
           NEW c \in Callers,
           \/ pc' = pc
           \/ ~simple /\ pc[c] = "pause" /\ pc' = [pc EXCEPT ![c] = "idle"]
    PROVE  FeedInv'
<1>1. ~crossed /\ ~Waits
  BY StartCases
<1>2. OneTask /\ CancelledAwaited /\ AwaitsHandle /\ SimpleStops /\ StreamFlagged
  BY <1>1 DEF FeedInv
<1>3. cancelled = {}
  BY <1>1, <1>2 DEF CancelledAwaited, Waits
<1>4. \A d \in Callers : pc'[d] # "awaiting"
  BY <1>1 DEF Waits, Listener!TypeOK
<1>5. \A d \in Callers : pc[d] = "spawned" => pc'[d] = "spawned"
  BY DEF Listener!TypeOK
<1>6. CancelledAwaited' /\ AwaitsHandle'
  BY <1>3, <1>4 DEF CancelledAwaited, AwaitsHandle
<1>7. SimpleStops'
  BY <1>2 DEF SimpleStops
<1>8. CASE Launch
  <2>1. \A t \in Listener!Tasks : ~Listener!Live(t)
    BY <1>8, StartsAlone
  <2>2. starts + 1 \in Listener!Tasks /\ task' = starts + 1
    BY <1>8 DEF Launch, Listener!TypeOK, Listener!Tasks
  <2>3. \A t \in Listener!Tasks : place'[t] = IF t = starts + 1 THEN "new" ELSE place[t]
    BY <1>8, <2>2 DEF Launch, Listener!TypeOK
  <2>4. \A t \in Listener!Tasks : Listener!Live(t)' => t = starts + 1
    BY <2>1, <2>3 DEF Listener!Live
  <2>5. OneTask'
    BY <2>2, <2>4 DEF OneTask
  <2>6. \A t \in Listener!Tasks : ~Listener!Streaming(t)'
    BY <2>1, <2>3 DEF Listener!Live, Listener!Streaming
  <2>7. StreamFlagged'
    BY <2>6 DEF StreamFlagged
  <2>8. QED
    BY <1>6, <1>7, <2>5, <2>7 DEF FeedInv
<1>9. CASE UNCHANGED <<starts, task, running, place>>
  <2>1. OneTask'
    BY <1>2, <1>9 DEF OneTask, Listener!Live
  <2>2. StreamFlagged'
    BY <1>2, <1>5, <1>9 DEF StreamFlagged, Listener!Streaming
  <2>3. QED
    BY <1>6, <1>7, <2>1, <2>2 DEF FeedInv
<1>10. QED
  BY <1>8, <1>9, StartCases

\* stop(): what is alive is cancelled, and the handle forgotten only when there
\* is nothing.
LEMMA StopFeed ==
    ASSUME Listener!TypeOK, FeedInv, NEW c \in Callers, NEW j \in {"stop", "restart"},
           Listener!EnterStop(c, j),
           pc[c] \in {"idle", "spawned"}, simple => j = "stop"
    PROVE  FeedInv'
<1> SUFFICES ASSUME ~crossed' PROVE FeedInv'
  BY DEF FeedInv
<1>1. /\ ~crossed
      /\ UNCHANGED <<simple, place, made, version, crossed>>
      /\ job' = [job EXCEPT ![c] = j]
  BY StopCases
<1>2. OneTask /\ CancelledAwaited /\ AwaitsHandle /\ SimpleStops
  BY <1>1 DEF FeedInv
<1>3. CASE Cancels(c, j)
  <2>1. task \in Listener!Tasks /\ Listener!Alive
    BY <1>3 DEF Cancels, Listener!Alive, Listener!TypeOK, Listener!Tasks
  <2>2. /\ \A d \in Callers : pc'[d] = IF d = c THEN "awaiting" ELSE pc[d]
        /\ \A d \in Callers : awaited'[d] = IF d = c THEN task ELSE awaited[d]
        /\ cancelled' = cancelled \cup {task} /\ task' = task
    BY <1>3 DEF Cancels, Listener!TypeOK
  <2>3. OneTask'
    BY <1>1, <1>2, <2>2 DEF OneTask, Listener!Live
  <2>4. CancelledAwaited'
    <3> SUFFICES ASSUME NEW t \in cancelled'
                 PROVE  /\ Listener!Live(t)'
                        /\ \E d \in Callers : pc'[d] = "awaiting" /\ awaited'[d] = t
      BY DEF CancelledAwaited
    <3>l. \A u \in Listener!Tasks : Listener!Live(u)' = Listener!Live(u)
      BY <1>1 DEF Listener!Live
    <3>1. CASE t = task
      BY <2>1, <2>2, <3>l, <3>1 DEF Listener!Alive
    <3>2. CASE t # task
      <4>1. t \in Listener!Tasks /\ Listener!Live(t)
        BY <1>2, <2>2, <3>2 DEF CancelledAwaited, Listener!TypeOK
      <4>2. PICK d \in Callers : pc[d] = "awaiting" /\ awaited[d] = t
        BY <1>2, <2>2, <3>2 DEF CancelledAwaited
      <4>3. d # c
        BY <4>2
      <4>4. QED
        BY <2>2, <3>l, <4>1, <4>2, <4>3
    <3>3. QED
      BY <3>1, <3>2
  <2>5. AwaitsHandle'
    BY <1>2, <2>2 DEF AwaitsHandle
  <2>6. \A t \in Listener!Tasks : Listener!Live(t)' => t \in cancelled'
    BY <2>2, <2>3 DEF OneTask
  <2>7. SimpleStops'
    BY <1>1, <1>2, <2>2, <2>6 DEF SimpleStops, Listener!TypeOK
  <2>8. StreamFlagged'
    BY <2>6 DEF StreamFlagged, Listener!Streaming, Listener!Live
  <2>9. QED
    BY <2>3, <2>4, <2>5, <2>7, <2>8 DEF FeedInv
<1>4. CASE Skips(c, j)
  <2>1. \A t \in Listener!Tasks : ~Listener!Live(t)
    <3>1. ~Listener!Alive /\ \A t \in Listener!Tasks : t # 0
      BY <1>4 DEF Skips, Listener!Tasks
    <3>2. QED
      BY <1>2, <3>1 DEF OneTask, Listener!Alive
  <2>2. \A t \in Listener!Tasks : ~Listener!Live(t)' /\ ~Listener!Streaming(t)'
    BY <1>1, <2>1 DEF Listener!Live, Listener!Streaming
  <2>3. /\ \A d \in Callers : pc'[d] = IF d # c THEN pc[d]
                                       ELSE IF j = "restart" THEN "pause" ELSE "idle"
        /\ \A d \in Callers : awaited'[d] = IF d = c THEN 0 ELSE awaited[d]
        /\ cancelled' = cancelled /\ task' \in {0, task}
    BY <1>4 DEF Skips, Listener!Finish, Listener!TypeOK
  <2>4. CancelledAwaited'
    BY <1>2, <2>1, <2>3 DEF CancelledAwaited, Listener!TypeOK
  <2>5. AwaitsHandle'
    BY <1>2, <2>3 DEF AwaitsHandle
  <2>6. SimpleStops'
    BY <1>1, <1>2, <2>2, <2>3 DEF SimpleStops, Listener!TypeOK
  <2>7. QED
    BY <2>2, <2>4, <2>5, <2>6 DEF FeedInv, OneTask, StreamFlagged
<1>5. QED
  BY <1>3, <1>4, StopCases

\* The end of a wait, which is the end of all that was alive.
LEMMA AwaitedFeed ==
    ASSUME Listener!TypeOK, FeedInv, NEW c \in Callers, Listener!Awaited(c)
    PROVE  FeedInv'
<1> SUFFICES ASSUME ~crossed' PROVE FeedInv'
  BY DEF FeedInv
<1>1. /\ UNCHANGED <<simple, place, cancelled, made, job, awaited, version, wanted, crossed>>
      /\ pc[c] = "awaiting" /\ ~Listener!Live(awaited[c]) /\ Listener!Finish(c, job[c])
  BY DEF Listener!Awaited
<1>2. OneTask /\ CancelledAwaited /\ AwaitsHandle /\ SimpleStops
  BY <1>1 DEF FeedInv
<1>3. \A t \in Listener!Tasks : ~Listener!Live(t)
  <2>1. task \in {0, awaited[c]} /\ \A t \in Listener!Tasks : t # 0
    BY <1>1, <1>2 DEF AwaitsHandle, Listener!Tasks
  <2>2. QED
    BY <1>1, <1>2, <2>1 DEF OneTask
<1>4. \A t \in Listener!Tasks : ~Listener!Live(t)' /\ ~Listener!Streaming(t)'
  BY <1>1, <1>3 DEF Listener!Live, Listener!Streaming
<1>5. /\ \A d \in Callers : pc'[d] = IF d # c THEN pc[d]
                                     ELSE IF job[c] = "restart" THEN "pause" ELSE "idle"
      /\ task' \in {0, task}
  BY <1>1 DEF Listener!Finish, Listener!TypeOK
<1>6. CancelledAwaited' /\ AwaitsHandle'
  BY <1>1, <1>2, <1>3, <1>5 DEF CancelledAwaited, AwaitsHandle, Listener!TypeOK
<1>7. SimpleStops'
  BY <1>1, <1>2, <1>4, <1>5 DEF SimpleStops
<1>8. QED
  BY <1>4, <1>6, <1>7 DEF FeedInv, OneTask, StreamFlagged

LEMMA CallsFeed ==
    ASSUME Listener!TypeOK, FeedInv, NEW c \in Callers, Listener!Calls(c) \/ Listener!CallerStep(c)
    PROVE  FeedInv'
<1> SUFFICES ASSUME ~crossed' PROVE FeedInv'
  BY DEF FeedInv
<1>0. ~crossed
  BY StartCases, StopCases
     DEF Listener!Calls, Listener!CallerStep, Listener!CallStart, Listener!CallStop,
         Listener!CallRestart, Listener!Set, Listener!Spawned, Listener!Awaited, Listener!Paused
<1>1. OneTask /\ CancelledAwaited /\ AwaitsHandle /\ SimpleStops /\ StreamFlagged
  BY <1>0 DEF FeedInv
<1>2. CASE Listener!CallStart(c)
  BY <1>2, StartFeed DEF Listener!CallStart
<1>3. CASE Listener!CallStop(c) \/ Listener!CallRestart(c)
  <2>1. /\ pc[c] = "idle"
        /\ \E j \in {"stop", "restart"} : Listener!EnterStop(c, j) /\ (simple => j = "stop")
    BY <1>3 DEF Listener!CallStop, Listener!CallRestart, Listener!Call
  <2>2. QED
    BY <2>1, StopFeed
<1>4. CASE Listener!Spawned(c)
  <2>1. ~simple /\ pc[c] = "spawned" /\ Listener!EnterStop(c, "restart")
    BY <1>1, <1>4 DEF Listener!Spawned, SimpleStops
  <2>2. QED
    BY <2>1, StopFeed
<1>5. CASE Listener!Set(c)
  <2>1. /\ UNCHANGED <<simple, place, cancelled, made, awaited, job, task, connected, wanted,
                       crossed>>
        /\ ~simple /\ pc[c] = "idle"
        /\ pc' = IF connected THEN [pc EXCEPT ![c] = "spawned"] ELSE pc
    BY <1>5 DEF Listener!Set, Listener!Call
  <2>2. \A d \in Callers : pc'[d] = IF d = c /\ connected THEN "spawned" ELSE pc[d]
    BY <2>1 DEF Listener!TypeOK
  <2>3. OneTask'
    BY <1>1, <2>1 DEF OneTask, Listener!Live
  <2>4. CancelledAwaited'
    BY <1>1, <2>1, <2>2 DEF CancelledAwaited, Listener!Live
  <2>5. AwaitsHandle'
    BY <1>1, <2>1, <2>2 DEF AwaitsHandle
  <2>6. SimpleStops'
    BY <2>1 DEF SimpleStops
  <2>7. StreamFlagged'
    BY <1>1, <2>1, <2>2 DEF StreamFlagged, Listener!Streaming
  <2>8. QED
    BY <2>3, <2>4, <2>5, <2>6, <2>7 DEF FeedInv
<1>6. CASE Listener!Awaited(c)
  BY <1>6, AwaitedFeed
<1>7. CASE Listener!Paused(c)
  <2>1. ~simple
    BY <1>1, <1>7 DEF Listener!Paused, SimpleStops
  <2>2. QED
    BY <1>7, <2>1, StartFeed DEF Listener!Paused
<1>8. QED
  BY <1>2, <1>3, <1>4, <1>5, <1>6, <1>7 DEF Listener!Calls, Listener!CallerStep

\* What a task does on its own makes nothing alive, and a stream only with the
\* flag and the last configuration.
LEMMA TaskFeed ==
    ASSUME Listener!TypeOK, FeedInv, NEW t \in Listener!Tasks, Listener!Live(t),
           UNCHANGED <<simple, Listener!caller, task, version, Listener!past>>,
           NEW p \in {"streaming", "resting", "done"}, place' = [place EXCEPT ![t] = p],
           \/ t \notin cancelled /\ cancelled' = cancelled
           \/ p = "done" /\ cancelled' = cancelled \ {t},
           p = "streaming" => connected' /\ made'[t] = version
    PROVE  FeedInv'
<1> SUFFICES ASSUME ~crossed' PROVE FeedInv'
  BY DEF FeedInv
<1>1. OneTask /\ CancelledAwaited /\ AwaitsHandle /\ SimpleStops
  BY DEF FeedInv
<1>2. \A u \in Listener!Tasks : place'[u] = IF u = t THEN p ELSE place[u]
  BY DEF Listener!TypeOK
<1>3. \A u \in Listener!Tasks : /\ Listener!Live(u)' => Listener!Live(u)
                                /\ Listener!Live(u)' = Listener!Live(u) \/ u = t
  BY <1>2 DEF Listener!Live
<1>4. OneTask'
  BY <1>1, <1>3 DEF OneTask
<1>5. cancelled' \subseteq cancelled /\ t \notin cancelled'
  OBVIOUS
<1>6. CancelledAwaited'
  BY <1>1, <1>3, <1>5 DEF CancelledAwaited, Listener!TypeOK
<1>7. AwaitsHandle'
  BY <1>1 DEF AwaitsHandle
<1>8. SimpleStops'
  <2>1. ASSUME NEW u \in Listener!Tasks, Listener!Live(u)', u \in cancelled
        PROVE  u \in cancelled'
    BY <1>2, <2>1 DEF Listener!Live
  <2>2. QED
    BY <1>1, <1>3, <2>1 DEF SimpleStops
<1>9. StreamFlagged'
  <2>1. ASSUME NEW u \in Listener!Tasks, Listener!Streaming(u)' PROVE u = t /\ p = "streaming"
    <3>1. Listener!Live(u)'
      BY <2>1 DEF Listener!Streaming, Listener!Live
    <3>2. Listener!Live(u) /\ task = u /\ task = t
      BY <1>1, <1>3, <3>1 DEF OneTask
    <3>3. QED
      BY <1>2, <2>1, <3>2 DEF Listener!Streaming
  <2>2. QED
    BY <2>1 DEF StreamFlagged
<1>10. QED
  BY <1>4, <1>6, <1>7, <1>8, <1>9 DEF FeedInv

LEMMA TasksFeed ==
    ASSUME Listener!TypeOK, FeedInv, NEW t \in Listener!Tasks,
           Listener!TaskStep(t) \/ Listener!Drop(t) \/ Listener!SimpleDrop(t)
    PROVE  FeedInv'
<1>1. CASE Listener!Head(t)
  <2>1. /\ Listener!Live(t) /\ t \notin cancelled
        /\ UNCHANGED <<simple, cancelled, Listener!caller, task, version, Listener!past>>
    BY <1>1 DEF Listener!Head, Listener!Live
  <2>2. CASE running
    BY <1>1, <2>1, <2>2, TaskFeed DEF Listener!Head, Listener!Connect, Listener!TypeOK
  <2>3. CASE ~running
    BY <1>1, <2>1, <2>3, TaskFeed DEF Listener!Head, Listener!EndLoop
  <2>4. QED
    BY <2>2, <2>3
<1>2. CASE Listener!Cancelled(t)
  <2>1. /\ Listener!Live(t) /\ t \in cancelled /\ cancelled' = cancelled \ {t}
        /\ place' = [place EXCEPT ![t] = "done"]
        /\ UNCHANGED <<simple, Listener!caller, task, version, Listener!past>>
    BY <1>2 DEF Listener!Cancelled, Listener!EndLoop
  <2>2. QED
    BY <2>1, TaskFeed
<1>3. CASE Listener!Drop(t)
  <2>1. /\ Listener!Live(t) /\ t \notin cancelled
        /\ UNCHANGED <<simple, cancelled, Listener!caller, task, version, Listener!past>>
        /\ \E p \in {"resting", "done"} : place' = [place EXCEPT ![t] = p]
    BY <1>3 DEF Listener!Drop, Listener!Ends, Listener!Streaming, Listener!EndLoop, Listener!Live
  <2>2. QED
    BY <2>1, TaskFeed
<1>4. CASE Listener!SimpleDrop(t)
  <2>1. /\ Listener!Live(t) /\ t \notin cancelled
        /\ UNCHANGED <<simple, cancelled, Listener!caller, task, version, Listener!past>>
    BY <1>4 DEF Listener!SimpleDrop, Listener!Ends, Listener!Streaming, Listener!Live
  <2>2. CASE Listener!Connect(t)
    BY <2>1, <2>2, TaskFeed DEF Listener!Connect, Listener!TypeOK
  <2>3. CASE ~Listener!Connect(t)
    <3>1. \E p \in {"resting", "done"} : place' = [place EXCEPT ![t] = p]
      BY <1>4, <2>3 DEF Listener!SimpleDrop
    <3>2. QED
      BY <2>1, <3>1, TaskFeed
  <2>4. QED
    BY <2>2, <2>3
<1>5. QED
  BY <1>1, <1>2, <1>3, <1>4 DEF Listener!TaskStep

LEMMA StepFeed == Listener!TypeOK /\ FeedInv /\ [Next]_vars => FeedInv'
<1> SUFFICES ASSUME Listener!TypeOK, FeedInv, [Next]_vars PROVE FeedInv'
  OBVIOUS
<1>1. CASE Listener!Next
  BY <1>1, CallsFeed, TasksFeed DEF Listener!Next
<1>2. CASE Alone
  BY <1>2 DEF Alone, Listener!Still, FeedInv, OneTask, CancelledAwaited, AwaitsHandle,
              SimpleStops, StreamFlagged, Listener!Live, Listener!Streaming
<1>3. QED
  BY <1>1, <1>2, FeedSteps

\* The handle names the task at work, so that stop() reaches it, until a
\* start() comes while a stop() waits.
THEOREM HandleReachesTask == Spec => []FeedOwned
<1>1. FeedInv => FeedOwned
  BY DEF FeedInv, OneTask, FeedOwned, Listener!FeedOwned
<1>2. Init => Listener!TypeOK /\ FeedInv
  BY InitTyped, InitFeed DEF Init
<1>3. QED
  BY <1>1, <1>2, StepTyped, StepFeed, PTL DEF Spec

\* A stream has the configuration that the setters left, when no call is under
\* way.
THEOREM SettingsReachStream == Spec => []ConfigApplied
<1>1. FeedInv => ConfigApplied
  BY DEF FeedInv, StreamFlagged, ConfigApplied, Listener!ConfigApplied, Listener!Busy
<1>2. Init => Listener!TypeOK /\ FeedInv
  BY InitTyped, InitFeed DEF Init
<1>3. QED
  BY <1>1, <1>2, StepTyped, StepFeed, PTL DEF Spec

---------------------------------------------------------------------------
\* The publisher. A connection replaced while it is open is forsaken; without
\* that the one that is open, if any, is the one shutdown() closes.
OneOpen == ~forsaken => /\ open \subseteq {connection}
                        /\ ended => open = {}

\* Whatever leaves the connections alone may make a shutdown() unended only.
Quiet ==
    /\ UNCHANGED <<connection, open, forsaken>>
    /\ (ended' = ended) \/ (ended' = FALSE)

LEMMA QuietSteps ==
    ASSUME Outlet!Next
    PROVE  \/ Outlet!Dial("connect") \/ Outlet!Dial("setup") \/ Outlet!HangUp \/ Quiet
<1> USE DEF Outlet!rabbit, Outlet!history
<1>1. CASE Outlet!Shutdown
  BY <1>1 DEF Outlet!Shutdown, Quiet
<1>2. CASE Outlet!Refused
  BY <1>2 DEF Outlet!Refused, Quiet
<1>3. CASE Outlet!OwnerStep
  BY <1>3 DEF Outlet!OwnerStep, Outlet!Ready, Outlet!Forget, Outlet!OpenChannel,
              Outlet!CloseChannel, Quiet
<1>4. CASE Outlet!HandlerStep
  BY <1>4 DEF Outlet!HandlerStep, Outlet!Handle, Outlet!Publish, Quiet
<1>5. QED
  BY <1>1, <1>2, <1>3, <1>4 DEF Outlet!Next

LEMMA StepOpen == OneOpen /\ [Next]_vars => OneOpen'
<1> SUFFICES ASSUME OneOpen, [Next]_vars PROVE OneOpen'
  OBVIOUS
<1>1. CASE Outlet!Dial("connect") \/ Outlet!Dial("setup")
  BY <1>1 DEF Outlet!Dial, OneOpen
<1>2. CASE Outlet!HangUp
  BY <1>2 DEF Outlet!HangUp, OneOpen
<1>3. CASE Quiet
  BY <1>3 DEF Quiet, OneOpen
<1>4. CASE Listener!Next /\ ListenerAlone
  BY <1>3, <1>4 DEF ListenerAlone, Outlet!Still, Outlet!queues, Outlet!rabbit,
                    Outlet!history, Quiet
<1>5. CASE \E t \in Listener!Tasks : Article(t)
  BY <1>3, <1>5 DEF Article, Outlet!Receive, Outlet!rabbit, Quiet
<1>6. CASE MassiveFrame
  BY <1>3, <1>6 DEF MassiveFrame, Outlet!Receive, Outlet!rabbit, Quiet
<1>7. CASE \E m \in Messages : Stopped(m)
  BY <1>3, <1>7 DEF Stopped, Outlet!Interrupt, Outlet!rabbit, Quiet
<1>8. CASE UNCHANGED vars
  BY <1>3, <1>8 DEF vars, Outlet!queues, Outlet!rabbit, Outlet!history, Quiet
<1>9. QED
  BY <1>1, <1>2, <1>3, <1>4, <1>5, <1>6, <1>7, <1>8, QuietSteps DEF Next

\* shutdown() leaves no connection open, whichever calls failed before it, unless
\* a connection was made while another was open.
THEOREM ShutdownClosesAll == Spec => []ShutdownCloses
<1>1. Init => OneOpen
  BY DEF Init, Outlet!Init, OneOpen
<1>2. OneOpen => ShutdownCloses
  BY DEF OneOpen, ShutdownCloses, Outlet!ShutdownCloses
<1>3. QED
  BY <1>1, <1>2, StepOpen, PTL DEF Spec

---------------------------------------------------------------------------
\* Messages. A frame goes its way as one until its publishes begin, and as long
\* as the queues are set up each of these fails only when RabbitMQ refuses it.

Targets == targets \subseteq Queues /\ targets # {} /\ (massive \/ targets = {News})

Letters ==
    /\ fate \in [Messages -> {"none", "waiting", "publishing", "sent", "lost"}]
    /\ frame \in [Messages -> Messages]
    /\ \A m \in Messages : fate[m] # "none" => queue[m] \in targets \cup {Bad}

\* The connections there can be, by number.
Lines ==
    /\ dialled \in Nat /\ 0 \notin open
    /\ channel = [q \in Queues |-> channel[q]]
    /\ owner \in {"connect", "setup"} => connection \in open

\* Message k has come in the frame of m.
Mates(m, k) == fate[k] # "none" /\ frame[k] = frame[m]

\* A frame's name is one of its messages, so that another frame's differs.
FramesApart == \A m \in Messages : fate[m] # "none" => fate[frame[m]] # "none"

\* All of a frame wait, or none; those published could all be encoded.
FramesTogether ==
    \A m, k \in Messages : Mates(m, k) =>
        /\ fate[m] = "waiting" => fate[k] = "waiting"
        /\ fate[m] = "publishing" => queue[k] # Bad

\* While a message is in flight that is not counted as unserved the queues are
\* set up.
Served ==
    \A m \in Outlet!InFlight :
        m \notin unserved => Outlet!Serving /\ owner \notin {"shutdown", "hangup"}

\* LostForCause, message by message.
LostBecause ==
    \A m \in Messages : fate[m] = "lost" =>
        \/ m \in refused \cup unserved
        \/ \E k \in Messages : Mates(m, k) /\ queue[k] = Bad

Post == Targets /\ Letters /\ Lines /\ FramesApart /\ FramesTogether /\ Served
            /\ LostBecause

LEMMA InitPost == Init => Post
<1> SUFFICES ASSUME Init PROVE Post
  OBVIOUS
<1>1. Outlet!Init /\ targets = IF massive THEN Queues \ {News} ELSE {News}
  BY DEF Init
<1>2. Targets
  BY <1>1, NewsAssumption DEF Targets
<1>3. \A m \in Messages : fate[m] = "none"
  BY <1>1 DEF Outlet!Init
<1>4. Letters
  BY <1>1, <1>3 DEF Outlet!Init, Letters
<1>5. Lines
  BY <1>1 DEF Outlet!Init, Lines
<1>6. FramesApart /\ FramesTogether /\ Served /\ LostBecause
  BY <1>3 DEF FramesApart, FramesTogether, Mates, Served, Outlet!InFlight, LostBecause
<1>7. QED
  BY <1>2, <1>4, <1>5, <1>6 DEF Post

\* What the owner does leaves the messages as they are.
LettersStay ==
    /\ UNCHANGED <<massive, targets, fate, frame, queue, refused>>
    /\ unserved \subseteq unserved'

LEMMA StayPost ==
    ASSUME Post, LettersStay, Lines', Served'
    PROVE  Post'
<1>1. Targets' /\ Letters' /\ FramesApart' /\ FramesTogether'
  BY DEF Post, LettersStay, Targets, Letters, FramesApart, FramesTogether, Mates
<1>2. LostBecause'
  BY DEF Post, LettersStay, LostBecause, Mates
<1>3. QED
  BY <1>1, <1>2 DEF Post

\* A step of shutdown() after the first finds every message in flight unserved.
LEMMA Deserted ==
    ASSUME Post, owner \in {"shutdown", "hangup"}, LettersStay
    PROVE  Served'
BY DEF Post, Served, LettersStay, Outlet!InFlight

LEMMA OwnerPost ==
    ASSUME Post, massive' = massive,
           \/ Outlet!Dial("connect") \/ Outlet!Dial("setup") \/ Outlet!Shutdown
           \/ Outlet!Refused \/ Outlet!OwnerStep
    PROVE  Post'
<1> USE DEF Outlet!call, Outlet!rabbit, Outlet!message, Outlet!history
<1>0. Lines /\ Served /\ Targets
  BY DEF Post
<1>1. CASE Outlet!Dial("connect") \/ Outlet!Dial("setup")
  <2>1. /\ LettersStay /\ UNCHANGED <<channel, closed, unserved>>
        /\ dialled' = dialled + 1 /\ connection' = dialled + 1
        /\ open' = open \cup {dialled + 1} /\ owner' \in {"connect", "setup"}
    BY <1>1 DEF Outlet!Dial, LettersStay
  <2>2. Lines'
    BY <1>0, <2>1 DEF Lines
  <2>3. Served'
    BY <1>0, <2>1 DEF Served, Outlet!InFlight, Outlet!Serving, LettersStay
  <2>4. QED
    BY <2>1, <2>2, <2>3, StayPost
<1>2. CASE Outlet!Shutdown
  <2>1. /\ LettersStay /\ UNCHANGED <<connection, open, channel, dialled>>
        /\ unserved' = unserved \cup Outlet!InFlight /\ owner' = "shutdown"
    BY <1>2 DEF Outlet!Shutdown, LettersStay
  <2>2. Lines'
    BY <1>0, <2>1 DEF Lines
  <2>3. Served'
    BY <2>1 DEF Served, Outlet!InFlight, LettersStay
  <2>4. QED
    BY <2>1, <2>2, <2>3, StayPost
<1>3. CASE Outlet!Refused \/ Outlet!Ready
  <2>1. /\ LettersStay /\ UNCHANGED <<connection, open, channel, closed, dialled, unserved>>
        /\ owner' = "idle"
    BY <1>3 DEF Outlet!Refused, Outlet!Fail, Outlet!Ready, LettersStay
  <2>2. Lines'
    BY <1>0, <2>1 DEF Lines
  <2>3. Served'
    BY <1>0, <2>1 DEF Served, Outlet!InFlight, Outlet!Serving, LettersStay
  <2>4. QED
    BY <2>1, <2>2, <2>3, StayPost
<1>4. CASE \E q \in Queues : Outlet!OpenChannel(q)
  <2>1. PICK q \in Queues : Outlet!OpenChannel(q)
    BY <1>4
  <2>2. /\ LettersStay /\ UNCHANGED <<owner, connection, open, dialled, unserved>>
        /\ owner \in {"connect", "setup"}
        /\ channel' = [channel EXCEPT ![q] = connection] /\ closed' = closed \ {q}
    BY <2>1 DEF Outlet!OpenChannel, LettersStay
  <2>3. Lines'
    BY <1>0, <2>2 DEF Lines
  <2>4. Outlet!Serving => Outlet!Serving'
    BY <1>0, <2>2 DEF Outlet!Serving, Lines, Targets, LettersStay
  <2>5. Served'
    BY <1>0, <2>2, <2>4 DEF Served, Outlet!InFlight, LettersStay
  <2>6. QED
    BY <2>2, <2>3, <2>5, StayPost
<1>5. CASE Outlet!Forget \/ Outlet!HangUp \/ \E q \in Queues : Outlet!CloseChannel(q)
  <2>1. /\ LettersStay /\ owner \in {"shutdown", "hangup"}
        /\ dialled' = dialled /\ open' \subseteq open
        /\ owner' \notin {"connect", "setup"}
        /\ channel' = channel \/ channel' = [p \in Queues |-> 0]
    BY <1>5 DEF Outlet!Forget, Outlet!HangUp, Outlet!CloseChannel, LettersStay
  <2>2. Lines'
    BY <1>0, <2>1 DEF Lines
  <2>3. QED
    BY <2>1, <2>2, StayPost, Deserted
<1>6. QED
  BY <1>1, <1>2, <1>3, <1>4, <1>5 DEF Outlet!OwnerStep

\* What the handlers do leaves owner and connections as they are.
LinesStay == UNCHANGED <<massive, targets, owner, connection, open, channel, closed, dialled>>

LEMMA LinesPost ==
    ASSUME Post, LinesStay
    PROVE  Targets' /\ Lines' /\ (Outlet!Serving <=> Outlet!Serving')
BY DEF Post, LinesStay, Targets, Lines, Outlet!Serving

LEMMA ReceivePost ==
    ASSUME Post, massive' = massive, NEW ms \in SUBSET Messages, NEW to,
           \A m \in ms : to[m] \in targets \cup {Bad}, Outlet!Receive(ms, to)
    PROVE  Post'
<1> DEFINE f == CHOOSE n \in ms : TRUE
<1>0. Letters /\ FramesApart /\ FramesTogether /\ Served /\ LostBecause /\ f \in ms
  BY DEF Post, Outlet!Receive
<1>1. /\ ms # {} /\ \A m \in ms : fate[m] = "none"
      /\ fate' = [m \in Messages |-> IF m \in ms THEN "waiting" ELSE fate[m]]
      /\ frame' = [m \in Messages |-> IF m \in ms THEN f ELSE frame[m]]
      /\ queue' = [m \in Messages |-> IF m \in ms THEN to[m] ELSE queue[m]]
      /\ unserved' = IF Outlet!Serving /\ owner \notin {"shutdown", "hangup"}
                     THEN unserved ELSE unserved \cup ms
      /\ refused' = refused /\ LinesStay
  BY DEF Outlet!Receive, Outlet!call, Outlet!rabbit, LinesStay
<1> HIDE DEF f
<1>2. Targets' /\ Lines' /\ (Outlet!Serving <=> Outlet!Serving')
  BY <1>1, LinesPost
<1>3. Letters'
  BY <1>0, <1>1 DEF Letters, LinesStay
<1>4. FramesApart'
  BY <1>0, <1>1 DEF FramesApart, Letters
<1>5. ASSUME NEW m \in Messages, m \notin ms, fate[m] # "none", NEW k \in Messages
      PROVE  Mates(m, k)' <=> Mates(m, k)
  <2>1. fate[frame[m]] # "none" /\ frame[m] # f
    BY <1>0, <1>1, <1>5 DEF FramesApart
  <2>2. QED
    BY <1>0, <1>1, <1>5, <2>1 DEF Mates
<1>6. ASSUME NEW m \in ms, NEW k \in Messages, Mates(m, k)'
      PROVE  k \in ms
  BY <1>0, <1>1, <1>6 DEF Mates, FramesApart
<1>7. FramesTogether'
  BY <1>0, <1>1, <1>5, <1>6 DEF FramesTogether, Mates
<1>8. Served'
  BY <1>0, <1>1, <1>2 DEF Served, Outlet!InFlight, LinesStay
<1>9. LostBecause'
  <2> SUFFICES ASSUME NEW m \in Messages, fate'[m] = "lost", m \notin refused', m \notin unserved'
               PROVE  \E k \in Messages : Mates(m, k)' /\ queue'[k] = Bad
    BY DEF LostBecause
  <2>1. fate[m] = "lost" /\ m \notin ms /\ m \notin refused \cup unserved
    BY <1>1
  <2>2. PICK k \in Messages : Mates(m, k) /\ queue[k] = Bad
    BY <1>0, <2>1 DEF LostBecause
  <2>3. Mates(m, k)' /\ k \notin ms
    BY <1>1, <1>5, <2>1, <2>2 DEF Mates
  <2>4. QED
    BY <1>1, <2>2, <2>3
<1>10. QED
  BY <1>2, <1>3, <1>4, <1>7, <1>8, <1>9 DEF Post

\* A handler changes what has become of messages that have come: those that it
\* loses have a cause, and it publishes only what could be encoded.
LEMMA HandlerPost ==
    ASSUME Post, LinesStay, UNCHANGED <<frame, queue>>,
           refused \subseteq refused', unserved \subseteq unserved',
           fate' \in [Messages -> {"none", "waiting", "publishing", "sent", "lost"}],
           \A m \in Messages : (fate'[m] = "none") <=> (fate[m] = "none"),
           \A m \in Messages : fate'[m] = "waiting" =>
               fate[m] = "waiting" /\ \A k \in Messages : Mates(m, k) => fate'[k] = fate[k],
           \A m \in Messages : fate'[m] = "publishing" /\ fate[m] # "publishing" =>
               fate[m] = "waiting" /\ \A k \in Messages : Mates(m, k) => queue[k] # Bad,
           \A m \in Messages : fate'[m] = "lost" /\ fate[m] # "lost" =>
               \/ m \in refused' \cup unserved'
               \/ \E k \in Messages : Mates(m, k) /\ queue[k] = Bad
    PROVE  Post'
<1>0. Letters /\ FramesApart /\ FramesTogether /\ Served /\ LostBecause
  BY DEF Post
<1>1. Targets' /\ Lines' /\ (Outlet!Serving <=> Outlet!Serving')
  BY LinesPost
<1>2. \A m, k \in Messages : Mates(m, k)' <=> Mates(m, k)
  BY DEF Mates
<1>3. Letters' /\ FramesApart'
  BY <1>0 DEF Letters, FramesApart, LinesStay
<1>4. FramesTogether'
  BY <1>0, <1>2 DEF FramesTogether
<1>5. Served'
  BY <1>0, <1>1 DEF Served, Outlet!InFlight, LinesStay
<1>6. LostBecause'
  BY <1>0, <1>2 DEF LostBecause
<1>7. QED
  BY <1>1, <1>3, <1>4, <1>5, <1>6 DEF Post

LEMMA HandlePost ==
    ASSUME Post, massive' = massive, NEW f \in Messages, Outlet!Handle(f)
    PROVE  Post'
<1>0. Letters /\ FramesTogether /\ Served /\ Targets /\ Lines
  BY DEF Post
<1>1. /\ LinesStay /\ UNCHANGED <<frame, queue, refused, unserved>>
      /\ \E m \in Outlet!Frame(f) : fate[m] = "waiting"
  BY DEF Outlet!Handle, Outlet!call, Outlet!rabbit, Outlet!history, LinesStay
<1>2. \A m \in Messages : m \in Outlet!Frame(f) <=> fate[m] # "none" /\ frame[m] = f
  BY DEF Outlet!Frame
<1>3. \A m \in Messages : m \in Outlet!Frame(f) => fate[m] = "waiting"
  BY <1>0, <1>1, <1>2 DEF FramesTogether, Mates, Outlet!Frame
<1>4. fate' = [m \in Messages |->
                 IF m \in Outlet!Frame(f)
                 THEN IF Outlet!HasChannels /\ Outlet!Encoded(f) THEN "publishing" ELSE "lost"
                 ELSE fate[m]]
  BY DEF Outlet!Handle, Outlet!Become
<1>5. ASSUME NEW m \in Outlet!Frame(f), m \notin unserved
      PROVE  Outlet!HasChannels
  <2>1. Outlet!Serving
    BY <1>0, <1>2, <1>3, <1>5 DEF Served, Outlet!InFlight, Outlet!Frame
  <2>2. QED
    BY <1>0, <2>1 DEF Outlet!Serving, Outlet!HasChannels, Targets, Lines
<1>6. ASSUME NEW m \in Outlet!Frame(f)
      PROVE  /\ m \in Messages /\ frame[m] = f
             /\ Outlet!Encoded(f) <=> \A k \in Messages : Mates(m, k) => queue[k] # Bad
  BY <1>6 DEF Outlet!Frame, Outlet!Encoded, Mates
<1>7. \A m \in Messages : fate'[m] = "waiting" =>
          fate[m] = "waiting" /\ \A k \in Messages : Mates(m, k) => fate'[k] = fate[k]
  BY <1>2, <1>4 DEF Mates
<1>8. \A m \in Messages : fate'[m] = "publishing" /\ fate[m] # "publishing" =>
          fate[m] = "waiting" /\ \A k \in Messages : Mates(m, k) => queue[k] # Bad
  BY <1>3, <1>4, <1>6
<1>9. \A m \in Messages : fate'[m] = "lost" /\ fate[m] # "lost" =>
          \/ m \in refused' \cup unserved'
          \/ \E k \in Messages : Mates(m, k) /\ queue[k] = Bad
  BY <1>1, <1>4, <1>5, <1>6
<1>10. /\ fate' \in [Messages -> {"none", "waiting", "publishing", "sent", "lost"}]
       /\ \A m \in Messages : (fate'[m] = "none") <=> (fate[m] = "none")
  BY <1>0, <1>2, <1>4 DEF Letters
<1>11. QED
  BY <1>1, <1>7, <1>8, <1>9, <1>10, HandlerPost

LEMMA PublishPost ==
    ASSUME Post, massive' = massive, NEW m \in Messages, Outlet!Publish(m)
    PROVE  Post'
<1>0. Letters /\ FramesTogether /\ Served /\ Targets
  BY DEF Post
<1>1. /\ LinesStay /\ UNCHANGED <<frame, queue, unserved>> /\ fate[m] = "publishing"
      /\ refused \subseteq refused'
  BY DEF Outlet!Publish, Outlet!call, Outlet!rabbit, Outlet!history, LinesStay
<1>2. PICK p \in {"sent", "lost"} :
         /\ fate' = [k \in Messages |-> IF k = m THEN p ELSE fate[k]]
         /\ p = "lost" => m \in refused' \/ ~Outlet!Usable(queue[m])
  BY DEF Outlet!Publish, Outlet!Become, Outlet!Lose
<1>3. ASSUME m \notin unserved PROVE Outlet!Usable(queue[m])
  <2>1. Outlet!Serving
    BY <1>0, <1>1, <1>3 DEF Served, Outlet!InFlight
  <2>2. queue[m] \in targets
    BY <1>0, <1>1 DEF Letters, FramesTogether, Mates
  <2>3. QED
    BY <2>1, <2>2 DEF Outlet!Serving, Outlet!Usable
<1>4. \A n \in Messages : fate'[n] = "waiting" =>
          fate[n] = "waiting" /\ \A k \in Messages : Mates(n, k) => fate'[k] = fate[k]
  BY <1>0, <1>1, <1>2 DEF FramesTogether
<1>5. \A n \in Messages : fate'[n] = "lost" /\ fate[n] # "lost" => n \in refused' \cup unserved'
  BY <1>1, <1>2, <1>3
<1>6. /\ fate' \in [Messages -> {"none", "waiting", "publishing", "sent", "lost"}]
      /\ \A n \in Messages : (fate'[n] = "none") <=> (fate[n] = "none")
      /\ \A n \in Messages : ~(fate'[n] = "publishing" /\ fate[n] # "publishing")
  BY <1>0, <1>1, <1>2 DEF Letters
<1>7. QED
  BY <1>1, <1>4, <1>5, <1>6, HandlerPost

LEMMA InterruptPost ==
    ASSUME Post, massive' = massive, NEW f \in Messages, Outlet!Interrupt(f)
    PROVE  Post'
<1> DEFINE gone == Outlet!Frame(f) \cap Outlet!InFlight
<1>0. Letters /\ FramesTogether
  BY DEF Post
<1>1. /\ LinesStay /\ UNCHANGED <<frame, queue, refused>> /\ unserved' = unserved \cup gone
      /\ fate' = [k \in Messages |-> IF k \in gone THEN "lost" ELSE fate[k]]
  BY DEF Outlet!Interrupt, Outlet!Become, Outlet!call, Outlet!rabbit, LinesStay
<1>2. \A n \in Messages : fate'[n] = "waiting" =>
          fate[n] = "waiting" /\ \A k \in Messages : Mates(n, k) => fate'[k] = fate[k]
  <2> SUFFICES ASSUME NEW n \in Messages, fate'[n] = "waiting", NEW k \in Messages, Mates(n, k)
               PROVE  fate[n] = "waiting" /\ k \notin gone
    BY <1>1
  <2>1. fate[n] = "waiting" /\ n \notin gone
    BY <1>1
  <2>2. frame[n] # f
    BY <2>1 DEF Outlet!Frame, Outlet!InFlight
  <2>3. QED
    BY <2>1, <2>2 DEF Mates, Outlet!Frame
<1>3. \A n \in Messages : fate'[n] = "lost" /\ fate[n] # "lost" => n \in refused' \cup unserved'
  BY <1>1
<1>4. /\ fate' \in [Messages -> {"none", "waiting", "publishing", "sent", "lost"}]
      /\ \A n \in Messages : (fate'[n] = "none") <=> (fate[n] = "none")
      /\ \A n \in Messages : ~(fate'[n] = "publishing" /\ fate[n] # "publishing")
  BY <1>0, <1>1 DEF Letters, Outlet!InFlight
<1> HIDE DEF gone
<1>5. unserved \subseteq unserved' /\ refused \subseteq refused'
  BY <1>1
<1>6. QED
  BY <1>1, <1>2, <1>3, <1>4, <1>5, HandlerPost

LEMMA StepPost == Post /\ [Next]_vars => Post'
<1> SUFFICES ASSUME Post, [Next]_vars PROVE Post'
  OBVIOUS
<1>1. CASE Outlet!Next /\ OutletAlone
  <2>1. massive' = massive
    BY <1>1 DEF OutletAlone
  <2>2. QED
    BY <1>1, <2>1, OwnerPost, HandlePost, PublishPost
       DEF Outlet!Next, Outlet!HandlerStep
<1>2. CASE \E t \in Listener!Tasks : Article(t)
  <2>1. PICK m \in Messages : \E to \in [{m} -> {News, Bad}] : Outlet!Receive({m}, to)
    BY <1>2 DEF Article
  <2>2. PICK to \in [{m} -> {News, Bad}] : Outlet!Receive({m}, to)
    BY <2>1
  <2>3. to[m] \in targets \cup {Bad} /\ massive' = massive
    BY <1>2 DEF Article, OutletAlone, Post, Targets
  <2>4. QED
    BY <2>2, <2>3, ReceivePost
<1>3. CASE MassiveFrame
  BY <1>3, ReceivePost DEF MassiveFrame, OutletAlone
<1>4. CASE \E m \in Messages : Stopped(m)
  BY <1>4, InterruptPost DEF Stopped, OutletAlone
<1>5. CASE UNCHANGED massive /\ UNCHANGED Outlet!queues
  <2>1. /\ UNCHANGED <<massive, targets, fate, frame, queue, refused, unserved>>
        /\ UNCHANGED <<owner, connection, open, channel, closed, dialled>>
    BY <1>5 DEF Outlet!queues, Outlet!call, Outlet!rabbit, Outlet!message, Outlet!history
  <2>2. LettersStay /\ LinesStay
    BY <2>1 DEF LettersStay, LinesStay
  <2>3. Lines' /\ (Outlet!Serving <=> Outlet!Serving')
    BY <2>2, LinesPost
  <2>4. Served'
    BY <2>1, <2>3 DEF Post, Served, Outlet!InFlight
  <2>5. QED
    BY <2>2, <2>3, <2>4, StayPost
<1>6. QED
  BY <1>1, <1>2, <1>3, <1>4, <1>5 DEF Next, vars, ListenerAlone, Outlet!Still

\* A message that came in is lost only when its own publish was refused, when
\* the queues were not set up all the while or its handler was cancelled, or when
\* its frame could not be encoded.
THEOREM LostHasCause == Spec => []LostForCause
<1>1. Post => LostForCause
  BY DEF Post, LostBecause, Mates, LostForCause, Outlet!LostForCause, Outlet!Encoded,
         Outlet!Frame
<1>2. QED
  BY <1>1, InitPost, StepPost, PTL DEF Spec
=============================================================================
