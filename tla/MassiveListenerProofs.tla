----------------------- MODULE MassiveListenerProofs -----------------------
(***************************************************************************)
(* Proofs about MassiveListener for any callers and bounds: its types;     *)
(* that stop() reaches whatever is running, and lasts, as long as no two   *)
(* calls run side by side; that a listener whose last task has died says   *)
(* so, whatever overlaps; and that the connection has the configuration    *)
(* that the setters left.                                                  *)
(***************************************************************************)
EXTENDS MassiveListener, TLAPS

USE BoundsAssumption

\* Callers and tasks are different actors.
LEMMA Apart ==
    ASSUME NEW c \in Callers, NEW t \in Tasks
    PROVE  /\ c # t /\ c \in Actors /\ t \in Actors /\ c \notin Tasks /\ t \notin Callers
           /\ t \in Nat /\ t # 0
BY CallersAssumption DEF Tasks, Actors

(***************************************************************************)
(* Types, by groups of variables                                           *)
(***************************************************************************)
PlaceType ==
    /\ pc \in [Actors -> CallerPlaces \cup TaskPlaces]
    /\ \A c \in Callers : pc[c] \in CallerPlaces
    /\ \A t \in Tasks : pc[t] \in TaskPlaces
    /\ job \in [Actors -> {"stop", "restart", "die"}]
    /\ \A a \in Actors : job[a] = "die" <=> a \in Tasks
    /\ cancelled \subseteq Tasks
HandleType ==
    ws \in 0..starts /\ coro = ws /\ connected \in BOOLEAN /\ starts \in 0..MaxStarts
SessionType ==
    /\ own \in [Tasks -> 0..starts] /\ attempt \in [Tasks -> 0..(Attempts - 1)]
    /\ ended \subseteq Tasks /\ healthy \in BOOLEAN
ConfigType ==
    /\ version \in 0..calls /\ calls \in 0..MaxCalls
    /\ made \in [Tasks -> 0..version] /\ late \in BOOLEAN
RestType ==
    /\ market \in BOOLEAN
    /\ budget \in [{"drops", "outages", "closings", "refusals"} -> Nat]
    /\ wanted \in BOOLEAN /\ overlapped \in BOOLEAN

LEMMA TypeGroups ==
    /\ TypeOK <=> PlaceType /\ HandleType /\ SessionType /\ ConfigType /\ RestType
    /\ TypeOK' <=> PlaceType' /\ HandleType' /\ SessionType' /\ ConfigType' /\ RestType'
BY DEF TypeOK, PlaceType, HandleType, SessionType, ConfigType, RestType

LEMMA SpendType ==
    ASSUME RestType, NEW kind \in {"drops", "outages", "closings", "refusals"},
           Spend(kind)
    PROVE  budget' \in [{"drops", "outages", "closings", "refusals"} -> Nat]
BY SMT DEF RestType, Spend

\* What an actor may have to do after stop().
Jobs(a) == IF a \in Tasks THEN {"die"} ELSE {"stop", "restart"}

\* An actor that goes somewhere, with the job it has or gets.
LEMMA Move ==
    ASSUME PlaceType, NEW a \in Actors, NEW p,
           p \in IF a \in Tasks THEN TaskPlaces ELSE CallerPlaces,
           NEW j \in Jobs(a), pc' = [pc EXCEPT ![a] = p],
           job' = [job EXCEPT ![a] = j] \/ job' = job,
           cancelled' \subseteq Tasks
    PROVE  PlaceType'
<1>1. pc' \in [Actors -> CallerPlaces \cup TaskPlaces]
  BY DEF PlaceType
<1>2. ASSUME NEW b \in Actors PROVE pc'[b] = IF b = a THEN p ELSE pc[b]
  BY DEF PlaceType
<1>3. \A c \in Callers : pc'[c] \in CallerPlaces
  BY <1>2, Apart DEF PlaceType, Actors
<1>4. \A t \in Tasks : pc'[t] \in TaskPlaces
  BY <1>2, Apart DEF PlaceType, Actors
<1>5. job' \in [Actors -> {"stop", "restart", "die"}]
        /\ \A b \in Actors : job'[b] = "die" <=> b \in Tasks
  <2>1. CASE job' = job
    BY <2>1 DEF PlaceType
  <2>2. CASE job' = [job EXCEPT ![a] = j]
    <3>1. job' \in [Actors -> {"stop", "restart", "die"}]
      BY <2>2 DEF PlaceType, Jobs
    <3>2. ASSUME NEW b \in Actors PROVE job'[b] = IF b = a THEN j ELSE job[b]
      BY <2>2 DEF PlaceType
    <3>3. j = "die" <=> a \in Tasks
      BY DEF Jobs
    <3>4. QED
      BY <3>1, <3>2, <3>3 DEF PlaceType
  <2>3. QED
    BY <2>1, <2>2
<1>6. QED
  BY <1>1, <1>3, <1>4, <1>5 DEF PlaceType

LEMMA AfterJobPlace ==
    ASSUME NEW a \in Actors, NEW j \in Jobs(a)
    PROVE  AfterJob[j] \in IF a \in Tasks THEN TaskPlaces ELSE CallerPlaces
BY DEF Jobs, AfterJob, TaskPlaces, CallerPlaces

LEMMA ResetType ==
    ASSUME PlaceType, HandleType, NEW a \in Actors, NEW j \in Jobs(a),
           Reset(a, j), UNCHANGED starts
    PROVE  PlaceType' /\ HandleType'
<1>1. PlaceType'
  BY Move, AfterJobPlace DEF Reset, PlaceType
<1>2. connected' \in BOOLEAN
  BY DEF Reset
<1>3. ws' \in 0..starts' /\ coro' = ws' /\ starts' \in 0..MaxStarts
  BY SMT DEF Reset, HandleType
<1>4. QED
  BY <1>1, <1>2, <1>3 DEF HandleType

LEMMA EnterStopType ==
    ASSUME PlaceType, HandleType, NEW a \in Actors, NEW j \in Jobs(a),
           NEW flag \in BOOLEAN, EnterStop(a, j, flag), UNCHANGED starts
    PROVE  PlaceType' /\ HandleType'
<1>1. CASE coro = 0 /\ Reset(a, j)
  BY <1>1, ResetType
<1>2. CASE coro # 0 /\ ~(coro = 0 /\ Reset(a, j))
  <2>1. coro \in Tasks
    BY <1>2 DEF HandleType, Tasks
  <2>2. cancelled' \subseteq Tasks /\ pc' = [pc EXCEPT ![a] = "flush"]
          /\ job' = [job EXCEPT ![a] = j] /\ connected' = flag /\ ws' = ws /\ coro' = coro
    BY <1>2, <2>1 DEF EnterStop, PlaceType
  <2>3. "flush" \in IF a \in Tasks THEN TaskPlaces ELSE CallerPlaces
    BY DEF TaskPlaces, CallerPlaces
  <2>4. PlaceType'
    BY <2>2, <2>3, Move
  <2>5. HandleType'
    BY <2>2 DEF HandleType
  <2>6. QED
    BY <2>4, <2>5
<1>3. QED
  BY <1>1, <1>2 DEF EnterStop

LEMMA StartType ==
    ASSUME PlaceType, HandleType, ConfigType, RestType, NEW a \in Actors,
           NEW j \in Jobs(a), NEW flag \in BOOLEAN, Start(a, j, flag),
           UNCHANGED <<version, late>>, calls' \in calls..MaxCalls
    PROVE  /\ PlaceType' /\ HandleType' /\ ConfigType' /\ starts' \in starts..MaxStarts
           /\ budget' \in [{"drops", "outages", "closings", "refusals"} -> Nat]
<1>1. CASE starts < MaxStarts /\ starts' = starts + 1
             /\ ws' = starts + 1 /\ coro' = starts + 1
             /\ made' = [made EXCEPT ![starts + 1] = version]
             /\ pc' = [pc EXCEPT ![a] = AfterJob[j], ![starts + 1] = "new"]
             /\ connected' = flag /\ UNCHANGED <<job, cancelled, budget>>
  <2>1. starts + 1 \in Tasks /\ starts' \in starts..MaxStarts
    BY <1>1 DEF HandleType, Tasks
  <2>2. HandleType'
    <3>1. connected' \in BOOLEAN
      BY <1>1
    <3>2. ws' \in 0..starts' /\ coro' = ws' /\ starts' \in 0..MaxStarts
      BY <1>1, <2>1 DEF HandleType
    <3>3. QED
      BY <3>1, <3>2 DEF HandleType
  <2>3. ConfigType'
    <3>1. version \in 0..calls' /\ calls' \in 0..MaxCalls
      BY DEF ConfigType
    <3>2. made' \in [Tasks -> 0..version]
      BY <1>1, <2>1 DEF ConfigType
    <3>3. QED
      BY <3>1, <3>2 DEF ConfigType
  <2>4. PlaceType'
    <3>1. starts + 1 \in Actors
      BY <2>1 DEF Actors
    <3>2. pc' \in [Actors -> CallerPlaces \cup TaskPlaces]
      <4>1. AfterJob[j] \in CallerPlaces \cup TaskPlaces /\ "new" \in TaskPlaces
        BY AfterJobPlace DEF TaskPlaces
      <4>2. QED
        BY <1>1, <4>1 DEF PlaceType
    <3>3. ASSUME NEW b \in Actors
          PROVE  pc'[b] = IF b = starts + 1 THEN "new"
                          ELSE IF b = a THEN AfterJob[j] ELSE pc[b]
      BY <1>1, <3>1 DEF PlaceType
    <3>4. \A c \in Callers : pc'[c] \in CallerPlaces
      BY <2>1, <3>3, Apart, AfterJobPlace DEF PlaceType, Actors
    <3>5. \A t \in Tasks : pc'[t] \in TaskPlaces
      BY <2>1, <3>3, Apart, AfterJobPlace DEF PlaceType, Actors, TaskPlaces
    <3>6. QED
      BY <1>1, <3>2, <3>4, <3>5 DEF PlaceType
  <2>5. QED
    BY <1>1, <2>1, <2>2, <2>3, <2>4 DEF RestType
<1>2. CASE Spend("refusals") /\ EnterStop(a, j, flag) /\ UNCHANGED <<starts, made>>
  <2>1. PlaceType' /\ HandleType'
    BY <1>2, EnterStopType
  <2>2. ConfigType'
    <3>1. version \in 0..calls' /\ calls' \in 0..MaxCalls
      BY DEF ConfigType
    <3>2. QED
      BY <1>2, <3>1 DEF ConfigType
  <2>3. QED
    BY <1>2, <2>1, <2>2, SpendType DEF HandleType
<1>3. QED
  BY <1>1, <1>2 DEF Start

\* The variables a step does not touch, by groups.
LEMMA SameSession ==
    ASSUME HandleType, SessionType, NEW n \in starts..MaxStarts, starts' = n,
           own' = own, attempt' = attempt, ended' \subseteq Tasks,
           healthy' \in BOOLEAN
    PROVE  SessionType'
<1>1. starts \in Nat /\ n \in Nat /\ starts <= n
  BY DEF HandleType
<1>2. own' \in [Tasks -> 0..starts']
  BY <1>1 DEF SessionType
<1>3. QED
  BY <1>2 DEF SessionType, Attempts

LEMMA SameConfig ==
    ASSUME ConfigType, UNCHANGED config, calls' \in calls..MaxCalls
    PROVE  ConfigType'
<1>1. version \in 0..calls' /\ calls' \in 0..MaxCalls
  BY DEF ConfigType
<1>2. QED
  BY <1>1 DEF ConfigType, config

LEMMA SameRest ==
    ASSUME RestType, UNCHANGED <<calling, market, budget>>
    PROVE  RestType'
BY DEF RestType, calling

LEMMA CallType ==
    ASSUME PlaceType, HandleType, SessionType, ConfigType, RestType,
           NEW c \in Callers, CallStart(c) \/ CallStop(c) \/ CallRestart(c)
    PROVE  PlaceType' /\ HandleType' /\ SessionType' /\ ConfigType' /\ RestType'
<1>1. c \in Actors /\ "stop" \in Jobs(c) /\ "restart" \in Jobs(c)
  BY CallersAssumption DEF Actors, Tasks, Jobs
<1>2. connected \in BOOLEAN /\ starts \in starts..MaxStarts
  BY DEF HandleType
<1>3. Call(c) /\ wanted' \in BOOLEAN
  BY DEF CallStart, CallStop, CallRestart
<1>4. calls' \in calls..MaxCalls
  BY <1>3 DEF Call, ConfigType
<1>5. overlapped' \in BOOLEAN /\ market' \in BOOLEAN
  BY <1>3 DEF Call, RestType
<1>6. CASE CallStart(c)
  <2>1. Start(c, "stop", connected) /\ UNCHANGED <<version, late, healthy, session>>
    BY <1>6 DEF CallStart, Call
  <2>2. /\ PlaceType' /\ HandleType' /\ ConfigType' /\ starts' \in starts..MaxStarts
        /\ budget' \in [{"drops", "outages", "closings", "refusals"} -> Nat]
    BY <1>1, <1>2, <1>4, <2>1, StartType
  <2>3. SessionType'
    BY <2>1, <2>2, SameSession DEF session, SessionType
  <2>4. QED
    BY <1>3, <1>4, <1>5, <2>2, <2>3 DEF RestType
<1>7. CASE CallStop(c) \/ CallRestart(c)
  <2>1. /\ EnterStop(c, "stop", connected) \/ EnterStop(c, "restart", connected)
        /\ UNCHANGED <<starts, made, budget, version, late, healthy, session>>
    BY <1>7 DEF CallStop, CallRestart, Call
  <2>2. PlaceType' /\ HandleType'
    BY <1>1, <1>2, <2>1, EnterStopType
  <2>3. SessionType' /\ ConfigType'
    BY <1>2, <1>4, <2>1, SameSession, SameConfig DEF session, config, SessionType
  <2>4. QED
    BY <1>3, <1>4, <1>5, <2>1, <2>2, <2>3 DEF RestType
<1>8. QED
  BY <1>6, <1>7

LEMMA SetType ==
    ASSUME PlaceType, HandleType, SessionType, ConfigType, RestType,
           NEW c \in Callers, Set(c)
    PROVE  PlaceType' /\ HandleType' /\ SessionType' /\ ConfigType' /\ RestType'
<1>1. c \in Actors /\ c \notin Tasks /\ "stop" \in Jobs(c)
  BY CallersAssumption DEF Actors, Tasks, Jobs
<1>2. PlaceType'
  <2>1. CASE connected
    <3>1. pc' = [pc EXCEPT ![c] = "spawned"] /\ job' = job /\ cancelled' = cancelled
      BY <2>1 DEF Set
    <3>2. "spawned" \in IF c \in Tasks THEN TaskPlaces ELSE CallerPlaces
      BY <1>1 DEF CallerPlaces
    <3>3. cancelled' \subseteq Tasks
      BY <3>1 DEF PlaceType
    <3>4. QED
      BY <1>1, <3>1, <3>2, <3>3, Move
  <2>2. CASE ~connected
    BY <2>2 DEF Set, PlaceType
  <2>3. QED
    BY <2>1, <2>2
<1>3. HandleType' /\ SessionType'
  BY DEF Set, HandleType, SessionType, listener, session
<1>4. ConfigType'
  <2>1. /\ version' \in 0..calls' /\ version' = version + 1 /\ made' = made
        /\ calls' \in 0..MaxCalls
    BY DEF Set, ConfigType
  <2>2. made' \in [Tasks -> 0..version']
    BY <2>1 DEF ConfigType
  <2>3. late' \in BOOLEAN
    BY DEF Set, ConfigType
  <2>4. QED
    BY <2>1, <2>2, <2>3 DEF ConfigType
<1>5. RestType'
  <2>1. overlapped' \in BOOLEAN /\ wanted' \in BOOLEAN /\ market' \in BOOLEAN
    BY DEF Set, RestType
  <2>2. QED
    BY <2>1 DEF Set, RestType
<1>6. QED
  BY <1>2, <1>3, <1>4, <1>5

LEMMA StopType ==
    ASSUME PlaceType, HandleType, SessionType, ConfigType, RestType,
           NEW a \in Actors, InStop(a)
    PROVE  PlaceType' /\ HandleType' /\ SessionType' /\ ConfigType' /\ RestType'
<1>1. job[a] \in Jobs(a)
  BY DEF PlaceType, Jobs
<1>2. starts \in starts..MaxStarts /\ calls \in calls..MaxCalls
  BY DEF HandleType, ConfigType
<1>3. /\ UNCHANGED <<starts, config, calling, market, budget, healthy, own, attempt>>
      /\ \/ Reset(a, job[a])
         \/ \E p \in {"unsub", "closing"} :
               /\ pc' = [pc EXCEPT ![a] = p]
               /\ UNCHANGED <<job, cancelled, ws, coro, connected>>
  BY DEF InStop, Flushed, Unsubscribed, Closed, session
<1>4. ended' \subseteq Tasks
  BY DEF InStop, Flushed, Unsubscribed, Closed, session, Feeding, SessionType
<1>5. PlaceType' /\ HandleType'
  <2>1. CASE Reset(a, job[a])
    BY <1>1, <1>3, <2>1, ResetType
  <2>2. ASSUME NEW p \in {"unsub", "closing"}, pc' = [pc EXCEPT ![a] = p],
               UNCHANGED <<job, cancelled, ws, coro, connected>>
        PROVE  PlaceType' /\ HandleType'
    <3>1. p \in IF a \in Tasks THEN TaskPlaces ELSE CallerPlaces
      BY DEF TaskPlaces, CallerPlaces
    <3>2. cancelled' \subseteq Tasks /\ job' = job
      BY <2>2 DEF PlaceType
    <3>3. PlaceType'
      BY <1>1, <2>2, <3>1, <3>2, Move
    <3>4. HandleType'
      BY <1>3, <2>2 DEF HandleType
    <3>5. QED
      BY <3>3, <3>4
  <2>3. QED
    BY <1>3, <2>1, <2>2
<1>6. SessionType'
  BY <1>2, <1>3, <1>4, SameSession DEF SessionType
<1>7. ConfigType' /\ RestType'
  BY <1>2, <1>3, SameConfig, SameRest DEF calling
<1>8. QED
  BY <1>5, <1>6, <1>7

LEMMA CallerType ==
    ASSUME PlaceType, HandleType, SessionType, ConfigType, RestType,
           NEW c \in Callers, Spawned(c) \/ Paused(c)
    PROVE  PlaceType' /\ HandleType' /\ SessionType' /\ ConfigType' /\ RestType'
<1>1. c \in Actors /\ "stop" \in Jobs(c) /\ "restart" \in Jobs(c)
  BY CallersAssumption DEF Actors, Tasks, Jobs
<1>2. connected \in BOOLEAN /\ starts \in starts..MaxStarts /\ calls \in calls..MaxCalls
  BY DEF HandleType, ConfigType
<1>3. CASE Spawned(c)
  <2>1. PlaceType' /\ HandleType'
    BY <1>1, <1>2, <1>3, EnterStopType DEF Spawned
  <2>2. SessionType' /\ ConfigType' /\ RestType'
    BY <1>2, <1>3, SameSession, SameConfig, SameRest DEF Spawned, session, SessionType, calling
  <2>3. QED
    BY <2>1, <2>2
<1>4. CASE Paused(c)
  <2>1. Start(c, "stop", connected)
          /\ UNCHANGED <<session, healthy, version, late, calling, market>>
    BY <1>4 DEF Paused
  <2>2. calls' \in calls..MaxCalls
    BY <1>2, <2>1 DEF calling
  <2>3. /\ PlaceType' /\ HandleType' /\ ConfigType' /\ starts' \in starts..MaxStarts
        /\ budget' \in [{"drops", "outages", "closings", "refusals"} -> Nat]
    BY <1>1, <1>2, <2>1, <2>2, StartType
  <2>4. SessionType'
    BY <2>1, <2>3, SameSession DEF session, SessionType
  <2>5. RestType'
    BY <2>1, <2>3 DEF RestType, calling
  <2>6. QED
    BY <2>3, <2>4, <2>5
<1>5. QED
  BY <1>3, <1>4

LEMMA FailsType ==
    ASSUME PlaceType, HandleType, SessionType, ConfigType, RestType,
           NEW t \in Tasks, NEW k \in 1..Attempts, NEW flag \in BOOLEAN,
           QueryFails(t, k, flag), ended' = ended,
           UNCHANGED <<own, version, late, calling, market>>
    PROVE  PlaceType' /\ HandleType' /\ SessionType' /\ ConfigType' /\ RestType'
<1>1. t \in Actors /\ "die" \in Jobs(t)
  BY DEF Actors, Jobs
<1>2. starts \in starts..MaxStarts /\ calls \in calls..MaxCalls
  BY DEF HandleType, ConfigType
<1>3. budget' \in [{"drops", "outages", "closings", "refusals"} -> Nat]
  BY SpendType DEF QueryFails
<1>4. ConfigType' /\ RestType'
  BY <1>2, <1>3, SameConfig DEF QueryFails, config, calling, RestType
<1>5. CASE k < Attempts /\ attempt' = [attempt EXCEPT ![t] = k]
             /\ pc' = [pc EXCEPT ![t] = "retrying"] /\ connected' = flag
             /\ UNCHANGED <<job, cancelled, healthy, ws, coro>>
  <2>1. "retrying" \in IF t \in Tasks THEN TaskPlaces ELSE CallerPlaces
    BY DEF TaskPlaces
  <2>2. cancelled' \subseteq Tasks
    BY <1>5 DEF PlaceType
  <2>3. PlaceType'
    BY <1>1, <1>5, <2>1, <2>2, Move
  <2>4. k \in 0..(Attempts - 1)
    BY <1>5 DEF Attempts
  <2>5. attempt' \in [Tasks -> 0..(Attempts - 1)]
    BY <1>5, <2>4 DEF SessionType
  <2>6. HandleType'
    BY <1>5 DEF HandleType, QueryFails
  <2>7. SessionType'
    BY <1>5, <2>5 DEF SessionType, QueryFails
  <2>8. QED
    BY <1>4, <2>3, <2>6, <2>7
<1>6. CASE k >= Attempts /\ healthy' = FALSE /\ EnterStop(t, "die", flag)
             /\ attempt' = attempt
  <2>1. PlaceType' /\ HandleType'
    BY <1>1, <1>6, EnterStopType DEF QueryFails
  <2>2. SessionType'
    BY <1>2, <1>6, SameSession DEF QueryFails, SessionType
  <2>3. QED
    BY <1>4, <2>1, <2>2
<1>7. QED
  BY <1>5, <1>6 DEF QueryFails

LEMMA QueryType ==
    ASSUME PlaceType, HandleType, SessionType, ConfigType, RestType,
           NEW t \in Tasks, NEW k \in 1..Attempts, NEW flag \in BOOLEAN,
           Query(t, k, flag), ended' = ended
    PROVE  PlaceType' /\ HandleType' /\ SessionType' /\ ConfigType' /\ RestType'
<1>1. t \in Actors /\ "die" \in Jobs(t)
  BY DEF Actors, Jobs
<1>2. starts \in starts..MaxStarts /\ calls \in calls..MaxCalls
  BY DEF HandleType, ConfigType
<1>3. UNCHANGED <<own, version, late, calling, market>>
  BY DEF Query
<1>4. calls' \in calls..MaxCalls
  BY <1>2, <1>3 DEF calling
<1>5. CASE Start(t, "die", flag) /\ UNCHANGED <<attempt, healthy>>
  <2>1. /\ PlaceType' /\ HandleType' /\ ConfigType' /\ starts' \in starts..MaxStarts
        /\ budget' \in [{"drops", "outages", "closings", "refusals"} -> Nat]
    BY <1>1, <1>3, <1>4, <1>5, StartType
  <2>2. SessionType'
    BY <1>3, <1>5, <2>1, SameSession DEF SessionType
  <2>3. QED
    BY <1>3, <2>1, <2>2 DEF RestType, calling
<1>6. CASE Sleep(t, flag)
  <2>1. "asleep" \in IF t \in Tasks THEN TaskPlaces ELSE CallerPlaces
    BY DEF TaskPlaces
  <2>2. cancelled' \subseteq Tasks
    BY <1>6 DEF PlaceType, Sleep
  <2>3. PlaceType'
    BY <1>1, <1>6, <2>1, <2>2, Move DEF Sleep
  <2>4. HandleType'
    BY <1>6 DEF HandleType, Sleep
  <2>5. SessionType'
    BY <1>3, <1>6 DEF SessionType, Sleep
  <2>6. ConfigType' /\ RestType'
    BY <1>3, <1>4, <1>6, SameConfig, SameRest DEF Sleep, config
  <2>7. QED
    BY <2>3, <2>4, <2>5, <2>6
<1>7. CASE QueryFails(t, k, flag)
  BY <1>3, <1>7, FailsType
<1>8. QED
  BY <1>5, <1>6, <1>7 DEF Query

LEMMA TaskType ==
    ASSUME PlaceType, HandleType, SessionType, ConfigType, RestType,
           NEW t \in Tasks, Cancelled(t) \/ Begin(t) \/ Disconnected(t) \/ Awake(t) \/ Retry(t)
    PROVE  PlaceType' /\ HandleType' /\ SessionType' /\ ConfigType' /\ RestType'
<1>1. t \in Actors /\ "die" \in Jobs(t) /\ 1 \in 1..Attempts
  BY DEF Actors, Jobs, Attempts
<1>2. /\ starts \in starts..MaxStarts /\ calls \in calls..MaxCalls
      /\ connected \in BOOLEAN /\ ended \subseteq Tasks
  BY DEF HandleType, ConfigType, SessionType
<1>3. CASE Cancelled(t)
  <2>1. pc' = [pc EXCEPT ![t] = "done"] /\ job' = job
          /\ UNCHANGED <<session, listener, starts, config, calling, market, budget>>
    BY <1>3 DEF Cancelled
  <2>2. cancelled' \subseteq Tasks
    BY <1>3 DEF Cancelled, PlaceType
  <2>3. "done" \in IF t \in Tasks THEN TaskPlaces ELSE CallerPlaces
    BY DEF TaskPlaces
  <2>4. PlaceType'
    BY <1>1, <2>1, <2>2, <2>3, Move
  <2>5. HandleType' /\ SessionType'
    BY <2>1 DEF HandleType, SessionType, listener, session
  <2>6. ConfigType' /\ RestType'
    BY <1>2, <2>1, SameConfig, SameRest DEF calling
  <2>7. QED
    BY <2>4, <2>5, <2>6
<1>4. CASE Begin(t)
  <2>1. UNCHANGED <<ended, attempt, starts, config, calling, market, budget>>
    BY <1>4 DEF Begin
  <2>2. ConfigType' /\ RestType'
    BY <1>2, <2>1, SameConfig, SameRest DEF calling
  <2>3. CASE /\ ws # 0 /\ connected' = TRUE /\ healthy' = TRUE
             /\ own' = [own EXCEPT ![t] = ws] /\ pc' = [pc EXCEPT ![t] = "connecting"]
             /\ UNCHANGED <<job, cancelled, ws, coro>>
    <3>1. "connecting" \in IF t \in Tasks THEN TaskPlaces ELSE CallerPlaces
      BY DEF TaskPlaces
    <3>2. cancelled' \subseteq Tasks
      BY <2>3 DEF PlaceType
    <3>3. PlaceType'
      BY <1>1, <2>3, <3>1, <3>2, Move
    <3>4. HandleType'
      BY <2>1, <2>3 DEF HandleType
    <3>5. own' \in [Tasks -> 0..starts']
      BY <2>1, <2>3 DEF HandleType, SessionType
    <3>6. SessionType'
      BY <2>1, <2>3, <3>5 DEF SessionType
    <3>7. QED
      BY <2>2, <3>3, <3>4, <3>6
  <2>4. CASE ws = 0 /\ healthy' = FALSE /\ EnterStop(t, "die", TRUE) /\ UNCHANGED own
    <3>1. PlaceType' /\ HandleType'
      BY <1>1, <2>1, <2>4, EnterStopType
    <3>2. SessionType'
      BY <1>2, <2>1, <2>4, SameSession
    <3>3. QED
      BY <2>2, <3>1, <3>2
  <2>5. QED
    BY <1>4, <2>3, <2>4 DEF Begin
<1>5. CASE Disconnected(t)
  BY <1>1, <1>5, QueryType DEF Disconnected
<1>6. CASE Awake(t)
  BY <1>1, <1>2, <1>6, QueryType DEF Awake
<1>7. CASE Retry(t)
  <2>1. attempt[t] + 1 \in 1..Attempts
    BY DEF SessionType, Attempts
  <2>2. Query(t, attempt[t] + 1, connected) /\ ended' = ended
    BY <1>7 DEF Retry
  <2>3. QED
    BY <1>2, <2>1, <2>2, QueryType
<1>8. QED
  BY <1>3, <1>4, <1>5, <1>6, <1>7

LEMMA ProviderType ==
    ASSUME PlaceType, HandleType, SessionType, ConfigType, RestType,
           (\E t \in Tasks : Drop(t)) \/ CloseMarket \/ OpenMarket
    PROVE  PlaceType' /\ HandleType' /\ SessionType' /\ ConfigType' /\ RestType'
<1>1. UNCHANGED <<pc, job, cancelled, own, attempt, listener, config, starts, calling>>
        /\ ended' \subseteq Tasks
  BY DEF Drop, CloseMarket, OpenMarket, SessionType, session
<1>2. budget' \in [{"drops", "outages", "closings", "refusals"} -> Nat]
  <2>1. CASE \E t \in Tasks : Drop(t)
    BY <2>1, SpendType DEF Drop
  <2>2. CASE CloseMarket
    BY <2>2, SpendType DEF CloseMarket
  <2>3. CASE OpenMarket
    BY <2>3 DEF OpenMarket, RestType
  <2>4. QED
    BY <2>1, <2>2, <2>3
<1>3. market' \in BOOLEAN
  BY DEF Drop, CloseMarket, OpenMarket, RestType
<1>4. PlaceType' /\ HandleType' /\ SessionType'
  BY <1>1 DEF PlaceType, HandleType, SessionType, listener
<1>5. calls \in calls..MaxCalls
  BY DEF ConfigType
<1>6. ConfigType' /\ RestType'
  BY <1>1, <1>2, <1>3, <1>5, SameConfig DEF RestType, calling
<1>7. QED
  BY <1>4, <1>6

LEMMA TypeInit == Init => TypeOK
<1> SUFFICES ASSUME Init PROVE PlaceType /\ HandleType /\ SessionType /\ ConfigType /\ RestType
  BY TypeGroups
<1>1. PlaceType
  <2>1. \A a \in Actors : a \in Callers <=> a \notin Tasks
    BY Apart DEF Actors
  <2>2. QED
    BY <2>1 DEF Init, PlaceType, Actors, CallerPlaces, TaskPlaces
<1>2. /\ connected \in BOOLEAN /\ healthy \in BOOLEAN /\ late \in BOOLEAN
      /\ market \in BOOLEAN /\ wanted \in BOOLEAN /\ overlapped \in BOOLEAN
  BY DEF Init
<1>3. /\ ws = 0 /\ coro = 0 /\ starts = 0 /\ version = 0 /\ calls = 0 /\ ended = {}
      /\ own = [t \in Tasks |-> 0] /\ attempt = [t \in Tasks |-> 0]
      /\ made = [t \in Tasks |-> 0]
      /\ budget = [drops |-> MaxDrops, outages |-> MaxOutages,
                   closings |-> MaxClosings, refusals |-> MaxRefusals]
  BY DEF Init
<1>4. HandleType
  BY <1>2, <1>3 DEF HandleType
<1>5. SessionType
  BY <1>2, <1>3 DEF SessionType, Attempts
<1>6. ConfigType
  BY <1>2, <1>3 DEF ConfigType
<1>7. RestType
  BY <1>2, <1>3 DEF RestType
<1>8. QED
  BY <1>1, <1>4, <1>5, <1>6, <1>7

LEMMA TypeStep == TypeOK /\ [Next]_vars => TypeOK'
<1> SUFFICES ASSUME PlaceType, HandleType, SessionType, ConfigType, RestType, [Next]_vars
             PROVE  PlaceType' /\ HandleType' /\ SessionType' /\ ConfigType' /\ RestType'
  BY TypeGroups
<1>1. ASSUME NEW c \in Callers, Calls(c)
      PROVE  PlaceType' /\ HandleType' /\ SessionType' /\ ConfigType' /\ RestType'
  BY <1>1, CallType, SetType DEF Calls
<1>2. ASSUME NEW c \in Callers, CallerStep(c)
      PROVE  PlaceType' /\ HandleType' /\ SessionType' /\ ConfigType' /\ RestType'
  BY <1>2, CallerType, StopType DEF CallerStep, Actors
<1>3. ASSUME NEW t \in Tasks, TaskStep(t)
      PROVE  PlaceType' /\ HandleType' /\ SessionType' /\ ConfigType' /\ RestType'
  BY <1>3, TaskType, StopType DEF TaskStep, Actors
<1>4. CASE UNCHANGED vars
  BY <1>4 DEF vars, PlaceType, HandleType, SessionType, ConfigType, RestType,
              listener, config, session, calling
<1>5. QED
  BY <1>1, <1>2, <1>3, <1>4, ProviderType DEF Next

\* Every variable of the listener keeps its type, whatever is called at once.
THEOREM TypeCorrect == Spec => []TypeOK
BY TypeInit, TypeStep, PTL DEF Spec

(***************************************************************************)
(* The inductive invariant behind FeedOwned and StoppedIsQuiet, which      *)
(* holds until two calls overlap.                                          *)
(***************************************************************************)

\* A task at work is the one the listener holds, and it is not in stop().
Owned ==
    \A t \in Tasks : Live(t) /\ t \notin cancelled =>
        coro = t /\ pc[t] \in {"new", "connecting", "asleep", "retrying"}

\* Only the current task is ever cancelled, and someone waits for it to end.
OneCancelled ==
    /\ \A t \in cancelled : t = coro /\ Live(t)
    /\ cancelled # {} => \E a \in Actors : pc[a] = "flush"

\* Past the cancellation nothing is at work, and past its delivery nothing is
\* left.
StopWorks ==
    \A c \in Callers :
        /\ pc[c] = "flush" => \A t \in Tasks : Live(t) => t \in cancelled
        /\ pc[c] \in {"unsub", "closing", "pause"} => \A t \in Tasks : ~Live(t)

\* Callers take turns.
OneCaller ==
    \A c, d \in Callers : pc[c] # "idle" /\ pc[d] # "idle" => c = d

\* After a stop() nothing is at work and no restart is pending.
StopLasts ==
    ~wanted =>
        /\ \A t \in Tasks : Live(t) => t \in cancelled
        /\ \A c \in Callers : pc[c] # "idle" =>
              pc[c] \in {"flush", "unsub", "closing"} /\ job[c] = "stop"
        /\ connected => \E c \in Callers : pc[c] # "idle"

Turns == Owned /\ OneCancelled /\ StopWorks /\ OneCaller /\ StopLasts
IInv  == TypeOK /\ (~overlapped => Turns)

\* What one actor's move does to pc.
LEMMA Moved ==
    ASSUME TypeOK, NEW a \in Actors, NEW p, pc' = [pc EXCEPT ![a] = p]
    PROVE  \A b \in Actors : pc'[b] = IF b = a THEN p ELSE pc[b]
BY DEF TypeOK

LEMMA Jobbed ==
    ASSUME TypeOK, NEW a \in Actors, NEW p, job' = [job EXCEPT ![a] = p]
    PROVE  \A b \in Actors : job'[b] = IF b = a THEN p ELSE job[b]
BY DEF TypeOK

\* A task that may run is the only live one, the listener is wanted and no
\* caller is past the beginning of stop().
LEMMA Runner ==
    ASSUME TypeOK, Turns, NEW t \in Tasks, Live(t), t \notin cancelled
    PROVE  /\ coro = t /\ pc[t] \in {"new", "connecting", "asleep", "retrying"}
           /\ cancelled = {} /\ wanted
           /\ \A u \in Tasks : Live(u) => u = t
           /\ \A c \in Callers : pc[c] \in {"idle", "spawned"}
<1>1. coro = t /\ pc[t] \in {"new", "connecting", "asleep", "retrying"}
  BY DEF Turns, Owned
<1>2. cancelled = {}
  BY <1>1 DEF Turns, OneCancelled
<1>3. wanted
  BY DEF Turns, StopLasts
<1>4. \A u \in Tasks : Live(u) => u = t
  BY <1>1, <1>2 DEF Turns, Owned
<1>5. \A c \in Callers : pc[c] \in {"idle", "spawned"}
  BY DEF Turns, StopWorks, TypeOK, CallerPlaces
<1>6. QED
  BY <1>1, <1>2, <1>3, <1>4, <1>5

\* No actor is working, so nothing is being cancelled.
LEMMA NobodyWorks ==
    ASSUME TypeOK, Turns, ~Busy
    PROVE  cancelled = {} /\ \A c \in Callers : pc[c] = "idle"
<1>1. cancelled = {}
  BY DEF Turns, OneCancelled, Busy, Working
<1>2. \A c \in Callers : pc[c] = "idle"
  BY DEF Busy, Working, TypeOK, CallerPlaces, Actors
<1>3. QED
  BY <1>1, <1>2

\* A caller begins stop() while no other is at it.
LEMMA CallerStops ==
    ASSUME TypeOK, Turns, NEW c \in Callers, \A d \in Callers : pc[d] # "idle" => d = c,
           NEW j \in {"stop", "restart"}, EnterStop(c, j, connected),
           wanted' \/ j = "stop"
    PROVE  Turns'
<1>1. c \in Actors /\ \A t \in Tasks : t \in Actors /\ t # c /\ t # 0
  BY Apart DEF Actors, Tasks
<1>2. \A d \in Callers : d \in Actors
  BY DEF Actors
<1>3. CASE coro = 0 /\ Reset(c, j)
  <2>1. cancelled = {} /\ \A t \in Tasks : ~Live(t)
    BY <1>1, <1>3 DEF Turns, Owned, OneCancelled, TypeOK
  <2>2. /\ pc' = [pc EXCEPT ![c] = AfterJob[j]] /\ cancelled' = {} /\ connected' = FALSE
        /\ AfterJob[j] \in {"idle", "pause"} /\ (j = "stop" => AfterJob[j] = "idle")
    BY <1>3, <2>1 DEF Reset, AfterJob
  <2>3. \A b \in Actors : pc'[b] = IF b = c THEN AfterJob[j] ELSE pc[b]
    BY <1>1, <2>2, Moved, ZenonT(30)
  <2>4. \A t \in Tasks : ~Live(t)'
    BY <1>1, <2>1, <2>3 DEF Live
  <2>5. \A d \in Callers : pc'[d] # "idle" => d = c /\ j = "restart"
    BY <1>2, <2>2, <2>3
  <2>6. QED
    BY <2>2, <2>4, <2>5 DEF Turns, Owned, OneCancelled, StopWorks, OneCaller, StopLasts
<1>4. CASE coro # 0 /\ ~(coro = 0 /\ Reset(c, j))
  <2>1. /\ cancelled' = IF Live(coro) THEN cancelled \cup {coro} ELSE cancelled
        /\ pc' = [pc EXCEPT ![c] = "flush"] /\ job' = [job EXCEPT ![c] = j]
        /\ coro' = coro
    BY <1>4 DEF EnterStop
  <2>2. \A b \in Actors : pc'[b] = IF b = c THEN "flush" ELSE pc[b]
    BY <1>1, <2>1, Moved, ZenonT(30)
  <2>3. job'[c] = j
    BY <1>1, <2>1, Jobbed, ZenonT(30)
  <2>4. \A t \in Tasks : Live(t)' <=> Live(t)
    BY <1>1, <2>2 DEF Live
  <2>5. \A t \in Tasks : Live(t)' => t \in cancelled'
    BY <2>1, <2>4 DEF Turns, Owned
  <2>6. \A t \in cancelled' : t = coro' /\ Live(t)'
    <3>1. cancelled \subseteq Tasks /\ (Live(coro) => coro \in Tasks)
      BY <1>4 DEF TypeOK, Tasks
    <3>2. QED
      BY <2>1, <2>4, <3>1 DEF Turns, OneCancelled
  <2>7. \A d \in Callers : pc'[d] # "idle" => d = c /\ pc'[d] = "flush"
    BY <1>2, <2>2
  <2>8. pc'[c] = "flush"
    BY <1>1, <2>2
  <2>9. Owned' /\ OneCancelled' /\ StopWorks' /\ OneCaller'
    BY <1>1, <2>5, <2>6, <2>7, <2>8 DEF Owned, OneCancelled, StopWorks, OneCaller
  <2>10. StopLasts'
    BY <2>3, <2>5, <2>7, <2>8 DEF StopLasts
  <2>11. QED
    BY <2>9, <2>10 DEF Turns
<1>5. QED
  BY <1>3, <1>4 DEF EnterStop

\* A caller starts a task when none is left.
LEMMA CallerLaunches ==
    ASSUME TypeOK, Turns, NEW c \in Callers, \A d \in Callers : pc[d] # "idle" => d = c,
           \A t \in Tasks : ~Live(t), starts < MaxStarts, coro' = starts + 1,
           pc' = [pc EXCEPT ![c] = AfterJob["stop"], ![starts + 1] = "new"],
           cancelled' = cancelled, wanted'
    PROVE  Turns'
<1>1. /\ c \in Actors /\ starts + 1 \in Tasks /\ starts + 1 \in Actors /\ AfterJob["stop"] = "idle"
      /\ \A t \in Tasks : t \in Actors /\ t # c
  BY Apart DEF Actors, Tasks, TypeOK, AfterJob
<1>2. \A b \in Actors : pc'[b] = IF b = starts + 1 THEN "new" ELSE IF b = c THEN "idle" ELSE pc[b]
  BY <1>1 DEF TypeOK
<1>3. \A t \in Tasks : Live(t)' => t = starts + 1
  BY <1>1, <1>2 DEF Live
<1>4. pc'[starts + 1] = "new" /\ cancelled' = {}
  BY <1>1, <1>2 DEF Turns, OneCancelled, TypeOK
<1>5. \A d \in Callers : pc'[d] = "idle"
  BY <1>1, <1>2, Apart DEF Actors
<1>6. QED
  BY <1>3, <1>4, <1>5 DEF Turns, Owned, OneCancelled, StopWorks, OneCaller, StopLasts

\* A caller goes on with stop(); a task never does, it has cancelled itself.
LEMMA StopperAlone ==
    ASSUME TypeOK, Turns, NEW a \in Actors, InStop(a)
    PROVE  /\ pc[a] \in {"flush", "unsub", "closing"} /\ a \in Callers
           /\ cancelled = {} /\ \A t \in Tasks : ~Live(t)
<1>1. pc[a] \in {"flush", "unsub", "closing"} /\ a \notin cancelled
  BY DEF InStop, Flushed, Unsubscribed, Closed, Resumes
<1>2. a \in Callers
  BY <1>1, Runner DEF Actors, Live
<1>3. /\ cancelled = {} /\ \A t \in Tasks : ~Live(t)
  <2>1. CASE pc[a] = "flush"
    <3>1. cancelled = {}
      BY <2>1 DEF InStop, Flushed, Unsubscribed, Closed, Resumes
    <3>2. QED
      BY <1>2, <2>1, <3>1 DEF Turns, StopWorks
  <2>2. CASE pc[a] # "flush"
    <3>1. \A t \in Tasks : ~Live(t)
      BY <1>1, <1>2, <2>2 DEF Turns, StopWorks
    <3>2. QED
      BY <3>1 DEF Turns, OneCancelled, TypeOK
  <2>3. QED
    BY <2>1, <2>2
<1>4. QED
  BY <1>1, <1>2, <1>3

LEMMA StopGoesOn ==
    ASSUME TypeOK, Turns, NEW a \in Actors, InStop(a)
    PROVE  Turns'
<1>1. pc[a] \in {"flush", "unsub", "closing"}
  BY StopperAlone
<1>2. a \in Callers
  BY StopperAlone
<1>3. cancelled = {} /\ \A t \in Tasks : ~Live(t)
  BY StopperAlone
<1>4. \A d \in Callers : pc[d] # "idle" => d = a
  BY <1>1, <1>2 DEF Turns, OneCaller
<1>5. /\ UNCHANGED <<cancelled, wanted>>
      /\ \/ Reset(a, job[a])
         \/ \E p \in {"unsub", "closing"} :
               pc' = [pc EXCEPT ![a] = p] /\ UNCHANGED <<job, cancelled, ws, coro, connected>>
  BY DEF InStop, Flushed, Unsubscribed, Closed, Reset, calling
<1>6. \A t \in Tasks : t \in Actors /\ t # a
  BY <1>2, Apart
<1>7. \A d \in Callers : d \in Actors
  BY DEF Actors
<1>8. CASE Reset(a, job[a])
  <2>1. /\ pc' = [pc EXCEPT ![a] = AfterJob[job[a]]] /\ connected' = FALSE
        /\ job[a] \in {"stop", "restart"}
    BY <1>2, <1>8, Apart DEF Reset, TypeOK, Actors, Tasks
  <2>2. AfterJob[job[a]] \in {"idle", "pause"} /\ (job[a] = "stop" => AfterJob[job[a]] = "idle")
    BY <2>1 DEF AfterJob
  <2>3. \A b \in Actors : pc'[b] = IF b = a THEN AfterJob[job[a]] ELSE pc[b]
    BY <2>1, Moved
  <2>4. \A t \in Tasks : ~Live(t)'
    BY <1>3, <1>6, <2>3 DEF Live
  <2>5. \A d \in Callers : pc'[d] # "idle" => d = a /\ job[a] # "stop"
    BY <1>4, <1>7, <2>2, <2>3
  <2>6. ~wanted => job[a] = "stop"
    BY <1>1, <1>2 DEF Turns, StopLasts
  <2>7. QED
    BY <1>3, <1>5, <2>1, <2>2, <2>4, <2>5, <2>6
       DEF Turns, Owned, OneCancelled, StopWorks, OneCaller, StopLasts
<1>9. ASSUME NEW p \in {"unsub", "closing"}, pc' = [pc EXCEPT ![a] = p],
             UNCHANGED <<job, cancelled, ws, coro, connected>>
      PROVE  Turns'
  <2>1. \A b \in Actors : pc'[b] = IF b = a THEN p ELSE pc[b]
    BY <1>9, Moved
  <2>2. \A t \in Tasks : ~Live(t)'
    BY <1>3, <1>6, <2>1 DEF Live
  <2>3. \A d \in Callers : pc'[d] # "idle" => d = a
    BY <1>4, <1>7, <2>1
  <2>4. pc'[a] = p /\ pc'[a] \in {"unsub", "closing"}
    BY <2>1
  <2>5. ~wanted => job[a] = "stop"
    BY <1>1, <1>2 DEF Turns, StopLasts
  <2>6. Owned' /\ OneCancelled' /\ StopWorks' /\ OneCaller'
    BY <1>3, <1>9, <2>2, <2>3, <2>4 DEF Owned, OneCancelled, StopWorks, OneCaller
  <2>7. StopLasts'
    BY <1>2, <1>5, <1>9, <2>2, <2>3, <2>4, <2>5 DEF StopLasts
  <2>8. QED
    BY <2>6, <2>7 DEF Turns
<1>10. QED
  BY <1>5, <1>8, <1>9

LEMMA SetTurns ==
    ASSUME TypeOK, Turns, NEW c \in Callers, Set(c), ~overlapped'
    PROVE  Turns'
<1>1. UNCHANGED <<job, cancelled, coro, connected, wanted>>
  BY DEF Set, listener
<1>2. CASE ~connected
  <2>1. pc' = pc
    BY <1>2 DEF Set
  <2>2. QED
    BY <1>1, <2>1 DEF Turns, Owned, OneCancelled, StopWorks, OneCaller, StopLasts, Live
<1>3. CASE connected
  <2>1. ~Busy /\ pc' = [pc EXCEPT ![c] = "spawned"]
    BY <1>3 DEF Set
  <2>2. cancelled = {} /\ \A d \in Callers : pc[d] = "idle"
    BY <2>1, NobodyWorks
  <2>3. wanted
    BY <1>3, <2>2 DEF Turns, StopLasts
  <2>4. c \in Actors /\ \A t \in Tasks : t \in Actors /\ t # c
    BY Apart DEF Actors
  <2>5. \A b \in Actors : pc'[b] = IF b = c THEN "spawned" ELSE pc[b]
    BY <2>1, <2>4, Moved
  <2>6. \A d \in Callers : pc'[d] = IF d = c THEN "spawned" ELSE "idle"
    BY <2>2, <2>5 DEF Actors
  <2>7. Owned'
    BY <1>1, <2>4, <2>5 DEF Turns, Owned, Live
  <2>8. QED
    BY <1>1, <2>2, <2>3, <2>6, <2>7 DEF Turns, OneCancelled, StopWorks, OneCaller, StopLasts
<1>4. QED
  BY <1>2, <1>3

LEMMA CancelledTurns ==
    ASSUME TypeOK, Turns, NEW t \in Tasks, Cancelled(t)
    PROVE  Turns'
<1>1. /\ t \in cancelled /\ cancelled' = cancelled \ {t} /\ pc' = [pc EXCEPT ![t] = "done"]
      /\ UNCHANGED <<job, coro, connected, wanted>>
  BY DEF Cancelled, listener, calling
<1>2. cancelled' = {}
  BY <1>1 DEF Turns, OneCancelled
<1>3. \A b \in Actors : pc'[b] = IF b = t THEN "done" ELSE pc[b]
  BY <1>1, Moved DEF Actors
<1>4. \A c \in Callers : pc'[c] = pc[c]
  BY <1>3, Apart
<1>5. \A u \in Tasks : pc'[u] = IF u = t THEN "done" ELSE pc[u]
  BY <1>3 DEF Actors
<1>6. \A u \in Tasks : u \in cancelled => u = t
  BY <1>1 DEF Turns, OneCancelled
<1>7. Owned' /\ OneCancelled' /\ StopWorks'
  BY <1>1, <1>2, <1>4, <1>5, <1>6 DEF Turns, Owned, OneCancelled, StopWorks, Live
<1>8. OneCaller' /\ StopLasts'
  BY <1>1, <1>4, <1>5, <1>6 DEF Turns, OneCaller, StopLasts, Live
<1>9. QED
  BY <1>7, <1>8 DEF Turns

\* A task that may run goes to another await of its own.
LEMMA TaskMoves ==
    ASSUME TypeOK, Turns, NEW t \in Tasks, Live(t), t \notin cancelled,
           NEW p \in {"connecting", "asleep", "retrying"}, pc' = [pc EXCEPT ![t] = p],
           UNCHANGED <<cancelled, coro, wanted>>
    PROVE  Turns'
<1>1. /\ coro = t /\ cancelled = {} /\ wanted /\ \A u \in Tasks : Live(u) => u = t
      /\ \A c \in Callers : pc[c] \in {"idle", "spawned"}
  BY Runner
<1>2. \A b \in Actors : pc'[b] = IF b = t THEN p ELSE pc[b]
  BY Moved DEF Actors
<1>3. /\ \A c \in Callers : pc'[c] = pc[c]
      /\ \A u \in Tasks : pc'[u] = IF u = t THEN p ELSE pc[u]
  BY <1>2, Apart DEF Actors
<1>4. QED
  BY <1>1, <1>3 DEF Turns, Owned, OneCancelled, StopWorks, OneCaller, StopLasts, Live

\* A task that may run stops the listener, and with it itself.
LEMMA TaskStops ==
    ASSUME TypeOK, Turns, NEW t \in Tasks, Live(t), t \notin cancelled,
           NEW flag, EnterStop(t, "die", flag), UNCHANGED wanted
    PROVE  Turns'
<1>1. /\ coro = t /\ cancelled = {} /\ wanted /\ \A u \in Tasks : Live(u) => u = t
      /\ \A c \in Callers : pc[c] \in {"idle", "spawned"}
  BY Runner
<1>2. /\ pc' = [pc EXCEPT ![t] = "flush"] /\ cancelled' = {t} /\ coro' = t
  BY <1>1, Apart DEF EnterStop, Tasks
<1>3. \A b \in Actors : pc'[b] = IF b = t THEN "flush" ELSE pc[b]
  BY <1>2, Moved DEF Actors
<1>4. /\ \A c \in Callers : pc'[c] = pc[c]
      /\ \A u \in Tasks : pc'[u] = IF u = t THEN "flush" ELSE pc[u]
      /\ pc'[t] = "flush" /\ t \in Actors
  BY <1>3, Apart DEF Actors
<1>5. QED
  BY <1>1, <1>2, <1>4 DEF Turns, Owned, OneCancelled, StopWorks, OneCaller, StopLasts, Live

\* A task that may run starts its successor.
LEMMA TaskLaunches ==
    ASSUME TypeOK, Turns, NEW t \in Tasks, Live(t), t \notin cancelled,
           starts < MaxStarts, coro' = starts + 1,
           pc' = [pc EXCEPT ![t] = AfterJob["die"], ![starts + 1] = "new"],
           UNCHANGED <<cancelled, wanted>>
    PROVE  Turns'
<1>1. /\ coro = t /\ cancelled = {} /\ wanted /\ \A u \in Tasks : Live(u) => u = t
      /\ \A c \in Callers : pc[c] \in {"idle", "spawned"}
  BY Runner
<1>2. starts + 1 \in Tasks /\ AfterJob["die"] = "done" /\ t \in Actors
  BY DEF TypeOK, Tasks, AfterJob, Actors
<1>3. starts + 1 \in Actors
  BY <1>2 DEF Actors
<1>4. \A b \in Actors : pc'[b] = IF b = starts + 1 THEN "new" ELSE IF b = t THEN "done" ELSE pc[b]
  BY <1>2, <1>3 DEF TypeOK
<1>5. /\ \A c \in Callers : pc'[c] = pc[c]
      /\ \A u \in Tasks : Live(u)' => u = starts + 1
      /\ pc'[starts + 1] = "new"
  BY <1>1, <1>2, <1>3, <1>4, Apart DEF Actors, Live
<1>6. QED
  BY <1>1, <1>2, <1>5 DEF Turns, Owned, OneCancelled, StopWorks, OneCaller, StopLasts

LEMMA TaskTurns ==
    ASSUME TypeOK, Turns, NEW t \in Tasks, Begin(t) \/ Disconnected(t) \/ Awake(t) \/ Retry(t)
    PROVE  Turns'
<1>1. t \notin cancelled /\ Live(t)
  BY DEF Begin, Disconnected, Awake, Retry, Resumes, Live
<1>2. UNCHANGED wanted
  BY DEF Begin, Disconnected, Awake, Retry, Query, calling
<1>3. CASE Begin(t)
  <2>1. CASE pc' = [pc EXCEPT ![t] = "connecting"] /\ UNCHANGED <<cancelled, coro>>
    BY <1>1, <1>2, <2>1, TaskMoves
  <2>2. CASE EnterStop(t, "die", TRUE)
    BY <1>1, <1>2, <2>2, TaskStops
  <2>3. QED
    BY <1>3, <2>1, <2>2 DEF Begin
<1>4. ASSUME NEW k, NEW flag, Query(t, k, flag)
      PROVE  Turns'
  <2>1. CASE Start(t, "die", flag)
    <3>1. CASE EnterStop(t, "die", flag)
      BY <1>1, <1>2, <3>1, TaskStops
    <3>2. CASE /\ starts < MaxStarts /\ coro' = starts + 1 /\ cancelled' = cancelled
               /\ pc' = [pc EXCEPT ![t] = AfterJob["die"], ![starts + 1] = "new"]
      BY <1>1, <1>2, <3>2, TaskLaunches
    <3>3. QED
      BY <2>1, <3>1, <3>2 DEF Start
  <2>2. CASE Sleep(t, flag)
    <3>1. pc' = [pc EXCEPT ![t] = "asleep"] /\ UNCHANGED <<cancelled, coro>>
      BY <2>2 DEF Sleep
    <3>2. QED
      BY <1>1, <1>2, <3>1, TaskMoves
  <2>3. CASE QueryFails(t, k, flag)
    <3>1. CASE EnterStop(t, "die", flag)
      BY <1>1, <1>2, <3>1, TaskStops
    <3>2. CASE pc' = [pc EXCEPT ![t] = "retrying"] /\ UNCHANGED <<cancelled, coro>>
      BY <1>1, <1>2, <3>2, TaskMoves
    <3>3. QED
      BY <2>3, <3>1, <3>2 DEF QueryFails
  <2>4. QED
    BY <1>4, <2>1, <2>2, <2>3 DEF Query
<1>5. QED
  BY <1>3, <1>4 DEF Disconnected, Awake, Retry

LEMMA CallTurns ==
    ASSUME TypeOK, Turns, NEW c \in Callers, ~overlapped',
           CallStart(c) \/ CallStop(c) \/ CallRestart(c)
    PROVE  Turns'
<1>1. Call(c) /\ ~Busy
  BY DEF CallStart, CallStop, CallRestart, Call
<1>2. cancelled = {} /\ \A d \in Callers : pc[d] = "idle"
  BY <1>1, NobodyWorks
<1>3. \A d \in Callers : pc[d] # "idle" => d = c
  BY <1>2
<1>4. ASSUME NEW j \in {"stop", "restart"}, EnterStop(c, j, connected), wanted' \/ j = "stop"
      PROVE  Turns'
  BY <1>3, <1>4, CallerStops
<1>5. CASE CallStart(c)
  <2>1. wanted' /\ ~wanted /\ Start(c, "stop", connected)
    BY <1>5 DEF CallStart
  <2>2. \A t \in Tasks : ~Live(t)
    BY <1>2, <2>1 DEF Turns, StopLasts
  <2>3. CASE EnterStop(c, "stop", connected)
    BY <1>4, <2>3
  <2>4. CASE /\ starts < MaxStarts /\ coro' = starts + 1 /\ cancelled' = cancelled
             /\ pc' = [pc EXCEPT ![c] = AfterJob["stop"], ![starts + 1] = "new"]
    BY <1>3, <2>1, <2>2, <2>4, CallerLaunches
  <2>5. QED
    BY <2>1, <2>3, <2>4 DEF Start
<1>6. CASE CallStop(c)
  BY <1>4, <1>6 DEF CallStop
<1>7. CASE CallRestart(c)
  <2>1. wanted' /\ EnterStop(c, "restart", connected)
    BY <1>7 DEF CallRestart
  <2>2. QED
    BY <1>4, <2>1
<1>8. QED
  BY <1>5, <1>6, <1>7

LEMMA CallerTurns ==
    ASSUME TypeOK, Turns, NEW c \in Callers, Spawned(c) \/ Paused(c)
    PROVE  Turns'
<1>1. pc[c] \in {"spawned", "pause"} /\ wanted' = wanted
  BY DEF Spawned, Paused, calling
<1>2. \A d \in Callers : pc[d] # "idle" => d = c
  BY <1>1 DEF Turns, OneCaller
<1>3. wanted'
  BY <1>1 DEF Turns, StopLasts
<1>4. ASSUME NEW j \in {"stop", "restart"}, EnterStop(c, j, connected)
      PROVE  Turns'
  BY <1>2, <1>3, <1>4, CallerStops
<1>5. CASE Spawned(c)
  BY <1>4, <1>5 DEF Spawned
<1>6. CASE Paused(c)
  <2>1. \A t \in Tasks : ~Live(t)
    BY <1>6 DEF Paused, Turns, StopWorks
  <2>2. CASE EnterStop(c, "stop", connected)
    BY <1>4, <2>2
  <2>3. CASE /\ starts < MaxStarts /\ coro' = starts + 1 /\ cancelled' = cancelled
             /\ pc' = [pc EXCEPT ![c] = AfterJob["stop"], ![starts + 1] = "new"]
    BY <1>2, <1>3, <2>1, <2>3, CallerLaunches
  <2>4. QED
    BY <1>6, <2>2, <2>3 DEF Paused, Start
<1>7. QED
  BY <1>5, <1>6

LEMMA TurnsInit == Init => Turns
<1> SUFFICES ASSUME Init PROVE Turns
  OBVIOUS
<1>1. /\ cancelled = {} /\ ~wanted /\ ~connected
      /\ \A c \in Callers : pc[c] = "idle"
      /\ \A t \in Tasks : ~Live(t)
  BY Apart DEF Init, Live, Actors
<1>2. QED
  BY <1>1 DEF Turns, Owned, OneCancelled, StopWorks, OneCaller, StopLasts

LEMMA TurnsStep == IInv /\ [Next]_vars => IInv'
<1> SUFFICES ASSUME TypeOK, ~overlapped => Turns, [Next]_vars, ~overlapped' PROVE Turns'
  BY TypeStep DEF IInv
<1>1. ~overlapped
  BY DEF Next, Calls, CallStart, CallStop, CallRestart, Call, Set, CallerStep, Spawned,
         Paused, InStop, Flushed, Unsubscribed, Closed, TaskStep, Cancelled, Begin,
         Disconnected, Awake, Retry, Query, Drop, CloseMarket, OpenMarket, calling, vars
<1>2. Turns
  BY <1>1
<1>3. ASSUME NEW c \in Callers, Calls(c) PROVE Turns'
  BY <1>2, <1>3, CallTurns, SetTurns DEF Calls
<1>4. ASSUME NEW c \in Callers, CallerStep(c) PROVE Turns'
  BY <1>2, <1>4, CallerTurns, StopGoesOn DEF CallerStep, Actors
<1>5. ASSUME NEW t \in Tasks, TaskStep(t) PROVE Turns'
  BY <1>2, <1>5, TaskTurns, CancelledTurns, StopGoesOn DEF TaskStep, Actors
<1>6. CASE (\E t \in Tasks : Drop(t)) \/ CloseMarket \/ OpenMarket \/ UNCHANGED vars
  <2>1. UNCHANGED <<pc, job, cancelled, coro, connected, wanted>>
    BY <1>6 DEF Drop, CloseMarket, OpenMarket, vars, listener, calling
  <2>2. QED
    BY <1>2, <2>1 DEF Turns, Owned, OneCancelled, StopWorks, OneCaller, StopLasts, Live
<1>7. QED
  BY <1>3, <1>4, <1>5, <1>6 DEF Next

LEMMA Invariant == Spec => []IInv
<1>1. Init => IInv
  BY TypeInit, TurnsInit DEF IInv
<1>2. QED
  BY <1>1, TurnsStep, PTL DEF Spec

\* stop() reaches every task that is at work, until two calls overlap.
THEOREM HandleReachesTasks == Spec => []FeedOwned
<1>1. IInv => FeedOwned
  BY DEF IInv, Turns, Owned, FeedOwned
<1>2. QED
  BY <1>1, Invariant, PTL

\* Nothing is at work after stop(), until two calls overlap.
THEOREM StopIsFinal == Spec => []StoppedIsQuiet
<1>1. IInv => StoppedIsQuiet
  <2> SUFFICES ASSUME IInv, ~overlapped, ~wanted, ~Busy, NEW t \in Tasks PROVE ~Live(t)
    BY DEF StoppedIsQuiet
  <2>1. Turns /\ TypeOK
    BY DEF IInv
  <2>2. cancelled = {}
    BY <2>1, NobodyWorks
  <2>3. QED
    BY <2>1, <2>2 DEF Turns, StopLasts
<1>2. QED
  BY <1>1, Invariant, PTL

(***************************************************************************)
(* A dead listener says so, whatever overlaps                              *)
(***************************************************************************)
\* Tasks are numbered as they are made, and only a task that exists is
\* cancelled.
Numbered ==
    /\ \A t \in Tasks : t > starts => pc[t] = "none"
    /\ \A t \in cancelled : t <= starts
    /\ budget["refusals"] <= MaxRefusals

\* A task that will go on, and a caller that will start one.
AtWork(t) == pc[t] \in {"new", "connecting", "asleep", "retrying"} /\ t \notin cancelled
Restarting(c) ==
    \/ pc[c] = "pause"
    \/ pc[c] \in {"flush", "unsub", "closing"} /\ job[c] = "restart"

\* Whoever ends the last task clears the flag, or starts another, or was asked
\* to stop.
Attended ==
    wanted /\ healthy /\ budget["refusals"] = MaxRefusals =>
        (\E t \in Tasks : AtWork(t)) \/ (\E c \in Callers : Restarting(c))

LEMMA EnterStopShape ==
    ASSUME TypeOK, NEW a \in Actors, NEW j, NEW flag, EnterStop(a, j, flag)
    PROVE  /\ \A b \in Actors \ {a} : pc'[b] = pc[b] /\ job'[b] = job[b]
           /\ job'[a] = j /\ pc'[a] \in {"flush", AfterJob[j]}
           /\ \A t \in cancelled' : t \in cancelled \/ t = coro
BY DEF TypeOK, EnterStop, Reset

\* start() makes the next task, or a refusal is spent.
LEMMA StartShape ==
    ASSUME TypeOK, Numbered, NEW a \in Actors, pc[a] # "none", NEW j, NEW flag,
           Start(a, j, flag)
    PROVE  \/ /\ starts + 1 \in Tasks /\ starts' = starts + 1 /\ pc'[starts + 1] = "new"
              /\ \A b \in Actors \ {a, starts + 1} : pc'[b] = pc[b]
              /\ UNCHANGED <<cancelled, budget>> /\ starts + 1 \notin cancelled
           \/ /\ EnterStop(a, j, flag) /\ starts' = starts
              /\ budget'["refusals"] = budget["refusals"] - 1
<1>1. CASE /\ starts < MaxStarts /\ starts' = starts + 1 /\ UNCHANGED <<cancelled, budget>>
           /\ pc' = [pc EXCEPT ![a] = AfterJob[j], ![starts + 1] = "new"]
  <2>1. starts + 1 \in Tasks /\ starts \in Nat /\ starts + 1 \in Actors
    BY <1>1 DEF TypeOK, Tasks, Actors
  <2>2. starts + 1 \notin cancelled
    BY <2>1 DEF Numbered
  <2>3. QED
    BY <1>1, <2>1, <2>2 DEF TypeOK
<1>2. CASE Spend("refusals") /\ EnterStop(a, j, flag) /\ starts' = starts
  <2>1. budget'["refusals"] = budget["refusals"] - 1
    BY <1>2 DEF Spend, TypeOK
  <2>2. QED
    BY <1>2, <2>1
<1>3. QED
  BY <1>1, <1>2 DEF Start

LEMMA InStopShape ==
    ASSUME TypeOK, NEW a \in Actors, InStop(a)
    PROVE  /\ UNCHANGED <<cancelled, starts, wanted, overlapped, healthy, budget>>
           /\ pc[a] \in {"flush", "unsub", "closing"}
           /\ \A b \in Actors \ {a} : pc'[b] = pc[b] /\ job'[b] = job[b]
           /\ \/ pc'[a] \in {"unsub", "closing"} /\ job'[a] = job[a]
              \/ pc'[a] = AfterJob[job[a]]
BY DEF TypeOK, InStop, Flushed, Unsubscribed, Closed, Reset, Resumes, calling

\* What a step of a task comes to: it goes to another await, stops the
\* listener, or starts its successor.
Outcome(t) ==
    \/ /\ \E p \in {"connecting", "asleep", "retrying"} : pc' = [pc EXCEPT ![t] = p]
       /\ UNCHANGED <<cancelled, starts>> /\ budget'["refusals"] = budget["refusals"]
    \/ /\ \E flag \in BOOLEAN : EnterStop(t, "die", flag)
       /\ healthy' = FALSE /\ starts' = starts
       /\ budget'["refusals"] = budget["refusals"]
    \/ \E flag \in BOOLEAN : Start(t, "die", flag)

LEMMA TaskShape ==
    ASSUME TypeOK, NEW t \in Tasks, Begin(t) \/ Disconnected(t) \/ Awake(t) \/ Retry(t)
    PROVE  AtWork(t) /\ UNCHANGED <<wanted, overlapped>> /\ Outcome(t)
<1>1. AtWork(t) /\ UNCHANGED <<wanted, overlapped>>
  BY DEF Begin, Disconnected, Awake, Retry, Query, Resumes, AtWork, calling
<1>2. Begin(t) => Outcome(t)
  BY DEF Begin, Outcome
<1>3. ASSUME NEW k, NEW flag \in BOOLEAN, Query(t, k, flag) PROVE Outcome(t)
  <2>1. CASE Start(t, "die", flag)
    BY <2>1 DEF Outcome
  <2>2. CASE Sleep(t, flag)
    BY <2>2 DEF Sleep, Outcome
  <2>3. CASE QueryFails(t, k, flag)
    <3>1. budget'["refusals"] = budget["refusals"]
      BY <2>3 DEF QueryFails, Spend, TypeOK
    <3>2. QED
      BY <2>3, <3>1 DEF QueryFails, Outcome
  <2>4. QED
    BY <1>3, <2>1, <2>2, <2>3 DEF Query
<1>4. Disconnected(t) \/ Awake(t) \/ Retry(t) => Outcome(t)
  <2>1. connected \in BOOLEAN
    BY DEF TypeOK
  <2>2. QED
    BY <1>3, <2>1 DEF Disconnected, Awake, Retry
<1>5. QED
  BY <1>1, <1>2, <1>4

LEMMA NumberedStep == TypeOK /\ TypeOK' /\ Numbered /\ [Next]_vars => Numbered'
<1> SUFFICES ASSUME TypeOK, TypeOK', Numbered, [Next]_vars PROVE Numbered'
  OBVIOUS
<1> /\ starts \in Nat /\ coro \in 0..starts /\ cancelled \subseteq Tasks /\ Tasks \subseteq Nat
    /\ Tasks \subseteq Actors /\ Callers \subseteq Actors /\ MaxRefusals \in Nat
    /\ budget["refusals"] \in Nat /\ pc \in [Actors -> CallerPlaces \cup TaskPlaces]
  BY DEF TypeOK, Tasks, Actors
<1>1. \A c \in Callers : c \notin Tasks /\ pc[c] # "none"
  BY Apart DEF TypeOK, CallerPlaces
\* A step of an actor that exists.
<1>2. ASSUME NEW a \in Actors, pc[a] # "none", starts' = starts,
             \A b \in Actors \ {a} : pc'[b] = pc[b],
             \A t \in cancelled' : t \in cancelled \/ t = coro,
             budget'["refusals"] <= budget["refusals"], budget'["refusals"] \in Nat
      PROVE  Numbered'
  <2>1. ASSUME NEW t \in Tasks, t > starts' PROVE pc'[t] = "none"
    <3>1. pc[t] = "none"
      BY <1>2, <2>1 DEF Numbered
    <3>2. t # a
      BY <1>2, <3>1
    <3>3. QED
      BY <1>2, <3>1, <3>2
  <2>2. ASSUME NEW t \in cancelled' PROVE t <= starts'
    <3>1. coro <= starts /\ \A u \in cancelled : u <= starts
      BY DEF Numbered
    <3>2. QED
      BY <1>2, <3>1
  <2>3. budget'["refusals"] <= MaxRefusals
    BY <1>2 DEF Numbered
  <2>4. QED
    BY <2>1, <2>2, <2>3 DEF Numbered
<1>3. ASSUME NEW a \in Actors, pc[a] # "none", NEW j, NEW flag, EnterStop(a, j, flag),
             starts' = starts, budget'["refusals"] = budget["refusals"]
      PROVE  Numbered'
  BY <1>2, <1>3, EnterStopShape
<1>4. ASSUME NEW a \in Actors, pc[a] # "none", NEW j, NEW flag, Start(a, j, flag)
      PROVE  Numbered'
  <2>1. CASE /\ starts + 1 \in Tasks /\ starts' = starts + 1
             /\ \A b \in Actors \ {a, starts + 1} : pc'[b] = pc[b]
             /\ UNCHANGED <<cancelled, budget>>
    <3>1. \A t \in Tasks : t > starts' => t # starts + 1 /\ t > starts /\ pc[t] = "none"
      BY <2>1 DEF Numbered
    <3>2. \A t \in Tasks : t > starts' => pc'[t] = "none"
      BY <1>4, <2>1, <3>1
    <3>3. \A t \in cancelled' : t <= starts'
      BY <2>1 DEF Numbered
    <3>4. QED
      BY <2>1, <3>2, <3>3 DEF Numbered
  <2>2. CASE /\ EnterStop(a, j, flag) /\ starts' = starts
             /\ budget'["refusals"] = budget["refusals"] - 1
    <3>1. budget'["refusals"] \in Nat /\ budget'["refusals"] <= budget["refusals"]
      BY <2>2 DEF TypeOK
    <3>2. QED
      BY <1>2, <1>4, <2>2, <3>1, EnterStopShape
  <2>3. QED
    BY <1>4, <2>1, <2>2, StartShape
<1>5. ASSUME NEW c \in Callers, Calls(c) \/ Spawned(c) \/ Paused(c) PROVE Numbered'
  <2>1. CASE CallStart(c) \/ Paused(c)
    BY <1>1, <1>4, <2>1 DEF CallStart, Paused
  <2>2. CASE CallStop(c) \/ CallRestart(c) \/ Spawned(c)
    BY <1>1, <1>3, <2>2 DEF CallStop, CallRestart, Spawned
  <2>3. CASE Set(c)
    <3>1. /\ UNCHANGED <<starts, budget, cancelled>>
          /\ \A b \in Actors \ {c} : pc'[b] = pc[b]
      BY <2>3 DEF Set
    <3>2. QED
      BY <1>1, <1>2, <3>1
  <2>4. QED
    BY <1>5, <2>1, <2>2, <2>3 DEF Calls
<1>6. ASSUME NEW a \in Actors, InStop(a) PROVE Numbered'
  <2>1. /\ UNCHANGED <<cancelled, starts, budget>> /\ pc[a] # "none"
        /\ \A b \in Actors \ {a} : pc'[b] = pc[b]
    BY <1>6, InStopShape
  <2>2. QED
    BY <1>2, <2>1
<1>7. ASSUME NEW t \in Tasks, Begin(t) \/ Disconnected(t) \/ Awake(t) \/ Retry(t)
      PROVE  Numbered'
  <2>1. pc[t] # "none" /\ Outcome(t)
    BY <1>7, TaskShape DEF AtWork
  <2>2. ASSUME NEW p \in {"connecting", "asleep", "retrying"}, pc' = [pc EXCEPT ![t] = p],
               UNCHANGED <<cancelled, starts>>, budget'["refusals"] = budget["refusals"]
        PROVE  Numbered'
    <3>1. \A b \in Actors \ {t} : pc'[b] = pc[b]
      BY <2>2
    <3>2. QED
      BY <1>2, <2>1, <2>2, <3>1
  <2>3. QED
    BY <1>3, <1>4, <2>1, <2>2 DEF Outcome
<1>8. ASSUME NEW t \in Tasks, Cancelled(t) PROVE Numbered'
  <2>1. /\ t \in cancelled /\ cancelled' \subseteq cancelled /\ UNCHANGED <<starts, budget>>
        /\ \A b \in Actors \ {t} : pc'[b] = pc[b]
    BY <1>8 DEF Cancelled
  <2>2. \A u \in Tasks : u > starts => u # t /\ pc'[u] = "none"
    BY <2>1 DEF Numbered
  <2>3. QED
    BY <2>1, <2>2 DEF Numbered
<1>9. CASE (\E t \in Tasks : Drop(t)) \/ CloseMarket \/ OpenMarket \/ UNCHANGED vars
  <2>1. UNCHANGED <<pc, cancelled, starts>> /\ budget'["refusals"] = budget["refusals"]
    BY <1>9 DEF Drop, CloseMarket, OpenMarket, Spend, vars, TypeOK
  <2>2. QED
    BY <2>1 DEF Numbered
<1>10. QED
  BY <1>5, <1>6, <1>7, <1>8, <1>9 DEF Next, CallerStep, TaskStep

LEMMA AttendedStep == TypeOK /\ TypeOK' /\ Numbered /\ Attended /\ [Next]_vars => Attended'
<1> SUFFICES ASSUME TypeOK, TypeOK', Numbered, Attended, [Next]_vars,
                    wanted', healthy', budget'["refusals"] = MaxRefusals
             PROVE  (\E t \in Tasks : AtWork(t)') \/ (\E c \in Callers : Restarting(c)')
  BY DEF Attended
<1> DEFINE Goal == (\E t \in Tasks : AtWork(t)') \/ (\E c \in Callers : Restarting(c)')
<1> /\ Tasks \subseteq Actors /\ Callers \subseteq Actors /\ MaxRefusals \in Nat
    /\ budget["refusals"] \in Nat /\ budget["refusals"] <= MaxRefusals
    /\ pc \in [Actors -> CallerPlaces \cup TaskPlaces]
  BY DEF TypeOK, Actors, Numbered
<1>1. \A c \in Callers : c \notin Tasks /\ pc[c] # "none"
  BY Apart DEF TypeOK, CallerPlaces
\* A step that leaves those who work, and those who restart, where they are.
<1>2. ASSUME wanted, healthy, budget["refusals"] = MaxRefusals,
             \A t \in Tasks : AtWork(t) => AtWork(t)',
             \A c \in Callers : Restarting(c) => Restarting(c)'
      PROVE  Goal
  BY <1>2 DEF Attended
<1>3. ASSUME NEW a \in Actors, pc[a] # "none", NEW j, NEW flag, Start(a, j, flag)
      PROVE  Goal
  <2>1. starts + 1 \in Tasks /\ pc'[starts + 1] = "new" /\ starts + 1 \notin cancelled'
    BY <1>3, StartShape
  <2>2. QED
    BY <2>1 DEF AtWork
<1>4. ASSUME NEW c \in Callers, EnterStop(c, "restart", connected) PROVE Goal
  <2>1. job'[c] = "restart" /\ pc'[c] \in {"flush", "pause"}
    BY <1>4, EnterStopShape DEF AfterJob
  <2>2. QED
    BY <2>1 DEF Restarting
<1>5. ASSUME NEW c \in Callers, Calls(c) \/ Spawned(c) \/ Paused(c) PROVE Goal
  <2>1. CASE CallStart(c) \/ Paused(c)
    BY <1>1, <1>3, <2>1 DEF CallStart, Paused
  <2>2. CASE CallRestart(c) \/ Spawned(c)
    BY <1>4, <2>2 DEF CallRestart, Spawned
  <2>3. CASE CallStop(c)
    BY <2>3 DEF CallStop
  <2>4. CASE Set(c)
    <3>1. /\ UNCHANGED <<wanted, healthy, budget, cancelled, job>> /\ pc[c] = "idle"
          /\ \A b \in Actors \ {c} : pc'[b] = pc[b]
      BY <2>4 DEF Set, listener
    <3>2. \A t \in Tasks : pc'[t] = pc[t]
      BY <1>1, <3>1
    <3>3. QED
      BY <1>2, <3>1, <3>2 DEF AtWork, Restarting
  <2>5. QED
    BY <1>5, <2>1, <2>2, <2>3, <2>4 DEF Calls
<1>6. ASSUME NEW a \in Actors, InStop(a) PROVE Goal
  <2>1. /\ UNCHANGED <<cancelled, wanted, healthy, budget>>
        /\ pc[a] \in {"flush", "unsub", "closing"}
        /\ \A b \in Actors \ {a} : pc'[b] = pc[b] /\ job'[b] = job[b]
        /\ \/ pc'[a] \in {"unsub", "closing"} /\ job'[a] = job[a]
           \/ pc'[a] = AfterJob[job[a]]
    BY <1>6, InStopShape
  <2>2. \A t \in Tasks : AtWork(t) => AtWork(t)'
    BY <2>1 DEF AtWork
  <2>3. \A c \in Callers : Restarting(c) => Restarting(c)'
    BY <2>1 DEF Restarting, AfterJob
  <2>4. QED
    BY <1>2, <2>1, <2>2, <2>3
<1>7. ASSUME NEW t \in Tasks, Begin(t) \/ Disconnected(t) \/ Awake(t) \/ Retry(t)
      PROVE  Goal
  <2>1. AtWork(t) /\ Outcome(t) /\ pc[t] # "none"
    BY <1>7, TaskShape DEF AtWork
  <2>2. ASSUME NEW p \in {"connecting", "asleep", "retrying"}, pc' = [pc EXCEPT ![t] = p],
               UNCHANGED cancelled
        PROVE  Goal
    <3>1. pc'[t] = p
      BY <2>2 DEF TypeOK
    <3>2. QED
      BY <2>1, <2>2, <3>1 DEF AtWork
  <2>3. QED
    BY <1>3, <2>1, <2>2 DEF Outcome
<1>8. ASSUME NEW t \in Tasks, Cancelled(t) PROVE Goal
  <2>1. /\ t \in cancelled /\ cancelled' = cancelled \ {t}
        /\ UNCHANGED <<wanted, healthy, budget, job>>
        /\ \A b \in Actors \ {t} : pc'[b] = pc[b]
    BY <1>8 DEF Cancelled, listener, calling
  <2>2. \A u \in Tasks : AtWork(u) => AtWork(u)'
    BY <2>1 DEF AtWork
  <2>3. \A c \in Callers : Restarting(c) => Restarting(c)'
    BY <1>1, <2>1 DEF Restarting
  <2>4. QED
    BY <1>2, <2>1, <2>2, <2>3
<1>9. CASE (\E t \in Tasks : Drop(t)) \/ CloseMarket \/ OpenMarket \/ UNCHANGED vars
  <2>1. /\ UNCHANGED <<pc, cancelled, job, wanted, healthy>>
        /\ budget'["refusals"] = budget["refusals"]
    BY <1>9 DEF Drop, CloseMarket, OpenMarket, Spend, vars, TypeOK, listener, calling
  <2>2. QED
    BY <1>2, <2>1 DEF AtWork, Restarting
<1>10. QED
  BY <1>5, <1>6, <1>7, <1>8, <1>9 DEF Next, CallerStep, TaskStep

\* A listener that should run and has no task left says that it is unhealthy,
\* unless a client could not be made: whatever calls overlap, whichever task
\* cancels which.
THEOREM DeathIsReported == Spec => []DeadIsReported
<1>1. Init => Numbered /\ Attended
  <2> SUFFICES ASSUME Init PROVE Numbered /\ Attended
    OBVIOUS
  <2>1. cancelled = {} /\ ~wanted /\ budget["refusals"] = MaxRefusals
    BY DEF Init
  <2>2. \A t \in Tasks : pc[t] = "none"
    BY CallersAssumption DEF Init, Tasks, Actors
  <2>3. QED
    BY <2>1, <2>2 DEF Numbered, Attended
<1>2. (TypeOK /\ Numbered /\ Attended) /\ [Next]_vars => (TypeOK /\ Numbered /\ Attended)'
  BY TypeStep, NumberedStep, AttendedStep
<1>3. Attended => DeadIsReported
  BY DEF Attended, AtWork, Restarting, DeadIsReported, Live, Busy, Working, Actors
<1>4. QED
  BY <1>1, <1>2, <1>3, TypeInit, PTL DEF Spec

(***************************************************************************)
(* The configuration that the setters left                                 *)
(***************************************************************************)
\* A task that will go on was made with the current configuration, unless it
\* is connected and a restart is on its way.
Configured ==
    ~overlapped /\ ~late => \A t \in Tasks : t \notin cancelled =>
        /\ pc[t] = "new" => made[t] = version
        /\ pc[t] = "connecting" =>
             /\ connected /\ own[t] = t
             /\ (made[t] = version \/ \E c \in Callers : pc[c] = "spawned")

\* Nothing that stop() leaves uncancelled is about to connect, or connected.
LEMMA StopClears ==
    ASSUME TypeOK, Turns, NEW a \in Actors, NEW j \in {"stop", "restart", "die"}, NEW flag,
           EnterStop(a, j, flag)
    PROVE  \A t \in Tasks : t \notin cancelled' => pc'[t] \notin {"new", "connecting"}
<1> SUFFICES ASSUME NEW t \in Tasks, t \notin cancelled', pc'[t] \in {"new", "connecting"}
             PROVE  FALSE
  OBVIOUS
<1>1. pc'[a] \in {"flush", "idle", "pause", "done"} /\ \A b \in Actors \ {a} : pc'[b] = pc[b]
  BY EnterStopShape DEF AfterJob
<1>2. t \in Actors /\ t # a /\ t # 0
  BY <1>1 DEF Actors, Tasks
<1>3. Live(t) /\ cancelled \subseteq cancelled'
  BY <1>1, <1>2 DEF Live, EnterStop, Reset
<1>4. coro = t
  BY <1>3 DEF Turns, Owned
<1>5. t \in cancelled'
  BY <1>2, <1>3, <1>4 DEF EnterStop
<1>6. QED
  BY <1>5

\* The task that start() makes is the only one.
LEMMA LaunchConfigures ==
    ASSUME TypeOK, TypeOK', Numbered, NEW a \in Actors, pc[a] # "none",
           NEW j \in {"stop", "restart", "die"}, NEW flag, Start(a, j, flag),
           UNCHANGED version, Turns,
           \A t \in Tasks : Live(t) => t = a
    PROVE  Configured'
<1>1. CASE EnterStop(a, j, flag)
  BY <1>1, StopClears DEF Configured
<1>2. CASE /\ starts < MaxStarts /\ made' = [made EXCEPT ![starts + 1] = version]
           /\ pc' = [pc EXCEPT ![a] = AfterJob[j], ![starts + 1] = "new"]
  <2>1. starts + 1 \in Tasks /\ starts + 1 \in Actors
    BY <1>2 DEF TypeOK, Tasks, Actors
  <2>2. made'[starts + 1] = version' /\ pc'[starts + 1] = "new"
    BY <1>2, <2>1 DEF TypeOK
  <2>3. ASSUME NEW t \in Tasks, t # starts + 1 PROVE pc'[t] \notin {"new", "connecting"}
    <3>1. t \in Actors
      BY DEF Actors
    <3>2. CASE t = a
      BY <1>2, <2>3, <3>1, <3>2 DEF TypeOK, AfterJob
    <3>3. CASE t # a
      <4>1. pc'[t] = pc[t]
        BY <1>2, <2>3, <3>1, <3>3 DEF TypeOK
      <4>2. QED
        BY <3>3, <4>1 DEF Live
    <3>4. QED
      BY <3>2, <3>3
  <2>4. QED
    BY <2>2, <2>3 DEF Configured
<1>3. QED
  BY <1>1, <1>2 DEF Start

LEMMA SetConfigured ==
    ASSUME TypeOK, Configured, NEW c \in Callers, Set(c), ~overlapped, ~late, ~late'
    PROVE  Configured'
<1>1. /\ UNCHANGED <<cancelled, connected, own, made>>
      /\ pc' = IF connected THEN [pc EXCEPT ![c] = "spawned"] ELSE pc
      /\ \A t \in Tasks : pc[t] # "new"
  BY DEF Set, listener, session
<1>2. c \in Actors /\ \A t \in Tasks : t \in Actors /\ t # c
  BY Apart DEF Actors
<1>3. \A t \in Tasks : pc'[t] = pc[t]
  BY <1>1, <1>2 DEF TypeOK
<1>4. connected => pc'[c] = "spawned"
  BY <1>1, <1>2 DEF TypeOK
<1>5. QED
  BY <1>1, <1>3, <1>4 DEF Configured

LEMMA ConfiguredStep ==
    IInv /\ IInv' /\ Numbered /\ Configured /\ [Next]_vars => Configured'
<1> SUFFICES ASSUME TypeOK, TypeOK', ~overlapped => Turns, Numbered, Configured, [Next]_vars,
                    ~overlapped', ~late'
             PROVE  Configured'
  BY DEF IInv, Configured
<1>1. ~overlapped /\ ~late
  <2>1. ~overlapped
    BY DEF Next, Calls, CallStart, CallStop, CallRestart, Call, Set, CallerStep, Spawned,
           Paused, InStop, Flushed, Unsubscribed, Closed, TaskStep, Cancelled, Begin,
           Disconnected, Awake, Retry, Query, Drop, CloseMarket, OpenMarket, calling, vars
  <2>2. ASSUME NEW c \in Callers, Calls(c) PROVE ~late
    BY <2>2 DEF Calls, CallStart, CallStop, CallRestart, Call, Set
  <2>3. ASSUME NEW a \in Actors, InStop(a) PROVE ~late
    BY <2>3 DEF InStop, Flushed, Unsubscribed, Closed, config
  <2>4. ASSUME NEW c \in Callers, Spawned(c) \/ Paused(c) PROVE ~late
    BY <2>4 DEF Spawned, Paused, config
  <2>5. ASSUME NEW t \in Tasks,
               Cancelled(t) \/ Begin(t) \/ Disconnected(t) \/ Awake(t) \/ Retry(t) \/ Drop(t)
        PROVE  ~late
    BY <2>5 DEF Cancelled, Begin, Disconnected, Awake, Retry, Query, Drop, config
  <2>6. CASE CloseMarket \/ OpenMarket \/ UNCHANGED vars
    <3>1. UNCHANGED config
      BY <2>6 DEF CloseMarket, OpenMarket, vars
    <3>2. QED
      BY <2>1, <3>1 DEF config
  <2>7. QED
    BY <2>1, <2>2, <2>3, <2>4, <2>5, <2>6 DEF Next, CallerStep, TaskStep, Actors
<1> Turns
  BY <1>1
<1> Tasks \subseteq Actors /\ Callers \subseteq Actors /\ pc \in [Actors -> CallerPlaces \cup TaskPlaces]
  BY DEF Actors, TypeOK
<1>2. \A c \in Callers : c \notin Tasks /\ pc[c] # "none"
  BY Apart DEF TypeOK, CallerPlaces
\* Steps after which no task is about to connect, or connected.
<1>3. ASSUME \A t \in Tasks : t \notin cancelled' => pc'[t] \notin {"new", "connecting"}
      PROVE  Configured'
  BY <1>3 DEF Configured
<1>4. ASSUME NEW a \in Actors, NEW j \in {"stop", "restart", "die"}, NEW flag,
             EnterStop(a, j, flag)
      PROVE  Configured'
  BY <1>3, <1>4, StopClears
<1>5. ASSUME NEW c \in Callers, CallStart(c) \/ CallStop(c) \/ CallRestart(c) PROVE Configured'
  <2>1. CASE CallStart(c)
    <3>1. ~Busy /\ ~wanted /\ Start(c, "stop", connected) /\ UNCHANGED version
      BY <2>1 DEF CallStart, Call
    <3>2. \A t \in Tasks : ~Live(t)
      BY <3>1, NobodyWorks DEF Turns, StopLasts
    <3>3. QED
      BY <1>2, <3>1, <3>2, LaunchConfigures
  <2>2. CASE CallStop(c) \/ CallRestart(c)
    BY <1>4, <2>2 DEF CallStop, CallRestart
  <2>3. QED
    BY <1>5, <2>1, <2>2
<1>6. ASSUME NEW c \in Callers, Spawned(c) \/ Paused(c) PROVE Configured'
  <2>1. CASE Spawned(c)
    BY <1>4, <2>1 DEF Spawned
  <2>2. CASE Paused(c)
    <3>1. Start(c, "stop", connected) /\ UNCHANGED version /\ \A t \in Tasks : ~Live(t)
      BY <2>2 DEF Paused, Turns, StopWorks
    <3>2. QED
      BY <1>2, <3>1, LaunchConfigures
  <2>3. QED
    BY <1>6, <2>1, <2>2
<1>7. ASSUME NEW a \in Actors, InStop(a) PROVE Configured'
  <2>1. a \in Callers /\ \A t \in Tasks : ~Live(t)
    BY <1>7, StopperAlone
  <2>2. \A t \in Tasks : pc'[t] = pc[t]
    BY <1>2, <1>7, <2>1, InStopShape
  <2>3. QED
    BY <1>3, <2>1, <2>2 DEF Live
<1>8. ASSUME NEW t \in Tasks, Cancelled(t) PROVE Configured'
  <2>1. /\ t \in cancelled /\ cancelled' = cancelled \ {t}
        /\ UNCHANGED <<connected, own, made, version>> /\ pc' = [pc EXCEPT ![t] = "done"]
    BY <1>8 DEF Cancelled, listener, session, config
  <2>2. pc'[t] = "done" /\ \A b \in Actors \ {t} : pc'[b] = pc[b]
    BY <2>1
  <2>3. \A c \in Callers : pc'[c] = pc[c]
    BY <1>2, <2>2
  <2>4. QED
    BY <1>1, <2>1, <2>2, <2>3 DEF Configured
<1>9. ASSUME NEW t \in Tasks, Begin(t) \/ Disconnected(t) \/ Awake(t) \/ Retry(t)
      PROVE  Configured'
  <2>1. AtWork(t) /\ coro = t /\ \A u \in Tasks : Live(u) => u = t
    BY <1>9, TaskShape, Runner DEF AtWork, Live
  <2>2. pc[t] # "none" /\ ws = t
    BY <2>1 DEF AtWork, TypeOK
  <2>3. ASSUME NEW p, pc' = [pc EXCEPT ![t] = p]
        PROVE  pc'[t] = p /\ \A u \in Tasks \ {t} : pc'[u] \notin {"new", "connecting"}
    BY <2>1, <2>3 DEF Live
  <2>4. CASE Begin(t)
    <3>1. CASE EnterStop(t, "die", TRUE)
      BY <1>4, <3>1
    <3>2. CASE /\ connected' = TRUE /\ own' = [own EXCEPT ![t] = ws]
               /\ pc' = [pc EXCEPT ![t] = "connecting"]
      <4>1. pc[t] = "new" /\ t \notin cancelled /\ UNCHANGED <<made, version>>
        BY <2>4 DEF Begin, Resumes, config
      <4>2. made[t] = version
        BY <1>1, <4>1 DEF Configured
      <4>3. own'[t] = t
        BY <2>2, <3>2 DEF TypeOK
      <4>4. QED
        BY <2>3, <3>2, <4>1, <4>2, <4>3 DEF Configured
    <3>3. QED
      BY <2>4, <3>1, <3>2 DEF Begin
  <2>5. ASSUME NEW k, NEW flag, Query(t, k, flag) PROVE Configured'
    <3>1. CASE Start(t, "die", flag)
      <4>1. UNCHANGED version
        BY <2>5 DEF Query
      <4>2. QED
        BY <2>1, <2>2, <3>1, <4>1, LaunchConfigures
    <3>2. ASSUME NEW p \in {"asleep", "retrying"}, pc' = [pc EXCEPT ![t] = p]
          PROVE  Configured'
      BY <1>3, <2>3, <3>2
    <3>3. CASE QueryFails(t, k, flag)
      BY <1>4, <3>2, <3>3 DEF QueryFails
    <3>4. QED
      BY <2>5, <3>1, <3>2, <3>3 DEF Query, Sleep
  <2>6. QED
    BY <1>9, <2>4, <2>5 DEF Disconnected, Awake, Retry
<1>10. CASE (\E t \in Tasks : Drop(t)) \/ CloseMarket \/ OpenMarket \/ UNCHANGED vars
  <2>1. UNCHANGED <<pc, cancelled, connected, own, made, version>>
    BY <1>10 DEF Drop, CloseMarket, OpenMarket, vars, listener, config, session
  <2>2. QED
    BY <1>1, <2>1 DEF Configured
<1>11. QED
  BY <1>1, <1>5, <1>6, <1>7, <1>8, <1>9, <1>10, SetConfigured
     DEF Next, Calls, CallerStep, TaskStep

\* Unless two calls overlap, or a setter comes between start() and the first
\* step of its task, the connection has the configuration that the setters left
\* whenever no call is under way.
THEOREM SettersTakeEffect == Spec => []ConfigApplied
<1>1. Init => IInv /\ Numbered /\ Configured
  <2> SUFFICES ASSUME Init PROVE IInv /\ Numbered /\ Configured
    OBVIOUS
  <2>1. cancelled = {} /\ budget["refusals"] = MaxRefusals
    BY DEF Init
  <2>2. \A t \in Tasks : pc[t] = "none"
    BY CallersAssumption DEF Init, Tasks, Actors
  <2>3. QED
    BY <2>1, <2>2, TypeInit, TurnsInit DEF IInv, Numbered, Configured
<1>2. (IInv /\ Numbered /\ Configured) /\ [Next]_vars => (IInv /\ Numbered /\ Configured)'
  BY TurnsStep, NumberedStep, ConfiguredStep DEF IInv
<1>3. IInv /\ Configured => ConfigApplied
  <2> SUFFICES ASSUME IInv, Configured, ~overlapped, ~late, ~Busy, NEW t \in Feeding
               PROVE  made[own[t]] = version
    BY DEF ConfigApplied
  <2>1. cancelled = {} /\ \A c \in Callers : pc[c] = "idle"
    BY NobodyWorks DEF IInv
  <2>2. t \in Tasks /\ pc[t] = "connecting"
    BY DEF Feeding
  <2>3. QED
    BY <2>1, <2>2 DEF Configured
<1>4. QED
  BY <1>1, <1>2, <1>3, PTL DEF Spec
=============================================================================
