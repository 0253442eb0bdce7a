--------------------------- MODULE AnalyzerProofs ---------------------------
(***************************************************************************)
(* Proofs about the two analyzers that keep their state in Redis.          *)
(*                                                                         *)
(* Leaderboard, for any calls, symbols, limit and bounds, whatever the     *)
(* events are and in whatever order they come: the types; that a day's     *)
(* open reset is carried out at most once, and lost only by the call that  *)
(* claimed it; that what calls write after a reset is not from before it,  *)
(* but for the calls the reset has met; that the trim keeps the leaders;   *)
(* and that gains are measured from the stored open price.                 *)
(*                                                                         *)
(* TopTrades, for any workers, symbols, limit and bounds: the types; that  *)
(* what is cached for a symbol alone is never ahead of the table and, for  *)
(* the symbols chosen last, agrees with it; and that statistics do not go  *)
(* back in time.                                                           *)
(***************************************************************************)
EXTENDS Leaderboard, TopTrades, TLAPS, FiniteSetTheorems

USE BoundsAssumption
    DEF redisVars, callVars, boardHist, histVars

Event == [symbol : Symbols, at : 0..MaxTime, volume : 1..MaxVolume]

(***************************************************************************)
(* Types, by groups of variables                                           *)
(***************************************************************************)
RedisType ==
    /\ dayKey \in {0} \cup Days /\ claimed \subseteq Days
    /\ openPrice \in [Symbols -> Numbers] /\ throttled \in BOOLEAN
BoardType ==
    /\ volume \in [Symbols -> Numbers] /\ Cardinality(Entries(volume)) <= Limit
    /\ gainers \in [Symbols -> Numbers] /\ Cardinality(Entries(gainers)) <= Limit
EventType == events \in Seq(Event) /\ Len(events) <= MaxEvents
CallType ==
    /\ pc \in [Calls -> Steps] /\ event \in [Calls -> Numbers]
    /\ \A c \in Calls : pc[c] \in Working => event[c] \in 1..Len(events)
    /\ day \in [Calls -> Days] /\ base \in [Calls -> Numbers]
    /\ found \in [Calls -> SUBSET Symbols]
HistType ==
    /\ overtaken \subseteq Numbers /\ straddled \in [Days -> SUBSET Symbols]
    /\ scored \in [Symbols -> Numbers] /\ lowered \in BOOLEAN
    /\ mixed \subseteq Symbols /\ lost \subseteq Days /\ resets \in [Days -> Nat]
BoundType == now \in 0..MaxTime /\ failures \in 0..MaxFailures

LEMMA TypeGroups ==
    /\ TypeOK <=> RedisType /\ BoardType /\ EventType /\ CallType /\ HistType /\ BoundType
    /\ TypeOK' <=> RedisType' /\ BoardType' /\ EventType' /\ CallType' /\ HistType'
                     /\ BoundType'
BY DEF TypeOK, RedisType, BoardType, EventType, CallType, HistType, BoundType, Event

LEMMA DayOfTime ==
    ASSUME NEW t \in 0..MaxTime
    PROVE  DayOf(t) \in Days /\ t >= 3 * (DayOf(t) - 1)
             /\ (InWindow(t) => t > 3 * (DayOf(t) - 1))
BY SMT DEF DayOf, Days, InWindow

LEMMA NothingIsBoard ==
    Nothing \in [Symbols -> Numbers] /\ Entries(Nothing) = {}
      /\ Cardinality(Entries(Nothing)) <= Limit
<1>1. Nothing \in [Symbols -> Numbers] /\ Entries(Nothing) = {}
  BY DEF Nothing, Entries, Numbers
<1>2. QED
  BY <1>1, FS_EmptySet

\* A trimmed board holds what was kept.
LEMMA TrimmedBoard ==
    ASSUME NEW board \in [Symbols -> Numbers], NEW T \in Kept(board)
    PROVE  /\ Trim(board, T) \in [Symbols -> Numbers] /\ Entries(Trim(board, T)) = T
           /\ Cardinality(T) <= Limit /\ T \subseteq Entries(board)
<1>1. Trim(board, T) \in [Symbols -> Numbers]
  BY DEF Trim, Numbers
<1>2. T \subseteq Entries(board) /\ Cardinality(T) <= Limit
  BY DEF Kept
<1>3. Entries(Trim(board, T)) = T
  BY <1>2 DEF Trim, Entries
<1>4. QED
  BY <1>1, <1>2, <1>3

\* An event that a call refers to is known.
LEMMA EventOfCall ==
    ASSUME EventType, CallType, NEW c \in Calls, pc[c] \in Working
    PROVE  /\ event[c] \in 1..Len(events) /\ event[c] \in Numbers
           /\ events[event[c]] \in Event
           /\ SymbolOf(c) \in Symbols /\ BeginOf(c) \in 0..MaxTime
<1>1. event[c] \in 1..Len(events)
  BY DEF CallType
<1>2. events[event[c]] \in Event
  BY <1>1 DEF EventType
<1>3. event[c] \in Numbers
  BY <1>1 DEF EventType, Numbers
<1>4. QED
  BY <1>1, <1>2, <1>3 DEF Event, SymbolOf, BeginOf

\* The event that arrives.
LEMMA NewEvent ==
    ASSUME TypeOK, NEW c \in Calls, NEW s \in Symbols, NEW v \in 1..MaxVolume,
           Analyze(c, s, v)
    PROVE  /\ EventType' /\ Len(events') = Len(events) + 1
           /\ events'[Len(events) + 1].at = now /\ events'[Len(events) + 1].symbol = s
           /\ \A n \in 1..Len(events) : events'[n] = events[n]
<1> DEFINE e == [symbol |-> s, at |-> now, volume |-> v]
<1> EventType /\ BoundType
  BY TypeGroups
<1>1. events' = Append(events, e) /\ Len(events) < MaxEvents
  BY DEF Analyze
<1>2. e \in Event /\ e.at = now /\ e.symbol = s
  BY DEF Event, BoundType
<1> HIDE DEF e
<1>3. events \in Seq(Event)
  BY DEF EventType
<1>4. /\ Len(events') = Len(events) + 1 /\ events' \in Seq(Event)
      /\ events'[Len(events) + 1] = e
      /\ \A n \in 1..Len(events) : events'[n] = events[n]
  BY <1>1, <1>2, <1>3
<1>5. Len(events') <= MaxEvents
  BY <1>1, <1>3, <1>4
<1>6. QED
  BY <1>2, <1>4, <1>5 DEF EventType

LEMMA InitType == Init => TypeOK
<1> SUFFICES ASSUME Init PROVE TypeOK
  OBVIOUS
<1>1. BoardType
  BY NothingIsBoard DEF Init, BoardType
<1>2. RedisType
  BY NothingIsBoard DEF Init, RedisType
<1>3. events = <<>>
  BY DEF Init
<1>4. EventType
  BY <1>3 DEF EventType
<1>5. 0 \in 0..MaxTime /\ DayOf(0) = 1
  BY SMT DEF DayOf
<1>6. 1 \in Days
  BY <1>5, DayOfTime
<1>7. CallType
  BY <1>6 DEF Init, CallType, Steps, Working, Numbers
<1>8. HistType
  BY NothingIsBoard DEF Init, HistType
<1>9. BoundType
  BY DEF Init, BoundType
<1>10. QED
  BY <1>1, <1>2, <1>4, <1>7, <1>8, <1>9, TypeGroups

LEMMA NextType == TypeOK /\ [Next]_vars => TypeOK'
<1> SUFFICES ASSUME TypeOK, [Next]_vars PROVE TypeOK'
  OBVIOUS
<1> RedisType /\ BoardType /\ EventType /\ CallType /\ HistType /\ BoundType
  BY TypeGroups
<1> DayOf(now) \in Days
  BY DayOfTime DEF BoundType
<1>1. ASSUME NEW c \in Calls, NEW s \in Symbols, NEW v \in 1..MaxVolume, Analyze(c, s, v)
      PROVE  TypeOK'
  <2>1. EventType' /\ Len(events') = Len(events) + 1 /\ Len(events) \in Nat
    <3>1. EventType' /\ Len(events') = Len(events) + 1
      BY <1>1, NewEvent
    <3>2. Len(events) \in Nat
      BY DEF EventType
    <3>3. QED
      BY <3>1, <3>2
  <2>2. RedisType' /\ BoardType' /\ BoundType'
    BY <1>1 DEF Analyze, RedisType, BoardType, BoundType
  <2>3. HistType'
    BY <1>1 DEF Analyze, HistType
  <2>4. Len(events) + 1 \in Numbers
    BY <2>1 DEF EventType, Numbers
  <2>5. CallType'
    BY <1>1, <2>1, <2>4 DEF Analyze, Goto, CallType, Steps, Working
  <2>6. QED
    BY <2>1, <2>2, <2>3, <2>5, TypeGroups
<1>2. ASSUME NEW c \in Calls, DayCheck(c) PROVE TypeOK'
  <2>1. RedisType' /\ BoardType' /\ BoundType' /\ EventType'
    BY <1>2, NothingIsBoard
       DEF DayCheck, RedisType, BoardType, CallType, EventType, BoundType
  <2>2. HistType'
    <3>1. /\ \/ overtaken' = overtaken
             \/ overtaken' = {event[x] : x \in {y \in Calls :
                                pc[y] \in Working /\ DayOf(BeginOf(y)) # day[c]}}
          /\ \/ UNCHANGED <<scored, lowered>>
             \/ scored' = Nothing /\ lowered' = FALSE
          /\ UNCHANGED <<straddled, mixed, lost, resets>>
      BY <1>2 DEF DayCheck
    <3>2. overtaken' \subseteq Numbers
      BY <3>1 DEF CallType, HistType
    <3>3. QED
      BY <3>1, <3>2, NothingIsBoard DEF HistType
  <2>3. CallType'
    BY <1>2 DEF DayCheck, Goto, CallType, Steps, Working
  <2>4. QED
    BY <2>1, <2>2, <2>3, TypeGroups
<1>3. ASSUME NEW c \in Calls, OpenCheck(c) PROVE TypeOK'
  <2>1. RedisType' /\ BoardType' /\ HistType' /\ BoundType' /\ EventType'
    BY <1>3 DEF OpenCheck, Goto, RedisType, BoardType, EventType, HistType, BoundType
  <2>2. CallType'
    BY <1>3 DEF OpenCheck, Goto, CallType, Steps, Working
  <2>3. QED
    BY <2>1, <2>2, TypeGroups
<1>4. ASSUME NEW c \in Calls, Scan(c) PROVE TypeOK'
  <2>1. RedisType' /\ BoardType' /\ BoundType' /\ EventType'
    BY <1>4 DEF Scan, RedisType, BoardType, EventType, BoundType
  <2>2. HistType'
    BY <1>4 DEF Scan, HistType
  <2>3. Entries(openPrice) \in SUBSET Symbols
    BY DEF Entries
  <2>4. CallType'
    BY <1>4, <2>3 DEF Scan, Goto, CallType, Steps, Working
  <2>5. QED
    BY <2>1, <2>2, <2>4, TypeGroups
<1>5. ASSUME NEW c \in Calls, DeleteFound(c) PROVE TypeOK'
  <2>1. BoardType' /\ BoundType' /\ EventType'
    BY <1>5, NothingIsBoard DEF DeleteFound, BoardType, EventType, BoundType
  <2>2. RedisType'
    BY <1>5 DEF DeleteFound, RedisType, Numbers
  <2>3. HistType'
    BY <1>5 DEF DeleteFound, HistType, CallType
  <2>4. CallType'
    BY <1>5 DEF DeleteFound, Goto, CallType, Steps, Working
  <2>5. QED
    BY <2>1, <2>2, <2>3, <2>4, TypeGroups
<1>6. ASSUME NEW c \in Calls, GetOpen(c) PROVE TypeOK'
  <2>1. RedisType' /\ BoardType' /\ HistType' /\ BoundType' /\ EventType'
    BY <1>6 DEF GetOpen, RedisType, BoardType, EventType, HistType, BoundType
  <2>2. SymbolOf(c) \in Symbols
    BY <1>6, EventOfCall DEF GetOpen, Working
  <2>3. openPrice[SymbolOf(c)] \in Numbers
    BY <2>2 DEF RedisType
  <2>4. CallType'
    BY <1>6, <2>3 DEF GetOpen, Goto, CallType, Steps, Working
  <2>5. QED
    BY <2>1, <2>4, TypeGroups
<1>7. ASSUME NEW c \in Calls, SetOpen(c) PROVE TypeOK'
  <2>1. BoardType' /\ HistType' /\ BoundType' /\ EventType'
    BY <1>7 DEF SetOpen, BoardType, EventType, HistType, BoundType
  <2>2. RedisType'
    BY <1>7 DEF SetOpen, RedisType, CallType
  <2>3. CallType'
    BY <1>7 DEF SetOpen, Goto, CallType, Steps, Working
  <2>4. QED
    BY <2>1, <2>2, <2>3, TypeGroups
<1>8. ASSUME NEW c \in Calls, Forget(c), Goto(c, "throttle") \/ Goto(c, "idle"),
             UNCHANGED events
      PROVE  CallType'
  <2>1. 0 \in 0..MaxTime /\ DayOf(0) = 1
    BY SMT DEF DayOf
  <2>2. 0 \in Numbers /\ 1 \in Days
    BY <2>1, DayOfTime DEF Numbers
  <2>3. QED
    BY <1>8, <2>2 DEF Forget, Goto, CallType, Steps, Working
<1>9. ASSUME NEW c \in Calls, Write(c) PROVE TypeOK'
  <2>1. SymbolOf(c) \in Symbols /\ event[c] \in Numbers /\ base[c] \in Numbers
    BY <1>9, EventOfCall DEF Write, Working, CallType
  <2> DEFINE volumes == [volume EXCEPT ![SymbolOf(c)] = event[c]]
             gains   == [gainers EXCEPT ![SymbolOf(c)] = base[c]]
  <2>2. volumes \in [Symbols -> Numbers] /\ gains \in [Symbols -> Numbers]
    BY <2>1 DEF BoardType
  <2>3. PICK T \in Kept(volumes), U \in Kept(gains) :
          volume' = Trim(volumes, T) /\ gainers' = Trim(gains, U)
    BY <1>9 DEF Write
  <2> HIDE DEF volumes, gains
  <2>4. BoardType'
    BY <2>2, <2>3, TrimmedBoard DEF BoardType
  <2>5. RedisType' /\ BoundType' /\ EventType'
    BY <1>9, <2>1 DEF Write, RedisType, EventType, BoundType
  <2>6. scored' \in [Symbols -> Numbers] /\ lowered' \in BOOLEAN
    BY <1>9, <2>1 DEF Write, HistType
  <2>7. HistType'
    BY <1>9, <2>6 DEF Write, HistType
  <2>8. CallType'
    BY <1>8, <1>9 DEF Write
  <2>9. QED
    BY <2>4, <2>5, <2>7, <2>8, TypeGroups
<1>10. ASSUME NEW c \in Calls, WriteFails(c) \/ Abort(c) PROVE TypeOK'
  <2>1. RedisType' /\ BoardType' /\ BoundType' /\ EventType'
    BY <1>10 DEF WriteFails, Abort, Fail, RedisType, BoardType, EventType, BoundType
  <2>2. pc[c] \in Working => SymbolOf(c) \in Symbols
    BY EventOfCall
  <2>3. mixed' \subseteq Symbols /\ lost' \subseteq Days
    BY <1>10, <2>2 DEF WriteFails, Abort, Working, HistType, CallType
  <2>4. HistType'
    BY <1>10, <2>3 DEF WriteFails, Abort, HistType
  <2>5. CallType'
    BY <1>8, <1>10 DEF WriteFails, Abort
  <2>6. QED
    BY <2>1, <2>4, <2>5, TypeGroups
<1>11. ASSUME NEW c \in Calls, Throttle(c) PROVE TypeOK'
  <2>1. RedisType' /\ BoardType' /\ HistType' /\ BoundType' /\ EventType'
    BY <1>11 DEF Throttle, RedisType, BoardType, EventType, HistType, BoundType
  <2>2. CallType'
    BY <1>11 DEF Throttle, Goto, CallType, Steps, Working
  <2>3. QED
    BY <2>1, <2>2, TypeGroups
<1>12. CASE Environment
  <2>1. BoardType' /\ HistType' /\ EventType' /\ CallType'
    BY <1>12 DEF Environment, Tick, ThrottleExpires, OpenExpires,
                 BoardType, HistType, EventType, CallType
  <2>2. BoundType'
    BY <1>12 DEF Environment, Tick, ThrottleExpires, OpenExpires, BoundType
  <2>3. dayKey' \in {0} \cup Days /\ claimed' \subseteq Days
    BY <1>12 DEF Environment, Tick, ThrottleExpires, OpenExpires, RedisType
  <2>4. openPrice' \in [Symbols -> Numbers]
    BY <1>12 DEF Environment, Tick, ThrottleExpires, OpenExpires, RedisType, Numbers
  <2>5. throttled' \in BOOLEAN
    BY <1>12 DEF Environment, Tick, ThrottleExpires, OpenExpires, RedisType
  <2>6. RedisType'
    BY <2>3, <2>4, <2>5 DEF RedisType
  <2>7. QED
    BY <2>1, <2>2, <2>6, TypeGroups
<1>13. CASE UNCHANGED vars
  BY <1>13 DEF vars, TypeOK
<1>14. QED
  BY <1>1, <1>2, <1>3, <1>4, <1>5, <1>6, <1>7, <1>9, <1>10, <1>11, <1>12, <1>13
     DEF Next, Call

\* All variables keep their types; the leaderboards never exceed their limit
\* (lines 172-175).
THEOREM TypeCorrect == Spec => []TypeOK
<1>1. Init => TypeOK
  BY InitType
<1>2. TypeOK /\ [Next]_vars => TypeOK'
  BY NextType
<1>3. QED
  BY <1>1, <1>2, PTL DEF Spec

(***************************************************************************)
(* One open reset a day                                                    *)
(***************************************************************************)
Resetting == {"scan", "delete"}

\* A reset that is under way or has been carried out was claimed, in the day's
\* window, by one call.
ResetInv ==
    /\ \A d \in Days : resets[d] <= 1 /\ (resets[d] > 0 => d \in claimed /\ now > 3 * (d - 1))
    /\ \A c \in Calls : pc[c] \in Resetting =>
         day[c] \in claimed /\ resets[day[c]] = 0 /\ now > 3 * (day[c] - 1)
    /\ \A c, x \in Calls : pc[c] \in Resetting /\ pc[x] \in Resetting
                             /\ day[c] = day[x] => c = x

\* Steps that leave the claims alone.
LEMMA ResetFrame ==
    ASSUME TypeOK, TypeOK', ResetInv, UNCHANGED <<claimed, resets>>, now' >= now,
           \A c \in Calls : pc'[c] \in Resetting => pc[c] \in Resetting /\ day'[c] = day[c]
    PROVE  ResetInv'
<1> now \in Nat /\ now' \in Nat /\ Days \subseteq Int /\ day \in [Calls -> Days]
  BY DEF TypeOK, Days
<1>1. \A d \in Days : resets'[d] <= 1
                       /\ (resets'[d] > 0 => d \in claimed' /\ now' > 3 * (d - 1))
  BY DEF ResetInv
<1>2. \A c \in Calls : pc'[c] \in Resetting =>
         day'[c] \in claimed' /\ resets'[day'[c]] = 0 /\ now' > 3 * (day'[c] - 1)
  <2> SUFFICES ASSUME NEW c \in Calls, pc'[c] \in Resetting
               PROVE  day'[c] \in claimed' /\ resets'[day'[c]] = 0
                        /\ now' > 3 * (day'[c] - 1)
    OBVIOUS
  <2>1. day'[c] = day[c] /\ pc[c] \in Resetting /\ day[c] \in Int
    OBVIOUS
  <2>2. day[c] \in claimed /\ resets[day[c]] = 0 /\ now > 3 * (day[c] - 1)
    BY <2>1 DEF ResetInv
  <2>3. QED
    BY <2>1, <2>2
<1>3. QED
  BY <1>1, <1>2 DEF ResetInv

LEMMA ResetStep == TypeOK /\ TypeOK' /\ ResetInv /\ [Next]_vars => ResetInv'
<1> SUFFICES ASSUME TypeOK, TypeOK', ResetInv, [Next]_vars PROVE ResetInv'
  OBVIOUS
<1> now \in Nat /\ Days \subseteq Int /\ day \in [Calls -> Days]
      /\ pc \in [Calls -> Steps] /\ resets \in [Days -> Nat]
  BY DEF TypeOK, Days
<1>1. ASSUME NEW c \in Calls, OpenCheck(c) PROVE ResetInv'
  <2>1. CASE InWindow(now) /\ DayOf(now) \notin claimed
    <3> DEFINE d == DayOf(now)
    <3>1. d \in Days /\ now > 3 * (d - 1)
      <4>1. now \in 0..MaxTime
        BY DEF TypeOK
      <4>2. QED
        BY <2>1, <4>1, DayOfTime
    <3>2. /\ claimed' = claimed \cup {d} /\ UNCHANGED <<now, resets>>
          /\ pc' = [pc EXCEPT ![c] = "scan"] /\ day' = [day EXCEPT ![c] = d]
      BY <1>1, <2>1 DEF OpenCheck, Goto
    <3>3. d \notin claimed
      BY <2>1
    <3> HIDE DEF d
    <3>4. resets[d] = 0 /\ \A x \in Calls : pc[x] \in Resetting => day[x] # d
      BY <3>1, <3>3 DEF ResetInv
    <3>5. QED
      BY <3>1, <3>2, <3>4 DEF ResetInv, Resetting
  <2>2. CASE ~(InWindow(now) /\ DayOf(now) \notin claimed)
    <3>1. UNCHANGED <<claimed, resets, now, day>> /\ pc' = [pc EXCEPT ![c] = "price"]
      BY <1>1, <2>2 DEF OpenCheck, Goto
    <3>2. \A x \in Calls : pc'[x] \in Resetting => pc[x] \in Resetting /\ day'[x] = day[x]
      BY <3>1 DEF Resetting
    <3>3. QED
      BY <3>1, <3>2, ResetFrame
  <2>3. QED
    BY <2>1, <2>2
<1>2. ASSUME NEW c \in Calls, DeleteFound(c) PROVE ResetInv'
  <2>1. /\ pc[c] \in Resetting /\ UNCHANGED <<claimed, now, day>>
        /\ pc' = [pc EXCEPT ![c] = "price"]
        /\ resets' = [resets EXCEPT ![day[c]] = @ + 1]
    BY <1>2 DEF DeleteFound, Goto, Resetting
  <2>2. day[c] \in claimed /\ resets[day[c]] = 0 /\ now > 3 * (day[c] - 1)
    BY <2>1 DEF ResetInv
  <2>3. \A x \in Calls : pc'[x] \in Resetting =>
          x # c /\ pc[x] \in Resetting /\ day[x] # day[c]
    BY <2>1 DEF ResetInv, Resetting
  <2>4. QED
    BY <2>1, <2>2, <2>3 DEF ResetInv
<1>3. ASSUME NEW c \in Calls, NEW s \in Symbols, NEW v \in 1..MaxVolume, Analyze(c, s, v)
      PROVE  ResetInv'
  <2>1. \A x \in Calls : pc'[x] \in Resetting => pc[x] \in Resetting /\ day'[x] = day[x]
    BY <1>3 DEF Analyze, Goto, Resetting
  <2>2. QED
    BY <1>3, <2>1, ResetFrame DEF Analyze
<1>4. ASSUME NEW c \in Calls,
             DayCheck(c) \/ Scan(c) \/ GetOpen(c) \/ SetOpen(c) \/ Write(c)
               \/ WriteFails(c) \/ Throttle(c) \/ Abort(c)
      PROVE  ResetInv'
  <2>1. UNCHANGED <<claimed, resets, now>>
    BY <1>4 DEF DayCheck, Scan, GetOpen, SetOpen, Write, WriteFails, Throttle, Abort
  <2>2. \A x \in Calls : pc'[x] \in Resetting => pc[x] \in Resetting /\ day'[x] = day[x]
    BY <1>4 DEF DayCheck, Scan, GetOpen, SetOpen, Write, WriteFails, Throttle, Abort,
                Forget, Goto, Resetting
  <2>3. QED
    BY <2>1, <2>2, ResetFrame
<1>5. CASE Environment
  <2>1. UNCHANGED <<claimed, resets, pc, day>> /\ now' >= now
    BY <1>5 DEF Environment, Tick, ThrottleExpires, OpenExpires
  <2>2. QED
    BY <2>1, ResetFrame
<1>6. CASE UNCHANGED vars
  BY <1>6, ResetFrame DEF vars
<1>7. QED
  BY <1>1, <1>2, <1>3, <1>4, <1>5, <1>6 DEF Next, Call

\* However many replicas see the window, fail and come back, a day's open reset
\* is carried out at most once (lines 435-438).
THEOREM ResetsAtMostOnce == Spec => []OpenResetOnce
<1>1. Init => TypeOK /\ ResetInv
  BY InitType DEF Init, ResetInv, Resetting
<1>2. (TypeOK /\ ResetInv) /\ [Next]_vars => (TypeOK /\ ResetInv)'
  BY NextType, ResetStep
<1>3. ResetInv => OpenResetOnce
  BY DEF ResetInv, OpenResetOnce
<1>4. QED
  BY <1>1, <1>2, <1>3, PTL DEF Spec

(***************************************************************************)
(* A claimed reset is carried out                                          *)
(***************************************************************************)
\* Steps at which no reset begins or ends.
LEMMA ClaimFrame ==
    ASSUME OpenResetDone, UNCHANGED <<claimed, resets>>, lost \subseteq lost',
           \A x \in Calls : pc[x] \in Resetting => \/ pc'[x] \in Resetting /\ day'[x] = day[x]
                                                   \/ day[x] \in lost'
    PROVE  OpenResetDone'
BY DEF OpenResetDone, Resetting

LEMMA ClaimStep == TypeOK /\ ResetInv /\ OpenResetDone /\ [Next]_vars => OpenResetDone'
<1> SUFFICES ASSUME TypeOK, ResetInv, OpenResetDone, [Next]_vars PROVE OpenResetDone'
  OBVIOUS
<1> /\ pc \in [Calls -> Steps] /\ day \in [Calls -> Days] /\ resets \in [Days -> Nat]
    /\ claimed \subseteq Days
  BY DEF TypeOK
<1>1. ASSUME NEW c \in Calls, OpenCheck(c) PROVE OpenResetDone'
  <2>1. pc[c] \notin Resetting /\ UNCHANGED <<resets, lost>>
    BY <1>1 DEF OpenCheck, Resetting
  <2>2. \A x \in Calls \ {c} : pc'[x] = pc[x] /\ day'[x] = day[x]
    BY <1>1 DEF OpenCheck, Goto
  <2>3. CASE InWindow(now) /\ DayOf(now) \notin claimed
    <3>1. claimed' = claimed \cup {DayOf(now)} /\ pc'[c] = "scan" /\ day'[c] = DayOf(now)
      BY <1>1, <2>3 DEF OpenCheck, Goto
    <3>2. QED
      BY <2>1, <2>2, <3>1 DEF OpenResetDone, Resetting
  <2>4. CASE ~(InWindow(now) /\ DayOf(now) \notin claimed)
    <3>1. UNCHANGED claimed
      BY <1>1, <2>4 DEF OpenCheck
    <3>2. QED
      BY <2>1, <2>2, <3>1, ClaimFrame
  <2>5. QED
    BY <2>3, <2>4
<1>2. ASSUME NEW c \in Calls, DeleteFound(c) PROVE OpenResetDone'
  <2>1. /\ pc[c] \in Resetting /\ UNCHANGED <<claimed, day, lost>>
        /\ resets' = [resets EXCEPT ![day[c]] = @ + 1]
        /\ \A x \in Calls \ {c} : pc'[x] = pc[x]
    BY <1>2 DEF DeleteFound, Goto, Resetting
  <2>2. resets'[day[c]] = 1
    BY <2>1 DEF ResetInv
  <2>3. QED
    BY <2>1, <2>2 DEF OpenResetDone
<1>3. ASSUME NEW c \in Calls, Abort(c) PROVE OpenResetDone'
  <2>1. /\ UNCHANGED <<claimed, resets>> /\ lost \subseteq lost'
        /\ pc[c] \in Resetting => day[c] \in lost'
    BY <1>3 DEF Abort, Resetting
  <2>2. \A x \in Calls \ {c} : pc'[x] = pc[x] /\ day'[x] = day[x]
    BY <1>3 DEF Abort, Goto, Forget
  <2>3. QED
    BY <2>1, <2>2, ClaimFrame
<1>4. ASSUME NEW c \in Calls,
             \/ \E s \in Symbols, v \in 1..MaxVolume : Analyze(c, s, v)
             \/ DayCheck(c) \/ Scan(c) \/ GetOpen(c) \/ SetOpen(c) \/ Write(c)
             \/ WriteFails(c) \/ Throttle(c)
      PROVE  OpenResetDone'
  <2>1. UNCHANGED <<claimed, resets, lost>>
    BY <1>4 DEF Analyze, DayCheck, Scan, GetOpen, SetOpen, Write, WriteFails, Throttle
  <2>2. \A x \in Calls : pc[x] \in Resetting => pc'[x] \in Resetting /\ day'[x] = day[x]
    BY <1>4 DEF Analyze, DayCheck, Scan, GetOpen, SetOpen, Write, WriteFails, Throttle,
                Forget, Goto, Resetting
  <2>3. QED
    BY <2>1, <2>2, ClaimFrame
<1>5. CASE Environment
  <2>1. UNCHANGED <<claimed, resets, lost, pc, day>>
    BY <1>5 DEF Environment, Tick, ThrottleExpires, OpenExpires
  <2>2. QED
    BY <2>1, ClaimFrame
<1>6. CASE UNCHANGED vars
  BY <1>6, ClaimFrame DEF vars
<1>7. QED
  BY <1>1, <1>2, <1>3, <1>4, <1>5, <1>6 DEF Next, Call

\* The claim that elects a call also binds it: a day whose open reset is claimed
\* gets it, from a call that is still at it or is through, and goes without only
\* if the very call that claimed it failed or died in between (lines 436-456).
THEOREM ResetNotSkipped == Spec => []OpenResetDone
<1>1. Init => TypeOK /\ ResetInv /\ OpenResetDone
  BY InitType DEF Init, ResetInv, OpenResetDone, Resetting
<1>2. (TypeOK /\ ResetInv /\ OpenResetDone) /\ [Next]_vars
        => (TypeOK /\ ResetInv /\ OpenResetDone)'
  BY NextType, ResetStep, ClaimStep
<1>3. QED
  BY <1>1, <1>2, PTL DEF Spec

(***************************************************************************)
(* What is referred to has happened, and stays as it is                    *)
(***************************************************************************)
Refs ==
    \A s \in Symbols : /\ openPrice[s] <= Len(events) /\ volume[s] <= Len(events)
                       /\ gainers[s] <= Len(events) /\ scored[s] <= Len(events)
BaseRefs == \A c \in Calls : base[c] <= Len(events)

\* Events stay as they are and keep their numbers.
LEMMA EventsGrow ==
    ASSUME TypeOK, [Next]_vars
    PROVE  /\ Len(events) \in Nat /\ Len(events') \in Nat /\ Len(events) <= Len(events')
           /\ \A n \in 1..Len(events) : events'[n] = events[n]
<1>1. Len(events) \in Nat
  BY DEF TypeOK
<1>2. ASSUME NEW c \in Calls, NEW s \in Symbols, NEW v \in 1..MaxVolume, Analyze(c, s, v)
      PROVE  /\ Len(events') = Len(events) + 1
             /\ \A n \in 1..Len(events) : events'[n] = events[n]
  BY <1>2, NewEvent
<1>3. CASE UNCHANGED events
  BY <1>1, <1>3
<1>4. (\E c \in Calls, s \in Symbols, v \in 1..MaxVolume : Analyze(c, s, v))
        \/ UNCHANGED events
  BY DEF Next, Call, Environment, Tick, ThrottleExpires, OpenExpires, DayCheck, OpenCheck,
         Scan, DeleteFound, GetOpen, SetOpen, Write, WriteFails, Throttle, Abort, vars
<1>5. QED
  BY <1>1, <1>2, <1>3, <1>4

LEMMA RefsStep == TypeOK /\ TypeOK' /\ Refs /\ BaseRefs /\ [Next]_vars => (Refs /\ BaseRefs)'
<1> SUFFICES ASSUME TypeOK, TypeOK', Refs, BaseRefs, [Next]_vars PROVE (Refs /\ BaseRefs)'
  OBVIOUS
<1> DEFINE L == Len(events)
           Placed == /\ \A s \in Symbols : openPrice'[s] <= L /\ volume'[s] <= L
                                              /\ gainers'[s] <= L /\ scored'[s] <= L
                     /\ \A c \in Calls : base'[c] <= L
<1> L \in Nat /\ Len(events') \in Nat /\ L <= Len(events')
  BY EventsGrow
<1> EventType /\ CallType /\ BoardType /\ RedisType /\ HistType
  BY TypeGroups
<1>1. Placed
  <2>1. \A c \in Calls : pc[c] \in Working => event[c] <= L /\ SymbolOf(c) \in Symbols
    BY EventOfCall
  <2>2. ASSUME NEW c \in Calls, NEW s \in Symbols, NEW v \in 1..MaxVolume, Analyze(c, s, v)
        PROVE  Placed
    BY <2>2 DEF Analyze, Refs, BaseRefs
  <2>3. ASSUME NEW c \in Calls,
               DayCheck(c) \/ OpenCheck(c) \/ Scan(c) \/ DeleteFound(c)
        PROVE  Placed
    BY <2>3 DEF DayCheck, OpenCheck, Scan, DeleteFound, Nothing, Refs, BaseRefs
  <2>4. ASSUME NEW c \in Calls, GetOpen(c) PROVE Placed
    <3>1. SymbolOf(c) \in Symbols /\ event[c] <= L
      BY <2>1, <2>4 DEF GetOpen, Working
    <3>2. QED
      BY <2>4, <3>1 DEF GetOpen, Refs, BaseRefs, CallType
  <2>5. ASSUME NEW c \in Calls, SetOpen(c) PROVE Placed
    <3>1. event[c] <= L
      BY <2>1, <2>5 DEF SetOpen, Working
    <3>2. QED
      BY <2>5, <3>1 DEF SetOpen, Refs, BaseRefs, RedisType
  <2>6. ASSUME NEW c \in Calls, Write(c) PROVE Placed
    <3>1. event[c] <= L /\ base[c] <= L
      BY <2>1, <2>6 DEF Write, Working, BaseRefs
    <3>2. \A s \in Symbols : volume'[s] \in {0, volume[s], event[c]}
                             /\ gainers'[s] \in {0, gainers[s], base[c]}
      BY <2>6 DEF Write, Trim, BoardType
    <3>3. \A s \in Symbols : scored'[s] \in {scored[s], event[c]}
      BY <2>6 DEF Write, HistType
    <3>4. UNCHANGED openPrice /\ \A x \in Calls : base'[x] \in {0, base[x]}
      BY <2>6 DEF Write, Forget, CallType
    <3>5. QED
      BY <3>1, <3>2, <3>3, <3>4 DEF Refs, BaseRefs
  <2>7. ASSUME NEW c \in Calls, WriteFails(c) \/ Abort(c) \/ Throttle(c)
        PROVE  Placed
    BY <2>7 DEF WriteFails, Abort, Throttle, Forget, Refs, BaseRefs, CallType
  <2>8. CASE Environment
    BY <2>8 DEF Environment, Tick, ThrottleExpires, OpenExpires, Refs, BaseRefs, RedisType
  <2>9. CASE UNCHANGED vars
    BY <2>9 DEF vars, Refs, BaseRefs
  <2>10. QED
    BY <2>2, <2>3, <2>4, <2>5, <2>6, <2>7, <2>8, <2>9 DEF Next, Call
<1> QED
  <2>1. \A s \in Symbols : openPrice'[s] \in Nat /\ volume'[s] \in Nat /\ gainers'[s] \in Nat
                           /\ scored'[s] \in Nat
    BY DEF TypeOK, Numbers
  <2>2. \A c \in Calls : base'[c] \in Nat
    BY DEF TypeOK, Numbers
  <2>3. QED
    BY <1>1, <2>1, <2>2 DEF Refs, BaseRefs

\* What the boards, the open prices, the history and the baselines refer to
\* stays the same.
LEMMA SameRefs ==
    ASSUME TypeOK, Refs, BaseRefs, [Next]_vars
    PROVE  /\ \A s \in Symbols : \A n \in {openPrice[s], volume[s], gainers[s], scored[s]} :
                n # 0 => n \in 1..Len(events) /\ events'[n] = events[n]
           /\ \A c \in Calls : base[c] # 0 => events'[base[c]] = events[base[c]]
<1>1. \A s \in Symbols : \A n \in {openPrice[s], volume[s], gainers[s], scored[s]} :
        n \in Nat /\ n <= Len(events)
  BY DEF TypeOK, Numbers, Refs
<1>2. \A c \in Calls : base[c] \in Nat /\ base[c] <= Len(events)
  BY DEF TypeOK, Numbers, BaseRefs
<1>3. QED
  BY <1>1, <1>2, EventsGrow

\* A call that goes on keeps its event.
LEMMA SameEvent ==
    ASSUME TypeOK, [Next]_vars, NEW x \in Calls, pc[x] \in Working, event'[x] = event[x]
    PROVE  /\ BeginOf(x)' = BeginOf(x) /\ SymbolOf(x)' = SymbolOf(x)
           /\ \A d \in Days : IsBefore(event[x], d)' = IsBefore(event[x], d)
<1>1. event[x] \in 1..Len(events)
  BY EventOfCall, TypeGroups
<1>2. events'[event[x]] = events[event[x]]
  BY <1>1, EventsGrow
<1>3. QED
  BY <1>2 DEF BeginOf, SymbolOf, IsBefore

(***************************************************************************)
(* Nothing older than the resets                                           *)
(***************************************************************************)
Based == {"setopen", "write"}

\* A call past its day check, and every entry, is of the stored day, or of those
\* that the last reset has overtaken.
DayInv ==
    /\ \A c \in Calls : pc[c] = "day" => day[c] = DayOf(BeginOf(c))
    /\ \A c \in Calls : pc[c] \in Working \ {"day"} =>
         DayOf(BeginOf(c)) = dayKey \/ event[c] \in overtaken
    /\ \A s \in Symbols : volume[s] # 0 =>
         DayOf(events[volume[s]].at) = dayKey \/ volume[s] \in overtaken

Fresh(n, d) == n # 0 => ~IsBefore(n, d)

\* After the open reset of day d, whatever day is stored by now.
AfterReset(d) ==
    /\ \A s \in Symbols \ straddled[d] : Fresh(openPrice[s], d) /\ Fresh(gainers[s], d)
    /\ \A x \in Calls : pc[x] \in Working /\ SymbolOf(x) \notin straddled[d] =>
         ~IsBefore(event[x], d) /\ (pc[x] \in Based => Fresh(base[x], d))

\* Between the scan and the delete of call c.
DuringReset(c) ==
    /\ \A s \in Symbols \ straddled[day[c]] : s \in found[c] \/ Fresh(openPrice[s], day[c])
    /\ \A x \in Calls : pc[x] \in Working /\ SymbolOf(x) \notin straddled[day[c]] =>
         ~IsBefore(event[x], day[c])

FreshInv ==
    /\ \A c \in Calls : pc[c] = "setopen" => base[c] = event[c]
    /\ \A d \in Days : resets[d] > 0 => AfterReset(d)
    /\ \A c \in Calls : pc[c] = "delete" => DuringReset(c)

\* Steps that at most forget calls and keys.
LEMMA FreshFrame ==
    ASSUME TypeOK, [Next]_vars, FreshInv, UNCHANGED <<resets, events>>,
           \A d \in Days : straddled[d] \subseteq straddled'[d],
           \A s \in Symbols : openPrice'[s] \in {0, openPrice[s]}
                              /\ gainers'[s] \in {0, gainers[s]},
           \A x \in Calls :
               /\ pc'[x] \in Working => pc[x] \in Working /\ event'[x] = event[x]
               /\ pc'[x] \in Based => pc'[x] = pc[x] /\ base'[x] = base[x]
               /\ pc'[x] = "delete" => pc[x] = "delete" /\ day'[x] = day[x]
                                         /\ found'[x] = found[x]
    PROVE  FreshInv'
<1> day \in [Calls -> Days]
  BY DEF TypeOK
<1>1. \A x \in Calls : pc'[x] = "setopen" => base'[x] = event'[x]
  BY DEF FreshInv, Based, Working
<1>2. \A x \in Calls : pc'[x] \in Working => SymbolOf(x)' = SymbolOf(x)
  BY SameEvent
<1>3. ASSUME NEW d \in Days, resets'[d] > 0 PROVE AfterReset(d)'
  <2>1. AfterReset(d)
    BY <1>3 DEF FreshInv
  <2>2. \A s \in Symbols \ straddled'[d] : Fresh(openPrice[s], d)' /\ Fresh(gainers[s], d)'
    BY <2>1 DEF AfterReset, Fresh, IsBefore
  <2>3. ASSUME NEW x \in Calls, pc'[x] \in Working, SymbolOf(x)' \notin straddled'[d]
        PROVE  ~IsBefore(event[x], d)' /\ (pc'[x] \in Based => Fresh(base[x], d)')
    <3>1. pc[x] \in Working /\ SymbolOf(x) \notin straddled[d]
      BY <1>2, <2>3
    <3>2. ~IsBefore(event[x], d) /\ (pc[x] \in Based => Fresh(base[x], d))
      BY <2>1, <3>1 DEF AfterReset
    <3>3. pc'[x] \in Based => Fresh(base[x], d)'
      BY <3>2 DEF Fresh, IsBefore
    <3>4. QED
      BY <2>3, <3>2, <3>3 DEF IsBefore
  <2>4. QED
    BY <2>2, <2>3 DEF AfterReset
<1>4. ASSUME NEW c \in Calls, pc'[c] = "delete" PROVE DuringReset(c)'
  <2>1. DuringReset(c) /\ day'[c] = day[c] /\ found'[c] = found[c]
    BY <1>4 DEF FreshInv
  <2>2. \A s \in Symbols \ straddled'[day[c]] :
          s \in found'[c] \/ Fresh(openPrice[s], day[c])'
    BY <2>1 DEF DuringReset, Fresh, IsBefore
  <2>3. ASSUME NEW x \in Calls, pc'[x] \in Working, SymbolOf(x)' \notin straddled'[day[c]]
        PROVE  ~IsBefore(event[x], day[c])'
    <3>1. pc[x] \in Working /\ SymbolOf(x) \notin straddled[day[c]]
      BY <1>2, <2>3
    <3>2. ~IsBefore(event[x], day[c])
      BY <2>1, <3>1 DEF DuringReset
    <3>3. QED
      BY <2>1, <2>3, <3>2 DEF IsBefore
  <2>4. QED
    BY <2>1, <2>2, <2>3 DEF DuringReset, Fresh
<1>5. QED
  BY <1>1, <1>3, <1>4 DEF FreshInv

LEMMA FreshStep ==
    TypeOK /\ TypeOK' /\ Refs /\ BaseRefs /\ ResetInv /\ FreshInv /\ [Next]_vars => FreshInv'
<1> SUFFICES ASSUME TypeOK, TypeOK', Refs, BaseRefs, ResetInv, FreshInv, [Next]_vars
             PROVE  FreshInv'
  OBVIOUS
<1> EventType /\ CallType /\ RedisType /\ BoardType /\ HistType
  BY TypeGroups
<1> Days \subseteq Int /\ day \in [Calls -> Days] /\ now \in Nat
  BY DEF TypeOK, Days
<1>1. ASSUME NEW c \in Calls, NEW s \in Symbols, NEW v \in 1..MaxVolume, Analyze(c, s, v)
      PROVE  FreshInv'
  <2>1. /\ pc' = [pc EXCEPT ![c] = "day"] /\ pc[c] = "idle"
        /\ event' = [event EXCEPT ![c] = Len(events) + 1]
        /\ day' = [day EXCEPT ![c] = DayOf(now)]
        /\ UNCHANGED <<now, openPrice, gainers, base, found, straddled, resets>>
    BY <1>1 DEF Analyze, Goto
  <2>2. \A d \in Days : now > 3 * (d - 1) => ~IsBefore(event[c], d)'
    BY <1>1, <2>1, NewEvent DEF IsBefore, CallType
  <2>3. \A x \in Calls \ {c} : pc'[x] = pc[x] /\ event'[x] = event[x] /\ day'[x] = day[x]
    BY <2>1 DEF CallType
  <2>4. pc'[c] = "day"
    BY <2>1 DEF CallType
  <2>5. /\ \A y \in Symbols : \A n \in {openPrice[y], gainers[y]} :
             n # 0 => events'[n] = events[n]
        /\ \A x \in Calls : base[x] # 0 => events'[base[x]] = events[base[x]]
    BY SameRefs
  <2>6. \A x \in Calls : pc'[x] = "setopen" => base'[x] = event'[x]
    BY <2>1, <2>3, <2>4 DEF FreshInv
  <2>7. \A x \in Calls \ {c} : pc[x] \in Working =>
          SymbolOf(x)' = SymbolOf(x)
            /\ \A d \in Days : IsBefore(event[x], d)' = IsBefore(event[x], d)
    BY <2>3, SameEvent
  <2>8. ASSUME NEW d \in Days, resets'[d] > 0 PROVE AfterReset(d)'
    <3>1. AfterReset(d) /\ now > 3 * (d - 1)
      BY <2>1, <2>8 DEF FreshInv, ResetInv
    <3>2. \A y \in Symbols \ straddled'[d] : Fresh(openPrice[y], d)' /\ Fresh(gainers[y], d)'
      BY <2>1, <2>5, <3>1 DEF AfterReset, Fresh, IsBefore
    <3>3. ASSUME NEW x \in Calls, pc'[x] \in Working, SymbolOf(x)' \notin straddled'[d]
          PROVE  ~IsBefore(event[x], d)' /\ (pc'[x] \in Based => Fresh(base[x], d)')
      <4>1. CASE x = c
        BY <2>2, <2>4, <3>1, <4>1 DEF Based
      <4>2. CASE x # c
        <5>1. pc[x] \in Working /\ SymbolOf(x) \notin straddled[d]
          BY <2>1, <2>3, <2>7, <3>3, <4>2
        <5>2. ~IsBefore(event[x], d) /\ (pc[x] \in Based => Fresh(base[x], d))
          BY <3>1, <5>1 DEF AfterReset
        <5>3. ~IsBefore(event[x], d)'
          BY <2>7, <4>2, <5>1, <5>2
        <5>4. pc'[x] \in Based => Fresh(base[x], d)'
          BY <2>1, <2>3, <2>5, <4>2, <5>2 DEF Fresh, IsBefore
        <5>5. QED
          BY <5>3, <5>4
      <4>3. QED
        BY <4>1, <4>2
    <3>4. QED
      BY <3>2, <3>3 DEF AfterReset
  <2>9. ASSUME NEW r \in Calls, pc'[r] = "delete" PROVE DuringReset(r)'
    <3>1. r # c /\ pc[r] = "delete" /\ day'[r] = day[r]
      BY <2>3, <2>4, <2>9
    <3>2. DuringReset(r) /\ now > 3 * (day[r] - 1)
      BY <2>1, <3>1 DEF FreshInv, ResetInv, Resetting
    <3>3. PICK d \in Days : d = day[r]
      OBVIOUS
    <3>4. \A y \in Symbols \ straddled'[d] : y \in found'[r] \/ Fresh(openPrice[y], d)'
      BY <2>1, <2>5, <3>2, <3>3 DEF DuringReset, Fresh, IsBefore
    <3>5. ASSUME NEW x \in Calls, pc'[x] \in Working, SymbolOf(x)' \notin straddled'[d]
          PROVE  ~IsBefore(event[x], d)'
      <4>1. CASE x = c
        BY <2>2, <3>2, <3>3, <4>1
      <4>2. CASE x # c
        <5>1. pc[x] \in Working /\ SymbolOf(x) \notin straddled[d]
          BY <2>1, <2>3, <2>7, <3>5, <4>2
        <5>2. ~IsBefore(event[x], d)
          BY <3>2, <3>3, <5>1 DEF DuringReset
        <5>3. QED
          BY <2>7, <4>2, <5>1, <5>2
      <4>3. QED
        BY <4>1, <4>2
    <3>6. QED
      BY <3>1, <3>3, <3>4, <3>5 DEF DuringReset, Fresh, IsBefore
  <2>10. QED
    BY <2>6, <2>8, <2>9 DEF FreshInv
\* The other steps leave the events as they are.
<1>2. ASSUME NEW c \in Calls, Scan(c) PROVE FreshInv'
  <2>1. /\ pc' = [pc EXCEPT ![c] = "delete"] /\ pc[c] = "scan"
        /\ found' = [found EXCEPT ![c] = Entries(openPrice)]
        /\ UNCHANGED <<openPrice, gainers, events, event, day, base, resets>>
        /\ straddled' = [straddled EXCEPT ![day[c]] = @ \cup
              {s \in Symbols : \E x \in AtWork(s) : IsBefore(event[x], day[c])}]
    BY <1>2 DEF Scan, Goto
  <2>2. \A x \in Calls : /\ pc'[x] \in Working <=> pc[x] \in Working
                         /\ pc'[x] \in Based <=> pc[x] \in Based
                         /\ pc'[x] = "setopen" => pc[x] = "setopen"
                         /\ SymbolOf(x)' = SymbolOf(x)
    BY <2>1 DEF CallType, Working, Based, SymbolOf
  <2>3. \A x \in Calls : pc'[x] = "setopen" => base'[x] = event'[x]
    BY <2>1, <2>2 DEF FreshInv
  <2>4. \A d \in Days : straddled[d] \subseteq straddled'[d]
    BY <2>1 DEF HistType
  <2>5. ASSUME NEW d \in Days, resets'[d] > 0 PROVE AfterReset(d)'
    <3>1. AfterReset(d)
      BY <2>1, <2>5 DEF FreshInv
    <3>2. QED
      BY <2>1, <2>2, <2>4, <3>1 DEF AfterReset, Fresh, IsBefore
  <2>6. DuringReset(c)'
    <3>1. ASSUME NEW x \in Calls, pc[x] \in Working, SymbolOf(x) \notin straddled'[day[c]]
          PROVE  ~IsBefore(event[x], day[c])
      <4>1. SymbolOf(x) \in Symbols
        BY <3>1, EventOfCall
      <4>2. x \in AtWork(SymbolOf(x))
        BY <3>1 DEF AtWork
      <4>3. QED
        BY <2>1, <3>1, <4>1, <4>2 DEF HistType
    <3>2. \A s \in Symbols : s \in found'[c] \/ openPrice'[s] = 0
      BY <2>1 DEF Entries, CallType
    <3>3. QED
      BY <2>1, <2>2, <3>1, <3>2 DEF DuringReset, Fresh, IsBefore
  <2>7. ASSUME NEW r \in Calls, r # c, pc'[r] = "delete" PROVE DuringReset(r)'
    <3>1. pc[r] = "delete" /\ found'[r] = found[r]
      BY <2>1, <2>7 DEF CallType
    <3>2. DuringReset(r)
      BY <3>1 DEF FreshInv
    <3>3. QED
      BY <2>1, <2>2, <2>4, <3>1, <3>2 DEF DuringReset, Fresh, IsBefore
  <2>8. QED
    BY <2>3, <2>5, <2>6, <2>7 DEF FreshInv
<1>3. ASSUME NEW c \in Calls, DeleteFound(c) PROVE FreshInv'
  <2>1. /\ pc' = [pc EXCEPT ![c] = "price"] /\ pc[c] = "delete"
        /\ gainers' = Nothing
        /\ openPrice' = [s \in Symbols |-> IF s \in found[c] THEN 0 ELSE openPrice[s]]
        /\ UNCHANGED <<events, event, day, base>>
        /\ found' = [found EXCEPT ![c] = {}]
        /\ resets' = [resets EXCEPT ![day[c]] = @ + 1]
        /\ straddled' = [straddled EXCEPT ![day[c]] = @ \cup
              {s \in Symbols : \E x \in AtWork(s) :
                                  pc[x] = "write" /\ IsBefore(base[x], day[c])}]
    BY <1>3 DEF DeleteFound, Goto
  <2>2. \A x \in Calls : /\ pc'[x] \in Working <=> pc[x] \in Working
                         /\ pc'[x] \in Based => pc'[x] = pc[x] /\ pc[x] \in Based
                         /\ pc'[x] = "setopen" => pc[x] = "setopen"
                         /\ SymbolOf(x)' = SymbolOf(x)
    BY <2>1 DEF CallType, Working, Based, SymbolOf
  <2>3. \A x \in Calls : pc'[x] = "setopen" => base'[x] = event'[x]
    BY <2>1, <2>2 DEF FreshInv
  <2>4. \A d \in Days : straddled[d] \subseteq straddled'[d]
    BY <2>1 DEF HistType
  <2>5. \A s \in Symbols : gainers'[s] = 0 /\ openPrice'[s] \in {0, openPrice[s]}
                           /\ (s \in found[c] => openPrice'[s] = 0)
    BY <2>1 DEF Nothing
  <2>6. DuringReset(c)
    BY <2>1 DEF FreshInv
  <2>7. AfterReset(day[c])'
    <3>1. \A s \in Symbols \ straddled'[day[c]] :
            Fresh(openPrice[s], day[c])' /\ Fresh(gainers[s], day[c])'
      BY <2>1, <2>4, <2>5, <2>6 DEF DuringReset, Fresh, IsBefore
    <3>2. ASSUME NEW x \in Calls, pc'[x] \in Working, SymbolOf(x)' \notin straddled'[day[c]]
          PROVE  ~IsBefore(event[x], day[c]) /\ (pc'[x] \in Based => Fresh(base[x], day[c]))
      <4>1. pc[x] \in Working /\ SymbolOf(x) \in Symbols
        BY <2>2, <3>2, EventOfCall
      <4>2. x \in AtWork(SymbolOf(x)) /\ SymbolOf(x) \notin straddled[day[c]]
        BY <2>2, <2>4, <3>2, <4>1 DEF AtWork
      <4>3. ~IsBefore(event[x], day[c])
        BY <2>6, <4>1, <4>2 DEF DuringReset
      <4>4. pc[x] = "write" => ~IsBefore(base[x], day[c])
        <5>1. straddled'[day[c]] = straddled[day[c]] \cup
                {s \in Symbols : \E y \in AtWork(s) :
                                    pc[y] = "write" /\ IsBefore(base[y], day[c])}
          BY <2>1 DEF HistType
        <5>2. QED
          BY <2>2, <3>2, <4>1, <4>2, <5>1
      <4>5. pc[x] = "setopen" => base[x] = event[x]
        BY DEF FreshInv
      <4>6. QED
        BY <2>2, <4>3, <4>4, <4>5 DEF Based, Fresh
    <3>3. QED
      BY <2>1, <3>1, <3>2 DEF AfterReset, Fresh, IsBefore
  <2>8. ASSUME NEW d \in Days, resets'[d] > 0 PROVE AfterReset(d)'
    <3>1. CASE d = day[c]
      BY <2>1, <2>7, <3>1 DEF AfterReset, Fresh, IsBefore
    <3>2. CASE d # day[c]
      <4>1. AfterReset(d)
        BY <2>1, <2>8, <3>2 DEF FreshInv
      <4>2. QED
        BY <2>1, <2>2, <2>4, <2>5, <4>1 DEF AfterReset, Fresh, IsBefore
    <3>3. QED
      BY <3>1, <3>2
  <2>9. ASSUME NEW r \in Calls, pc'[r] = "delete" PROVE DuringReset(r)'
    <3>1. r # c /\ pc[r] = "delete" /\ found'[r] = found[r]
      BY <2>1, <2>9 DEF CallType
    <3>2. DuringReset(r)
      BY <3>1 DEF FreshInv
    <3>3. QED
      BY <2>1, <2>2, <2>4, <2>5, <3>1, <3>2 DEF DuringReset, Fresh, IsBefore
  <2>10. QED
    BY <2>3, <2>8, <2>9 DEF FreshInv
<1>4. ASSUME NEW c \in Calls, GetOpen(c) PROVE FreshInv'
  <2> DEFINE s == SymbolOf(c)
  <2>1. pc[c] = "price" /\ pc[c] \in Working /\ s \in Symbols
    BY <1>4, EventOfCall DEF GetOpen, Working
  <2>2. /\ UNCHANGED <<openPrice, gainers, events, event, day, found, resets, straddled>>
        /\ \/ openPrice[s] # 0 /\ base' = [base EXCEPT ![c] = openPrice[s]]
                /\ pc' = [pc EXCEPT ![c] = "write"]
           \/ base' = [base EXCEPT ![c] = event[c]] /\ pc' = [pc EXCEPT ![c] = "setopen"]
    BY <1>4 DEF GetOpen, Goto
  <2> HIDE DEF s
  <2>3. \A x \in Calls \ {c} : pc'[x] = pc[x] /\ base'[x] = base[x]
    BY <2>2 DEF CallType
  <2>4. \/ pc'[c] = "write" /\ base'[c] = openPrice[s]
        \/ pc'[c] = "setopen" /\ base'[c] = event[c]
    BY <2>2 DEF CallType
  <2>5. \A x \in Calls : /\ pc'[x] \in Working => pc[x] \in Working
                         /\ SymbolOf(x)' = SymbolOf(x)
    BY <2>1, <2>2, <2>3 DEF SymbolOf
  <2>6. \A x \in Calls : pc'[x] = "setopen" => base'[x] = event'[x]
    BY <2>2, <2>3, <2>4 DEF FreshInv
  <2>7. ASSUME NEW d \in Days, resets'[d] > 0 PROVE AfterReset(d)'
    <3>1. AfterReset(d)
      BY <2>2, <2>7 DEF FreshInv
    <3>2. s \notin straddled[d] => ~IsBefore(event[c], d) /\ Fresh(openPrice[s], d)
      BY <2>1, <3>1 DEF AfterReset, s
    <3>3. s \notin straddled[d] => Fresh(base[c], d)'
      BY <2>2, <2>4, <3>2 DEF Fresh, IsBefore
    <3>4. ASSUME NEW x \in Calls, pc'[x] \in Based, SymbolOf(x)' \notin straddled'[d]
          PROVE  Fresh(base[x], d)'
      <4>1. CASE x = c
        BY <2>2, <2>5, <3>3, <3>4, <4>1 DEF s
      <4>2. CASE x # c
        <5>1. pc[x] \in Based /\ pc[x] \in Working /\ SymbolOf(x) \notin straddled[d]
          BY <2>2, <2>3, <2>5, <3>4, <4>2 DEF Based, Working
        <5>2. Fresh(base[x], d)
          BY <3>1, <5>1 DEF AfterReset
        <5>3. QED
          BY <2>2, <2>3, <4>2, <5>2 DEF Fresh, IsBefore
      <4>3. QED
        BY <4>1, <4>2
    <3>5. QED
      BY <2>2, <2>5, <3>1, <3>4 DEF AfterReset, Fresh, IsBefore
  <2>8. ASSUME NEW r \in Calls, pc'[r] = "delete" PROVE DuringReset(r)'
    <3>1. DuringReset(r)
      BY <2>2, <2>3, <2>4, <2>8 DEF FreshInv
    <3>2. QED
      BY <2>2, <2>5, <3>1 DEF DuringReset, Fresh, IsBefore
  <2>9. QED
    BY <2>6, <2>7, <2>8 DEF FreshInv
<1>5. ASSUME NEW c \in Calls, SetOpen(c) PROVE FreshInv'
  <2>1. pc[c] = "setopen" /\ pc[c] \in Working /\ pc[c] \in Based
    BY <1>5 DEF SetOpen, Working, Based
  <2>2. /\ UNCHANGED <<gainers, events, event, day, base, found, resets, straddled>>
        /\ openPrice' = [openPrice EXCEPT ![SymbolOf(c)] = event[c]]
        /\ pc' = [pc EXCEPT ![c] = "write"]
    BY <1>5 DEF SetOpen, Goto
  <2>3. \A x \in Calls : /\ pc'[x] \in Working => pc[x] \in Working
                         /\ SymbolOf(x)' = SymbolOf(x)
                         /\ pc'[x] \in Based => pc[x] \in Based
                         /\ pc'[x] = "setopen" => pc[x] = "setopen"
                         /\ pc'[x] = "delete" => pc[x] = "delete"
    BY <2>1, <2>2 DEF SymbolOf, CallType
  <2>4. \A s \in Symbols : \/ openPrice'[s] = openPrice[s]
                           \/ s = SymbolOf(c) /\ openPrice'[s] = event[c]
    BY <2>2 DEF RedisType
  <2>5. \A x \in Calls : pc'[x] = "setopen" => base'[x] = event'[x]
    BY <2>2, <2>3 DEF FreshInv
  <2>6. ASSUME NEW d \in Days, resets'[d] > 0 PROVE AfterReset(d)'
    <3>1. AfterReset(d)
      BY <2>2, <2>6 DEF FreshInv
    <3>2. SymbolOf(c) \notin straddled[d] => ~IsBefore(event[c], d)
      BY <2>1, <3>1 DEF AfterReset
    <3>3. QED
      BY <2>2, <2>3, <2>4, <3>1, <3>2 DEF AfterReset, Fresh, IsBefore
  <2>7. ASSUME NEW r \in Calls, pc'[r] = "delete" PROVE DuringReset(r)'
    <3>1. DuringReset(r)
      BY <2>2, <2>3, <2>7 DEF FreshInv
    <3>2. SymbolOf(c) \notin straddled[day[r]] => ~IsBefore(event[c], day[r])
      BY <2>1, <3>1 DEF DuringReset
    <3>3. QED
      BY <2>2, <2>3, <2>4, <3>1, <3>2 DEF DuringReset, Fresh, IsBefore
  <2>8. QED
    BY <2>5, <2>6, <2>7 DEF FreshInv
<1>6. ASSUME NEW c \in Calls, Write(c) PROVE FreshInv'
  <2>1. pc[c] = "write" /\ pc[c] \in Based /\ pc[c] \in Working
    BY <1>6 DEF Write, Based, Working
  <2>2. /\ UNCHANGED <<openPrice, events, resets, straddled>>
        /\ pc' = [pc EXCEPT ![c] = "throttle"]
        /\ event' = [event EXCEPT ![c] = 0] /\ day' = [day EXCEPT ![c] = 1]
        /\ base' = [base EXCEPT ![c] = 0] /\ found' = [found EXCEPT ![c] = {}]
    BY <1>6 DEF Write, Goto, Forget
  <2>3. \A s \in Symbols : \/ gainers'[s] \in {0, gainers[s]}
                           \/ s = SymbolOf(c) /\ gainers'[s] = base[c]
    BY <1>6 DEF Write, Trim, BoardType
  <2>4. pc'[c] = "throttle" /\ \A x \in Calls \ {c} :
          /\ pc'[x] = pc[x] /\ event'[x] = event[x] /\ base'[x] = base[x]
          /\ SymbolOf(x)' = SymbolOf(x) /\ day'[x] = day[x] /\ found'[x] = found[x]
    BY <2>2 DEF SymbolOf, CallType
  <2>5. \A x \in Calls : pc'[x] \in Working \cup Based \cup {"delete"} => x # c
    BY <2>4 DEF Working, Based
  <2>6. \A x \in Calls : pc'[x] = "setopen" => base'[x] = event'[x]
    BY <2>4 DEF FreshInv
  <2>7. ASSUME NEW d \in Days, resets'[d] > 0 PROVE AfterReset(d)'
    <3>1. AfterReset(d) /\ (SymbolOf(c) \notin straddled[d] => Fresh(base[c], d))
      BY <2>1, <2>2, <2>7 DEF FreshInv, AfterReset
    <3>2. \A s \in Symbols \ straddled'[d] : Fresh(openPrice[s], d)' /\ Fresh(gainers[s], d)'
      BY <2>2, <2>3, <3>1 DEF AfterReset, Fresh, IsBefore
    <3>3. QED
      BY <2>2, <2>4, <2>5, <3>1, <3>2 DEF AfterReset, Fresh, IsBefore
  <2>8. ASSUME NEW r \in Calls, pc'[r] = "delete" PROVE DuringReset(r)'
    <3>1. r # c /\ pc[r] = "delete"
      BY <2>4, <2>5, <2>8
    <3>2. DuringReset(r)
      BY <2>2, <3>1 DEF FreshInv
    <3>3. QED
      BY <2>2, <2>4, <2>5, <3>1, <3>2 DEF DuringReset, Fresh, IsBefore
  <2>9. QED
    BY <2>6, <2>7, <2>8 DEF FreshInv
<1>7. ASSUME NEW c \in Calls,
             DayCheck(c) \/ OpenCheck(c) \/ WriteFails(c) \/ Throttle(c) \/ Abort(c)
      PROVE  FreshInv'
  <2>1. UNCHANGED <<resets, events, openPrice, straddled>>
        /\ \A s \in Symbols : gainers'[s] \in {0, gainers[s]}
    BY <1>7 DEF DayCheck, OpenCheck, WriteFails, Throttle, Abort, Nothing
  <2>2. \A x \in Calls :
          /\ pc'[x] \in Working => pc[x] \in Working /\ event'[x] = event[x]
          /\ pc'[x] \in Based => pc'[x] = pc[x] /\ base'[x] = base[x]
          /\ pc'[x] = "delete" => pc[x] = "delete" /\ day'[x] = day[x]
                                    /\ found'[x] = found[x]
    BY <1>7 DEF DayCheck, OpenCheck, WriteFails, Throttle, Abort, Forget, Goto,
                CallType, Working, Based
  <2>3. QED
    BY <2>1, <2>2, FreshFrame
<1>8. CASE Environment
  <2>1. UNCHANGED <<resets, events, gainers, pc, event, base, day, found, straddled>>
        /\ \A s \in Symbols : openPrice'[s] \in {0, openPrice[s]}
    BY <1>8 DEF Environment, Tick, ThrottleExpires, OpenExpires, RedisType
  <2>2. QED
    BY <2>1, FreshFrame
<1>9. CASE UNCHANGED vars
  BY <1>9, FreshFrame DEF vars
<1>10. QED
  BY <1>1, <1>2, <1>3, <1>4, <1>5, <1>6, <1>7, <1>8, <1>9 DEF Next, Call

\* Steps that leave the stored day, and at most forget calls and entries.
LEMMA DayFrame ==
    ASSUME DayInv, UNCHANGED <<events, dayKey, overtaken>>,
           \A s \in Symbols : volume'[s] \in {0, volume[s]},
           \A x \in Calls :
               /\ pc'[x] = "day" => pc[x] = "day" /\ event'[x] = event[x] /\ day'[x] = day[x]
               /\ pc'[x] \in Working \ {"day"} => pc[x] \in Working \ {"day"}
                                                 /\ event'[x] = event[x]
    PROVE  DayInv'
BY DEF DayInv, BeginOf

LEMMA DayStep == TypeOK /\ TypeOK' /\ Refs /\ BaseRefs /\ DayInv /\ [Next]_vars => DayInv'
<1> SUFFICES ASSUME TypeOK, TypeOK', Refs, BaseRefs, DayInv, [Next]_vars PROVE DayInv'
  OBVIOUS
<1> EventType /\ CallType /\ BoardType
  BY TypeGroups
<1>1. ASSUME NEW c \in Calls, NEW s \in Symbols, NEW v \in 1..MaxVolume, Analyze(c, s, v)
      PROVE  DayInv'
  <2>1. /\ pc' = [pc EXCEPT ![c] = "day"] /\ day' = [day EXCEPT ![c] = DayOf(now)]
        /\ event' = [event EXCEPT ![c] = Len(events) + 1]
        /\ UNCHANGED <<dayKey, volume, overtaken>>
    BY <1>1 DEF Analyze, Goto
  <2>2. pc'[c] = "day" /\ day'[c] = DayOf(now) /\ BeginOf(c)' = now
    BY <1>1, <2>1, NewEvent DEF BeginOf, CallType
  <2>3. \A x \in Calls \ {c} : /\ pc'[x] = pc[x] /\ day'[x] = day[x] /\ event'[x] = event[x]
                               /\ pc[x] \in Working => BeginOf(x)' = BeginOf(x)
    BY <2>1, SameEvent DEF CallType
  <2>4. \A y \in Symbols : volume[y] # 0 => events'[volume[y]] = events[volume[y]]
    BY SameRefs
  <2>5. \A x \in Calls : pc'[x] = "day" => day'[x] = DayOf(BeginOf(x)')
    BY <2>2, <2>3 DEF DayInv, Working
  <2>6. QED
    BY <2>1, <2>2, <2>3, <2>4, <2>5 DEF DayInv
<1>2. ASSUME NEW c \in Calls, DayCheck(c) PROVE DayInv'
  <2>1. /\ UNCHANGED <<events, event, day>> /\ pc[c] = "day"
        /\ pc' = [pc EXCEPT ![c] = "window"]
    BY <1>2 DEF DayCheck, Goto
  <2>2. \A x \in Calls : BeginOf(x)' = BeginOf(x)
    BY <2>1 DEF BeginOf
  <2>3. \A x \in Calls : /\ pc'[x] = (IF x = c THEN "window" ELSE pc[x])
                         /\ pc'[x] \in Working => pc[x] \in Working
    BY <2>1 DEF CallType, Working
  <2>4. \A x \in Calls : pc'[x] = "day" => day'[x] = DayOf(BeginOf(x)')
    BY <2>1, <2>2, <2>3 DEF DayInv
  <2>5. CASE dayKey = day[c]
    <3>1. UNCHANGED <<dayKey, volume, overtaken>>
      BY <1>2, <2>5 DEF DayCheck
    <3>2. DayOf(BeginOf(c)) = dayKey
      BY <2>1, <2>5 DEF DayInv
    <3>3. QED
      BY <2>1, <2>2, <2>3, <2>4, <3>1, <3>2 DEF DayInv
  <2>6. CASE dayKey # day[c]
    <3>1. /\ dayKey' = day[c] /\ volume' = Nothing
          /\ overtaken' = {event[x] : x \in {y \in Calls :
                              pc[y] \in Working /\ DayOf(BeginOf(y)) # day[c]}}
      BY <1>2, <2>6 DEF DayCheck
    <3>2. \A x \in Calls : pc[x] \in Working =>
            DayOf(BeginOf(x)) = dayKey' \/ event[x] \in overtaken'
      BY <3>1
    <3>3. \A s \in Symbols : volume'[s] = 0
      BY <3>1 DEF Nothing
    <3>4. QED
      BY <2>1, <2>2, <2>3, <2>4, <3>2, <3>3 DEF DayInv
  <2>7. QED
    BY <2>5, <2>6
<1>3. ASSUME NEW c \in Calls, Write(c) PROVE DayInv'
  <2>1. /\ UNCHANGED <<events, dayKey, overtaken>> /\ pc[c] = "write"
        /\ pc' = [pc EXCEPT ![c] = "throttle"]
        /\ event' = [event EXCEPT ![c] = 0] /\ day' = [day EXCEPT ![c] = 1]
    BY <1>3 DEF Write, Goto, Forget
  <2>2. \A s \in Symbols : volume'[s] \in {0, volume[s], event[c]}
    BY <1>3 DEF Write, Trim, BoardType
  <2>3. DayOf(events[event[c]].at) = dayKey \/ event[c] \in overtaken
    BY <2>1 DEF DayInv, Working, BeginOf
  <2>4. pc'[c] = "throttle" /\ \A x \in Calls \ {c} :
          /\ pc'[x] = pc[x] /\ event'[x] = event[x]
          /\ BeginOf(x)' = BeginOf(x) /\ day'[x] = day[x]
    BY <2>1 DEF BeginOf, CallType
  <2>5. QED
    BY <2>1, <2>2, <2>3, <2>4 DEF DayInv, Working
<1>4. ASSUME NEW c \in Calls, Scan(c) \/ DeleteFound(c) PROVE DayInv'
  <2>1. /\ UNCHANGED <<events, dayKey, volume, event, day, overtaken>>
        /\ pc[c] \in {"scan", "delete"}
        /\ \E step \in {"delete", "price"} : pc' = [pc EXCEPT ![c] = step]
    BY <1>4 DEF Scan, DeleteFound, Goto
  <2>2. QED
    BY <2>1, DayFrame DEF CallType, Working
<1>5. ASSUME NEW c \in Calls,
             OpenCheck(c) \/ GetOpen(c) \/ SetOpen(c) \/ WriteFails(c) \/ Throttle(c)
               \/ Abort(c)
      PROVE  DayInv'
  <2>1. UNCHANGED <<events, dayKey, overtaken, volume>>
    BY <1>5 DEF OpenCheck, GetOpen, SetOpen, WriteFails, Throttle, Abort
  <2>2. \A x \in Calls :
          /\ pc'[x] = "day" => pc[x] = "day" /\ event'[x] = event[x] /\ day'[x] = day[x]
          /\ pc'[x] \in Working \ {"day"} => pc[x] \in Working \ {"day"} /\ event'[x] = event[x]
    BY <1>5 DEF OpenCheck, GetOpen, SetOpen, WriteFails, Throttle, Abort, Forget,
                Goto, CallType, Working
  <2>3. QED
    BY <2>1, <2>2, DayFrame
<1>6. CASE Environment
  <2>1. UNCHANGED <<events, dayKey, overtaken, volume, pc, event, day>>
    BY <1>6 DEF Environment, Tick, ThrottleExpires, OpenExpires
  <2>2. QED
    BY <2>1, DayFrame
<1>7. CASE UNCHANGED vars
  BY <1>7, DayFrame DEF vars
<1>8. QED
  BY <1>1, <1>2, <1>3, <1>4, <1>5, <1>6, <1>7 DEF Next, Call

IInv == TypeOK /\ Refs /\ BaseRefs /\ ResetInv /\ DayInv /\ FreshInv

LEMMA InitInv == Init => IInv
<1> SUFFICES ASSUME Init PROVE IInv
  OBVIOUS
<1>1. TypeOK
  BY InitType
<1>2. events = <<>>
  BY DEF Init
<1>3. Refs /\ BaseRefs
  BY <1>2 DEF Init, Refs, BaseRefs, Nothing
<1>4. ResetInv /\ DayInv /\ FreshInv
  BY DEF Init, ResetInv, DayInv, FreshInv, Resetting, Working, Nothing
<1>5. QED
  BY <1>1, <1>3, <1>4 DEF IInv

LEMMA NextInv == IInv /\ [Next]_vars => IInv'
BY NextType, RefsStep, ResetStep, DayStep, FreshStep DEF IInv

\* After the open reset of a day no open price and no score rests on an analysis
\* begun before it, but for the symbols of which a call straddles the reset; and
\* the volume leaderboard holds analyses of the stored day only, but for those
\* that the day's reset has overtaken; for any number of concurrent calls and
\* replicas and any order of events (lines 368-456).
THEOREM FreshWithoutCrossing == Spec => []FreshUnlessCrossed
<1>1. IInv => FreshUnlessCrossed
  <2> SUFFICES ASSUME IInv PROVE FreshUnlessCrossed
    OBVIOUS
  <2>1. FreshBaseline
    BY DEF FreshBaseline, IInv, FreshInv, AfterReset, Fresh
  <2>2. \A s \in Entries(volume) :
          DayOf(events[volume[s]].at) = dayKey \/ volume[s] \in overtaken
    BY DEF IInv, DayInv, Entries
  <2>3. QED
    BY <2>1, <2>2 DEF FreshUnlessCrossed
<1>2. QED
  BY InitInv, NextInv, <1>1, PTL DEF Spec

(***************************************************************************)
(* The leaders by volume                                                   *)
(***************************************************************************)
\* An entry is the event that was written last for its symbol.
Latest ==
    /\ IsFiniteSet(Entries(volume))
    /\ \A s \in Symbols : volume[s] \in {0, scored[s]}

LeadInv == Latest /\ LeadersKept

\* Steps that write no score.
LEMMA LeadFrame ==
    ASSUME TypeOK, Refs, BaseRefs, LeadInv, [Next]_vars,
           UNCHANGED <<volume, scored, lowered>>
    PROVE  LeadInv'
<1>1. Latest'
  BY DEF LeadInv, Latest, Entries
<1>2. LeadersKept'
  <2> SUFFICES ASSUME ~lowered, NEW s \in Symbols, volume[s] = 0, scored[s] # 0
               PROVE  /\ Cardinality(Entries(volume)) = Limit
                      /\ \A t \in Entries(volume) :
                           events'[volume[t]].volume >= events'[scored[s]].volume
    BY DEF LeadersKept, VolumeOf, Entries
  <2>1. /\ Cardinality(Entries(volume)) = Limit
        /\ \A t \in Entries(volume) : events[volume[t]].volume >= events[scored[s]].volume
    BY DEF LeadInv, LeadersKept, VolumeOf, Entries
  <2>2. \A t \in Entries(volume) : t \in Symbols /\ volume[t] # 0
    BY DEF Entries
  <2>3. \A t \in Entries(volume) : events'[volume[t]] = events[volume[t]]
    BY <2>2, SameRefs
  <2>4. events'[scored[s]] = events[scored[s]]
    BY SameRefs
  <2>5. QED
    BY <2>1, <2>3, <2>4
<1>3. QED
  BY <1>1, <1>2 DEF LeadInv

\* One more entry, then the trim: what led still leads.
LEMMA WriteKeepsLeaders ==
    ASSUME TypeOK, Refs, LeadInv, NEW c \in Calls, Write(c)
    PROVE  LeadInv'
<1> DEFINE s == SymbolOf(c)
           e == event[c]
           V == [volume EXCEPT ![s] = e]
           E == Entries(V)
           Size(n) == events[n].volume
<1>1. pc[c] \in Working
  BY DEF Write, Working
<1>2. s \in Symbols /\ e \in 1..Len(events) /\ e \in Numbers /\ e # 0
  BY <1>1, EventOfCall, TypeGroups DEF Numbers
<1>3. PICK T \in Kept(V) : IsTop(T, V) /\ volume' = Trim(V, T)
  BY DEF Write
<1>4. /\ UNCHANGED events
      /\ scored' = [scored EXCEPT ![s] = e]
      /\ ~lowered' => /\ ~lowered
                      /\ volume[s] # 0 => ~(Size(e) < Size(volume[s]))
  <2>1. UNCHANGED events /\ scored' = [scored EXCEPT ![s] = e]
    BY DEF Write
  <2>2. lowered' = (lowered \/ (volume[s] # 0 /\ Size(e) < Size(volume[s])))
    BY DEF Write, VolumeOf
  <2>3. QED
    BY <2>1, <2>2, Zenon
<1>5. volume \in [Symbols -> Numbers] /\ scored \in [Symbols -> Numbers]
        /\ Limit \in Nat /\ IsFiniteSet(Entries(volume))
        /\ \A y \in Symbols : volume[y] \in {0, scored[y]}
  BY DEF TypeOK, LeadInv, Latest
<1> HIDE DEF s, e
<1>6. V \in [Symbols -> Numbers] /\ V[s] = e /\ \A y \in Symbols \ {s} : V[y] = volume[y]
  BY <1>2, <1>5
<1>7. E = Entries(volume) \cup {s}
  BY <1>2, <1>6 DEF Entries
<1>8. IsFiniteSet(E)
  BY <1>5, <1>7, FS_AddElement
<1> HIDE DEF V
<1>9. /\ T \subseteq E /\ Cardinality(T) <= Limit /\ (T = E \/ Cardinality(T) = Limit)
      /\ Entries(volume') = T
  <2>1. T \subseteq E /\ Cardinality(T) <= Limit /\ Entries(Trim(V, T)) = T
    BY <1>6, TrimmedBoard
  <2>2. T = E \/ Cardinality(T) = Limit
    BY DEF Kept
  <2>3. QED
    BY <1>3, <2>1, <2>2
<1>10. IsFiniteSet(T) /\ E \subseteq Symbols /\ T \subseteq Symbols
  BY <1>8, <1>9, FS_Subset DEF Entries
<1>11. /\ \A y \in T : volume'[y] = V[y]
       /\ \A y \in Symbols \ T : volume'[y] = 0
  BY <1>3, <1>10 DEF Trim
<1>12. scored'[s] = e /\ \A y \in Symbols \ {s} : scored'[y] = scored[y]
  BY <1>2, <1>4, <1>5
<1>13. Latest'
  BY <1>5, <1>6, <1>9, <1>10, <1>11, <1>12 DEF Latest
\* The sizes compared are of known events.
<1>14. \A n \in 1..Len(events) : Size(n) \in Int
  <2>1. events \in Seq(Event)
    BY TypeGroups DEF EventType
  <2>2. \A n \in 1..Len(events) : events[n] \in Event
    BY <2>1
  <2>3. \A x \in Event : x.volume \in Int
    BY DEF Event
  <2>4. QED
    BY <2>2, <2>3
<1>15. /\ \A y \in Entries(volume) : volume[y] \in 1..Len(events)
       /\ \A y \in Symbols : scored[y] # 0 => scored[y] \in 1..Len(events)
       /\ \A y \in E : V[y] \in 1..Len(events)
  <2>1. \A y \in Symbols : volume[y] \in Nat /\ scored[y] \in Nat
    BY <1>5 DEF Numbers
  <2>2. \A y \in Symbols : /\ volume[y] # 0 => volume[y] \in 1..Len(events)
                           /\ scored[y] # 0 => scored[y] \in 1..Len(events)
    <3>1. Len(events) \in Nat
      BY DEF TypeOK
    <3>2. QED
      BY <2>1, <3>1 DEF Refs
  <2>3. QED
    BY <1>2, <1>6, <1>7, <2>2 DEF Entries
<1>16. \A x \in T, y \in E \ T : Size(V[x]) >= Size(V[y])
  BY <1>3 DEF IsTop, VolumeOf
<1> HIDE DEF E, Size
<1>17. ASSUME ~lowered', NEW u \in Symbols \ T, scored'[u] # 0
       PROVE  /\ Cardinality(T) = Limit
              /\ \A t \in T : Size(V[t]) >= Size(scored'[u])
  <2>1. CASE u \in E
    <3>1. V[u] = scored'[u]
      <4>1. u # s => volume[u] # 0
        BY <1>6, <2>1 DEF E, Entries
      <4>2. QED
        BY <1>5, <1>6, <1>12, <4>1
    <3>2. QED
      BY <1>9, <1>16, <1>17, <2>1, <3>1
  <2>2. CASE u \notin E
    <3>1. u # s /\ volume[u] = 0 /\ scored'[u] = scored[u]
      BY <1>7, <1>12, <2>2 DEF Entries
    <3>2. /\ Cardinality(Entries(volume)) = Limit
          /\ \A t \in Entries(volume) : Size(volume[t]) >= Size(scored[u])
      BY <1>4, <1>17, <3>1 DEF LeadInv, LeadersKept, Entries, VolumeOf, Size
    <3>3. scored[u] \in 1..Len(events)
      BY <1>15, <1>17, <3>1
    <3>4. CASE s \in Entries(volume)
      <4>1. E = Entries(volume) /\ Cardinality(E) = Limit
        BY <1>7, <3>2, <3>4
      <4>2. Cardinality(T) = Limit
        BY <1>9, <4>1
      <4>3. volume[s] # 0 /\ Size(e) >= Size(volume[s])
        <5>1. volume[s] # 0 /\ ~(Size(e) < Size(volume[s]))
          BY <1>4, <1>17, <3>4 DEF Entries, Size
        <5>2. Size(e) \in Int /\ Size(volume[s]) \in Int
          BY <1>2, <1>14, <1>15, <3>4
        <5>3. QED
          BY <5>1, <5>2
      <4>4. ASSUME NEW t \in T PROVE Size(V[t]) >= Size(scored[u])
        <5>1. CASE t = s
          <6>1. Size(volume[s]) >= Size(scored[u])
            BY <3>2, <3>4
          <6>2. Size(e) \in Int /\ Size(volume[s]) \in Int /\ Size(scored[u]) \in Int
            BY <1>2, <1>14, <1>15, <3>3, <3>4
          <6>3. Size(e) >= Size(scored[u])
            BY <4>3, <6>1, <6>2
          <6>4. QED
            BY <1>6, <5>1, <6>3
        <5>2. CASE t # s
          BY <1>6, <1>9, <1>10, <3>2, <4>1, <5>2
        <5>3. QED
          BY <5>1, <5>2
      <4>5. QED
        BY <3>1, <4>2, <4>4
    <3>5. CASE s \notin Entries(volume)
      <4>1. Cardinality(E) = Limit + 1
        <5>1. Cardinality(Entries(volume) \cup {s}) = Cardinality(Entries(volume)) + 1
          BY <1>5, <3>5, FS_AddElement
        <5>2. QED
          BY <1>7, <3>2, <5>1
      <4>2. T # E
        BY <1>5, <1>9, <4>1
      <4>3. Cardinality(T) = Limit
        BY <1>9, <4>2
      <4>4. PICK x \in E : x \notin T
        BY <1>9, <4>2
      <4>5. ASSUME NEW t \in T PROVE Size(V[t]) >= Size(scored[u])
        <5>1. CASE t = s
          <6>1. x \in Entries(volume) /\ V[x] = volume[x]
            BY <1>6, <1>7, <1>10, <4>4, <5>1
          <6>2. Size(V[t]) >= Size(volume[x]) /\ Size(volume[x]) >= Size(scored[u])
            BY <1>16, <3>2, <4>4, <6>1
          <6>3. Size(V[t]) \in Int /\ Size(volume[x]) \in Int /\ Size(scored[u]) \in Int
            BY <1>9, <1>14, <1>15, <3>3, <6>1
          <6>4. QED
            BY <6>2, <6>3
        <5>2. CASE t # s
          <6>1. t \in Entries(volume) /\ V[t] = volume[t]
            BY <1>6, <1>7, <1>9, <1>10, <5>2
          <6>2. QED
            BY <3>2, <6>1
        <5>3. QED
          BY <5>1, <5>2
      <4>6. QED
        BY <3>1, <4>3, <4>5
    <3>6. QED
      BY <3>4, <3>5
  <2>3. QED
    BY <2>1, <2>2
<1>18. LeadersKept'
  <2> SUFFICES ASSUME ~lowered', NEW u \in Symbols \ Entries(volume'), scored'[u] # 0
               PROVE  /\ Cardinality(Entries(volume')) = Limit
                      /\ \A t \in Entries(volume') :
                           events'[volume'[t]].volume >= events'[scored'[u]].volume
    BY DEF LeadersKept, VolumeOf, Entries
  <2>1. /\ Cardinality(T) = Limit
        /\ \A t \in T : Size(V[t]) >= Size(scored'[u])
    BY <1>9, <1>17
  <2>2. QED
    BY <1>4, <1>9, <1>11, <2>1 DEF Size
<1>19. QED
  BY <1>13, <1>18 DEF LeadInv

LEMMA LeadStep == IInv /\ LeadInv /\ [Next]_vars => LeadInv'
<1> SUFFICES ASSUME IInv, LeadInv, [Next]_vars PROVE LeadInv'
  OBVIOUS
<1> TypeOK /\ Refs /\ BaseRefs
  BY DEF IInv
<1>1. ASSUME NEW c \in Calls, Write(c) PROVE LeadInv'
  BY <1>1, WriteKeepsLeaders
<1>2. ASSUME NEW c \in Calls, DayCheck(c) PROVE LeadInv'
  <2>1. CASE dayKey = day[c]
    <3>1. UNCHANGED <<volume, scored, lowered>>
      BY <1>2, <2>1 DEF DayCheck
    <3>2. QED
      BY <3>1, LeadFrame
  <2>2. CASE dayKey # day[c]
    <3>1. volume' = Nothing /\ scored' = Nothing
      BY <1>2, <2>2 DEF DayCheck
    <3>2. Entries(volume') = {} /\ \A s \in Symbols : volume'[s] = 0 /\ scored'[s] = 0
      BY <3>1, NothingIsBoard DEF Nothing
    <3>3. Latest'
      BY <3>2, FS_EmptySet DEF Latest
    <3>4. LeadersKept'
      BY <3>2 DEF LeadersKept
    <3>5. QED
      BY <3>3, <3>4 DEF LeadInv
  <2>3. QED
    BY <2>1, <2>2
<1>3. ASSUME NEW c \in Calls,
             \/ \E s \in Symbols, v \in 1..MaxVolume : Analyze(c, s, v)
             \/ OpenCheck(c) \/ Scan(c) \/ DeleteFound(c) \/ GetOpen(c) \/ SetOpen(c)
             \/ WriteFails(c) \/ Throttle(c) \/ Abort(c)
      PROVE  LeadInv'
  <2>1. UNCHANGED <<volume, scored, lowered>>
    BY <1>3 DEF Analyze, OpenCheck, Scan, DeleteFound, GetOpen, SetOpen, WriteFails,
                Throttle, Abort
  <2>2. QED
    BY <2>1, LeadFrame
<1>4. CASE Environment
  <2>1. UNCHANGED <<volume, scored, lowered>>
    BY <1>4 DEF Environment, Tick, ThrottleExpires, OpenExpires
  <2>2. QED
    BY <2>1, LeadFrame
<1>5. CASE UNCHANGED vars
  BY <1>5, LeadFrame DEF vars
<1>6. QED
  BY <1>1, <1>2, <1>3, <1>4, <1>5 DEF Next, Call

LEMMA InitLead == Init => LeadInv
<1> SUFFICES ASSUME Init PROVE LeadInv
  OBVIOUS
<1>1. Entries(volume) = {} /\ \A s \in Symbols : volume[s] = 0 /\ scored[s] = 0
  BY NothingIsBoard DEF Init, Nothing
<1>2. QED
  BY <1>1, FS_EmptySet DEF LeadInv, Latest, LeadersKept

\* Whatever was written since the leaderboards were cleared and is missing was
\* pushed out by Limit entries of no less volume, through any number of writes,
\* trims and concurrent calls, until an event that comes out of order lowers the
\* score of an entry (lines 168-175).
THEOREM TrimKeepsLeaders == Spec => []LeadersKept
<1>1. (IInv /\ LeadInv) /\ [Next]_vars => (IInv /\ LeadInv)'
  BY NextInv, LeadStep
<1>2. LeadInv => LeadersKept
  BY DEF LeadInv
<1>3. QED
  BY InitInv, InitLead, <1>1, <1>2, PTL DEF Spec

(***************************************************************************)
(* The baseline of a gain                                                  *)
(***************************************************************************)
\* A symbol whose last calls did not overlap has one call at work at most, and
\* what that call stores or goes by is the stored open price.
BaseInv ==
    /\ \A c, x \in Calls : pc[c] \in Working /\ pc[x] \in Working
                             /\ SymbolOf(c) = SymbolOf(x) /\ SymbolOf(c) \notin mixed => c = x
    /\ \A c \in Calls : pc[c] = "setopen" => base[c] = event[c]
    /\ \A c \in Calls : pc[c] = "write" /\ SymbolOf(c) \notin mixed =>
         openPrice[SymbolOf(c)] \in {0, base[c]}
    /\ BaselineShared

\* Steps that begin no call, and end only calls of mixed symbols.
LEMMA BaseFrame ==
    ASSUME TypeOK, BaseInv, [Next]_vars, mixed \subseteq mixed',
           \A s \in Symbols : openPrice'[s] \in {0, openPrice[s]}
                              /\ gainers'[s] \in {0, gainers[s]},
           \A x \in Calls :
               /\ pc'[x] \in Working => pc[x] \in Working /\ event'[x] = event[x]
               /\ pc[x] \in Working => pc'[x] \in Working \/ SymbolOf(x) \in mixed'
               /\ pc'[x] \in Based => pc'[x] = pc[x] /\ base'[x] = base[x]
    PROVE  BaseInv'
<1> openPrice \in [Symbols -> Numbers] /\ gainers \in [Symbols -> Numbers]
  BY DEF TypeOK
<1>1. \A x \in Calls : pc'[x] \in Working => SymbolOf(x)' = SymbolOf(x)
  BY SameEvent
<1>2. \A x \in Calls : pc[x] \in Working => SymbolOf(x) \in Symbols
  BY EventOfCall, TypeGroups
<1>3. BaselineShared'
  <2> SUFFICES ASSUME NEW s \in Symbols, gainers'[s] # 0, s \notin mixed', AtWork(s)' = {},
                      openPrice'[s] # 0
               PROVE  gainers'[s] = openPrice'[s]
    BY DEF BaselineShared, Entries
  <2>1. gainers'[s] = gainers[s] /\ openPrice'[s] = openPrice[s] /\ s \notin mixed
    OBVIOUS
  <2>2. ASSUME NEW x \in AtWork(s) PROVE FALSE
    <3>1. x \in Calls /\ pc[x] \in Working /\ SymbolOf(x) = s
      BY DEF AtWork
    <3>2. pc'[x] \in Working /\ SymbolOf(x)' = s
      BY <1>1, <3>1
    <3>3. QED
      BY <3>1, <3>2 DEF AtWork
  <2>3. QED
    BY <2>1, <2>2 DEF BaseInv, BaselineShared, Entries
<1>4. \A c, x \in Calls : pc'[c] \in Working /\ pc'[x] \in Working
         /\ SymbolOf(c)' = SymbolOf(x)' /\ SymbolOf(c)' \notin mixed' => c = x
  BY <1>1 DEF BaseInv
<1>5. \A c \in Calls : pc'[c] = "setopen" => base'[c] = event'[c]
  BY DEF BaseInv, Based, Working
<1>6. ASSUME NEW c \in Calls, pc'[c] = "write", SymbolOf(c)' \notin mixed'
      PROVE  openPrice'[SymbolOf(c)'] \in {0, base'[c]}
  <2>1. pc[c] = "write" /\ base'[c] = base[c] /\ pc'[c] \in Working /\ pc[c] \in Working
    BY <1>6 DEF Based, Working
  <2>2. SymbolOf(c)' = SymbolOf(c) /\ SymbolOf(c) \notin mixed /\ SymbolOf(c) \in Symbols
    BY <1>1, <1>2, <1>6, <2>1
  <2>3. openPrice[SymbolOf(c)] \in {0, base[c]}
    BY <2>1, <2>2 DEF BaseInv
  <2>4. QED
    BY <2>1, <2>2, <2>3
<1>7. QED
  BY <1>3, <1>4, <1>5, <1>6 DEF BaseInv

LEMMA BaseStep == TypeOK /\ TypeOK' /\ BaseInv /\ [Next]_vars => BaseInv'
<1> SUFFICES ASSUME TypeOK, TypeOK', BaseInv, [Next]_vars PROVE BaseInv'
  OBVIOUS
<1> EventType /\ CallType /\ RedisType /\ BoardType
  BY TypeGroups
<1>1. \A x \in Calls : pc[x] \in Working => SymbolOf(x) \in Symbols
  BY EventOfCall
<1>2. ASSUME NEW c \in Calls, NEW s \in Symbols, NEW v \in 1..MaxVolume, Analyze(c, s, v)
      PROVE  BaseInv'
  <2>1. /\ pc' = [pc EXCEPT ![c] = "day"] /\ pc[c] = "idle"
        /\ event' = [event EXCEPT ![c] = Len(events) + 1]
        /\ UNCHANGED <<openPrice, gainers, base>>
        /\ mixed' = IF AtWork(s) = {} THEN mixed \ {s} ELSE mixed \cup {s}
    BY <1>2 DEF Analyze, Goto
  <2>2. pc'[c] = "day" /\ SymbolOf(c)' = s
    BY <1>2, <2>1, NewEvent DEF SymbolOf, CallType
  <2>3. \A x \in Calls \ {c} : pc'[x] = pc[x] /\ event'[x] = event[x]
                               /\ (pc[x] \in Working => SymbolOf(x)' = SymbolOf(x))
    BY <2>1, SameEvent DEF CallType
  <2>4. \A x \in Calls \ {c} : pc[x] \in Working /\ SymbolOf(x) \notin mixed' =>
           SymbolOf(x) # s /\ SymbolOf(x) \notin mixed
    BY <2>1 DEF AtWork
  <2>5. \A x, y \in Calls : pc'[x] \in Working /\ pc'[y] \in Working
           /\ SymbolOf(x)' = SymbolOf(y)' /\ SymbolOf(x)' \notin mixed' => x = y
    BY <2>2, <2>3, <2>4 DEF BaseInv
  <2>6. \A x \in Calls : pc'[x] = "setopen" => base'[x] = event'[x]
    BY <2>1, <2>2, <2>3 DEF BaseInv
  <2>7. \A x \in Calls : pc'[x] = "write" /\ SymbolOf(x)' \notin mixed' =>
          openPrice'[SymbolOf(x)'] \in {0, base'[x]}
    BY <2>1, <2>2, <2>3, <2>4 DEF BaseInv, Working
  <2>8. BaselineShared'
    <3> SUFFICES ASSUME NEW y \in Symbols, gainers'[y] # 0, y \notin mixed', AtWork(y)' = {},
                        openPrice'[y] # 0
                 PROVE  gainers'[y] = openPrice'[y]
      BY DEF BaselineShared, Entries
    <3>1. y # s
      BY <2>2 DEF AtWork, Working
    <3>2. y \notin mixed
      BY <2>1, <3>1
    <3>3. AtWork(y) = {}
      BY <2>1, <2>3 DEF AtWork, Working
    <3>4. QED
      BY <2>1, <3>2, <3>3 DEF BaseInv, BaselineShared, Entries
  <2>9. QED
    BY <2>5, <2>6, <2>7, <2>8 DEF BaseInv
\* Steps by which call c goes on, with its event.
<1>3. ASSUME NEW c \in Calls, GetOpen(c) PROVE BaseInv'
  <2> DEFINE s == SymbolOf(c)
  <2>1. pc[c] = "price" /\ pc[c] \in Working /\ s \in Symbols
    BY <1>1, <1>3 DEF GetOpen, Working
  <2>2. /\ UNCHANGED <<openPrice, gainers, events, event, mixed>>
        /\ \/ base' = [base EXCEPT ![c] = openPrice[s]] /\ pc' = [pc EXCEPT ![c] = "write"]
           \/ base' = [base EXCEPT ![c] = event[c]] /\ pc' = [pc EXCEPT ![c] = "setopen"]
    BY <1>3 DEF GetOpen, Goto
  <2> HIDE DEF s
  <2>3. \A x \in Calls \ {c} : pc'[x] = pc[x] /\ base'[x] = base[x]
    BY <2>2 DEF CallType
  <2>4. \/ pc'[c] = "write" /\ base'[c] = openPrice[s]
        \/ pc'[c] = "setopen" /\ base'[c] = event[c]
    BY <2>2 DEF CallType
  <2>5. \A x \in Calls : /\ pc'[x] \in Working <=> pc[x] \in Working
                         /\ SymbolOf(x)' = SymbolOf(x)
    BY <2>1, <2>2, <2>3, <2>4 DEF SymbolOf, Working
  <2>6. BaselineShared'
    BY <2>2, <2>5 DEF BaseInv, BaselineShared, AtWork, Entries
  <2>7. \A x \in Calls : pc'[x] = "write" /\ SymbolOf(x) \notin mixed =>
          openPrice[SymbolOf(x)] \in {0, base'[x]}
    BY <2>3, <2>4 DEF BaseInv, s
  <2>8. \A x \in Calls : pc'[x] = "setopen" => base'[x] = event[x]
    BY <2>3, <2>4 DEF BaseInv
  <2>9. QED
    BY <2>2, <2>5, <2>6, <2>7, <2>8 DEF BaseInv
<1>4. ASSUME NEW c \in Calls, SetOpen(c) PROVE BaseInv'
  <2>1. pc[c] = "setopen" /\ pc[c] \in Working /\ SymbolOf(c) \in Symbols
    BY <1>1, <1>4 DEF SetOpen, Working
  <2>2. /\ UNCHANGED <<gainers, events, event, base, mixed>>
        /\ openPrice' = [openPrice EXCEPT ![SymbolOf(c)] = event[c]]
        /\ pc' = [pc EXCEPT ![c] = "write"]
    BY <1>4 DEF SetOpen, Goto
  <2>3. \A x \in Calls : /\ pc'[x] \in Working <=> pc[x] \in Working
                         /\ SymbolOf(x)' = SymbolOf(x)
                         /\ x # c => pc'[x] = pc[x]
    BY <2>1, <2>2 DEF SymbolOf, CallType, Working
  <2>4. openPrice'[SymbolOf(c)] = base[c] /\ pc'[c] = "write"
        /\ \A s \in Symbols \ {SymbolOf(c)} : openPrice'[s] = openPrice[s]
    BY <2>1, <2>2 DEF BaseInv, RedisType, CallType
  <2>5. BaselineShared'
    <3> SUFFICES ASSUME NEW s \in Symbols, gainers'[s] # 0, s \notin mixed', AtWork(s)' = {},
                        openPrice'[s] # 0
                 PROVE  gainers'[s] = openPrice'[s]
      BY DEF BaselineShared, Entries
    <3>1. AtWork(s) = {} /\ s # SymbolOf(c)
      BY <2>1, <2>3 DEF AtWork
    <3>2. QED
      BY <2>2, <2>4, <3>1 DEF BaseInv, BaselineShared, Entries
  <2>6. ASSUME NEW x \in Calls, pc'[x] = "write", SymbolOf(x) \notin mixed
        PROVE  openPrice'[SymbolOf(x)] \in {0, base[x]}
    <3>1. CASE x = c
      BY <2>4, <3>1
    <3>2. CASE x # c
      <4>1. pc[x] = "write" /\ pc[x] \in Working /\ SymbolOf(x) \in Symbols
        BY <1>1, <2>3, <2>6, <3>2 DEF Working
      <4>2. SymbolOf(x) # SymbolOf(c)
        BY <2>1, <2>6, <3>2, <4>1 DEF BaseInv
      <4>3. QED
        BY <2>4, <2>6, <4>1, <4>2 DEF BaseInv
    <3>3. QED
      BY <3>1, <3>2
  <2>7. \A x \in Calls : pc'[x] = "setopen" => base'[x] = event'[x]
    BY <2>2, <2>3, <2>4 DEF BaseInv
  <2>8. QED
    BY <2>2, <2>3, <2>5, <2>6, <2>7 DEF BaseInv
\* A call that is alone leaves its baseline behind.
<1>5. ASSUME NEW c \in Calls, Write(c) PROVE BaseInv'
  <2>1. pc[c] = "write" /\ pc[c] \in Working /\ SymbolOf(c) \in Symbols
    BY <1>1, <1>5 DEF Write, Working
  <2>2. /\ UNCHANGED <<openPrice, events, mixed>>
        /\ pc' = [pc EXCEPT ![c] = "throttle"]
        /\ event' = [event EXCEPT ![c] = 0] /\ base' = [base EXCEPT ![c] = 0]
    BY <1>5 DEF Write, Goto, Forget
  <2>3. \A s \in Symbols : \/ gainers'[s] = 0
                           \/ s # SymbolOf(c) /\ gainers'[s] = gainers[s]
                           \/ s = SymbolOf(c) /\ gainers'[s] = base[c]
    BY <1>5 DEF Write, Trim, BoardType
  <2>4. /\ pc'[c] = "throttle"
        /\ \A x \in Calls \ {c} : pc'[x] = pc[x] /\ event'[x] = event[x] /\ base'[x] = base[x]
                                  /\ SymbolOf(x)' = SymbolOf(x)
    BY <2>2 DEF SymbolOf, CallType
  <2>5. \A x \in Calls : pc'[x] \in Working => x # c
    BY <2>4 DEF Working
  <2>6. BaselineShared'
    <3> SUFFICES ASSUME NEW s \in Symbols, gainers'[s] # 0, s \notin mixed', AtWork(s)' = {},
                        openPrice'[s] # 0
                 PROVE  gainers'[s] = openPrice'[s]
      BY DEF BaselineShared, Entries
    <3>1. CASE s = SymbolOf(c)
      BY <2>1, <2>2, <2>3, <3>1 DEF BaseInv
    <3>2. CASE s # SymbolOf(c)
      <4>1. AtWork(s) = {}
        BY <2>4, <3>2 DEF AtWork
      <4>2. QED
        BY <2>2, <2>3, <3>2, <4>1 DEF BaseInv, BaselineShared, Entries
    <3>3. QED
      BY <3>1, <3>2
  <2>7. \A x, y \in Calls : pc'[x] \in Working /\ pc'[y] \in Working
           /\ SymbolOf(x)' = SymbolOf(y)' /\ SymbolOf(x)' \notin mixed' => x = y
    BY <2>2, <2>4, <2>5 DEF BaseInv
  <2>8. \A x \in Calls : pc'[x] = "setopen" => base'[x] = event'[x]
    BY <2>4 DEF BaseInv
  <2>9. \A x \in Calls : pc'[x] = "write" /\ SymbolOf(x)' \notin mixed' =>
          openPrice'[SymbolOf(x)'] \in {0, base'[x]}
    BY <2>2, <2>4 DEF BaseInv
  <2>10. QED
    BY <2>6, <2>7, <2>8, <2>9 DEF BaseInv
<1>6. ASSUME NEW c \in Calls,
             DayCheck(c) \/ OpenCheck(c) \/ Scan(c) \/ DeleteFound(c) \/ Throttle(c)
      PROVE  BaseInv'
  <2>1. UNCHANGED <<event, base, mixed>>
    BY <1>6 DEF DayCheck, OpenCheck, Scan, DeleteFound, Throttle
  <2>2. \A s \in Symbols : openPrice'[s] \in {0, openPrice[s]}
                           /\ gainers'[s] \in {0, gainers[s]}
    BY <1>6 DEF DayCheck, OpenCheck, Scan, DeleteFound, Throttle, Nothing, RedisType
  <2>3. \A x \in Calls : /\ pc'[x] \in Working <=> pc[x] \in Working
                         /\ pc'[x] \in Based => pc'[x] = pc[x]
    BY <1>6 DEF DayCheck, OpenCheck, Scan, DeleteFound, Throttle, Goto, CallType,
                Working, Based
  <2>4. QED
    BY <2>1, <2>2, <2>3, BaseFrame
<1>7. ASSUME NEW c \in Calls, WriteFails(c) \/ Abort(c) PROVE BaseInv'
  <2>1. /\ UNCHANGED <<openPrice, gainers>> /\ mixed \subseteq mixed'
        /\ pc[c] \in Working => SymbolOf(c) \in mixed'
    BY <1>7 DEF WriteFails, Abort
  <2>2. pc'[c] \in {"idle", "throttle"} /\ \A x \in Calls \ {c} :
          pc'[x] = pc[x] /\ event'[x] = event[x] /\ base'[x] = base[x]
    BY <1>7 DEF WriteFails, Abort, Goto, Forget, CallType
  <2>3. \A x \in Calls : pc'[x] \in Working \cup Based => x # c
    BY <2>2 DEF Working, Based
  <2>4. QED
    BY <2>1, <2>2, <2>3, BaseFrame
<1>8. CASE Environment
  <2>1. UNCHANGED <<gainers, mixed, pc, event, base>>
        /\ \A s \in Symbols : openPrice'[s] \in {0, openPrice[s]}
    BY <1>8 DEF Environment, Tick, ThrottleExpires, OpenExpires, RedisType
  <2>2. QED
    BY <2>1, BaseFrame
<1>9. CASE UNCHANGED vars
  BY <1>9, BaseFrame DEF vars
<1>10. QED
  BY <1>2, <1>3, <1>4, <1>5, <1>6, <1>7, <1>8, <1>9 DEF Next, Call

\* Whenever no call of a symbol is at work, its gain is measured from the open
\* price that is stored for it, unless its last calls overlapped or the last one
\* failed: resets, expiring prices, and the calls of other symbols do no harm
\* (lines 160-170, 371-381).
THEOREM GainsFromStoredPrice == Spec => []BaselineShared
<1>1. Init => TypeOK /\ BaseInv
  <2> SUFFICES ASSUME Init PROVE BaseInv
    BY InitType
  <2>1. Entries(gainers) = {}
    BY NothingIsBoard DEF Init
  <2>2. QED
    BY <2>1 DEF Init, BaseInv, BaselineShared, Working
<1>2. (TypeOK /\ BaseInv) /\ [Next]_vars => (TypeOK /\ BaseInv)'
  BY NextType, BaseStep
<1>3. BaseInv => BaselineShared
  BY DEF BaseInv
<1>4. QED
  BY <1>1, <1>2, <1>3, PTL DEF Spec

----------------------------------------------------------------------------
(***************************************************************************)
(* The trade statistics, the other analyzer whose workers share their      *)
(* state through Redis: types, then what an elected worker knows.          *)
(***************************************************************************)
HIDE BoundsAssumption DEF redisVars, callVars, boardHist, histVars

LEMMA InitTrades == TradesInit => TradesTypeOK
<1> SUFFICES ASSUME TradesInit PROVE TradesTypeOK
  OBVIOUS
<1>1. 0 \in 0..MaxTrades /\ 0 \in 0..MaxAborts
  BY TradesAssumption
<1>2. stats \in [Workers -> [Traded -> 0..MaxTrades]]
  BY <1>1 DEF TradesInit, NoTrades
<1>3. \A s \in Traded : list[s] <= stored[s]
  BY DEF TradesInit, NoTrades
<1>4. QED
  BY <1>1, <1>2, <1>3 DEF TradesInit, TradesTypeOK, NoTrades

LEMMA NextTrades ==
    ASSUME TradesTypeOK, [TradesNext]_tradesVars
    PROVE  TradesTypeOK'
<1> USE DEF TradesTypeOK, redis, worker, cache, past
<1>1. MaxTrades \in Nat /\ MaxAborts \in Nat /\ 0 \in 0..MaxTrades
  BY TradesAssumption
<1>2. NoTrades \in [Traded -> 0..MaxTrades]
  BY <1>1 DEF NoTrades
<1>3. ASSUME NEW w \in Workers, Store(w) PROVE TradesTypeOK'
  <2>1. CASE UNCHANGED redis
    BY <1>3, <2>1 DEF Store
  <2>2. ASSUME NEW s \in Traded, stored[s] < MaxTrades,
               stored' = [stored EXCEPT ![s] = @ + 1], list' = [list EXCEPT ![s] = stored[s] + 1]
        PROVE  TradesTypeOK'
    <3>1. stored[s] + 1 \in 0..MaxTrades
      BY <1>1, <2>2
    <3>2. stored' \in [Traded -> 0..MaxTrades] /\ list' \in [Traded -> 0..MaxTrades]
      BY <2>2, <3>1
    <3>3. \A r \in Traded : list'[r] <= stored'[r]
      BY <1>1, <2>2, <3>1
    <3>4. QED
      BY <1>3, <3>2, <3>3 DEF Store
  <2>3. QED
    BY <1>3, <2>1, <2>2 DEF Store
<1>4. ASSUME NEW w \in Workers, TakeLease(w) PROVE TradesTypeOK'
  <2>1. Active \subseteq Traded
    BY DEF Active
  <2>2. /\ stage' \in [Workers -> {"idle", "throttle", "scan", "read", "table", "widgets"}]
        /\ seen' \in [Workers -> SUBSET Traded]
    BY <1>4, <2>1 DEF TakeLease
  <2>3. QED
    BY <1>4, <2>2 DEF TakeLease
<1>5. ASSUME NEW w \in Workers, ScanLists(w) PROVE TradesTypeOK'
  BY <1>5 DEF ScanLists, Active
<1>6. ASSUME NEW w \in Workers, NEW s \in Traded, Read(w, s) PROVE TradesTypeOK'
  <2>1. stats' \in [Workers -> [Traded -> 0..MaxTrades]]
    BY <1>6 DEF Read
  <2>2. QED
    BY <1>6, <2>1 DEF Read
<1>7. ASSUME NEW w \in Workers, WriteTable(w) PROVE TradesTypeOK'
  BY <1>7 DEF WriteTable, Known
<1>8. ASSUME NEW w \in Workers, NEW s \in Traded, WriteWidget(w, s) PROVE TradesTypeOK'
  BY <1>2, <1>8 DEF WriteWidget, EndOf
<1>9. ASSUME NEW w \in Workers, GiveUp(w) PROVE TradesTypeOK'
  <2>1. aborts' \in 0..MaxAborts
    BY <1>1, <1>9 DEF GiveUp
  <2>2. QED
    BY <1>2, <1>9, <2>1 DEF GiveUp, EndOf
<1>10. CASE LeaseExpires
  BY <1>10 DEF LeaseExpires
<1>11. CASE TableExpires
  BY <1>2, <1>11 DEF TableExpires
<1>12. CASE UNCHANGED tradesVars
  BY <1>12 DEF tradesVars
<1>13. ASSUME NEW s \in Traded, ListExpires(s) PROVE TradesTypeOK'
  <2>1. list' \in [Traded -> 0..MaxTrades]
    BY <1>1, <1>13 DEF ListExpires
  <2>2. \A r \in Traded : list'[r] <= stored[r]
    BY <1>1, <1>13 DEF ListExpires
  <2>3. QED
    BY <1>13, <2>1, <2>2 DEF ListExpires
<1>14. ASSUME NEW s \in Traded, WidgetExpires(s) PROVE TradesTypeOK'
  BY <1>1, <1>14 DEF WidgetExpires
<1>15. QED
  BY <1>3, <1>4, <1>5, <1>6, <1>7, <1>8, <1>9, <1>10, <1>11, <1>12, <1>13, <1>14
  DEF TradesNext, Work

\* Every variable of the trade statistics keeps its type, and a list is never
\* ahead of what was stored, for any workers, symbols and bounds.
THEOREM TradesTypeCorrect == TradesSpec => []TradesTypeOK
BY InitTrades, NextTrades, PTL DEF TradesSpec

(***************************************************************************)
(* Cached statistics.  Until a worker outlasts the throttle's key, one     *)
(* worker at most is elected, and none while the key is gone.  So what     *)
(* the elected worker has read from the lists is not older than anything   *)
(* cached: that was read before its election, and a list only grows until  *)
(* it is gone.  While it caches single symbols the table is its own.       *)
(***************************************************************************)
Newest ==
    \A s \in Traded : /\ list[s] \in {0, stored[s]}
                      /\ table[s] <= stored[s] /\ widget[s] <= stored[s]
Computed ==
    \A w \in Workers :
        /\ stage[w] \in {"idle", "throttle", "scan"} => stats[w] = NoTrades
        /\ \A s \in Traded : stats[w][s] <= stored[s]
OneElected ==
    /\ Elected # {} => lease
    /\ \A v, w \in Elected : v = w
NoOlder ==
    \A w \in Workers : \A s \in Traded :
        stats[w][s] # 0 => /\ stage[w] \in {"read", "table"} => table[s] <= stats[w][s]
                           /\ widget[s] <= stats[w][s]
OwnTable ==
    \A w \in Workers : stage[w] = "widgets" =>
        /\ table = stats[w] \/ (table = NoTrades /\ chosen = {})
        /\ \A s \in todo[w] : stats[w][s] # 0
Alone == ~outlasted => OneElected /\ NoOlder /\ OwnTable
Statistics == Newest /\ Computed /\ Alone /\ WidgetsAgree

LEMMA InitStatistics == TradesInit => Statistics
BY DEF TradesInit, NoTrades, Elected, WidgetsAgree, Statistics, Newest, Computed, Alone,
       OneElected, NoOlder, OwnTable

Numeral ==
    /\ \A s \in Traded : /\ stored[s] \in Nat /\ list[s] \in Nat
                         /\ table[s] \in Nat /\ widget[s] \in Nat
    /\ \A w \in Workers : \A s \in Traded : stats[w][s] \in Nat

LEMMA NumeralTypes ==
    ASSUME TradesTypeOK
    PROVE  Numeral
BY TradesAssumption DEF TradesTypeOK, Numeral

LEMMA NextStatistics ==
    ASSUME TradesTypeOK, Statistics, [TradesNext]_tradesVars
    PROVE  Statistics'
<1> USE DEF redis, worker, cache, past
<1>1. Numeral
  BY NumeralTypes
<1>2. stage \in [Workers -> {"idle", "throttle", "scan", "read", "table", "widgets"}]
        /\ stats \in [Workers -> [Traded -> 0..MaxTrades]] /\ todo \in [Workers -> SUBSET Traded]
        /\ chosen \subseteq Traded
  BY DEF TradesTypeOK
\* A step that computes and caches nothing.
<1>3. ASSUME UNCHANGED <<stats, table, chosen, widget>>,
             cutShort => cutShort', outlasted => outlasted',
             \A w \in Workers : \/ stage'[w] = stage[w] /\ todo'[w] = todo[w]
                                \/ /\ stage'[w] \in {"idle", "throttle", "scan", "read"}
                                   /\ stage[w] \in {"idle", "throttle", "scan"},
             Newest', \A s \in Traded : stored'[s] \in Nat /\ stored[s] <= stored'[s],
             ~outlasted /\ OneElected /\ ~outlasted' => OneElected'
      PROVE  Statistics'
  <2>1. Computed'
    BY <1>1, <1>3 DEF Statistics, Computed, Numeral, NoTrades
  <2>2. ~outlasted' => NoOlder'
    <3>1. ASSUME ~outlasted', NEW w \in Workers, NEW s \in Traded, stats[w][s] # 0
          PROVE  /\ stage'[w] \in {"read", "table"} => table[s] <= stats[w][s]
                 /\ widget[s] <= stats[w][s]
      <4>1. stage[w] \notin {"idle", "throttle", "scan"}
        BY <3>1 DEF Statistics, Computed, NoTrades
      <4>2. QED
        BY <1>3, <3>1, <4>1 DEF Statistics, Alone, NoOlder
    <3>2. QED
      BY <1>3, <3>1 DEF NoOlder
  <2>3. ~outlasted' => OwnTable'
    BY <1>3 DEF Statistics, Alone, OwnTable
  <2>4. WidgetsAgree'
    BY <1>3 DEF Statistics, WidgetsAgree
  <2>5. QED
    BY <1>3, <2>1, <2>2, <2>3, <2>4 DEF Statistics, Alone
<1>4. ASSUME NEW w \in Workers, Store(w) PROVE Statistics'
  <2>1. \A v \in Workers : \/ stage'[v] = stage[v]
                           \/ v = w /\ stage'[v] = "throttle" /\ stage[v] = "idle"
    BY <1>2, <1>4 DEF Store
  <2>2. Newest' /\ \A s \in Traded : stored'[s] \in Nat /\ stored[s] <= stored'[s]
    <3>1. CASE UNCHANGED redis
      BY <1>1, <1>4, <3>1 DEF Store, Statistics, Newest, Numeral
    <3>2. ASSUME NEW s \in Traded, stored' = [stored EXCEPT ![s] = @ + 1],
                 list' = [list EXCEPT ![s] = stored[s] + 1]
          PROVE  \A r \in Traded : /\ stored'[r] \in Nat /\ stored[r] <= stored'[r]
                                   /\ list'[r] \in {0, stored'[r]}
      BY <1>1, <3>2 DEF TradesTypeOK, Numeral, Statistics, Newest
    <3>3. CASE UNCHANGED <<table, widget>> /\ \A r \in Traded :
                 stored'[r] \in Nat /\ stored[r] <= stored'[r] /\ list'[r] \in {0, stored'[r]}
      BY <1>1, <3>3 DEF Statistics, Newest, Numeral
    <3>4. QED
      BY <1>4, <3>1, <3>2, <3>3 DEF Store
  <2>3. OneElected => OneElected'
    BY <1>4, <2>1 DEF Store, OneElected, Elected
  <2>4. QED
    BY <1>3, <1>4, <2>1, <2>2, <2>3 DEF Store
<1>5. ASSUME NEW w \in Workers, TakeLease(w) PROVE Statistics'
  <2>1. \A v \in Workers : \/ stage'[v] = stage[v]
                           \/ v = w /\ stage[v] = "throttle" /\ stage'[v] \in {"idle", "scan"}
    BY <1>2, <1>5 DEF TakeLease
  <2>2. OneElected => OneElected'
    <3>1. CASE lease
      <4>1. Elected' \subseteq Elected /\ lease'
        BY <1>2, <1>5, <3>1 DEF TakeLease, Elected
      <4>2. QED
        BY <3>1, <4>1 DEF OneElected
    <3>2. CASE ~lease /\ OneElected
      <4>1. \A v \in Workers : v \in Elected' => v = w
        BY <2>1, <3>2 DEF OneElected, Elected
      <4>2. lease'
        BY <1>5 DEF TakeLease
      <4>3. QED
        BY <4>1, <4>2 DEF OneElected, Elected
    <3>3. QED
      BY <3>1, <3>2
  <2>3. Newest'
    BY <1>5 DEF TakeLease, Statistics, Newest
  <2>4. QED
    BY <1>1, <1>3, <1>5, <2>1, <2>2, <2>3 DEF TakeLease, Numeral
<1>6. ASSUME NEW w \in Workers, ScanLists(w) PROVE Statistics'
  <2>1. \A v \in Workers : \/ stage'[v] = stage[v] /\ todo'[v] = todo[v]
                           \/ v = w /\ stage[v] = "scan" /\ stage'[v] \in {"idle", "read"}
    BY <1>2, <1>6 DEF ScanLists
  <2>2. Newest' /\ lease' = lease /\ Elected' \subseteq Elected
    BY <1>6, <2>1 DEF ScanLists, Statistics, Newest, Elected
  <2>3. OneElected => OneElected'
    BY <2>2 DEF OneElected
  <2>4. QED
    BY <1>1, <1>3, <1>6, <2>1, <2>2, <2>3 DEF ScanLists, Numeral
<1>7. CASE LeaseExpires
  <2>1. OneElected /\ ~outlasted' => OneElected'
    BY <1>7 DEF LeaseExpires, OneElected, Elected
  <2>2. Newest'
    BY <1>7 DEF LeaseExpires, Statistics, Newest
  <2>3. outlasted => outlasted'
    BY <1>7 DEF LeaseExpires
  <2>4. UNCHANGED <<stored, stage, todo, stats, table, chosen, widget, cutShort>>
    BY <1>7 DEF LeaseExpires
  <2>5. QED
    BY <1>1, <1>3, <2>1, <2>2, <2>3, <2>4 DEF Numeral
<1>8. ASSUME NEW s \in Traded, ListExpires(s) PROVE Statistics'
  <2>1. Newest'
    BY <1>8 DEF ListExpires, TradesTypeOK, Statistics, Newest
  <2>2. OneElected => OneElected'
    BY <1>8 DEF ListExpires, OneElected, Elected
  <2>3. QED
    BY <1>1, <1>3, <1>8, <2>1, <2>2 DEF ListExpires, Numeral
<1>9. CASE UNCHANGED tradesVars
  BY <1>9 DEF tradesVars, Statistics, Newest, Computed, Alone, OneElected, NoOlder, OwnTable,
              Elected, WidgetsAgree
\* What is read is as new as anything stored, or gone.
<1>10. ASSUME NEW w \in Workers, NEW s \in Traded, Read(w, s) PROVE Statistics'
  <2>1. /\ stage[w] = "read" /\ UNCHANGED <<stored, list, lease, table, chosen, widget, outlasted, cutShort>>
        /\ stats' = [stats EXCEPT ![w][s] = list[s]]
        /\ todo' = [todo EXCEPT ![w] = @ \ {s}]
    BY <1>10 DEF Read
  <2>2. /\ stage'[w] \in {"idle", "read", "table"} /\ (stage'[w] = "idle" => stats'[w] = NoTrades)
        /\ \A v \in Workers \ {w} : stage'[v] = stage[v] /\ todo'[v] = todo[v] /\ stats'[v] = stats[v]
    BY <1>2, <1>10 DEF Read
  <2>3. stats'[w][s] = list[s] /\ \A r \in Traded \ {s} : stats'[w][r] = stats[w][r]
    BY <1>2, <2>1
  <2>4. Newest'
    BY <2>1 DEF Statistics, Newest
  <2>5. Computed'
    <3>1. \A r \in Traded : stats'[w][r] <= stored[r]
      BY <1>1, <2>3 DEF Statistics, Computed, Newest, Numeral
    <3>2. QED
      BY <2>1, <2>2, <3>1 DEF Statistics, Computed, NoTrades
  <2>6. ASSUME ~outlasted PROVE OneElected' /\ NoOlder' /\ OwnTable'
    <3>1. OneElected /\ NoOlder /\ OwnTable
      BY <2>6 DEF Statistics, Alone
    <3>2. Elected' \subseteq Elected
      BY <2>1, <2>2 DEF Elected
    <3>3. \A r \in Traded : stats'[w][r] # 0 => table[r] <= stats'[w][r] /\ widget[r] <= stats'[w][r]
      BY <2>1, <2>3, <3>1 DEF Statistics, Newest, NoOlder
    <3>4. QED
      BY <2>1, <2>2, <3>1, <3>2, <3>3 DEF OneElected, NoOlder, OwnTable
  <2>7. WidgetsAgree'
    BY <2>1, <2>2 DEF Statistics, WidgetsAgree
  <2>8. QED
    BY <2>1, <2>4, <2>5, <2>6, <2>7 DEF Statistics, Alone
<1>11. ASSUME NEW w \in Workers, WriteTable(w) PROVE Statistics'
  <2>1. /\ stage[w] = "table" /\ table' = stats[w] /\ UNCHANGED <<stored, list, lease, stats, widget, outlasted, cutShort>>
        /\ todo' = [todo EXCEPT ![w] = chosen'] /\ chosen' \subseteq Known(stats[w])
        /\ stage' = [stage EXCEPT ![w] = "widgets"]
    BY <1>2, <1>11 DEF WriteTable
  <2>2. /\ stage'[w] = "widgets" /\ todo'[w] = chosen' /\ \A s \in chosen' : s \in Traded /\ stats[w][s] # 0
        /\ \A v \in Workers \ {w} : stage'[v] = stage[v] /\ todo'[v] = todo[v]
    BY <1>2, <2>1 DEF Known
  <2>3. Newest' /\ Computed'
    BY <2>1, <2>2 DEF Statistics, Newest, Computed, NoTrades
  <2>4. ASSUME ~outlasted PROVE OneElected' /\ NoOlder' /\ OwnTable'
    <3>1. OneElected /\ NoOlder /\ OwnTable
      BY <2>4 DEF Statistics, Alone
    <3>2. Elected' \subseteq Elected
      BY <2>1, <2>2 DEF Elected
    <3>3. \A v \in Workers \ {w} : stage[v] \notin {"read", "table", "widgets"}
      BY <2>1, <3>1 DEF OneElected, Elected
    <3>4. QED
      BY <2>1, <2>2, <3>1, <3>2, <3>3 DEF OneElected, NoOlder, OwnTable
  <2>5. WidgetsAgree'
    <3>1. ASSUME ~outlasted, NEW s \in Traded, table'[s] # 0 PROVE widget'[s] <= table'[s]
      BY <2>1, <3>1 DEF Statistics, Alone, NoOlder
    <3>2. QED
      BY <2>1, <2>2, <3>1 DEF WidgetsAgree
  <2>6. QED
    BY <2>1, <2>3, <2>4, <2>5 DEF Statistics, Alone
<1>12. ASSUME NEW w \in Workers, NEW s \in Traded, WriteWidget(w, s) PROVE Statistics'
  <2>1. /\ stage[w] = "widgets" /\ s \in todo[w]
        /\ UNCHANGED <<stored, list, lease, table, chosen, outlasted, cutShort>>
        /\ widget' = [widget EXCEPT ![s] = stats[w][s]]
        /\ todo' = [todo EXCEPT ![w] = @ \ {s}]
    BY <1>12 DEF WriteWidget
  <2>2. /\ \/ stage'[w] = "widgets" /\ stats'[w] = stats[w]
           \/ stage'[w] = "idle" /\ stats'[w] = NoTrades /\ todo'[w] = {}
        /\ \A v \in Workers \ {w} : stage'[v] = stage[v] /\ todo'[v] = todo[v] /\ stats'[v] = stats[v]
        /\ todo'[w] = todo[w] \ {s}
    BY <1>2, <1>12 DEF WriteWidget, EndOf
  <2>3. widget'[s] = stats[w][s] /\ \A r \in Traded \ {s} : widget'[r] = widget[r]
    BY <2>1 DEF TradesTypeOK
  <2>4. Newest'
    BY <2>1, <2>3 DEF Statistics, Newest, Computed
  <2>5. Computed'
    <3>1. \A r \in Traded : NoTrades[r] <= stored[r]
      BY <1>1 DEF Numeral, NoTrades
    <3>2. QED
      BY <2>1, <2>2, <3>1 DEF Statistics, Computed
  <2>6. ASSUME ~outlasted PROVE OneElected' /\ NoOlder' /\ OwnTable'
    <3>1. OneElected /\ NoOlder /\ OwnTable
      BY <2>6 DEF Statistics, Alone
    <3>2. Elected' \subseteq Elected
      BY <2>1, <2>2 DEF Elected
    <3>3. \A v \in Workers \ {w} : stage[v] \notin {"scan", "read", "table", "widgets"}
      BY <2>1, <3>1 DEF OneElected, Elected
    <3>4. \A v \in Workers \ {w} : stats[v] = NoTrades
      BY <1>2, <3>3 DEF Statistics, Computed
    <3>5. NoOlder'
      <4>1. \A v \in Workers \ {w} : \A r \in Traded : stats'[v][r] = 0
        BY <2>2, <3>4 DEF NoTrades
      <4>2. \A r \in Traded : stats'[w][r] # 0 => widget'[r] <= stats'[w][r] /\ stats'[w][r] = stats[w][r]
        BY <1>1, <2>2, <2>3, <3>1 DEF NoOlder, Numeral, NoTrades
      <4>3. QED
        BY <2>2, <4>1, <4>2 DEF NoOlder
    <3>6. OwnTable'
      BY <2>1, <2>2, <3>1, <3>3 DEF OwnTable
    <3>7. QED
      BY <2>1, <3>1, <3>2, <3>5, <3>6 DEF OneElected
  <2>7. WidgetsAgree'
    <3>1. ASSUME ~outlasted
          PROVE  s \in Traded /\ (table[s] = 0 \/ table[s] = stats[w][s])
                   /\ (s \in chosen => table[s] = stats[w][s])
      BY <2>1, <3>1 DEF Statistics, Alone, OwnTable, NoTrades
    <3>2. ASSUME ~outlasted, NEW r \in Traded, table[r] # 0 PROVE widget'[r] <= table[r]
      <4>1. CASE r = s
        BY <1>1, <2>3, <3>1, <3>2, <4>1 DEF Numeral
      <4>2. CASE r # s
        BY <2>3, <3>2, <4>2 DEF Statistics, WidgetsAgree
      <4>3. QED
        BY <4>1, <4>2
    <3>3. ASSUME ~outlasted, ~cutShort, NEW r \in chosen, r \in Traded
          PROVE  \/ widget'[r] \in {0, table[r]}
                 \/ \E v \in Workers : stage'[v] = "widgets" /\ r \in todo'[v]
      <4>1. CASE r = s
        BY <2>3, <3>1, <3>3, <4>1
      <4>2. CASE r # s /\ widget[r] \in {0, table[r]}
        BY <2>3, <3>3, <4>2
      <4>3. CASE r # s /\ \E v \in Workers : stage[v] = "widgets" /\ r \in todo[v]
        BY <2>2, <4>3
      <4>4. QED
        BY <3>3, <4>1, <4>2, <4>3 DEF Statistics, WidgetsAgree
    <3>4. QED
      BY <2>1, <3>2, <3>3 DEF WidgetsAgree
  <2>8. QED
    BY <2>1, <2>4, <2>5, <2>6, <2>7 DEF Statistics, Alone
<1>13. ASSUME NEW w \in Workers, GiveUp(w) PROVE Statistics'
  <2>1. /\ UNCHANGED <<stored, list, lease, table, chosen, widget, outlasted>>
        /\ cutShort' = (cutShort \/ stage[w] = "widgets")
        /\ stage'[w] = "idle" /\ stats'[w] = NoTrades
        /\ \A v \in Workers \ {w} : stage'[v] = stage[v] /\ todo'[v] = todo[v] /\ stats'[v] = stats[v]
    BY <1>2, <1>13 DEF GiveUp, EndOf
  <2>2. Newest'
    BY <2>1 DEF Statistics, Newest
  <2>3. Computed'
    <3>1. \A r \in Traded : NoTrades[r] <= stored[r]
      BY <1>1 DEF Numeral, NoTrades
    <3>2. QED
      BY <2>1, <3>1 DEF Statistics, Computed
  <2>4. ASSUME ~outlasted PROVE OneElected' /\ NoOlder' /\ OwnTable'
    <3>1. OneElected /\ NoOlder /\ OwnTable
      BY <2>4 DEF Statistics, Alone
    <3>2. Elected' \subseteq Elected
      BY <2>1 DEF Elected
    <3>3. \A r \in Traded : stats'[w][r] = 0
      BY <2>1 DEF NoTrades
    <3>4. QED
      BY <2>1, <3>1, <3>2, <3>3 DEF OneElected, NoOlder, OwnTable
  <2>5. WidgetsAgree'
    BY <2>1 DEF Statistics, WidgetsAgree
  <2>6. QED
    BY <2>1, <2>2, <2>3, <2>4, <2>5 DEF Statistics, Alone
<1>14. CASE TableExpires \/ \E s \in Traded : WidgetExpires(s)
  <2>1. UNCHANGED <<stored, list, lease, stage, stats, todo, outlasted, cutShort>>
    BY <1>14 DEF TableExpires, WidgetExpires
  <2>2. \/ /\ chosen' = {} /\ table' = NoTrades /\ UNCHANGED widget
           /\ \A r \in Traded : table'[r] = 0
        \/ UNCHANGED <<table, chosen>> /\ \A r \in Traded : widget'[r] \in {0, widget[r]}
    BY <1>14 DEF TableExpires, WidgetExpires, NoTrades, TradesTypeOK
  <2>3. Newest'
    BY <1>1, <2>1, <2>2 DEF Statistics, Newest, Numeral
  <2>4. Computed'
    BY <2>1 DEF Statistics, Computed
  <2>5. ~outlasted => NoOlder'
    BY <1>1, <2>1, <2>2 DEF Statistics, Alone, NoOlder, Numeral
  <2>6. ~outlasted => OneElected' /\ OwnTable'
    <3>1. OneElected => OneElected'
      BY <2>1 DEF OneElected, Elected
    <3>2. OwnTable => OwnTable'
      BY <2>1, <2>2 DEF OwnTable, NoTrades
    <3>3. QED
      BY <3>1, <3>2 DEF Statistics, Alone
  <2>7. WidgetsAgree'
    <3>1. CASE chosen' = {} /\ \A r \in Traded : table'[r] = 0
      BY <3>1 DEF WidgetsAgree
    <3>2. CASE UNCHANGED <<table, chosen>> /\ \A r \in Traded : widget'[r] \in {0, widget[r]}
      <4>1. \A r \in Traded : table[r] # 0 /\ widget[r] <= table[r] => widget'[r] <= table[r]
        BY <1>1, <3>2 DEF Numeral
      <4>2. QED
        BY <1>2, <2>1, <3>2, <4>1 DEF Statistics, WidgetsAgree
    <3>3. QED
      BY <2>2, <3>1, <3>2
  <2>8. QED
    BY <2>1, <2>3, <2>4, <2>5, <2>6, <2>7 DEF Statistics, Alone
<1>15. QED
  BY <1>4, <1>5, <1>6, <1>7, <1>8, <1>9, <1>10, <1>11, <1>12, <1>13, <1>14
  DEF TradesNext, Work

LEMMA AlwaysStatistics == TradesSpec => [](TradesTypeOK /\ Statistics)
BY InitTrades, NextTrades, InitStatistics, NextStatistics, PTL DEF TradesSpec

\* Until a worker outlasts the throttle's key, what is cached for a symbol on its
\* own is never newer than what the table says of it; and for the symbols chosen
\* with the table it is the same, unless a worker is about to cache it or one was
\* cut short; for any number of workers and symbols (lines 171-196).
THEOREM SinglesMatchTable == TradesSpec => []WidgetsAgree
BY AlwaysStatistics, PTL DEF Statistics

\* Cached statistics are never replaced by those of an older list, whichever
\* process computes them, until a worker outlasts the throttle's key.
THEOREM StatisticsAdvance == TradesSpec => StatsDontGoBack
<1> DEFINE Advance ==
             \A s \in Traded :
                ~outlasted => /\ widget'[s] = 0 \/ widget'[s] >= widget[s]
                              /\ table'[s] = 0 \/ table'[s] >= table[s]
<1>1. TradesTypeOK /\ Statistics /\ [TradesNext]_tradesVars => [Advance]_tradesVars
  <2> SUFFICES ASSUME TradesTypeOK, Statistics, [TradesNext]_tradesVars, ~outlasted, NEW s \in Traded
               PROVE  /\ widget'[s] = 0 \/ widget'[s] >= widget[s]
                      /\ table'[s] = 0 \/ table'[s] >= table[s]
    OBVIOUS
  <2>1. Numeral
    BY NumeralTypes
  <2>2. CASE UNCHANGED <<table, widget>>
    BY <2>1, <2>2 DEF Numeral
  <2>3. ASSUME NEW w \in Workers, WriteTable(w) PROVE table'[s] = 0 \/ table'[s] >= table[s]
    BY <2>1, <2>3 DEF WriteTable, Statistics, Alone, NoOlder, Numeral
  <2>4. ASSUME NEW w \in Workers, NEW r \in Traded, WriteWidget(w, r)
        PROVE  widget'[s] = 0 \/ widget'[s] >= widget[s]
    BY <2>1, <2>4 DEF WriteWidget, TradesTypeOK, Statistics, Alone, NoOlder, Numeral
  <2>5. CASE \E w \in Workers : WriteTable(w) \/ \E r \in Traded : WriteWidget(w, r)
    BY <2>1, <2>3, <2>4, <2>5 DEF WriteTable, WriteWidget, cache, Numeral
  <2>6. CASE TableExpires \/ \E r \in Traded : WidgetExpires(r)
    BY <2>1, <2>6 DEF TableExpires, WidgetExpires, NoTrades, TradesTypeOK, Numeral
  <2>7. CASE \/ \E w \in Workers : \/ Store(w) \/ TakeLease(w) \/ ScanLists(w) \/ GiveUp(w)
                                  \/ \E r \in Traded : Read(w, r)
             \/ LeaseExpires \/ (\E r \in Traded : ListExpires(r)) \/ UNCHANGED tradesVars
    BY <2>2, <2>7
    DEF Store, TakeLease, ScanLists, GiveUp, Read, LeaseExpires, ListExpires,
        tradesVars, cache
  <2>8. QED
    BY <2>5, <2>6, <2>7 DEF TradesNext, Work
<1>2. QED
  BY <1>1, AlwaysStatistics, PTL DEF TradesSpec, StatsDontGoBack
=============================================================================
