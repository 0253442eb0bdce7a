---------------------------- MODULE Leaderboard ----------------------------
(***************************************************************************)
(* The LeaderboardAnalyzer (analyzers/leaderboard_analyzer.py) of all      *)
(* replicas of the processor: concurrent analyze_data calls that share     *)
(* sorted sets, open prices and reset markers in Redis.  A step is one     *)
(* Redis command, script or transaction, or the awaits before it.          *)
(*                                                                         *)
(* An event stands for its analysis: its data are whatever RabbitMQ has    *)
(* delivered, late or out of order as may be, for the code never looks at  *)
(* an event's own time.  A symbol's baseline stands for the event whose    *)
(* price it is.  "gappers" is written and cleared with "volume" and left   *)
(* out, like the hash of a symbol's metadata; the gainers' scores are      *)
(* abstract.                                                               *)
(***************************************************************************)
EXTENDS Integers, FiniteSets, Sequences

CONSTANTS
    Calls,          \* the analyze_data calls that can be under way at once
    Symbols,
    Limit,          \* entries a leaderboard keeps, 500 in the code
    MaxTime,        \* bound: instants, three to a day
    MaxVolume,      \* bound: volumes an event may bring
    MaxEvents,      \* bound: events handled
    MaxFailures     \* bound: commands that fail and replicas that crash

ASSUME BoundsAssumption ==
    /\ Limit \in Nat /\ MaxTime \in Nat /\ MaxVolume \in Nat
    /\ MaxEvents \in Nat /\ MaxFailures \in Nat

\* Before 9:30 AM, the minute from 9:30 on, and after it.  The day's key is
\* the 4 AM of the calendar date.
DayOf(t) == t \div 3 + 1
InWindow(t) == t % 3 = 1
Days == 1..DayOf(MaxTime)
Numbers == 0..MaxEvents

VARIABLES
    now,
    dayKey,         \* MARKET_DAY_KEY, 0 when absent
    claimed,        \* the dates of MARKET_OPEN_RESET_KEY that are set
    openPrice,      \* per symbol: the event that gave the open price, or 0
    volume,         \* top_volume: the event behind a symbol's score, or 0
    gainers,        \* top_gainers: the baseline behind a symbol's score, or 0
    throttled,      \* PUBLISH_THROTTLE_KEY is set
    events,         \* the events so far: symbol, instant at which the analysis
                    \* began, accumulated volume
    pc, event,      \* per call: its next step and its event
    day,            \* per call: the day it read from the clock
    base,           \* per call: the baseline it uses
    found,          \* per call: the open prices its scan has returned
    overtaken,      \* history: events under way at the last day reset that
                    \* belong to another day
    straddled,      \* history, per day: symbols of the calls under way at its
                    \* open reset with an event or a baseline from before it
    scored,         \* history, per symbol: the event written last since the
                    \* leaderboards were cleared, or 0
    lowered,        \* history: since then, an entry was given a lower score
    mixed,          \* history: symbols of which the last calls overlapped, or
                    \* the last one failed
    lost,           \* history: days whose open reset was claimed by a call
                    \* that failed before it had carried it out
    resets,         \* history: open resets that were carried out, per day
    failures

redisVars == <<dayKey, claimed, openPrice, volume, gainers, throttled>>
callVars  == <<pc, event, day, base, found>>
boardHist == <<overtaken, scored, lowered>>
histVars  == <<boardHist, straddled, mixed, lost, resets>>
vars == <<now, redisVars, events, callVars, histVars, failures>>

Working == {"day", "window", "scan", "delete", "price", "setopen", "write"}
Steps == Working \cup {"idle", "throttle"}
Entries(board) == {s \in Symbols : board[s] # 0}

TypeOK ==
    /\ now \in 0..MaxTime
    /\ dayKey \in {0} \cup Days /\ claimed \subseteq Days
    /\ openPrice \in [Symbols -> Numbers]
    /\ volume \in [Symbols -> Numbers] /\ Cardinality(Entries(volume)) <= Limit
    /\ gainers \in [Symbols -> Numbers] /\ Cardinality(Entries(gainers)) <= Limit
    /\ throttled \in BOOLEAN
    /\ events \in Seq([symbol : Symbols, at : 0..MaxTime, volume : 1..MaxVolume])
    /\ Len(events) <= MaxEvents
    /\ pc \in [Calls -> Steps] /\ event \in [Calls -> Numbers]
    /\ \A c \in Calls : pc[c] \in Working => event[c] \in 1..Len(events)
    /\ day \in [Calls -> Days] /\ base \in [Calls -> Numbers]
    /\ found \in [Calls -> SUBSET Symbols]
    /\ overtaken \subseteq Numbers /\ straddled \in [Days -> SUBSET Symbols]
    /\ scored \in [Symbols -> Numbers] /\ lowered \in BOOLEAN
    /\ mixed \subseteq Symbols /\ lost \subseteq Days /\ resets \in [Days -> Nat]
    /\ failures \in 0..MaxFailures

Nothing == [s \in Symbols |-> 0]

Init ==
    /\ now = 0
    /\ dayKey = 0 /\ claimed = {} /\ openPrice = Nothing /\ volume = Nothing
    /\ gainers = Nothing /\ throttled = FALSE
    /\ events = <<>>
    /\ pc = [c \in Calls |-> "idle"] /\ event = [c \in Calls |-> 0]
    /\ day = [c \in Calls |-> 1] /\ base = [c \in Calls |-> 0]
    /\ found = [c \in Calls |-> {}]
    /\ overtaken = {} /\ straddled = [d \in Days |-> {}]
    /\ scored = Nothing /\ lowered = FALSE
    /\ mixed = {} /\ lost = {} /\ resets = [d \in Days |-> 0]
    /\ failures = 0

Goto(c, step) == pc' = [pc EXCEPT ![c] = step]
SymbolOf(c) == events[event[c]].symbol
BeginOf(c) == events[event[c]].at
AtWork(s) == {c \in Calls : pc[c] \in Working /\ SymbolOf(c) = s}
IsBefore(n, d) == events[n].at <= 3 * (d - 1)   \* the open of day d

\* What a call has read ends with it.
Forget(c) ==
    /\ event' = [event EXCEPT ![c] = 0] /\ day' = [day EXCEPT ![c] = 1]
    /\ base' = [base EXCEPT ![c] = 0] /\ found' = [found EXCEPT ![c] = {}]

----------------------------------------------------------------------------
\* A message arrives, with any volume, and _check_day_boundary reads the clock.
Analyze(c, s, v) ==
    /\ pc[c] = "idle" /\ Len(events) < MaxEvents
    /\ events' = Append(events, [symbol |-> s, at |-> now, volume |-> v])
    /\ event' = [event EXCEPT ![c] = Len(events) + 1]
    /\ day' = [day EXCEPT ![c] = DayOf(now)]
    /\ mixed' = IF AtWork(s) = {} THEN mixed \ {s} ELSE mixed \cup {s}
    /\ Goto(c, "day")
    /\ UNCHANGED <<now, redisVars, base, found, boardHist, straddled, lost, resets,
                   failures>>

\* The Lua script: a key of another day, earlier or later, resets.
DayCheck(c) ==
    /\ pc[c] = "day"
    /\ IF dayKey = day[c]
       THEN UNCHANGED <<dayKey, volume, gainers, boardHist>>
       ELSE /\ dayKey' = day[c] /\ volume' = Nothing /\ gainers' = Nothing
            /\ overtaken' = {event[x] : x \in {y \in Calls :
                                pc[y] \in Working /\ DayOf(BeginOf(y)) # day[c]}}
            /\ scored' = Nothing /\ lowered' = FALSE
    /\ Goto(c, "window")
    /\ UNCHANGED <<now, claimed, openPrice, throttled, events, event, day, base,
                   found, straddled, mixed, lost, resets, failures>>

\* Defect: the reset key is set without NX.
OpenCheck_NoNX(c) ==
    /\ pc[c] = "window"
    /\ IF InWindow(now)
       THEN /\ claimed' = claimed \cup {DayOf(now)} /\ Goto(c, "scan")
            /\ day' = [day EXCEPT ![c] = DayOf(now)]
       ELSE Goto(c, "price") /\ UNCHANGED <<claimed, day>>
    /\ UNCHANGED <<now, dayKey, openPrice, volume, gainers, throttled, events, event,
                   base, found, histVars, failures>>

\* Defect: a plain GET before the SET, whose answer is read the wrong way.
OpenCheck_Negated(c) ==
    /\ pc[c] = "window"
    /\ IF InWindow(now) /\ DayOf(now) \in claimed
       THEN /\ UNCHANGED claimed /\ Goto(c, "scan")
            /\ day' = [day EXCEPT ![c] = DayOf(now)]
       ELSE /\ claimed' = IF InWindow(now) THEN claimed \cup {DayOf(now)} ELSE claimed
            /\ Goto(c, "price") /\ UNCHANGED day
    /\ UNCHANGED <<now, dayKey, openPrice, volume, gainers, throttled, events, event,
                   base, found, histVars, failures>>

\* _check_market_open_reset: SET NX elects the call that resets.  The key
\* outlives the minute in which it is looked at.
OpenCheck(c) ==
    /\ pc[c] = "window"
    /\ IF InWindow(now) /\ DayOf(now) \notin claimed
       THEN /\ claimed' = claimed \cup {DayOf(now)} /\ Goto(c, "scan")
            /\ day' = [day EXCEPT ![c] = DayOf(now)]
       ELSE Goto(c, "price") /\ UNCHANGED <<claimed, day>>
    /\ UNCHANGED <<now, dayKey, openPrice, volume, gainers, throttled, events, event,
                   base, found, histVars, failures>>

\* The SCAN of the open price keys.
Scan(c) ==
    /\ pc[c] = "scan"
    /\ found' = [found EXCEPT ![c] = Entries(openPrice)]
    /\ straddled' = [straddled EXCEPT ![day[c]] = @ \cup
          {s \in Symbols : \E x \in AtWork(s) : IsBefore(event[x], day[c])}]
    /\ Goto(c, "delete")
    /\ UNCHANGED <<now, redisVars, events, event, day, base, boardHist, mixed, lost,
                   resets, failures>>

\* Defect: the keys that the scan returned are not deleted.
DeleteFound_GainersOnly(c) ==
    /\ pc[c] = "delete"
    /\ gainers' = Nothing
    /\ straddled' = [straddled EXCEPT ![day[c]] = @ \cup
          {s \in Symbols : \E x \in AtWork(s) :
                              pc[x] = "write" /\ IsBefore(base[x], day[c])}]
    /\ found' = [found EXCEPT ![c] = {}]
    /\ resets' = [resets EXCEPT ![day[c]] = @ + 1]
    /\ Goto(c, "price")
    /\ UNCHANGED <<now, dayKey, claimed, openPrice, volume, throttled, events, event,
                   day, base, boardHist, mixed, lost, failures>>

\* The transaction that carries the open reset out.
DeleteFound(c) ==
    /\ pc[c] = "delete"
    /\ gainers' = Nothing
    /\ openPrice' = [s \in Symbols |-> IF s \in found[c] THEN 0 ELSE openPrice[s]]
    /\ straddled' = [straddled EXCEPT ![day[c]] = @ \cup
          {s \in Symbols : \E x \in AtWork(s) :
                              pc[x] = "write" /\ IsBefore(base[x], day[c])}]
    /\ found' = [found EXCEPT ![c] = {}]
    /\ resets' = [resets EXCEPT ![day[c]] = @ + 1]
    /\ Goto(c, "price")
    /\ UNCHANGED <<now, dayKey, claimed, volume, throttled, events, event, day, base,
                   boardHist, mixed, lost, failures>>

\* Defect: the cached open price is not used.
GetOpen_Ignored(c) ==
    /\ pc[c] = "price"
    /\ base' = [base EXCEPT ![c] = event[c]]
    /\ Goto(c, IF openPrice[SymbolOf(c)] # 0 THEN "write" ELSE "setopen")
    /\ UNCHANGED <<now, redisVars, events, event, day, found, histVars, failures>>

\* The reads of the market data cache, and the GET of the open price; without
\* one the event's own price becomes the baseline ...
GetOpen(c) ==
    /\ pc[c] = "price"
    /\ LET cached == openPrice[SymbolOf(c)]
       IN  /\ base' = [base EXCEPT ![c] = IF cached # 0 THEN cached ELSE event[c]]
           /\ Goto(c, IF cached # 0 THEN "write" ELSE "setopen")
    /\ UNCHANGED <<now, redisVars, events, event, day, found, histVars, failures>>

\* ... and is stored, whatever is there by now.
SetOpen(c) ==
    /\ pc[c] = "setopen"
    /\ openPrice' = [openPrice EXCEPT ![SymbolOf(c)] = event[c]]
    /\ Goto(c, "write")
    /\ UNCHANGED <<now, dayKey, claimed, volume, gainers, throttled, events, event,
                   day, base, found, histVars, failures>>

VolumeOf(n) == events[n].volume

\* The choices ZREMRANGEBYRANK has when scores are abstract.
Kept(board) ==
    {T \in SUBSET Entries(board) : /\ Cardinality(T) <= Limit
                                   /\ T = Entries(board) \/ Cardinality(T) = Limit}

\* Defect: the ranks are counted from the top, so the leaders are removed.
IsTop_Reversed(T, board) ==
    \A s \in T, t \in Entries(board) \ T : VolumeOf(board[s]) <= VolumeOf(board[t])

IsTop(T, board) ==
    \A s \in T, t \in Entries(board) \ T : VolumeOf(board[s]) >= VolumeOf(board[t])

Trim(board, T) == [s \in Symbols |-> IF s \in T THEN board[s] ELSE 0]

\* _update_leaderboards: ZADD and trim, with the HSET, in one transaction.
Write(c) ==
    /\ pc[c] = "write"
    /\ LET volumes == [volume EXCEPT ![SymbolOf(c)] = event[c]]
           gains   == [gainers EXCEPT ![SymbolOf(c)] = base[c]]
       IN  \E T \in Kept(volumes), U \in Kept(gains) :
             /\ IsTop(T, volumes)
             /\ volume' = Trim(volumes, T) /\ gainers' = Trim(gains, U)
    /\ scored' = [scored EXCEPT ![SymbolOf(c)] = event[c]]
    /\ lowered' = (lowered \/ LET old == volume[SymbolOf(c)]
                              IN  old # 0 /\ VolumeOf(event[c]) < VolumeOf(old))
    /\ Goto(c, "throttle") /\ Forget(c)
    /\ UNCHANGED <<now, dayKey, claimed, openPrice, throttled, events, overtaken,
                   straddled, mixed, lost, resets, failures>>

Fail == failures < MaxFailures /\ failures' = failures + 1

\* The transaction fails: logged, and the call goes on.
WriteFails(c) ==
    /\ pc[c] = "write" /\ Fail
    /\ mixed' = mixed \cup {SymbolOf(c)}
    /\ Goto(c, "throttle") /\ Forget(c)
    /\ UNCHANGED <<now, redisVars, events, boardHist, straddled, lost, resets>>

\* _check_publish_throttle elects one publisher until the key expires, which reads
\* the leaderboards and returns them.
Throttle(c) ==
    /\ pc[c] = "throttle"
    /\ throttled' = TRUE
    /\ Goto(c, "idle")
    /\ UNCHANGED <<now, dayKey, claimed, openPrice, volume, gainers, events, event,
                   day, base, found, histVars, failures>>

\* A command raises, or the replica dies.
Abort(c) ==
    /\ pc[c] # "idle" /\ Fail
    /\ mixed' = IF pc[c] \in Working THEN mixed \cup {SymbolOf(c)} ELSE mixed
    /\ lost' = IF pc[c] \in {"scan", "delete"} THEN lost \cup {day[c]} ELSE lost
    /\ Goto(c, "idle") /\ Forget(c)
    /\ UNCHANGED <<now, redisVars, events, boardHist, straddled, resets>>

ThrottleExpires ==
    /\ throttled
    /\ throttled' = FALSE
    /\ UNCHANGED <<now, dayKey, claimed, openPrice, volume, gainers, events, callVars,
                   histVars, failures>>

\* An open price lives for a day.
OpenExpires(s) ==
    /\ openPrice[s] # 0 /\ now >= events[openPrice[s]].at + 3
    /\ openPrice' = [openPrice EXCEPT ![s] = 0]
    /\ UNCHANGED <<now, dayKey, claimed, volume, gainers, throttled, events, callVars,
                   histVars, failures>>

Tick ==
    /\ now < MaxTime
    /\ now' = now + 1
    /\ UNCHANGED <<redisVars, events, callVars, histVars, failures>>

----------------------------------------------------------------------------
Call(c) ==
    \/ \E s \in Symbols, v \in 1..MaxVolume : Analyze(c, s, v)
    \/ DayCheck(c) \/ OpenCheck(c) \/ Scan(c) \/ DeleteFound(c)
    \/ GetOpen(c) \/ SetOpen(c) \/ Write(c) \/ WriteFails(c)
    \/ Throttle(c) \/ Abort(c)

Environment ==
    \/ Tick \/ ThrottleExpires
    \/ \E s \in Symbols : OpenExpires(s)

Next == Environment \/ \E c \in Calls : Call(c)

Spec == Init /\ [][Next]_vars

(***************************************************************************)
(* Properties                                                              *)
(***************************************************************************)
\* The open reset of a day is carried out at most once, however many replicas
\* see the window, fail and come back (lines 435-438).
OpenResetOnce == \A d \in Days : resets[d] <= 1

\* A claimed open reset has been carried out, or the call that claimed it is at
\* it; only if that very call failed in between does the day go without one
\* (lines 436-456).
OpenResetDone ==
    \A d \in claimed : \/ resets[d] = 1 \/ d \in lost
                       \/ \E c \in Calls : pc[c] \in {"scan", "delete"} /\ day[c] = d

\* The open reset deletes all open prices "to establish fresh intraday baseline"
\* (lines 423-424), by a scan and deletes of what it has found (442-456, 368-381):
\* from then on no open price and no score is based on an analysis begun before
\* 9:30 AM, but for a symbol of which a call was under way that had begun, or had
\* read its baseline, before.
FreshBaseline ==
    \A d \in Days : resets[d] > 0 =>
        \A s \in Symbols \ straddled[d], n \in Numbers \ {0} :
            n = openPrice[s] \/ n = gainers[s] => ~IsBefore(n, d)

\* Moreover the leaderboards hold analyses of the current day only, but for those
\* that the last reset has overtaken: the clearing is one script with the check,
\* the writes that follow are not (lines 395-403, 160-175).
FreshUnlessCrossed ==
    /\ FreshBaseline
    /\ \A s \in Entries(volume) :
         DayOf(events[volume[s]].at) = dayKey \/ volume[s] \in overtaken

\* Whenever no call of a symbol is under way, its gain is measured from the open
\* price that is stored for it, unless the last calls overlapped or the last one
\* failed: the next call that is alone makes up for it (lines 160-170, 371-381).
BaselineShared ==
    \A s \in Entries(gainers) \ mixed :
        AtWork(s) = {} /\ openPrice[s] # 0 => gainers[s] = openPrice[s]

\* top_volume holds the leaders: a symbol that was written since the leaderboards
\* were cleared and is missing was pushed out by as many with no less volume than it
\* had, unless an event out of order has lowered a score since (lines 168-175).
LeadersKept ==
    ~lowered =>
        \A s \in Symbols \ Entries(volume) : scored[s] # 0 =>
            /\ Cardinality(Entries(volume)) = Limit
            /\ \A t \in Entries(volume) : VolumeOf(volume[t]) >= VolumeOf(scored[s])
=============================================================================
