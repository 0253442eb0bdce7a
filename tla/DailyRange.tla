----------------------------- MODULE DailyRange -----------------------------
(***************************************************************************)
(* The daily range analyzer (analyzers/daily_range_analyzer.py) with the   *)
(* callback of the data processor that caches what it returns              *)
(* (components/massive_data_processor.py): replicas that keep the session  *)
(* highs of a symbol in memory, a day key in Redis that one of them sets,  *)
(* a restart that restores what the cache holds.                           *)
(*                                                                         *)
(* One symbol, and its highs: the lows mirror them.  A value in memory is  *)
(* the number of the quote it comes from, 0 for none.  A day is a period   *)
(* in which the market is closed, the evening before included, and one     *)
(* period per session.                                                     *)
(***************************************************************************)
EXTENDS Integers, Sequences

CONSTANTS
    Replicas,   \* processor processes
    LastSession,\* sessions of a day, in order: pre-market, regular, after hours
    MaxPrice,   \* prices are 1..MaxPrice
    MaxDays,    \* bound: days
    MaxQuotes,  \* bound: quotes
    MaxRestarts \* bound: restarts of replicas

ASSUME BoundsAssumption ==
    /\ LastSession \in Nat /\ MaxPrice \in Nat
    /\ MaxDays \in Nat \ {0} /\ MaxQuotes \in Nat /\ MaxRestarts \in Nat

VARIABLES
    day,        \* today
    period,     \* the session that is on, 0 while the market is closed
    dayKey,     \* daily_range:day_boundary, 0 while unset
    cache,      \* daily_range:{symbol}
    up,         \* the replicas that run
    high,       \* per replica: session -> quote number (the three high dicts)
    status,     \* per replica: the cached market status, 0 for none or closed
    quotes,     \* the quotes analysed so far
    pc,         \* per quote number
    reset,      \* per quote number: the answer of the Lua script
    payload,    \* per quote number: what analyze_data returned
    restarts,
    base,       \* history: per replica, the day its memory dates from
    taken,      \* history: per quote number, the session it counted for
    built,      \* history: payloads built
    odd         \* history: what has happened that the properties except

processes == <<up, status, restarts>>
tasks     == <<quotes, pc, reset, payload>>
redis     == <<dayKey, cache>>
history   == <<taken, built, odd>>
clock     == <<day, period>>
vars == <<clock, redis, processes, high, base, tasks, history>>

Sessions   == 1..LastSession
Numbers    == 1..MaxQuotes
Empty      == [s \in Sessions |-> 0]
Nothing    == [row |-> Empty, base |-> 0, nth |-> 0]
PriceOf(n) == IF n = 0 THEN 0 ELSE quotes[n].price
DayOf(n)   == quotes[n].day

Init ==
    /\ day = 1 /\ period = 0 /\ dayKey = 0 /\ cache = Nothing
    /\ up = Replicas /\ status = [r \in Replicas |-> 0] /\ restarts = 0
    /\ high = [r \in Replicas |-> Empty] /\ base = [r \in Replicas |-> 0]
    /\ quotes = <<>> /\ pc = [n \in Numbers |-> "none"]
    /\ reset = [n \in Numbers |-> FALSE] /\ payload = [n \in Numbers |-> Nothing]
    /\ taken = [n \in Numbers |-> 0] /\ built = 0 /\ odd = {}

\* At midnight a quote may be at work whose day was computed before.
AtWork == \E n \in Numbers : pc[n] \in {"checked", "asked"}

Tick ==
    /\ \/ /\ period < LastSession /\ period' = period + 1 /\ UNCHANGED <<day, odd>>
       \/ /\ period = LastSession /\ period' = 0
          /\ day < MaxDays /\ day' = day + 1
          /\ odd' = IF AtWork THEN odd \cup {"crossed"} ELSE odd
    /\ UNCHANGED <<redis, processes, high, base, tasks, taken, built>>

(***************************************************************************)
(* A replica restarts: rehydrate() asks for the session, then reads the    *)
(* cache and restores the sessions up to that one, none if the market is   *)
(* closed or the status query fails.                                       *)
(***************************************************************************)
\* Mutant: the current session is left out.
Elapsed_Before(row, s) == [k \in Sessions |-> IF k < s THEN row[k] ELSE 0]

Elapsed(row, s) == [k \in Sessions |-> IF k <= s THEN row[k] ELSE 0]

\* Some session the cache has a value for counts as not begun.
Blind(s) == \E k \in Sessions : k > s /\ cache.row[k] # 0

\* A result of an earlier life of the replica is still on its way to Redis.
Underway(r) == \E n \in 1..Len(quotes) : quotes[n].home = r /\ pc[n] = "cache"

Rehydrate(r) ==
    /\ r \notin up /\ restarts < MaxRestarts /\ restarts' = restarts + 1
    /\ up' = up \cup {r}
    /\ \E s \in {0, period} :
         LET row == Elapsed(cache.row, s) IN
         /\ status' = [status EXCEPT ![r] = s] /\ high' = [high EXCEPT ![r] = row]
         /\ base' = [base EXCEPT ![r] = IF row = Empty THEN dayKey ELSE cache.base]
         /\ odd' = IF Blind(s) \/ Underway(r) THEN odd \cup {"blind"} ELSE odd
    /\ UNCHANGED <<clock, redis, tasks, taken, built>>

\* Its memory and its tasks end with it, but for the commands it has sent.
Crash(r) ==
    /\ r \in up /\ up' = up \ {r}
    /\ pc' = [n \in Numbers |->
                IF n <= Len(quotes) /\ quotes[n].home = r /\ pc[n] \in {"checked", "asked"}
                THEN "gone" ELSE pc[n]]
    /\ high' = [high EXCEPT ![r] = Empty] /\ base' = [base EXCEPT ![r] = 0]
    /\ status' = [status EXCEPT ![r] = 0] /\ reset' = [n \in Numbers |-> reset[n] /\ pc'[n] # "gone"]
    /\ UNCHANGED <<clock, redis, restarts, quotes, payload, history>>

(***************************************************************************)
(* analyze_data: the Lua script sets the day key to the day computed       *)
(* before it ran, which midnight may have made yesterday.                  *)
(***************************************************************************)
Analyze(r, p, d) ==
    LET n == Len(quotes) + 1 IN
    /\ r \in up /\ n <= MaxQuotes
    /\ d = day \/ (period = 0 /\ d = day - 1)
    /\ quotes' = Append(quotes, [home |-> r, price |-> p, day |-> d])
    /\ pc' = [pc EXCEPT ![n] = "checked"]
    /\ reset' = [reset EXCEPT ![n] = dayKey # d] /\ dayKey' = d
    /\ odd' = IF d = day THEN odd ELSE odd \cup {"crossed"}
    /\ UNCHANGED <<clock, cache, processes, high, base, payload, taken, built>>

\* The price enters the session's high, and the payload is built.
Update(n, s, row) ==
    IF s # 0 /\ quotes[n].price > PriceOf(row[s]) THEN [row EXCEPT ![s] = n] ELSE row

Finish(n, s, row, since) ==
    LET r == quotes[n].home IN
    /\ high' = [high EXCEPT ![r] = Update(n, s, row)]
    /\ base' = [base EXCEPT ![r] = since]
    /\ payload' = [payload EXCEPT ![n] = [row |-> Update(n, s, row), base |-> since,
                                          nth |-> built + 1]]
    /\ built' = built + 1 /\ taken' = [taken EXCEPT ![n] = s]
    /\ pc' = [pc EXCEPT ![n] = "cache"]

\* Mutant: the pre-market high is kept.
Cleared_KeepsPreMarket(n) ==
    [s \in Sessions |-> IF reset[n] /\ s # 1 THEN 0 ELSE high[quotes[n].home][s]]

\* The script has answered: the winner clears the memory, all sessions of it.
Cleared(n) == IF reset[n] THEN Empty ELSE high[quotes[n].home]

\* Quotes of the same day that the clearing takes away.
Wipes(n) == \E k \in 1..Len(quotes) :
                taken[k] # 0 /\ quotes[k].home = quotes[n].home /\ DayOf(k) = DayOf(n)

\* With a market status of the last minute the quote is taken at once, without
\* one it is asked for.
Checked(n) ==
    /\ pc[n] = "checked"
    /\ LET r     == quotes[n].home
           row   == Cleared(n)
           since == IF reset[n] THEN DayOf(n) ELSE base[r]
       IN \/ status[r] # 0 /\ Finish(n, status[r], row, since)
          \/ /\ high' = [high EXCEPT ![r] = row] /\ base' = [base EXCEPT ![r] = since]
             /\ pc' = [pc EXCEPT ![n] = "asked"] /\ UNCHANGED <<payload, built, taken>>
    /\ odd' = IF reset[n] /\ Wipes(n) THEN odd \cup {"wiped"} ELSE odd
    /\ reset' = [reset EXCEPT ![n] = FALSE]
    /\ UNCHANGED <<clock, redis, processes, quotes>>

\* _get_market_status answers, or fails and the last status stands.
Answered(n) ==
    /\ pc[n] = "asked"
    /\ LET r == quotes[n].home IN
         \E s \in {period, status[r]} :
            status' = [status EXCEPT ![r] = s] /\ Finish(n, s, high[r], base[r])
    /\ UNCHANGED <<clock, redis, up, restarts, quotes, reset, odd>>

\* _cache_result: the payload replaces the one in the cache, in the order in
\* which the tasks' connections are served.
CacheResult(n) ==
    /\ pc[n] = "cache" /\ pc' = [pc EXCEPT ![n] = "done"]
    /\ cache' = payload[n] /\ payload' = [payload EXCEPT ![n] = Nothing]
    /\ odd' = IF payload[n].nth < cache.nth THEN odd \cup {"late"} ELSE odd
    /\ UNCHANGED <<clock, dayKey, processes, high, base, quotes, reset, taken, built>>

\* Redis is unreachable: the task ends, and the script may have run.
Abort(n) ==
    /\ pc[n] \in {"checked", "cache"} /\ pc' = [pc EXCEPT ![n] = "gone"]
    /\ reset' = [reset EXCEPT ![n] = FALSE] /\ payload' = [payload EXCEPT ![n] = Nothing]
    /\ UNCHANGED <<clock, redis, processes, high, base, quotes, history>>

Task(n) ==
    Checked(n) \/ Answered(n) \/ CacheResult(n) \/ Abort(n)

Next ==
    \/ Tick
    \/ \E r \in Replicas : Rehydrate(r) \/ Crash(r)
    \/ \E r \in Replicas, p \in 1..MaxPrice, d \in 1..day : Analyze(r, p, d)
    \/ \E n \in Numbers : Task(n)

Spec == Init /\ [][Next]_vars

(***************************************************************************)
(* Properties                                                              *)
(***************************************************************************)
Row     == [Sessions -> 0..Len(quotes)]
Payload == [row : Row, base : 0..day, nth : Nat]
Quote   == [home : Replicas, price : 1..MaxPrice, day : 1..day]
Places  == {"none", "checked", "asked", "cache", "done", "gone"}

TypeOK ==
    /\ day \in 1..MaxDays /\ period \in 0..LastSession /\ dayKey \in 0..day
    /\ quotes \in Seq(Quote) /\ Len(quotes) <= MaxQuotes
    /\ cache \in Payload /\ payload \in [Numbers -> Payload]
    /\ high \in [Replicas -> Row] /\ base \in [Replicas -> 0..day]
    /\ up \subseteq Replicas /\ status \in [Replicas -> 0..LastSession]
    /\ restarts \in 0..MaxRestarts
    /\ pc \in [Numbers -> Places] /\ \A n \in Numbers : pc[n] # "none" <=> n <= Len(quotes)
    /\ reset \in [Numbers -> BOOLEAN]
    /\ taken \in [Numbers -> 0..LastSession] /\ built \in Nat
    /\ odd \subseteq {"blind", "crossed", "wiped", "late"}

\* A replica that has cleared its memory for the day in force, or restored a
\* payload of one that had, or started without a value, shows no value of
\* another day, through restarts and status queries that fail; unless a quote's
\* analysis straddled midnight (lines 473-498, 152-214).
FreshUnlessLost ==
    "crossed" \notin odd =>
        \A r \in up : base[r] = dayKey =>
            \A s \in Sessions : high[r][s] # 0 => DayOf(high[r][s]) = dayKey

\* Where one replica analyses everything, its session high is at least the
\* price of every quote of the day whose result was published, although it
\* restarts: "restarts do not lose intraday data" (lines 7-8).  Excepted are a
\* result that overtook a later one on its way to Redis, a status query that
\* failed or was behind at the restart, a clearing that came late, and a quote
\* analysed over midnight.
HighCovers ==
    odd = {} /\ (\A i, j \in 1..Len(quotes) : quotes[i].home = quotes[j].home) =>
        \A n \in 1..Len(quotes) :
            pc[n] = "done" /\ taken[n] # 0 /\ DayOf(n) = dayKey /\ quotes[n].home \in up
                => PriceOf(high[quotes[n].home][taken[n]]) >= quotes[n].price
=============================================================================
