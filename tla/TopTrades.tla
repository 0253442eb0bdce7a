----------------------------- MODULE TopTrades -----------------------------
\* The trade statistics of analyzers/top_trades_analyzer.py. Workers of any
\* number of processes store the trades they are handed in a list per symbol;
\* the one that takes a key which Redis forgets after five seconds computes the
\* statistics of every symbol, and its processor caches them.
\*
\* A list holds the last trades of its symbol, and the statistics are a function
\* of the list: both are named by the number of the newest trade, 0 when there
\* are none. An action is what a worker does between two awaits.
\*
\* No name here is one of Leaderboard's: one module proves about both.
EXTENDS Naturals, FiniteSets

CONSTANTS
    Workers,   \* calls of analyze_data() that run side by side
    Traded,   \* symbols
    Singled,     \* symbols that are also cached on their own
    MaxTrades, \* bound: trades of a symbol
    MaxAborts  \* bound: calls that raise, or whose process dies

ASSUME TradesAssumption == Singled \in Nat \ {0} /\ MaxTrades \in Nat /\ MaxAborts \in Nat

VARIABLES
    stored,    \* trades of a symbol that were stored so far
    list,      \* the list of a symbol
    lease,     \* whether the key of the throttle is there
    stage,        \* where a worker is suspended
    seen,      \* the symbols there were when a worker was elected
    todo,      \* symbols whose list a worker has still to read, or to write
    stats,     \* the statistics a worker has computed
    table,     \* the cached statistics of all symbols
    chosen,    \* the symbols of the table that were to be cached on their own
    widget,    \* the cached statistics of a symbol on its own
    aborts,    \* calls that raised so far
    outlasted, \* history: a worker was still busy when its key expired
    cutShort   \* history: a worker ended before all was cached

redis  == <<stored, list>>
worker == <<stage, seen, todo, stats>>
cache  == <<table, chosen, widget>>
past   == <<outlasted, cutShort>>
tradesVars   == <<redis, lease, worker, cache, aborts, past>>

NoTrades   == [s \in Traded |-> 0]
Active    == {s \in Traded : list[s] # 0}
Elected   == {w \in Workers : stage[w] \in {"scan", "read", "table", "widgets"}}
Known(st) == {s \in Traded : st[s] # 0}

TradesInit ==
    /\ stored = NoTrades /\ list = NoTrades /\ lease = FALSE
    /\ stage = [w \in Workers |-> "idle"] /\ seen = [w \in Workers |-> {}]
    /\ todo = [w \in Workers |-> {}] /\ stats = [w \in Workers |-> NoTrades]
    /\ table = NoTrades /\ chosen = {} /\ widget = NoTrades
    /\ aborts = 0 /\ outlasted = FALSE /\ cutShort = FALSE

---------------------------------------------------------------------------
\* Push, trim and the list's time to live are one transaction. A message
\* without a symbol is not stored, and goes on all the same.
Store(w) ==
    /\ stage[w] = "idle"
    /\ stage' = [stage EXCEPT ![w] = "throttle"]
    /\ \/ \E s \in Traded :
             /\ stored[s] < MaxTrades
             /\ stored' = [stored EXCEPT ![s] = @ + 1]
             /\ list' = [list EXCEPT ![s] = stored[s] + 1]
       \/ UNCHANGED redis
    /\ UNCHANGED <<lease, seen, todo, stats, cache, aborts, past>>

\* Mutant: the key is set whether it is there or not.
TakeLease_Always(w) ==
    /\ stage[w] = "throttle"
    /\ lease' = TRUE
    /\ stage' = [stage EXCEPT ![w] = "scan"] /\ seen' = [seen EXCEPT ![w] = Active]
    /\ UNCHANGED <<redis, todo, stats, cache, aborts, past>>

\* SET NX EX: who sets the key publishes.
TakeLease(w) ==
    /\ stage[w] = "throttle"
    /\ lease' = TRUE
    /\ IF lease
       THEN stage' = [stage EXCEPT ![w] = "idle"] /\ UNCHANGED seen
       ELSE stage' = [stage EXCEPT ![w] = "scan"] /\ seen' = [seen EXCEPT ![w] = Active]
    /\ UNCHANGED <<redis, todo, stats, cache, aborts, past>>

\* SCAN, page by page, returns what was there all the while, and may return
\* what was there for a time.
ScanLists(w) ==
    /\ stage[w] = "scan"
    /\ \E found \in SUBSET (seen[w] \cup Active) :
          /\ seen[w] \cap Active \subseteq found
          /\ todo' = [todo EXCEPT ![w] = found]
          /\ stage' = [stage EXCEPT ![w] = IF found = {} THEN "idle" ELSE "read"]
    /\ seen' = [seen EXCEPT ![w] = {}]
    /\ UNCHANGED <<redis, lease, stats, cache, aborts, past>>

\* The list of one symbol, which may have expired.
Read(w, s) ==
    /\ stage[w] = "read" /\ s \in todo[w]
    /\ stats' = [stats EXCEPT ![w][s] = list[s]]
    /\ todo' = [todo EXCEPT ![w] = @ \ {s}]
    /\ stage' = [stage EXCEPT ![w] =
                IF todo'[w] # {} THEN "read"
                ELSE IF stats'[w] = NoTrades THEN "idle" ELSE "table"]
    /\ UNCHANGED <<redis, lease, seen, cache, aborts, past>>

\* The processor caches the results in turn: first that of all symbols, then
\* those of the symbols with the highest volume.
WriteTable(w) ==
    /\ stage[w] = "table"
    /\ table' = stats[w]
    /\ \E top \in SUBSET Known(stats[w]) :
          /\ Cardinality(top) <= Singled
          /\ Cardinality(top) = Singled \/ top = Known(stats[w])
          /\ chosen' = top
          /\ todo' = [todo EXCEPT ![w] = top]
    /\ stage' = [stage EXCEPT ![w] = "widgets"]
    /\ UNCHANGED <<redis, lease, seen, stats, widget, aborts, past>>

\* A call that has ended keeps no statistics.
EndOf(w, over) ==
    /\ stage' = IF over THEN [stage EXCEPT ![w] = "idle"] ELSE stage
    /\ stats' = IF over THEN [stats EXCEPT ![w] = NoTrades] ELSE stats

\* Mutant: the symbol's own result is computed anew.
WriteWidget_Anew(w, s) ==
    /\ stage[w] = "widgets" /\ s \in todo[w]
    /\ widget' = [widget EXCEPT ![s] = list[s]]
    /\ todo' = [todo EXCEPT ![w] = @ \ {s}]
    /\ EndOf(w, todo'[w] = {})
    /\ UNCHANGED <<redis, lease, seen, table, chosen, aborts, past>>

WriteWidget(w, s) ==
    /\ stage[w] = "widgets" /\ s \in todo[w]
    /\ widget' = [widget EXCEPT ![s] = stats[w][s]]
    /\ todo' = [todo EXCEPT ![w] = @ \ {s}]
    /\ EndOf(w, todo'[w] = {})
    /\ UNCHANGED <<redis, lease, seen, table, chosen, aborts, past>>

\* An exception before the results are there is logged and returns none; one
\* while they are cached, or the end of the process, leaves the rest uncached.
GiveUp(w) ==
    /\ stage[w] # "idle"
    /\ aborts < MaxAborts /\ aborts' = aborts + 1
    /\ EndOf(w, TRUE)
    /\ seen' = [seen EXCEPT ![w] = {}] /\ todo' = [todo EXCEPT ![w] = {}]
    /\ cutShort' = (cutShort \/ stage[w] = "widgets")
    /\ UNCHANGED <<redis, lease, cache, outlasted>>

---------------------------------------------------------------------------
\* Redis forgets keys whose time has come.

LeaseExpires ==
    /\ lease /\ lease' = FALSE
    /\ outlasted' = (outlasted \/ Elected # {})
    /\ UNCHANGED <<redis, worker, cache, aborts, cutShort>>

ListExpires(s) ==
    /\ list[s] # 0 /\ list' = [list EXCEPT ![s] = 0]
    /\ UNCHANGED <<stored, lease, worker, cache, aborts, past>>

TableExpires ==
    /\ table # NoTrades /\ table' = NoTrades /\ chosen' = {}
    /\ UNCHANGED <<redis, lease, worker, widget, aborts, past>>

WidgetExpires(s) ==
    /\ widget[s] # 0 /\ widget' = [widget EXCEPT ![s] = 0]
    /\ UNCHANGED <<redis, lease, worker, table, chosen, aborts, past>>

---------------------------------------------------------------------------
Work(w) ==
    \/ Store(w) \/ TakeLease(w) \/ ScanLists(w) \/ WriteTable(w) \/ GiveUp(w)
    \/ \E s \in Traded : Read(w, s) \/ WriteWidget(w, s)

TradesNext ==
    \/ \E w \in Workers : Work(w)
    \/ LeaseExpires \/ TableExpires
    \/ \E s \in Traded : ListExpires(s) \/ WidgetExpires(s)

TradesSpec == TradesInit /\ [][TradesNext]_tradesVars

---------------------------------------------------------------------------
\* What should hold.

TradesTypeOK ==
    /\ stored \in [Traded -> 0..MaxTrades] /\ list \in [Traded -> 0..MaxTrades]
    /\ \A s \in Traded : list[s] <= stored[s]
    /\ lease \in BOOLEAN /\ aborts \in 0..MaxAborts
    /\ stage \in [Workers -> {"idle", "throttle", "scan", "read", "table", "widgets"}]
    /\ seen \in [Workers -> SUBSET Traded] /\ todo \in [Workers -> SUBSET Traded]
    /\ stats \in [Workers -> [Traded -> 0..MaxTrades]]
    /\ table \in [Traded -> 0..MaxTrades] /\ chosen \subseteq Traded
    /\ widget \in [Traded -> 0..MaxTrades]
    /\ outlasted \in BOOLEAN /\ cutShort \in BOOLEAN

\* Cached statistics are never replaced by those of an older list, whichever
\* process computes them, as long as no worker takes longer than the throttle's
\* interval over the statistics and the caching of them.
StatsDontGoBack ==
    [][\A s \in Traded :
          ~outlasted => /\ widget'[s] = 0 \/ widget'[s] >= widget[s]
                        /\ table'[s] = 0 \/ table'[s] >= table[s]]_tradesVars

\* As long as no worker outlasts the interval: what is cached for a symbol on its
\* own is never ahead of what the table says of it; and for the symbols chosen with
\* the table it is the same, unless a worker is about to cache it or one was cut
\* short (lines 171-196). A symbol that was chosen before and is no longer keeps its
\* entry, which falls behind the table until it expires.
WidgetsAgree ==
    ~outlasted =>
        \A s \in Traded :
            /\ table[s] # 0 => widget[s] <= table[s]
            /\ s \in chosen /\ ~cutShort =>
                 \/ widget[s] \in {0, table[s]}
                 \/ \E w \in Workers : stage[w] = "widgets" /\ s \in todo[w]
=============================================================================
