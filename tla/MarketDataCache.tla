-------------------------- MODULE MarketDataCache --------------------------
(***************************************************************************)
(* get_ticker_snapshot, get_avg_volume and get_free_float of               *)
(* components/market_data_cache.py for one ticker: a Redis cache in front  *)
(* of a REST API, an asyncio.Event per process that makes later callers    *)
(* wait for the first one, and a Redis lock with a timeout that serialises *)
(* the processes.  The three methods have one control flow; they differ in *)
(* whether the API may answer with a zero (CanBeZero) and in whether       *)
(* somebody deletes the entry (MaxDeletes).  Different tickers and metrics *)
(* share nothing.                                                          *)
(*                                                                         *)
(* A step runs from one await to the next.  Reads whose result is compared *)
(* with the process's own state take two steps: Redis answers, and later   *)
(* the coroutine resumes with the answer.                                  *)
(***************************************************************************)
EXTENDS Integers, FiniteSets

CONSTANTS
    Callers,        \* the coroutines that ask for the value
    Processes,      \* the processes they run in
    HomeOf,         \* the process of each caller
    Empty,          \* no cache entry
    NoCaller,
    Orphan,         \* a lock token nobody will release any more
    CanBeZero,      \* the API may answer 0, which is cached like any value
    MaxGets,        \* bound: calls
    MaxVersions,    \* bound: distinct values the API serves over time
    MaxDeletes,     \* bound: delete_ticker_snapshot calls
    MaxEvictions,   \* bound: entries whose time to live runs out
    MaxFailures,    \* bound: Redis commands and API calls that raise
    MaxExpiries,    \* bound: locks that time out under a live holder
    MaxCrashes      \* bound: processes that die

ASSUME CallersAssumption ==
    /\ NoCaller \notin Callers /\ Orphan \notin Callers /\ Orphan # NoCaller
    /\ HomeOf \in [Callers -> Processes]
ASSUME BoundsAssumption ==
    /\ Empty \notin Nat /\ CanBeZero \in BOOLEAN
    /\ MaxGets \in Nat /\ MaxVersions \in Nat \ {0} /\ MaxDeletes \in Nat
    /\ MaxEvictions \in Nat
    /\ MaxFailures \in Nat /\ MaxExpiries \in Nat /\ MaxCrashes \in Nat

VARIABLES
    cache,      \* the Redis entry: Empty, 0, or the version it was made from
    upstream,   \* the version the API serves now
    deletedAt,  \* the upstream version at the last delete that Redis did
    late,       \* history: the callers that had their answer by then
    crossed,    \* history: the entry was written by one of them
    owner,      \* who holds the Redis lock
    pending,    \* per process: the leader whose event is in the pending dict
    pc,
    got,        \* the value a caller has read or fetched and still needs
    waitsOn,    \* the leader on whose event a caller waits
    gets, deletes, evictions, failures, expiries, crashes

redisVars == <<cache, owner>>
boundVars == <<gets, deletes, evictions, failures, expiries, crashes>>
historyVars == <<deletedAt, late, crossed>>
worldVars == <<upstream, historyVars>>
vars == <<redisVars, worldVars, pending, pc, got, waitsOn, boundVars>>

Values  == 0..MaxVersions \cup {Empty}
Usable(v) == v \notin {Empty, 0}             \* "if result:"
Holding == {"check", "api", "write"}         \* has acquired, not yet let go
Leading == {"acquire", "unlock", "release"} \cup Holding

\* A synchronous REST call keeps its process's event loop from running
\* anything else.
Free(p) == \A y \in Callers : HomeOf[y] = p => pc[y] # "api"

TypeOK ==
    /\ cache \in Values
    /\ upstream \in 1..MaxVersions
    /\ deletedAt \in 0..MaxVersions /\ late \subseteq Callers /\ crossed \in BOOLEAN
    /\ owner \in Callers \cup {NoCaller, Orphan}
    /\ pending \in [Processes -> Callers \cup {NoCaller}]
    /\ pc \in [Callers -> Leading \cup {"idle", "read", "resume", "wait",
                                        "reread", "reresume"}]
    /\ got \in [Callers -> Values]
    /\ waitsOn \in [Callers -> Callers \cup {NoCaller}]
    /\ gets \in 0..MaxGets /\ deletes \in 0..MaxDeletes
    /\ evictions \in 0..MaxEvictions
    /\ failures \in 0..MaxFailures /\ expiries \in 0..MaxExpiries
    /\ crashes \in 0..MaxCrashes

Init ==
    /\ cache = Empty /\ upstream = 1 /\ deletedAt = 0 /\ late = {} /\ crossed = FALSE
    /\ owner = NoCaller
    /\ pending = [p \in Processes |-> NoCaller]
    /\ pc = [x \in Callers |-> "idle"] /\ got = [x \in Callers |-> Empty]
    /\ waitsOn = [x \in Callers |-> NoCaller]
    /\ gets = 0 /\ deletes = 0 /\ evictions = 0 /\ failures = 0
    /\ expiries = 0 /\ crashes = 0

Goto(x, where) == pc' = [pc EXCEPT ![x] = where]
Drop(x) == got' = [got EXCEPT ![x] = Empty]

(***************************************************************************)
(* get_...: read the cache, wait for a pending fetch, or become the leader *)
(***************************************************************************)
Get(x) ==
    /\ pc[x] = "idle" /\ Free(HomeOf[x]) /\ gets < MaxGets
    /\ gets' = gets + 1
    /\ Goto(x, "read")
    /\ UNCHANGED <<redisVars, worldVars, pending, got, waitsOn, deletes,
                   evictions, failures, expiries, crashes>>

\* Redis answers a read; the coroutine has not resumed yet.
Read(x) ==
    /\ pc[x] \in {"read", "reread"}
    /\ got' = [got EXCEPT ![x] = cache]
    /\ Goto(x, IF pc[x] = "read" THEN "resume" ELSE "reresume")
    /\ UNCHANGED <<redisVars, worldVars, pending, waitsOn, boundVars>>

\* The first read or the read after the event raises: no event was registered.
ReadFails(x) ==
    /\ pc[x] \in {"read", "reread"} /\ failures < MaxFailures
    /\ failures' = failures + 1
    /\ Goto(x, "idle")
    /\ UNCHANGED <<redisVars, worldVars, pending, got, waitsOn, gets, deletes,
                   evictions, expiries, crashes>>

Hit(x) ==
    /\ pc[x] \in {"resume", "reresume"} /\ Free(HomeOf[x]) /\ Usable(got[x])
    /\ Goto(x, "idle")
    /\ Drop(x)
    /\ UNCHANGED <<redisVars, worldVars, pending, waitsOn, boundVars>>

WaitForLeader(x) ==
    /\ pc[x] = "resume" /\ Free(HomeOf[x]) /\ ~Usable(got[x])
    /\ pending[HomeOf[x]] # NoCaller
    /\ waitsOn' = [waitsOn EXCEPT ![x] = pending[HomeOf[x]]]
    /\ Goto(x, "wait")
    /\ Drop(x)
    /\ UNCHANGED <<redisVars, worldVars, pending, boundVars>>

\* A caller that woke to a miss does not look at the pending dict again: it
\* overwrites whatever event is there.
BecomeLeader(x) ==
    /\ Free(HomeOf[x]) /\ ~Usable(got[x])
    /\ \/ pc[x] = "resume" /\ pending[HomeOf[x]] = NoCaller
       \/ pc[x] = "reresume"
    /\ pending' = [pending EXCEPT ![HomeOf[x]] = x]
    /\ Goto(x, "acquire")
    /\ Drop(x)
    /\ UNCHANGED <<redisVars, worldVars, waitsOn, boundVars>>

(***************************************************************************)
(* _fetch_..._with_lock                                                    *)
(***************************************************************************)
Acquire(x) ==
    /\ pc[x] = "acquire" /\ owner = NoCaller
    /\ owner' = x
    /\ Goto(x, "check")
    /\ UNCHANGED <<cache, worldVars, pending, got, waitsOn, boundVars>>

\* Defect: no second look at the cache once the lock is held.
Check_NoSecondLook(x) ==
    /\ pc[x] = "check" /\ Free(HomeOf[x])
    /\ Goto(x, "api")
    /\ UNCHANGED <<redisVars, worldVars, pending, got, waitsOn, boundVars>>

\* The second look at the cache, and on a miss the API call right after it.
Check(x) ==
    /\ pc[x] = "check" /\ Free(HomeOf[x])
    /\ Goto(x, IF Usable(cache) THEN "unlock" ELSE "api")
    /\ UNCHANGED <<redisVars, worldVars, pending, got, waitsOn, boundVars>>

ApiAnswers(x) ==
    /\ pc[x] = "api"
    /\ \E v \in {upstream} \cup (IF CanBeZero THEN {0} ELSE {}) :
         got' = [got EXCEPT ![x] = v]
    /\ late' = late \ {x}
    /\ Goto(x, "write")
    /\ UNCHANGED <<redisVars, upstream, deletedAt, crossed, pending, waitsOn, boundVars>>

Store(x) == cache' = got[x] /\ crossed' = (x \in late)

Write(x) ==
    /\ pc[x] = "write"
    /\ Store(x)
    /\ Goto(x, "unlock")
    /\ Drop(x)
    /\ UNCHANGED <<owner, upstream, deletedAt, late, pending, waitsOn, boundVars>>

\* Acquiring, reading, calling the API or writing raises: on to the finally.
\* Redis may have executed the command all the same.
FetchFails(x) ==
    /\ pc[x] \in Holding \cup {"acquire"} /\ failures < MaxFailures
    /\ pc[x] = "api" \/ Free(HomeOf[x])
    /\ failures' = failures + 1
    /\ \/ pc[x] = "write" /\ Store(x)
       \/ UNCHANGED <<cache, crossed>>
    /\ owner' \in IF pc[x] = "acquire" /\ owner = NoCaller THEN {owner, Orphan}
                                                         ELSE {owner}
    /\ Goto(x, "unlock")
    /\ Drop(x)
    /\ UNCHANGED <<upstream, deletedAt, late, pending, waitsOn, gets, deletes,
                   evictions, expiries, crashes>>

\* Defect: the pending entry is not popped.
Finish_NoPop(x) ==
    /\ pc' = [y \in Callers |-> CASE y = x -> "idle"
                                  [] pc[y] = "wait" /\ waitsOn[y] = x -> "reread"
                                  [] OTHER -> pc[y]]
    /\ waitsOn' = [y \in Callers |-> IF waitsOn[y] = x THEN NoCaller ELSE waitsOn[y]]
    /\ UNCHANGED pending

\* Defect: the event is not set.
Finish_NoSet(x) ==
    /\ Goto(x, "idle")
    /\ pending' = [pending EXCEPT ![HomeOf[x]] = NoCaller]
    /\ UNCHANGED waitsOn

\* Leaving get_...: the event is set, which wakes everybody who waits on it,
\* and the pending entry is popped, whoever's event it is.
Finish(x) ==
    /\ pc' = [y \in Callers |-> CASE y = x -> "idle"
                                  [] pc[y] = "wait" /\ waitsOn[y] = x -> "reread"
                                  [] OTHER -> pc[y]]
    /\ waitsOn' = [y \in Callers |-> IF waitsOn[y] = x THEN NoCaller ELSE waitsOn[y]]
    /\ pending' = [pending EXCEPT ![HomeOf[x]] = NoCaller]

\* Defect: the condition of the release is the wrong way round.
Locked_Negated(x) ==
    /\ pc[x] = "unlock" /\ Free(HomeOf[x])
    /\ IF owner # NoCaller THEN Finish(x)
       ELSE Goto(x, "release") /\ UNCHANGED <<waitsOn, pending>>
    /\ UNCHANGED <<redisVars, worldVars, got, boundVars>>

\* "if await lock.locked()": somebody's token is there, perhaps not ours.
Locked(x) ==
    /\ pc[x] = "unlock" /\ Free(HomeOf[x])
    /\ IF owner = NoCaller THEN Finish(x)
       ELSE Goto(x, "release") /\ UNCHANGED <<waitsOn, pending>>
    /\ UNCHANGED <<redisVars, worldVars, got, boundVars>>

\* The release compares tokens; another holder's lock is left alone.
Release(x) ==
    /\ pc[x] = "release" /\ Free(HomeOf[x])
    /\ owner' = IF owner = x THEN NoCaller ELSE owner
    /\ Finish(x)
    /\ UNCHANGED <<cache, worldVars, got, boundVars>>

\* Redis fails in the finally: the lock stays until it times out.
ReleaseFails(x) ==
    /\ pc[x] \in {"unlock", "release"} /\ Free(HomeOf[x]) /\ failures < MaxFailures
    /\ failures' = failures + 1
    /\ owner' = IF owner = x THEN Orphan ELSE owner
    /\ Finish(x)
    /\ UNCHANGED <<cache, worldVars, got, gets, deletes, evictions,
                   expiries, crashes>>

(***************************************************************************)
(* The rest of the world                                                   *)
(***************************************************************************)
\* Defect: the delete leaves the entry.
Erase_NoErase ==
    /\ deletedAt' = upstream
    /\ late' = {x \in Callers : pc[x] = "write"}
    /\ UNCHANGED <<cache, crossed>>

\* Redis carries a delete out, for a consumer that has seen newer data.
Erase ==
    /\ cache' = Empty
    /\ deletedAt' = upstream
    /\ late' = {x \in Callers : pc[x] = "write"}
    /\ crossed' = FALSE

\* delete_ticker_snapshot, which asks for neither the lock nor the event.
DeleteSnapshot ==
    /\ deletes < MaxDeletes
    /\ deletes' = deletes + 1
    /\ Erase
    /\ UNCHANGED <<owner, upstream, pending, pc, got, waitsOn, gets,
                   evictions, failures, expiries, crashes>>

\* The delete raises, done by Redis or not, and its caller is not told.
DeleteFails ==
    /\ deletes < MaxDeletes /\ failures < MaxFailures
    /\ deletes' = deletes + 1 /\ failures' = failures + 1
    /\ Erase \/ UNCHANGED <<cache, historyVars>>
    /\ UNCHANGED <<owner, upstream, pending, pc, got, waitsOn, gets,
                   evictions, expiries, crashes>>

CacheExpires ==
    /\ cache # Empty /\ evictions < MaxEvictions
    /\ evictions' = evictions + 1
    /\ cache' = Empty
    /\ UNCHANGED <<owner, worldVars, pending, pc, got, waitsOn, gets, deletes,
                   failures, expiries, crashes>>

MarketMoves ==
    /\ upstream < MaxVersions
    /\ upstream' = upstream + 1
    /\ UNCHANGED <<redisVars, historyVars, pending, pc, got, waitsOn, boundVars>>

\* The lock's timeout, 30 seconds, under a holder that is still at work.
LockExpires ==
    /\ owner \in Callers /\ expiries < MaxExpiries
    /\ owner' = NoCaller
    /\ expiries' = expiries + 1
    /\ UNCHANGED <<cache, worldVars, pending, pc, got, waitsOn, gets, deletes,
                   evictions, failures, crashes>>

OrphanExpires ==
    /\ owner = Orphan
    /\ owner' = NoCaller
    /\ UNCHANGED <<cache, worldVars, pending, pc, got, waitsOn, boundVars>>

\* A process dies and is started again: its coroutines and its dict are gone.
Crash(p) ==
    /\ crashes < MaxCrashes
    /\ crashes' = crashes + 1
    /\ pc' = [x \in Callers |-> IF HomeOf[x] = p THEN "idle" ELSE pc[x]]
    /\ got' = [x \in Callers |-> IF HomeOf[x] = p THEN Empty ELSE got[x]]
    /\ waitsOn' = [x \in Callers |-> IF HomeOf[x] = p THEN NoCaller ELSE waitsOn[x]]
    /\ pending' = [pending EXCEPT ![p] = NoCaller]
    /\ owner' = IF owner \in Callers /\ HomeOf[owner] = p THEN Orphan ELSE owner
    /\ UNCHANGED <<cache, worldVars, gets, deletes, evictions,
                   failures, expiries>>

----------------------------------------------------------------------------
Proceed(x) ==
    \/ Read(x) \/ ReadFails(x) \/ Hit(x) \/ WaitForLeader(x) \/ BecomeLeader(x)
    \/ Check(x) \/ ApiAnswers(x) \/ Write(x) \/ FetchFails(x)
    \/ Locked(x) \/ Release(x) \/ ReleaseFails(x)

Environment ==
    \/ DeleteSnapshot \/ DeleteFails \/ CacheExpires \/ MarketMoves \/ LockExpires \/ OrphanExpires
    \/ \E p \in Processes : Crash(p)

Next == Environment \/ \E x \in Callers : Get(x) \/ Acquire(x) \/ Proceed(x)

\* The event loop runs every ready coroutine, Redis and the API answer or time
\* out, an abandoned lock expires, and a caller that polls the lock gets it
\* in the end if it is free again and again.
Fairness ==
    /\ \A x \in Callers : SF_vars(Proceed(x)) /\ SF_vars(Acquire(x))
    /\ WF_vars(OrphanExpires)

Spec == Init /\ [][Next]_vars /\ Fairness

(***************************************************************************)
(* Properties                                                              *)
(***************************************************************************)
\* Nobody waits for an event that will not be set: every registered event and
\* every event somebody waits on belongs to a caller of the same process that
\* is still in its try block (lines 208-232).  The pop in the finally may
\* remove another leader's entry, and a woken caller may overwrite one.
WaitersHaveLeader ==
    /\ \A p \in Processes : pending[p] # NoCaller =>
         pc[pending[p]] \in Leading /\ HomeOf[pending[p]] = p
    /\ \A x \in Callers : pc[x] = "wait" =>
         /\ waitsOn[x] # NoCaller /\ pc[waitsOn[x]] \in Leading
         /\ HomeOf[waitsOn[x]] = HomeOf[x]

\* "only one process calls the Massive API for a given ticker at a time"
\* (lines 185-186), as long as no lock times out under a live holder.
OneFetchUnlessExpired ==
    expiries = 0 =>
        \A x, y \in Callers : pc[x] \in Holding /\ pc[y] \in Holding => x = y

\* When everybody has left and no Redis command failed in a finally, the lock
\* is free, although it may have expired and been taken over meanwhile.
LockReturned ==
    (\A x \in Callers : pc[x] = "idle") /\ failures = 0 /\ crashes = 0
        => owner = NoCaller

\* Every call returns, with a value or an exception, whatever fails, expires
\* or crashes (lines 188-190: the event is signalled on failure too).
GetReturns == \A x \in Callers : pc[x] # "idle" ~> pc[x] = "idle"

\* One caller's flight at a time, taken off only on a miss, until a lock times
\* out under its holder.
InFlight == {x \in Callers : pc[x] \in {"api", "write"}}
Flight == INSTANCE SingleFlight
            WITH cached <- Usable(cache),
                 flight <- IF InFlight = {} THEN NoCaller
                           ELSE CHOOSE x \in InFlight : TRUE,
                 excused <- expiries > 0
SingleFlightSpec == Flight!Spec

\* The delete is for "cache coherence with real-time stream" (lines 169-170):
\* the entry is no older than the last delete that Redis did, whoever else was
\* fetching, failed or lost the lock then.  Only a fetch that had its answer
\* already writes it back (line 274), until a further delete removes that too.  A
\* delete that Redis did not do counts for nothing; its error is swallowed (lines
\* 127-128).
CoherentUnlessCrossed == ~crossed /\ Usable(cache) => cache >= deletedAt
=============================================================================
