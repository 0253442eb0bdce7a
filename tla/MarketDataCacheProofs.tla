------------------------ MODULE MarketDataCacheProofs -----------------------
(***************************************************************************)
(* Proofs about MarketDataCache for any number of callers and processes:   *)
(* the types, that nobody waits for an event that will not be set, that    *)
(* one caller fetches at a time as long as no lock expires under its       *)
(* holder, and that the module then implements SingleFlight.               *)
(***************************************************************************)
EXTENDS MarketDataCache, TLAPS

USE CallersAssumption, BoundsAssumption
    DEF Leading, Holding, redisVars, worldVars, historyVars, boundVars, Drop

PcType == pc \in [Callers -> Leading \cup {"idle", "read", "resume", "wait",
                                           "reread", "reresume"}]

(***************************************************************************)
(* Types                                                                   *)
(***************************************************************************)
LEMMA InitType == Init => TypeOK
<1> SUFFICES ASSUME Init PROVE TypeOK
    OBVIOUS
<1>1. /\ cache \in Values
      /\ upstream \in 1..MaxVersions /\ deletedAt \in 0..MaxVersions
    BY DEF Init, Values
<1>2. /\ got \in [Callers -> Values]
      /\ waitsOn \in [Callers -> Callers \cup {NoCaller}]
    BY DEF Init, Values
<1>3. /\ PcType
      /\ pending \in [Processes -> Callers \cup {NoCaller}]
      /\ owner \in Callers \cup {NoCaller, Orphan} /\ crossed \in BOOLEAN /\ late \subseteq Callers
    BY DEF Init, PcType
<1>4. /\ gets \in 0..MaxGets /\ deletes \in 0..MaxDeletes
      /\ evictions \in 0..MaxEvictions /\ failures \in 0..MaxFailures
      /\ expiries \in 0..MaxExpiries /\ crashes \in 0..MaxCrashes
    BY DEF Init
<1>5. QED
    BY <1>1, <1>2, <1>3, <1>4 DEF TypeOK, PcType

LEMMA FinishType ==
    ASSUME TypeOK, NEW x \in Callers, Finish(x)
    PROVE  /\ PcType'
           /\ waitsOn' \in [Callers -> Callers \cup {NoCaller}]
           /\ pending' \in [Processes -> Callers \cup {NoCaller}]
<1>1. PcType'
  BY DEF Finish, TypeOK, PcType
<1>2. QED
  BY <1>1 DEF Finish, TypeOK

LEMMA CallerType ==
    ASSUME TypeOK, NEW x \in Callers, Get(x) \/ Acquire(x) \/ Proceed(x)
    PROVE  TypeOK'
<1>1. CASE Get(x)
  BY <1>1 DEF TypeOK, Get, Goto
<1>2. CASE Acquire(x)
  BY <1>2 DEF TypeOK, Acquire, Goto
<1>3. CASE Read(x)
  BY <1>3 DEF TypeOK, Read, Goto
<1>4. CASE ReadFails(x)
  BY <1>4 DEF TypeOK, ReadFails, Goto
<1>5. CASE Hit(x)
  BY <1>5 DEF TypeOK, Hit, Goto, Values
<1>6. CASE WaitForLeader(x)
  BY <1>6 DEF TypeOK, WaitForLeader, Goto, Values
<1>7. CASE BecomeLeader(x)
  BY <1>7 DEF TypeOK, BecomeLeader, Goto, Values
<1>8. CASE Check(x)
  BY <1>8 DEF TypeOK, Check, Goto
<1>9. CASE ApiAnswers(x)
  BY <1>9 DEF TypeOK, ApiAnswers, Goto, Values
<1>10. CASE Write(x)
  BY <1>10 DEF TypeOK, Write, Store, Goto, Values
<1>11. CASE FetchFails(x)
  <2>1. cache' \in Values /\ crossed' \in BOOLEAN
    <3>1. \/ cache' = got[x] /\ crossed' = (x \in late)
          \/ cache' = cache /\ crossed' = crossed
      BY <1>11 DEF FetchFails, Store
    <3>2. cache' \in Values
      BY <3>1 DEF TypeOK
    <3>3. crossed \in BOOLEAN /\ (x \in late) \in BOOLEAN
      BY DEF TypeOK
    <3>4. crossed' = (x \in late) \/ crossed' = crossed
      BY <3>1
    <3>5. QED
      BY <3>2, <3>3, <3>4
  <2>2. owner' \in Callers \cup {NoCaller, Orphan} /\ got' \in [Callers -> Values]
    BY <1>11 DEF TypeOK, FetchFails, Values
  <2>3. QED
    BY <1>11, <2>1, <2>2 DEF TypeOK, FetchFails, Goto
<1>12. CASE Locked(x)
  <2>1. CASE Finish(x)
    BY <1>12, <2>1, FinishType DEF TypeOK, Locked, PcType
  <2>2. CASE Goto(x, "release") /\ UNCHANGED <<waitsOn, pending>>
    BY <1>12, <2>2 DEF TypeOK, Locked, Goto
  <2>3. QED
    BY <1>12, <2>1, <2>2 DEF Locked
<1>13. CASE Release(x)
  BY <1>13, FinishType DEF TypeOK, Release, PcType
<1>14. CASE ReleaseFails(x)
  BY <1>14, FinishType DEF TypeOK, ReleaseFails, PcType
<1>15. QED
  BY <1>1, <1>2, <1>3, <1>4, <1>5, <1>6, <1>7, <1>8, <1>9, <1>10, <1>11, <1>12,
     <1>13, <1>14 DEF Proceed

LEMMA EnvironmentType == TypeOK /\ Environment => TypeOK'
<1> SUFFICES ASSUME TypeOK, Environment PROVE TypeOK'
  OBVIOUS
<1>1. CASE DeleteSnapshot \/ DeleteFails
  <2>1. UNCHANGED <<owner, upstream, pending, pc, got, waitsOn, gets, evictions, expiries, crashes>>
    BY <1>1 DEF DeleteSnapshot, DeleteFails
  <2>2. deletes' \in 0..MaxDeletes /\ failures' \in 0..MaxFailures
    BY <1>1 DEF TypeOK, DeleteSnapshot, DeleteFails
  <2>3. /\ cache' \in Values /\ deletedAt' \in 0..MaxVersions
        /\ late' \subseteq Callers /\ crossed' \in BOOLEAN
    <3>1. Erase \/ UNCHANGED <<cache, historyVars>>
      BY <1>1 DEF DeleteSnapshot, DeleteFails
    <3>2. CASE Erase
      <4>1. deletedAt' \in 0..MaxVersions
        BY <3>2 DEF TypeOK, Erase
      <4>2. cache' \in Values /\ late' \subseteq Callers /\ crossed' \in BOOLEAN
        BY <3>2 DEF Erase, Values
      <4>3. QED
        BY <4>1, <4>2
    <3>3. CASE UNCHANGED <<cache, historyVars>>
      BY <3>3 DEF TypeOK
    <3>4. QED
      BY <3>1, <3>2, <3>3
  <2>4. QED
    BY <2>1, <2>2, <2>3 DEF TypeOK
<1>2. CASE CacheExpires
  BY <1>2 DEF TypeOK, CacheExpires, Values
<1>3. CASE MarketMoves
  BY <1>3 DEF TypeOK, MarketMoves
<1>4. CASE LockExpires
  BY <1>4 DEF TypeOK, LockExpires
<1>5. CASE OrphanExpires
  BY <1>5 DEF TypeOK, OrphanExpires
<1>6. ASSUME NEW p \in Processes, Crash(p) PROVE TypeOK'
  <2>1. PcType' /\ got' \in [Callers -> Values]
    BY <1>6 DEF TypeOK, Crash, PcType, Values
  <2>2. QED
    BY <1>6, <2>1 DEF TypeOK, Crash, PcType
<1>7. QED
  BY <1>1, <1>2, <1>3, <1>4, <1>5, <1>6 DEF Environment

LEMMA NextType == TypeOK /\ [Next]_vars => TypeOK'
<1>1. TypeOK /\ UNCHANGED vars => TypeOK'
  BY DEF TypeOK, vars
<1>2. QED
  BY <1>1, CallerType, EnvironmentType DEF Next

\* Every variable keeps its type, for any callers and processes.
THEOREM TypeCorrect == Spec => []TypeOK
BY InitType, NextType, PTL DEF Spec

(***************************************************************************)
(* Waiting.  WaitersHaveLeader is inductive: a leader leaves its phases    *)
(* only by Finish, which wakes everybody who waits on it, or by a crash,   *)
(* which takes those with it, because they run in the same process.        *)
(***************************************************************************)
LEMMA InitWaiters == Init => WaitersHaveLeader
BY DEF Init, WaitersHaveLeader

LEMMA FinishWaiters ==
    ASSUME TypeOK, WaitersHaveLeader, NEW x \in Callers, Finish(x)
    PROVE  WaitersHaveLeader'
<1>1. \A y \in Callers : y # x /\ pc[y] \in Leading => pc'[y] = pc[y]
  BY DEF Finish
<1>2. ASSUME NEW p \in Processes, pending'[p] # NoCaller
      PROVE  pc'[pending'[p]] \in Leading /\ HomeOf[pending'[p]] = p
  <2>1. p # HomeOf[x] /\ pending'[p] = pending[p]
    BY <1>2 DEF Finish, TypeOK
  <2>2. QED
    BY <1>1, <1>2, <2>1 DEF WaitersHaveLeader, TypeOK
<1>3. ASSUME NEW y \in Callers, pc'[y] = "wait"
      PROVE  /\ waitsOn'[y] # NoCaller /\ pc'[waitsOn'[y]] \in Leading
             /\ HomeOf[waitsOn'[y]] = HomeOf[y]
  <2>1. pc[y] = "wait" /\ waitsOn[y] # x /\ waitsOn'[y] = waitsOn[y]
    BY <1>3 DEF Finish
  <2>2. QED
    BY <1>1, <2>1 DEF WaitersHaveLeader, TypeOK
<1>4. QED
  BY <1>2, <1>3 DEF WaitersHaveLeader

\* A step of a caller within the leader's phases, or outside of them.
LEMMA MoveWaiters ==
    ASSUME TypeOK, WaitersHaveLeader, NEW x \in Callers, NEW where,
           Goto(x, where), where # "wait",
           pc[x] \in Leading => where \in Leading,
           UNCHANGED <<pending, waitsOn>>
    PROVE  WaitersHaveLeader'
BY DEF Goto, WaitersHaveLeader, TypeOK

LEMMA CallerWaiters ==
    ASSUME TypeOK, WaitersHaveLeader, NEW x \in Callers,
           Get(x) \/ Acquire(x) \/ Proceed(x)
    PROVE  WaitersHaveLeader'
<1>1. CASE Get(x)
  BY <1>1, MoveWaiters DEF Get
<1>2. CASE Acquire(x)
  BY <1>2, MoveWaiters DEF Acquire
<1>3. CASE Read(x)
  BY <1>3, MoveWaiters DEF Read
<1>4. CASE ReadFails(x)
  BY <1>4, MoveWaiters DEF ReadFails
<1>5. CASE Hit(x)
  BY <1>5, MoveWaiters DEF Hit
<1>6. CASE WaitForLeader(x)
  BY <1>6 DEF WaitForLeader, Goto, WaitersHaveLeader, TypeOK
<1>7. CASE BecomeLeader(x)
  BY <1>7 DEF BecomeLeader, Goto, WaitersHaveLeader, TypeOK
<1>8. CASE Check(x)
  BY <1>8, MoveWaiters DEF Check
<1>9. CASE ApiAnswers(x)
  BY <1>9, MoveWaiters DEF ApiAnswers
<1>10. CASE Write(x)
  BY <1>10, MoveWaiters DEF Write
<1>11. CASE FetchFails(x)
  BY <1>11, MoveWaiters DEF FetchFails
<1>12. CASE Locked(x)
  BY <1>12, MoveWaiters, FinishWaiters DEF Locked
<1>13. CASE Release(x)
  BY <1>13, FinishWaiters DEF Release
<1>14. CASE ReleaseFails(x)
  BY <1>14, FinishWaiters DEF ReleaseFails
<1>15. QED
  BY <1>1, <1>2, <1>3, <1>4, <1>5, <1>6, <1>7, <1>8, <1>9, <1>10, <1>11, <1>12,
     <1>13, <1>14 DEF Proceed

LEMMA EnvironmentWaiters ==
    TypeOK /\ WaitersHaveLeader /\ Environment => WaitersHaveLeader'
<1> SUFFICES ASSUME TypeOK, WaitersHaveLeader, Environment PROVE WaitersHaveLeader'
  OBVIOUS
<1>1. CASE UNCHANGED <<pending, pc, waitsOn>>
  BY <1>1 DEF WaitersHaveLeader
<1>2. ASSUME NEW p \in Processes, Crash(p) PROVE WaitersHaveLeader'
  BY <1>2 DEF Crash, WaitersHaveLeader, TypeOK
<1>3. QED
  BY <1>1, <1>2 DEF Environment, DeleteSnapshot, DeleteFails, CacheExpires, MarketMoves, LockExpires,
     OrphanExpires

LEMMA NextWaiters == TypeOK /\ WaitersHaveLeader /\ [Next]_vars => WaitersHaveLeader'
<1>1. WaitersHaveLeader /\ UNCHANGED vars => WaitersHaveLeader'
  BY DEF WaitersHaveLeader, vars
<1>2. QED
  BY <1>1, CallerWaiters, EnvironmentWaiters DEF Next

\* Nobody ever waits for an event that its leader will not set.
THEOREM EventsHaveLeaders == Spec => []WaitersHaveLeader
BY TypeCorrect, InitWaiters, NextWaiters, PTL DEF Spec

(***************************************************************************)
(* Exclusion.  OneFetchUnlessExpired says nothing of the lock; what is     *)
(* inductive is that a caller at work holds the lock.                      *)
(***************************************************************************)
HoldersOwn == expiries = 0 => \A x \in Callers : pc[x] \in Holding => owner = x

LEMMA CallerHolders ==
    ASSUME TypeOK, HoldersOwn, NEW x \in Callers, Get(x) \/ Acquire(x) \/ Proceed(x)
    PROVE  HoldersOwn'
<1>1. CASE Get(x)
  BY <1>1 DEF TypeOK, Get, Goto, HoldersOwn
<1>2. CASE Acquire(x)
  BY <1>2 DEF TypeOK, Acquire, Goto, HoldersOwn
<1>3. CASE Read(x)
  BY <1>3 DEF TypeOK, Read, Goto, HoldersOwn
<1>4. CASE ReadFails(x)
  BY <1>4 DEF TypeOK, ReadFails, Goto, HoldersOwn
<1>5. CASE Hit(x)
  BY <1>5 DEF TypeOK, Hit, Goto, HoldersOwn
<1>6. CASE WaitForLeader(x)
  BY <1>6 DEF TypeOK, WaitForLeader, Goto, HoldersOwn
<1>7. CASE BecomeLeader(x)
  BY <1>7 DEF TypeOK, BecomeLeader, Goto, HoldersOwn
<1>8. CASE Check(x)
  BY <1>8 DEF TypeOK, Check, Goto, HoldersOwn
<1>9. CASE ApiAnswers(x)
  BY <1>9 DEF TypeOK, ApiAnswers, Goto, HoldersOwn
<1>10. CASE Write(x)
  BY <1>10 DEF TypeOK, Write, Goto, HoldersOwn
<1>11. CASE FetchFails(x)
  <2>1. owner' = owner \/ owner = NoCaller
    BY <1>11 DEF FetchFails
  <2>2. QED
    BY <1>11, <2>1 DEF TypeOK, FetchFails, Goto, HoldersOwn
<1>12. CASE Locked(x)
  BY <1>12 DEF TypeOK, Locked, Finish, Goto, HoldersOwn
<1>13. CASE Release(x)
  BY <1>13 DEF TypeOK, Release, Finish, HoldersOwn
<1>14. CASE ReleaseFails(x)
  BY <1>14 DEF TypeOK, ReleaseFails, Finish, HoldersOwn
<1>15. QED
  BY <1>1, <1>2, <1>3, <1>4, <1>5, <1>6, <1>7, <1>8, <1>9, <1>10, <1>11, <1>12,
     <1>13, <1>14 DEF Proceed

LEMMA EnvironmentHolders ==
    ASSUME TypeOK, HoldersOwn, Environment
    PROVE  HoldersOwn'
<1>1. CASE UNCHANGED <<owner, pc, expiries>>
  BY <1>1 DEF HoldersOwn
<1>2. CASE LockExpires
  BY <1>2 DEF LockExpires, HoldersOwn, TypeOK
<1>3. CASE OrphanExpires
  BY <1>3 DEF OrphanExpires, HoldersOwn, TypeOK
<1>4. ASSUME NEW p \in Processes, Crash(p) PROVE HoldersOwn'
  BY <1>4 DEF Crash, HoldersOwn, TypeOK
<1>5. QED
  BY <1>1, <1>2, <1>3, <1>4 DEF Environment, DeleteSnapshot, DeleteFails, CacheExpires, MarketMoves

LEMMA NextHolders == TypeOK /\ HoldersOwn /\ [Next]_vars => HoldersOwn'
<1>1. HoldersOwn /\ UNCHANGED vars => HoldersOwn'
  BY DEF HoldersOwn, vars
<1>2. QED
  BY <1>1, CallerHolders, EnvironmentHolders DEF Next

LEMMA AlwaysHolders == Spec => []HoldersOwn
<1>1. Init => HoldersOwn
  BY DEF Init, HoldersOwn
<1>2. QED
  BY <1>1, TypeCorrect, NextHolders, PTL DEF Spec

\* One caller of all processes at a time is between acquiring the lock and
\* having written the cache, until a lock expires under its holder.
THEOREM FetchExclusive == Spec => []OneFetchUnlessExpired
<1>1. HoldersOwn => OneFetchUnlessExpired
  BY DEF HoldersOwn, OneFetchUnlessExpired
<1>2. QED
  BY <1>1, AlwaysHolders, PTL

(***************************************************************************)
(* The lock.  Whoever is named in it is still at work, so that somebody is *)
(* left to release it; a holder whose lock expired finds another's token   *)
(* there and leaves it alone.                                              *)
(***************************************************************************)
OwnerAtWork ==
    failures = 0 /\ crashes = 0 /\ owner # NoCaller =>
        owner \in Callers /\ pc[owner] \in Holding \cup {"unlock", "release"}

\* A caller that holds the lock goes on, or the lock is another's.
LEMMA MoveOwner ==
    ASSUME TypeOK, OwnerAtWork, NEW x \in Callers, NEW where, Goto(x, where),
           owner = x /\ pc[x] \in Holding \cup {"unlock", "release"}
             => where \in Holding \cup {"unlock", "release"},
           UNCHANGED <<owner, failures, crashes>>
    PROVE  OwnerAtWork'
BY DEF TypeOK, OwnerAtWork, Goto

LEMMA FinishOwner ==
    ASSUME TypeOK, OwnerAtWork, NEW x \in Callers, Finish(x),
           owner' = IF owner = x THEN NoCaller ELSE owner,
           UNCHANGED <<failures, crashes>>
    PROVE  OwnerAtWork'
BY DEF TypeOK, OwnerAtWork, Finish

LEMMA CallerOwner ==
    ASSUME TypeOK, OwnerAtWork, NEW x \in Callers, Get(x) \/ Acquire(x) \/ Proceed(x)
    PROVE  OwnerAtWork'
<1>1. CASE Get(x)
  BY <1>1, MoveOwner DEF Get
<1>2. CASE Acquire(x)
  BY <1>2 DEF TypeOK, Acquire, Goto, OwnerAtWork
<1>3. CASE Read(x)
  BY <1>3, MoveOwner DEF Read
<1>4. CASE ReadFails(x) \/ FetchFails(x) \/ ReleaseFails(x)
  <2>1. failures' = failures + 1 /\ failures \in Nat
    BY <1>4 DEF ReadFails, FetchFails, ReleaseFails, TypeOK
  <2>2. QED
    BY <2>1 DEF OwnerAtWork
<1>5. CASE Hit(x)
  BY <1>5, MoveOwner DEF Hit
<1>6. CASE WaitForLeader(x)
  BY <1>6, MoveOwner DEF WaitForLeader
<1>7. CASE BecomeLeader(x)
  BY <1>7, MoveOwner DEF BecomeLeader
<1>8. CASE Check(x)
  BY <1>8, MoveOwner DEF Check
<1>9. CASE ApiAnswers(x)
  BY <1>9, MoveOwner DEF ApiAnswers
<1>10. CASE Write(x)
  BY <1>10, MoveOwner DEF Write
<1>11. CASE Locked(x)
  <2>1. UNCHANGED <<owner, failures, crashes>>
    BY <1>11 DEF Locked
  <2>2. CASE owner = NoCaller
    BY <2>1, <2>2 DEF OwnerAtWork
  <2>3. CASE owner # NoCaller
    BY <1>11, <2>1, <2>3, MoveOwner DEF Locked
  <2>4. QED
    BY <2>2, <2>3
<1>12. CASE Release(x)
  BY <1>12, FinishOwner DEF Release
<1>13. QED
  BY <1>1, <1>2, <1>3, <1>4, <1>5, <1>6, <1>7, <1>8, <1>9, <1>10, <1>11, <1>12
     DEF Proceed

LEMMA EnvironmentOwner ==
    ASSUME TypeOK, OwnerAtWork, Environment
    PROVE  OwnerAtWork'
<1>1. CASE UNCHANGED <<owner, pc, failures, crashes>>
  BY <1>1 DEF OwnerAtWork
<1>2. CASE LockExpires \/ OrphanExpires
  BY <1>2 DEF LockExpires, OrphanExpires, OwnerAtWork
<1>3. ASSUME NEW p \in Processes, Crash(p) PROVE OwnerAtWork'
  <2>1. crashes' = crashes + 1 /\ crashes \in Nat
    BY <1>3 DEF Crash, TypeOK
  <2>2. QED
    BY <2>1 DEF OwnerAtWork
<1>4. CASE DeleteFails
  <2>1. failures' = failures + 1 /\ failures \in Nat
    BY <1>4 DEF DeleteFails, TypeOK
  <2>2. QED
    BY <2>1 DEF OwnerAtWork
<1>5. QED
  BY <1>1, <1>2, <1>3, <1>4 DEF Environment, DeleteSnapshot, CacheExpires, MarketMoves

LEMMA NextOwner == TypeOK /\ OwnerAtWork /\ [Next]_vars => OwnerAtWork'
<1>1. OwnerAtWork /\ UNCHANGED vars => OwnerAtWork'
  BY DEF OwnerAtWork, vars
<1>2. QED
  BY <1>1, CallerOwner, EnvironmentOwner DEF Next

\* When every call has returned, and no Redis command failed and no process died
\* on the way, the Redis lock is free, however often it expired under a holder
\* and was taken over.
THEOREM LockComesBack == Spec => []LockReturned
<1>1. Init => OwnerAtWork
  BY DEF Init, OwnerAtWork
<1>2. OwnerAtWork => LockReturned
  BY DEF OwnerAtWork, LockReturned
<1>3. QED
  BY <1>1, <1>2, TypeCorrect, NextOwner, PTL DEF Spec

(***************************************************************************)
(* Refinement.  Without expiry a flight is over before anybody else can    *)
(* fill the cache, so nothing usable is cached during one.                 *)
(***************************************************************************)
MissInFlight == expiries = 0 => \A x \in InFlight : ~Usable(cache)

\* The mapped variable, and its value when at most one caller is in flight.
flightBar == IF InFlight = {} THEN NoCaller ELSE CHOOSE x \in InFlight : TRUE
Alone == \A x, y \in InFlight : x = y

LEMMA FlightBarValue ==
    ASSUME Alone, NEW x \in InFlight
    PROVE  flightBar = x
BY DEF flightBar, Alone

LEMMA HoldersAlone ==
    ASSUME HoldersOwn, expiries = 0
    PROVE  Alone /\ \A x \in InFlight, y \in Callers : pc[y] \in Holding => x = y
BY DEF HoldersOwn, Alone, InFlight

\* Who is in flight after a step of one caller.
LEMMA GotoFlight ==
    ASSUME TypeOK, NEW x \in Callers, NEW where, Goto(x, where)
    PROVE  InFlight' = IF where \in {"api", "write"} THEN InFlight \cup {x}
                                                     ELSE InFlight \ {x}
BY DEF Goto, InFlight, TypeOK

LEMMA FinishFlight ==
    ASSUME TypeOK, NEW x \in Callers, pc[x] \notin {"api", "write"}, Finish(x)
    PROVE  InFlight' = InFlight
BY DEF Finish, InFlight, TypeOK

\* The steps that neither begin nor end a flight nor touch the cache.
LEMMA QuietCaller ==
    ASSUME TypeOK, NEW x \in Callers,
           \/ Get(x) \/ Acquire(x) \/ Read(x) \/ ReadFails(x) \/ Hit(x)
           \/ WaitForLeader(x) \/ BecomeLeader(x) \/ ApiAnswers(x)
           \/ Check(x) /\ Usable(cache)
           \/ FetchFails(x) /\ pc[x] \notin {"api", "write"}
           \/ Locked(x) \/ Release(x) \/ ReleaseFails(x)
    PROVE  InFlight' = InFlight /\ cache' = cache
<1>1. cache' = cache
  BY DEF Get, Acquire, Read, ReadFails, Hit, WaitForLeader, BecomeLeader, ApiAnswers,
         Check, FetchFails, Locked, Release, ReleaseFails
<1>2. CASE Get(x) \/ Acquire(x) \/ Read(x) \/ ReadFails(x) \/ Hit(x)
  BY <1>2, GotoFlight DEF Get, Acquire, Read, ReadFails, Hit, InFlight
<1>3. CASE WaitForLeader(x) \/ BecomeLeader(x) \/ ApiAnswers(x)
  BY <1>3, GotoFlight DEF WaitForLeader, BecomeLeader, ApiAnswers, InFlight
<1>4. CASE \/ Check(x) /\ Usable(cache)
           \/ FetchFails(x) /\ pc[x] \notin {"api", "write"}
  BY <1>4, GotoFlight DEF Check, FetchFails, InFlight
<1>5. CASE Locked(x) \/ Release(x) \/ ReleaseFails(x)
  BY <1>5, GotoFlight, FinishFlight DEF Locked, Release, ReleaseFails, InFlight
<1>6. QED
  BY <1>1, <1>2, <1>3, <1>4, <1>5

\* Once an answer is written, or the attempt has failed, its flight is over.
LEMMA EndOfFlight ==
    ASSUME TypeOK, NEW x \in Callers,
           Write(x) \/ (FetchFails(x) /\ pc[x] \in {"api", "write"})
    PROVE  x \in InFlight /\ InFlight' = InFlight \ {x}
BY GotoFlight DEF Write, FetchFails, InFlight

LEMMA TakeOffFlight ==
    ASSUME TypeOK, NEW x \in Callers, Check(x), ~Usable(cache)
    PROVE  InFlight' = InFlight \cup {x} /\ cache' = cache /\ pc[x] = "check"
BY GotoFlight DEF Check, redisVars

\* What has expired stays so: nothing was expired before a state without expiry.
LEMMA ExpiriesGrow == TypeOK /\ [Next]_vars /\ expiries' = 0 => expiries = 0
<1>1. [Next]_vars => expiries' = expiries \/ expiries' = expiries + 1
  BY DEF Next, Environment, Proceed, vars, Get, Acquire, Read, ReadFails, Hit,
     WaitForLeader, BecomeLeader, Check, ApiAnswers, Write, FetchFails, Locked,
     Release, ReleaseFails, DeleteSnapshot, DeleteFails, CacheExpires, MarketMoves, LockExpires,
     OrphanExpires, Crash
<1>2. QED
  BY <1>1 DEF TypeOK

LEMMA NextMiss == TypeOK /\ HoldersOwn /\ MissInFlight /\ [Next]_vars => MissInFlight'
<1> SUFFICES ASSUME TypeOK, HoldersOwn, MissInFlight, [Next]_vars, expiries' = 0
             PROVE  \A x \in InFlight' : ~Usable(cache')
  BY DEF MissInFlight
<1>1. expiries = 0
  BY ExpiriesGrow
<1>2. CASE InFlight' = InFlight /\ cache' = cache
  BY <1>1, <1>2 DEF MissInFlight
<1>3. CASE \E x \in InFlight : InFlight' = InFlight \ {x}
  BY <1>1, <1>3, HoldersAlone DEF Alone
<1>4. CASE ~Usable(cache) /\ cache' = cache
  BY <1>4
<1>5. CASE cache' = Empty
  BY <1>5 DEF Usable
<1>6. ASSUME NEW x \in Callers, Get(x) \/ Acquire(x) \/ Proceed(x)
      PROVE  \A y \in InFlight' : ~Usable(cache')
  BY <1>2, <1>3, <1>4, <1>6, QuietCaller, EndOfFlight, TakeOffFlight DEF Proceed
<1>7. ASSUME NEW p \in Processes, Crash(p)
      PROVE  \A y \in InFlight' : ~Usable(cache')
  <2>1. InFlight' \subseteq InFlight /\ cache' = cache
    BY <1>7 DEF Crash, InFlight
  <2>2. QED
    BY <1>1, <2>1 DEF MissInFlight
<1>8. CASE MarketMoves \/ LockExpires \/ OrphanExpires \/ UNCHANGED vars
  BY <1>2, <1>8 DEF MarketMoves, LockExpires, OrphanExpires, vars, InFlight
<1>9. CASE DeleteSnapshot \/ DeleteFails
  <2>1. cache' = Empty \/ (cache' = cache /\ pc' = pc)
    BY <1>9 DEF DeleteSnapshot, DeleteFails, Erase
  <2>2. QED
    BY <1>2, <1>5, <2>1 DEF InFlight
<1>10. QED
  BY <1>5, <1>6, <1>7, <1>8, <1>9 DEF Next, Environment, CacheExpires

\* A step before any lock has timed out keeps the promise.
LEMMA FlightKept ==
    ASSUME TypeOK, HoldersOwn, HoldersOwn', MissInFlight, expiries' = 0, [Next]_vars
    PROVE  [Flight!Next]_(Flight!vars)
<1> DEFINE cachedBar == Usable(cache)
<1>1. expiries = 0 /\ ~(expiries > 0) /\ ~(expiries' > 0)
  BY ExpiriesGrow
<1>2. Alone /\ Alone'
  BY <1>1 DEF HoldersOwn, Alone, InFlight
<1>3. CASE InFlight' = InFlight /\ (cache' = cache \/ cache' = Empty)
  <2>1. flightBar' = flightBar
    BY <1>3 DEF flightBar
  <2>2. cachedBar' = cachedBar \/ cachedBar' = FALSE
    BY <1>3 DEF Usable
  <2>3. QED
    BY <1>1, <2>1, <2>2 DEF Flight!Next, Flight!Keep, Flight!vars, Flight!Evict, flightBar
<1>4. ASSUME NEW x \in InFlight, InFlight' = InFlight \ {x}
      PROVE  [Flight!Next]_(Flight!vars)
  <2>1. flightBar = x
    BY <1>2, FlightBarValue
  <2>2. InFlight' = {}
    BY <1>2, <1>4 DEF Alone
  <2>3. flightBar' = NoCaller
    BY <2>2 DEF flightBar
  <2>4. ~cachedBar /\ x \in Callers
    BY <1>1 DEF MissInFlight, InFlight
  <2>5. cachedBar' = TRUE \/ cachedBar' = cachedBar
    BY <2>4 DEF Usable
  <2>6. QED
    BY <1>1, <2>1, <2>3, <2>4, <2>5
    DEF Flight!Next, Flight!Keep, Flight!vars, Flight!Land, Flight!Abort, flightBar
<1>5. ASSUME NEW x \in Callers, Check(x), ~Usable(cache)
      PROVE  [Flight!Next]_(Flight!vars)
  <2>1. InFlight' = InFlight \cup {x} /\ cache' = cache /\ pc[x] = "check"
    BY <1>5, TakeOffFlight
  <2>2. InFlight = {}
    BY <1>1, <2>1, HoldersAlone DEF InFlight
  <2>3. flightBar = NoCaller
    BY <2>2 DEF flightBar
  <2>4. flightBar' = x
    BY <2>1, <2>2 DEF flightBar
  <2>5. QED
    BY <1>1, <1>5, <2>1, <2>3, <2>4 DEF Flight!Next, Flight!Keep, Flight!TakeOff, flightBar
<1>6. ASSUME NEW x \in Callers, Get(x) \/ Acquire(x) \/ Proceed(x)
      PROVE  [Flight!Next]_(Flight!vars)
  BY <1>3, <1>4, <1>5, <1>6, QuietCaller, EndOfFlight DEF Proceed
<1>7. ASSUME NEW p \in Processes, Crash(p)
      PROVE  [Flight!Next]_(Flight!vars)
  <2>1. cache' = cache /\ InFlight' \subseteq InFlight
    BY <1>7 DEF Crash, InFlight
  <2>2. InFlight' = InFlight \/ \E x \in InFlight : InFlight' = InFlight \ {x}
    BY <1>2, <2>1 DEF Alone
  <2>3. QED
    BY <1>3, <1>4, <2>1, <2>2
<1>8. CASE Environment /\ ~(\E p \in Processes : Crash(p))
  <2>1. pc' = pc /\ cache' \in {cache, Empty}
    BY <1>8 DEF Environment, DeleteSnapshot, DeleteFails, Erase, CacheExpires, MarketMoves,
                LockExpires, OrphanExpires
  <2>2. QED
    BY <1>3, <2>1 DEF InFlight
<1>9. CASE UNCHANGED vars
  BY <1>3, <1>9 DEF vars, InFlight
<1>10. QED
  BY <1>6, <1>7, <1>8, <1>9 DEF Next, Environment

\* Any step after one has is excused.
LEMMA FlightExcused ==
    ASSUME TypeOK, TypeOK', expiries' # 0
    PROVE  Flight!Excuse
<1>1. expiries' > 0
  BY DEF TypeOK
<1>2. Usable(cache)' \in BOOLEAN
  BY DEF Usable
<1>3. flightBar' \in Callers \cup {NoCaller}
  BY DEF flightBar, InFlight
<1>4. QED
  BY <1>1, <1>2, <1>3 DEF Flight!Excuse, flightBar

\* What Redis and the processes do together is a single flight until a lock
\* times out under its live holder: the API is called on a miss only, by one
\* caller at a time, and its answer alone fills the cache.
THEOREM ImplementsSingleFlight == Spec => SingleFlightSpec
<1>1. Init => Flight!Init
  BY DEF Init, Flight!Init, InFlight, Usable
<1>2. Init => MissInFlight
  BY DEF Init, MissInFlight, InFlight
<1>3. Spec => []MissInFlight
  BY <1>2, TypeCorrect, AlwaysHolders, NextMiss, PTL DEF Spec
<1>4. TypeOK /\ TypeOK' /\ HoldersOwn /\ HoldersOwn' /\ MissInFlight /\ [Next]_vars
        => [Flight!Next]_(Flight!vars)
  BY FlightKept, FlightExcused DEF Flight!Next
<1>5. QED
  BY <1>1, <1>3, <1>4, TypeCorrect, AlwaysHolders, PTL DEF Spec, SingleFlightSpec, Flight!Spec

(***************************************************************************)
(* Coherence after a delete                                                *)
(***************************************************************************)
Fresh(v) == Usable(v) => v >= deletedAt

\* The entry, and every answer still to be written, is from after the last
\* delete, but for the answers that were there at the delete and the entry that
\* one of them made.
AnswersFresh ==
    /\ deletedAt <= upstream
    /\ ~crossed => Fresh(cache)
    /\ \A x \in Callers : pc[x] = "write" /\ x \notin late => Fresh(got[x])

LEMMA InitFresh == Init => AnswersFresh
BY DEF Init, AnswersFresh, Fresh, Usable

LEMMA FinishNoWriter ==
    ASSUME TypeOK, NEW x \in Callers, Finish(x), NEW y \in Callers, pc'[y] = "write"
    PROVE  pc[y] = "write"
BY DEF TypeOK, Finish

\* A step that leaves the entry alone and gives nobody a new answer.
LEMMA QuietFresh ==
    ASSUME TypeOK, AnswersFresh, UNCHANGED worldVars, cache' \in {cache, Empty},
           \A y \in Callers : pc'[y] = "write" => pc[y] = "write" /\ got'[y] = got[y]
    PROVE  AnswersFresh'
BY DEF AnswersFresh, Fresh, Usable

LEMMA CallerFresh ==
    ASSUME TypeOK, AnswersFresh, NEW x \in Callers, Get(x) \/ Acquire(x) \/ Proceed(x)
    PROVE  AnswersFresh'
<1>1. CASE Get(x) \/ Acquire(x) \/ ReadFails(x) \/ Hit(x) \/ WaitForLeader(x)
             \/ BecomeLeader(x)
  BY <1>1, QuietFresh
     DEF TypeOK, Get, Acquire, ReadFails, Hit, WaitForLeader, BecomeLeader, Goto
<1>2. CASE Read(x) \/ Check(x)
  BY <1>2, QuietFresh DEF TypeOK, Read, Check, Goto
<1>3. CASE ApiAnswers(x)
  <2>1. Fresh(got'[x])
    BY <1>3 DEF ApiAnswers, TypeOK, AnswersFresh, Fresh, Usable
  <2>2. \A y \in Callers : y # x => pc'[y] = pc[y] /\ got'[y] = got[y]
    BY <1>3 DEF ApiAnswers, TypeOK, Goto
  <2>3. UNCHANGED <<cache, upstream, deletedAt, crossed>> /\ late' = late \ {x}
    BY <1>3 DEF ApiAnswers
  <2>4. QED
    BY <2>1, <2>2, <2>3 DEF AnswersFresh, Fresh, Usable
<1>4. CASE Write(x) \/ FetchFails(x)
  <2>1. \/ UNCHANGED <<cache, crossed>>
        \/ pc[x] = "write" /\ cache' = got[x] /\ crossed' = (x \in late)
    BY <1>4 DEF Write, FetchFails, Store
  <2>2. \A y \in Callers : pc'[y] = "write" => pc[y] = "write" /\ got'[y] = got[y]
    BY <1>4 DEF Write, FetchFails, Goto, TypeOK
  <2>3. UNCHANGED <<upstream, deletedAt, late>>
    BY <1>4 DEF Write, FetchFails
  <2>4. QED
    BY <2>1, <2>2, <2>3 DEF AnswersFresh, Fresh, Usable
<1>6. CASE Locked(x) \/ Release(x) \/ ReleaseFails(x)
  <2>1. UNCHANGED <<cache, worldVars, got>>
    BY <1>6 DEF Locked, Release, ReleaseFails
  <2>2. \A y \in Callers : pc'[y] = "write" => pc[y] = "write"
    BY <1>6, FinishNoWriter DEF Locked, Release, ReleaseFails, Goto, TypeOK
  <2>3. QED
    BY <2>1, <2>2, QuietFresh
<1>7. QED
  BY <1>1, <1>2, <1>3, <1>4, <1>6 DEF Proceed

LEMMA EnvironmentFresh == TypeOK /\ AnswersFresh /\ Environment => AnswersFresh'
<1> SUFFICES ASSUME TypeOK, AnswersFresh, Environment PROVE AnswersFresh'
  OBVIOUS
<1>1. CASE DeleteSnapshot \/ DeleteFails
  <2>1. UNCHANGED <<upstream, pc, got>>
    BY <1>1 DEF DeleteSnapshot, DeleteFails
  <2>2. CASE Erase
    <3>1. upstream \in Nat
      BY DEF TypeOK
    <3>2. QED
      BY <2>1, <2>2, <3>1 DEF Erase, AnswersFresh, Fresh, Usable
  <2>3. CASE UNCHANGED <<cache, historyVars>>
    BY <2>1, <2>3 DEF AnswersFresh, Fresh, Usable
  <2>4. QED
    BY <1>1, <2>2, <2>3 DEF DeleteSnapshot, DeleteFails
<1>2. CASE MarketMoves
  BY <1>2 DEF MarketMoves, TypeOK, AnswersFresh, Fresh, Usable
<1>3. CASE CacheExpires \/ LockExpires \/ OrphanExpires
  BY <1>3, QuietFresh DEF CacheExpires, LockExpires, OrphanExpires
<1>4. ASSUME NEW p \in Processes, Crash(p) PROVE AnswersFresh'
  <2>1. \A y \in Callers : pc'[y] = "write" => pc[y] = "write" /\ got'[y] = got[y]
    BY <1>4 DEF Crash, TypeOK
  <2>2. UNCHANGED <<cache, worldVars>>
    BY <1>4 DEF Crash
  <2>3. QED
    BY <2>1, <2>2, QuietFresh
<1>5. QED
  BY <1>1, <1>2, <1>3, <1>4 DEF Environment

\* What a delete removed stays out of the cache (delete_ticker_snapshot and
\* write): an entry older than the last delete that Redis did was written by a
\* fetch that had its answer at that delete.  So it is through deletes that fail,
\* expired locks and crashes, for any number of processes.
THEOREM DeletedStaysOut == Spec => []CoherentUnlessCrossed
<1>1. TypeOK /\ AnswersFresh /\ [Next]_vars => AnswersFresh'
  <2>1. AnswersFresh /\ UNCHANGED vars => AnswersFresh'
    BY DEF AnswersFresh, Fresh, Usable, vars
  <2>2. QED
    BY <2>1, CallerFresh, EnvironmentFresh DEF Next
<1>2. AnswersFresh => CoherentUnlessCrossed
  BY DEF AnswersFresh, Fresh, CoherentUnlessCrossed
<1>3. QED
  BY <1>1, <1>2, InitFresh, TypeCorrect, PTL DEF Spec
=============================================================================
