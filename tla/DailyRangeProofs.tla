-------------------------- MODULE DailyRangeProofs --------------------------
(***************************************************************************)
(* Proofs about DailyRange: types, that a memory known to date from the    *)
(* day in force holds values of that day only, and that what the only      *)
(* replica published is covered by its highs, through restarts.            *)
(***************************************************************************)
EXTENDS DailyRange, TLAPS

USE BoundsAssumption

LEMMA SessionsTyped == Empty \in [Sessions -> {0}]
BY DEF Empty

\* Rows and payloads stay what they are while quotes and days are added.
LEMMA Wider ==
    ASSUME Len(quotes) \in Nat, Len(quotes)' \in Nat, day \in Nat, day' \in Nat,
           Len(quotes) <= Len(quotes)', day <= day'
    PROVE  Row \subseteq Row' /\ Payload \subseteq Payload' /\ 0..day \subseteq (0..day)'
<1>1. 0..Len(quotes) \subseteq (0..Len(quotes))' /\ 0..day \subseteq (0..day)'
  OBVIOUS
<1>2. Row \subseteq Row'
  BY <1>1 DEF Row
<1>3. Payload \subseteq Payload'
  BY <1>1, <1>2 DEF Payload
<1>4. QED
  BY <1>1, <1>2, <1>3

\* A quote that is known.
LEMMA Known ==
    ASSUME TypeOK, NEW n \in Numbers, pc[n] # "none"
    PROVE  /\ n \in 1..Len(quotes) /\ n \in 0..Len(quotes)
           /\ quotes[n] \in Quote /\ quotes[n].home \in Replicas
           /\ quotes[n].price \in 1..MaxPrice /\ DayOf(n) \in 1..day
<1>1. n \in Nat /\ n >= 1 /\ n <= Len(quotes) /\ Len(quotes) \in Nat
  BY DEF TypeOK, Numbers
<1>2. n \in 1..Len(quotes) /\ n \in 0..Len(quotes)
  BY <1>1
<1>3. quotes[n] \in Quote
  BY <1>2 DEF TypeOK
<1>4. QED
  BY <1>2, <1>3 DEF Quote, DayOf

LEMMA UpdateTyped ==
    ASSUME TypeOK, NEW n \in Numbers, pc[n] # "none", NEW s \in 0..LastSession, NEW row \in Row
    PROVE  Update(n, s, row) \in Row
<1>1. n \in 0..Len(quotes)
  BY Known
<1>2. s # 0 => s \in Sessions
  BY DEF Sessions
<1>3. QED
  BY <1>1, <1>2 DEF Update, Row

\* What finishing a quote does, whichever way its session was found.
LEMMA FinishTyped ==
    ASSUME TypeOK, NEW n \in Numbers, pc[n] # "none", NEW s \in 0..LastSession,
           NEW row \in Row, NEW since \in 0..day, Finish(n, s, row, since)
    PROVE  /\ high' \in [Replicas -> Row] /\ base' \in [Replicas -> 0..day]
           /\ payload' \in [Numbers -> Payload]
           /\ built' \in Nat /\ taken' \in [Numbers -> 0..LastSession]
           /\ pc' \in [Numbers -> Places] /\ \A k \in Numbers : pc'[k] = "none" <=> pc[k] = "none"
<1> DEFINE r == quotes[n].home
           u == Update(n, s, row)
<1>1. r \in Replicas /\ u \in Row
  BY Known, UpdateTyped
<1>2. /\ high' = [high EXCEPT ![r] = u] /\ base' = [base EXCEPT ![r] = since]
      /\ payload' = [payload EXCEPT ![n] = [row |-> u, base |-> since, nth |-> built + 1]]
      /\ built' = built + 1 /\ taken' = [taken EXCEPT ![n] = s]
      /\ pc' = [pc EXCEPT ![n] = "cache"]
  BY DEF Finish
<1> HIDE DEF r, u
<1>3. high' \in [Replicas -> Row] /\ base' \in [Replicas -> 0..day]
  BY <1>1, <1>2 DEF TypeOK
<1>4. [row |-> u, base |-> since, nth |-> built + 1] \in Payload
  BY <1>1 DEF TypeOK, Payload
<1>5. payload' \in [Numbers -> Payload]
  BY <1>2, <1>4 DEF TypeOK
<1>6. built' \in Nat /\ taken' \in [Numbers -> 0..LastSession]
  BY <1>2 DEF TypeOK
<1>7. pc' \in [Numbers -> Places] /\ \A k \in Numbers : pc'[k] = "none" <=> pc[k] = "none"
  BY <1>2 DEF TypeOK, Places
<1>8. QED
  BY <1>3, <1>5, <1>6, <1>7

LEMMA InitTyped == Init => TypeOK
<1> SUFFICES ASSUME Init PROVE TypeOK
  OBVIOUS
<1>1. quotes = <<>> /\ Len(quotes) = 0 /\ quotes \in Seq(Quote)
  BY DEF Init
<1>2. Empty \in Row
  BY <1>1 DEF Row, Empty
<1>3. Nothing \in Payload
  BY <1>2 DEF Nothing, Payload, Init
<1>4. \A n \in Numbers : pc[n] # "none" <=> n <= Len(quotes)
  BY <1>1 DEF Init, Numbers
<1>5. QED
  BY <1>1, <1>2, <1>3, <1>4 DEF Init, TypeOK, Places

\* Nothing that a step leaves unmentioned loses its type while the quotes and
\* the day stay.
LEMMA StepTyped == TypeOK /\ [Next]_vars => TypeOK'
<1> SUFFICES ASSUME TypeOK, [Next]_vars PROVE TypeOK'
  OBVIOUS
<1> USE DEF clock, redis, processes, tasks, history
<1>z. Empty \in Row /\ Nothing \in Payload
  <2>1. Len(quotes) \in Nat /\ day \in Nat
    BY DEF TypeOK
  <2>2. Empty \in Row
    BY <2>1 DEF Row, Empty
  <2>3. QED
    BY <2>1, <2>2 DEF Nothing, Payload
<1>1. CASE Tick
  <2>1. day' \in 1..MaxDays /\ period' \in 0..LastSession /\ day <= day' /\ day \in Nat /\ day' \in Nat
    BY <1>1 DEF Tick, TypeOK
  <2>2. UNCHANGED <<quotes, dayKey, cache, payload, high, base, up, status, restarts, pc,
                    reset, taken, built>>
    BY <1>1 DEF Tick
  <2>3. Row \subseteq Row' /\ Payload \subseteq Payload' /\ 0..day \subseteq (0..day)'
    BY <2>1, <2>2, Wider DEF TypeOK
  <2>4. quotes' \in Seq(Quote')
    <3>1. Quote \subseteq Quote'
      BY <2>1 DEF Quote
    <3>2. QED
      BY <2>2, <3>1 DEF TypeOK
  <2>5. odd' \subseteq {"blind", "crossed", "wiped", "late"}
    BY <1>1 DEF Tick, TypeOK
  <2>6. /\ cache' \in Payload' /\ payload' \in [Numbers -> Payload']
        /\ high' \in [Replicas -> Row'] /\ base' \in [Replicas -> (0..day)'] /\ dayKey' \in (0..day)'
    BY <2>2, <2>3 DEF TypeOK
  <2>7. QED
    BY <2>1, <2>2, <2>4, <2>5, <2>6 DEF TypeOK
<1>2. ASSUME NEW r \in Replicas, Rehydrate(r) PROVE TypeOK'
  <2>1. PICK s \in {0, period} :
           LET row == Elapsed(cache.row, s) IN
           /\ status' = [status EXCEPT ![r] = s] /\ high' = [high EXCEPT ![r] = row]
           /\ base' = [base EXCEPT ![r] = IF row = Empty THEN dayKey ELSE cache.base]
           /\ odd' = IF Blind(s) \/ Underway(r) THEN odd \cup {"blind"} ELSE odd
    BY <1>2 DEF Rehydrate
  <2>2. Elapsed(cache.row, s) \in Row
    BY DEF Elapsed, TypeOK, Payload, Row
  <2>3. dayKey \in 0..day /\ cache.base \in 0..day /\ s \in 0..LastSession
    BY DEF TypeOK, Payload
  <2>4. restarts' \in 0..MaxRestarts /\ up' \subseteq Replicas
    BY <1>2 DEF Rehydrate, TypeOK
  <2>5. /\ high' \in [Replicas -> Row] /\ status' \in [Replicas -> 0..LastSession]
        /\ base' \in [Replicas -> 0..day] /\ odd' \subseteq {"blind", "crossed", "wiped", "late"}
    BY <2>1, <2>2, <2>3 DEF TypeOK
  <2>6. UNCHANGED <<day, period, dayKey, cache, quotes, pc, reset, payload, taken, built>>
    BY <1>2 DEF Rehydrate
  <2>7. QED
    BY <2>4, <2>5, <2>6 DEF TypeOK, Row, Payload, Quote
<1>3. ASSUME NEW r \in Replicas, Crash(r) PROVE TypeOK'
  <2>1. /\ up' \subseteq Replicas /\ high' \in [Replicas -> Row] /\ base' \in [Replicas -> 0..day]
        /\ status' \in [Replicas -> 0..LastSession] /\ reset' \in [Numbers -> BOOLEAN]
    BY <1>3, <1>z DEF Crash, TypeOK
  <2>2. pc' \in [Numbers -> Places] /\ \A n \in Numbers : pc'[n] = "none" <=> pc[n] = "none"
    BY <1>3 DEF Crash, TypeOK, Places
  <2>3. UNCHANGED <<day, period, dayKey, cache, quotes, restarts, payload, taken, built, odd>>
    BY <1>3 DEF Crash
  <2>4. QED
    BY <2>1, <2>2, <2>3 DEF TypeOK, Row, Payload, Quote
<1>4. ASSUME NEW r \in Replicas, NEW p \in 1..MaxPrice, NEW d \in 1..day, Analyze(r, p, d)
      PROVE  TypeOK'
  <2> DEFINE n == Len(quotes) + 1
             q == [home |-> r, price |-> p, day |-> d]
  <2>1. /\ n <= MaxQuotes /\ quotes' = Append(quotes, q) /\ pc' = [pc EXCEPT ![n] = "checked"]
        /\ reset' = [reset EXCEPT ![n] = dayKey # d] /\ dayKey' = d
    BY <1>4 DEF Analyze
  <2>2. q \in Quote /\ quotes \in Seq(Quote) /\ Len(quotes) \in Nat
    BY DEF Quote, TypeOK
  <2> HIDE DEF q
  <2>3. quotes' \in Seq(Quote) /\ Len(quotes') = n
    BY <2>1, <2>2
  <2>4. n \in Numbers
    BY <2>1, <2>2 DEF Numbers
  <2>5. UNCHANGED <<day, period, cache, up, status, restarts, high, base, payload, taken, built>>
    BY <1>4 DEF Analyze
  <2>6. Row \subseteq Row' /\ Payload \subseteq Payload'
    BY <2>2, <2>3, <2>5, Wider DEF TypeOK
  <2>7. cache' \in Payload' /\ payload' \in [Numbers -> Payload'] /\ high' \in [Replicas -> Row']
    BY <2>5, <2>6 DEF TypeOK
  <2>8. pc' \in [Numbers -> Places] /\ \A k \in Numbers : pc'[k] # "none" <=> k <= Len(quotes')
    BY <2>1, <2>2, <2>3, <2>4 DEF TypeOK, Places, Numbers
  <2>9. reset' \in [Numbers -> BOOLEAN] /\ dayKey' \in 0..day
    BY <2>1, <2>4 DEF TypeOK
  <2>10. odd' \subseteq {"blind", "crossed", "wiped", "late"}
    BY <1>4 DEF Analyze, TypeOK
  <2>11. QED
    BY <2>1, <2>3, <2>5, <2>7, <2>8, <2>9, <2>10 DEF TypeOK, Quote
<1>5. ASSUME NEW n \in Numbers, Checked(n) PROVE TypeOK'
  <2> DEFINE r     == quotes[n].home
             row   == Cleared(n)
             since == IF reset[n] THEN DayOf(n) ELSE base[r]
  <2>1. /\ pc[n] = "checked" /\ reset' = [reset EXCEPT ![n] = FALSE]
        /\ \/ status[r] # 0 /\ Finish(n, status[r], row, since)
           \/ /\ high' = [high EXCEPT ![r] = row] /\ base' = [base EXCEPT ![r] = since]
              /\ pc' = [pc EXCEPT ![n] = "asked"] /\ UNCHANGED <<payload, built, taken>>
    BY <1>5 DEF Checked
  <2>2. r \in Replicas /\ DayOf(n) \in 1..day
    BY <2>1, Known
  <2>3. row \in Row /\ since \in 0..day /\ status[r] \in 0..LastSession
    BY <1>z, <2>2 DEF TypeOK, Cleared
  <2> HIDE DEF r, row, since
  <2>4. /\ high' \in [Replicas -> Row] /\ base' \in [Replicas -> 0..day]
        /\ payload' \in [Numbers -> Payload]
        /\ built' \in Nat /\ taken' \in [Numbers -> 0..LastSession]
        /\ pc' \in [Numbers -> Places] /\ \A k \in Numbers : pc'[k] = "none" <=> pc[k] = "none"
    <3>1. CASE Finish(n, status[r], row, since)
      BY <2>1, <2>3, <3>1, FinishTyped
    <3>2. CASE pc' = [pc EXCEPT ![n] = "asked"] /\ high' = [high EXCEPT ![r] = row]
               /\ base' = [base EXCEPT ![r] = since] /\ UNCHANGED <<payload, built, taken>>
      BY <2>1, <2>2, <2>3, <3>2 DEF TypeOK, Places
    <3>3. QED
      BY <2>1, <3>1, <3>2
  <2>5. reset' \in [Numbers -> BOOLEAN] /\ odd' \subseteq {"blind", "crossed", "wiped", "late"}
    BY <1>5, <2>1 DEF Checked, TypeOK
  <2>6. UNCHANGED <<day, period, dayKey, cache, up, status, restarts, quotes>>
    BY <1>5 DEF Checked
  <2>7. QED
    BY <2>4, <2>5, <2>6 DEF TypeOK, Row, Payload, Quote
<1>6. ASSUME NEW n \in Numbers, Answered(n) PROVE TypeOK'
  <2> DEFINE r == quotes[n].home
  <2>1. pc[n] = "asked"
    BY <1>6 DEF Answered
  <2>2. PICK s \in {period, status[r]} :
           status' = [status EXCEPT ![r] = s] /\ Finish(n, s, high[r], base[r])
    BY <1>6 DEF Answered
  <2>3. r \in Replicas
    BY <2>1, Known
  <2> HIDE DEF r
  <2>4. s \in 0..LastSession /\ high[r] \in Row /\ base[r] \in 0..day
    BY <2>3 DEF TypeOK
  <2>5. /\ high' \in [Replicas -> Row] /\ base' \in [Replicas -> 0..day]
        /\ payload' \in [Numbers -> Payload]
        /\ built' \in Nat /\ taken' \in [Numbers -> 0..LastSession]
        /\ pc' \in [Numbers -> Places] /\ \A k \in Numbers : pc'[k] = "none" <=> pc[k] = "none"
    BY <2>1, <2>2, <2>4, FinishTyped
  <2>6. status' \in [Replicas -> 0..LastSession]
    BY <2>2, <2>4 DEF TypeOK
  <2>7. UNCHANGED <<day, period, dayKey, cache, up, restarts, quotes, reset, odd>>
    BY <1>6 DEF Answered
  <2>8. QED
    BY <2>5, <2>6, <2>7 DEF TypeOK, Row, Payload, Quote
<1>7. ASSUME NEW n \in Numbers, CacheResult(n) \/ Abort(n) PROVE TypeOK'
  <2>1. /\ pc[n] # "none"
        /\ pc' = [pc EXCEPT ![n] = "done"] \/ pc' = [pc EXCEPT ![n] = "gone"]
        /\ payload' = [payload EXCEPT ![n] = Nothing]
        /\ cache' = payload[n] \/ cache' = cache
        /\ reset' = [reset EXCEPT ![n] = FALSE] \/ reset' = reset
        /\ odd' \subseteq odd \cup {"late"}
        /\ UNCHANGED <<day, period, dayKey, up, status, restarts, high, base, quotes,
                       taken, built>>
    BY <1>7 DEF CacheResult, Abort
  <2>2. pc' \in [Numbers -> Places] /\ \A k \in Numbers : pc'[k] = "none" <=> pc[k] = "none"
    BY <2>1 DEF TypeOK, Places
  <2>3. payload' \in [Numbers -> Payload] /\ cache' \in Payload
    BY <1>z, <2>1 DEF TypeOK
  <2>4. reset' \in [Numbers -> BOOLEAN] /\ odd' \subseteq {"blind", "crossed", "wiped", "late"}
    BY <2>1 DEF TypeOK
  <2>5. QED
    BY <2>1, <2>2, <2>3, <2>4 DEF TypeOK, Row, Payload, Quote
<1>8. CASE UNCHANGED vars
  BY <1>8 DEF vars, TypeOK, Row, Payload, Quote
<1>9. QED
  BY <1>1, <1>2, <1>3, <1>4, <1>5, <1>6, <1>7, <1>8 DEF Next, Task

\* Every variable keeps its type; the number of a value is that of a quote.
THEOREM TypeCorrect == Spec => []TypeOK
BY InitTyped, StepTyped, PTL DEF Spec

(***************************************************************************)
(* Freshness.  Until a quote straddles midnight the day key never goes     *)
(* back, a quote at work belongs to the day in force, and whatever is      *)
(* known to date from that day, in a memory, on its way or in the cache,   *)
(* consists of quotes of it.                                               *)
(***************************************************************************)
Dated(qs, row, d) == \A s \in Sessions : row[s] # 0 => qs[row[s]].day = d

Current == \A n \in Numbers : pc[n] \in {"checked", "asked"} => DayOf(n) = dayKey /\ dayKey = day
Past ==
    /\ \A r \in Replicas : base[r] <= dayKey
    /\ cache.base <= dayKey /\ \A n \in Numbers : payload[n].base <= dayKey
Fresh ==
    /\ \A r \in Replicas : base[r] = dayKey => Dated(quotes, high[r], dayKey)
    /\ cache.base = dayKey => Dated(quotes, cache.row, dayKey)
    /\ \A n \in Numbers : payload[n].base = dayKey => Dated(quotes, payload[n].row, dayKey)
Dating == Current /\ Past /\ Fresh
IInv   == TypeOK /\ ("crossed" \notin odd => Dating)

LEMMA EmptyDated == \A qs, d : Dated(qs, Empty, d) /\ Dated(qs, Nothing.row, d)
BY DEF Dated, Empty, Nothing

LEMMA InitDated == Init => Dating
<1> SUFFICES ASSUME Init PROVE Dating
  OBVIOUS
<1>1. Current
  BY DEF Init, Current
<1>2. Past
  BY DEF Init, Past, Nothing
<1>3. Fresh
  BY EmptyDated DEF Init, Fresh
<1>4. QED
  BY <1>1, <1>2, <1>3 DEF Dating

\* The quote that enters a row of the day it belongs to keeps it dated.
LEMMA UpdateDated ==
    ASSUME TypeOK, NEW n \in Numbers, NEW s \in 0..LastSession, NEW row \in Row,
           NEW d, DayOf(n) = d, Dated(quotes, row, d)
    PROVE  Dated(quotes, Update(n, s, row), d)
BY DEF Dated, Update, Row, Sessions, DayOf

\* A quote at work that is finished with a memory of its day, or of an earlier
\* one, leaves everything dated.
LEMMA FinishDated ==
    ASSUME TypeOK, Dating, NEW n \in Numbers, pc[n] \in {"checked", "asked"},
           NEW s \in 0..LastSession, NEW row \in Row, NEW since \in 0..day, since <= dayKey,
           since = dayKey => Dated(quotes, row, dayKey), Finish(n, s, row, since),
           UNCHANGED <<day, dayKey, cache, quotes>>
    PROVE  Dating'
<1> DEFINE r == quotes[n].home
           u == Update(n, s, row)
<1>1. r \in Replicas /\ DayOf(n) = dayKey
  BY Known DEF Dating, Current
<1>2. since = dayKey => Dated(quotes, u, dayKey)
  BY <1>1, UpdateDated
<1>3. /\ high' = [high EXCEPT ![r] = u] /\ base' = [base EXCEPT ![r] = since]
      /\ payload' = [payload EXCEPT ![n] = [row |-> u, base |-> since, nth |-> built + 1]]
      /\ pc' = [pc EXCEPT ![n] = "cache"]
  BY DEF Finish
<1> HIDE DEF r, u
<1>4. quotes' = quotes /\ dayKey' = dayKey /\ cache' = cache
  OBVIOUS
<1>5. Current'
  BY <1>3, <1>4 DEF Dating, Current, TypeOK, DayOf
<1>6. Past'
  <2>1. \A q \in Replicas : base'[q] = IF q = r THEN since ELSE base[q]
    BY <1>1, <1>3 DEF TypeOK
  <2>2. \A k \in Numbers : payload'[k].base = IF k = n THEN since ELSE payload[k].base
    BY <1>3 DEF TypeOK
  <2>3. QED
    BY <2>1, <2>2 DEF Dating, Past
<1>7. Fresh'
  <2>1. \A q \in Replicas : base'[q] = dayKey => Dated(quotes, high'[q], dayKey)
    BY <1>1, <1>2, <1>3 DEF Dating, Fresh, TypeOK
  <2>2. \A k \in Numbers : payload'[k].base = dayKey => Dated(quotes, payload'[k].row, dayKey)
    BY <1>2, <1>3 DEF Dating, Fresh, TypeOK
  <2>3. QED
    BY <1>4, <2>1, <2>2 DEF Dating, Fresh
<1>8. QED
  BY <1>5, <1>6, <1>7 DEF Dating

\* A row of the quotes known so far does not change its dates with a new one.
LEMMA AppendDated ==
    ASSUME TypeOK, NEW q, quotes' = Append(quotes, q), NEW row \in Row, NEW d, Dated(quotes, row, d)
    PROVE  Dated(quotes', row, d)
<1>1. \A k \in 1..Len(quotes) : quotes'[k] = quotes[k]
  BY DEF TypeOK
<1>2. \A s \in Sessions : row[s] # 0 => row[s] \in 1..Len(quotes)
  BY DEF Row, TypeOK
<1>3. QED
  BY <1>1, <1>2 DEF Dated

LEMMA StepDated ==
    ASSUME TypeOK, "crossed" \notin odd => Dating, [Next]_vars, "crossed" \notin odd'
    PROVE  Dating'
<1> USE DEF clock, redis, processes, tasks, history
<1>0. "crossed" \notin odd /\ Dating
  <2>1. odd \subseteq odd'
    BY DEF Next, Task, Tick, Rehydrate, Crash, Analyze, Checked, Answered, CacheResult, Abort, vars
  <2>2. QED
    BY <2>1
<1>1. CASE Tick
  <2>1. UNCHANGED <<quotes, dayKey, cache, payload, high, base, pc>> /\ (AtWork => UNCHANGED day)
    <3>1. CASE UNCHANGED day
      BY <1>1, <3>1 DEF Tick
    <3>2. CASE odd' = IF AtWork THEN odd \cup {"crossed"} ELSE odd
      BY <1>1, <3>2 DEF Tick
    <3>3. QED
      BY <1>1, <3>1, <3>2 DEF Tick
  <2>2. Current'
    BY <1>0, <2>1 DEF Dating, Current, AtWork, DayOf
  <2>3. Past' /\ Fresh'
    BY <1>0, <2>1 DEF Dating, Past, Fresh
  <2>4. QED
    BY <2>2, <2>3 DEF Dating
<1>2. ASSUME NEW r \in Replicas, Rehydrate(r) PROVE Dating'
  <2>1. PICK s \in {0, period} :
           LET row == Elapsed(cache.row, s) IN
           /\ high' = [high EXCEPT ![r] = row]
           /\ base' = [base EXCEPT ![r] = IF row = Empty THEN dayKey ELSE cache.base]
    BY <1>2 DEF Rehydrate
  <2> DEFINE row == Elapsed(cache.row, s)
             since == IF row = Empty THEN dayKey ELSE cache.base
  <2>2. UNCHANGED <<quotes, day, dayKey, cache, payload, pc>>
    BY <1>2 DEF Rehydrate
  <2>3. cache.base = dayKey => Dated(quotes, row, dayKey)
    BY <1>0 DEF Dating, Fresh, Dated, Elapsed
  <2>4. since = dayKey => Dated(quotes, row, dayKey)
    BY <2>3, EmptyDated
  <2>5. since <= dayKey
    BY <1>0 DEF Dating, Past, TypeOK
  <2>6. /\ \A q \in Replicas : base'[q] = IF q = r THEN since ELSE base[q]
        /\ \A q \in Replicas : high'[q] = IF q = r THEN row ELSE high[q]
    BY <2>1 DEF TypeOK
  <2> HIDE DEF row, since
  <2>7. Current'
    BY <1>0, <2>2 DEF Dating, Current, DayOf
  <2>8. Past'
    BY <1>0, <2>2, <2>5, <2>6 DEF Dating, Past
  <2>9. Fresh'
    BY <1>0, <2>2, <2>4, <2>6 DEF Dating, Fresh
  <2>10. QED
    BY <2>7, <2>8, <2>9 DEF Dating
<1>3. ASSUME NEW r \in Replicas, Crash(r) PROVE Dating'
  <2>1. /\ high' = [high EXCEPT ![r] = Empty] /\ base' = [base EXCEPT ![r] = 0]
        /\ UNCHANGED <<quotes, day, dayKey, cache, payload>>
    BY <1>3 DEF Crash
  <2>2. \A n \in Numbers : pc'[n] \in {"checked", "asked"} => pc[n] \in {"checked", "asked"}
    BY <1>3 DEF Crash
  <2>3. /\ \A q \in Replicas : base'[q] = IF q = r THEN 0 ELSE base[q]
        /\ \A q \in Replicas : high'[q] = IF q = r THEN Empty ELSE high[q]
    BY <2>1 DEF TypeOK
  <2>4. Current'
    BY <1>0, <2>1, <2>2 DEF Dating, Current, DayOf
  <2>5. Past'
    BY <1>0, <2>1, <2>3 DEF Dating, Past, TypeOK
  <2>6. Fresh'
    BY <1>0, <2>1, <2>3, EmptyDated DEF Dating, Fresh
  <2>7. QED
    BY <2>4, <2>5, <2>6 DEF Dating
<1>4. ASSUME NEW r \in Replicas, NEW p \in 1..MaxPrice, NEW d \in 1..day, Analyze(r, p, d)
      PROVE  Dating'
  <2> DEFINE n == Len(quotes) + 1
             q == [home |-> r, price |-> p, day |-> d]
  <2>1. /\ quotes' = Append(quotes, q) /\ pc' = [pc EXCEPT ![n] = "checked"]
        /\ dayKey' = d /\ UNCHANGED <<day, cache, high, base, payload>>
    BY <1>4 DEF Analyze
  <2>2. d = day /\ dayKey <= d
    BY <1>0, <1>4 DEF Analyze, TypeOK
  <2>3. quotes'[n] = q /\ \A k \in 1..Len(quotes) : quotes'[k] = quotes[k]
    BY <2>1 DEF TypeOK
  <2> HIDE DEF q
  <2>4. Current'
    <3>1. ASSUME NEW k \in Numbers, pc'[k] \in {"checked", "asked"} PROVE quotes'[k].day = d
      <4>1. CASE k = n
        BY <2>3, <4>1 DEF q
      <4>2. CASE k # n
        <5>1. pc[k] \in {"checked", "asked"}
          BY <2>1, <3>1, <4>2 DEF TypeOK
        <5>2. k \in 1..Len(quotes) /\ DayOf(k) = dayKey /\ dayKey = day
          BY <1>0, <5>1, Known DEF Dating, Current
        <5>3. QED
          BY <2>2, <2>3, <5>2 DEF DayOf
      <4>3. QED
        BY <4>1, <4>2
    <3>2. QED
      BY <2>1, <2>2, <3>1 DEF Current, DayOf
  <2>5. Past'
    BY <1>0, <2>1, <2>2 DEF Dating, Past, TypeOK, Payload
  <2>6. Fresh'
    <3>1. CASE d = dayKey
      <4>1. /\ \A s \in Replicas : high[s] \in Row
            /\ cache.row \in Row /\ \A k \in Numbers : payload[k].row \in Row
        BY DEF TypeOK, Payload
      <4>2. \A w \in Row : Dated(quotes, w, dayKey) => Dated(quotes', w, dayKey)
        BY <2>1, AppendDated
      <4>3. QED
        BY <1>0, <2>1, <3>1, <4>1, <4>2 DEF Dating, Fresh
    <3>2. CASE d # dayKey
      <4>1. /\ \A s \in Replicas : base[s] # d
            /\ cache.base # d /\ \A k \in Numbers : payload[k].base # d
        BY <1>0, <2>2, <3>2 DEF Dating, Past, TypeOK, Payload
      <4>2. QED
        BY <2>1, <4>1 DEF Fresh
    <3>3. QED
      BY <3>1, <3>2
  <2>7. QED
    BY <2>4, <2>5, <2>6 DEF Dating
<1>5. ASSUME NEW n \in Numbers, Checked(n) PROVE Dating'
  <2> DEFINE r     == quotes[n].home
             row   == Cleared(n)
             since == IF reset[n] THEN DayOf(n) ELSE base[r]
  <2>1. /\ pc[n] = "checked" /\ UNCHANGED <<day, dayKey, cache, quotes>>
        /\ \/ status[r] # 0 /\ Finish(n, status[r], row, since)
           \/ /\ high' = [high EXCEPT ![r] = row] /\ base' = [base EXCEPT ![r] = since]
              /\ pc' = [pc EXCEPT ![n] = "asked"] /\ UNCHANGED payload
    BY <1>5 DEF Checked
  <2>2. r \in Replicas /\ DayOf(n) = dayKey /\ DayOf(n) \in 0..day
    BY <1>0, <2>1, Known DEF Dating, Current
  <2>3. status[r] \in 0..LastSession /\ since \in 0..day /\ since <= dayKey
    BY <1>0, <2>2 DEF Dating, Past, TypeOK
  <2>4. row \in Row
    <3>1. Empty \in Row
      BY DEF Row, Empty, TypeOK
    <3>2. QED
      BY <2>2, <3>1 DEF TypeOK, Cleared
  <2>5. since = dayKey => Dated(quotes, row, dayKey)
    BY <1>0, <2>2, EmptyDated DEF Dating, Fresh, Cleared
  <2> HIDE DEF r, row, since
  <2>6. CASE Finish(n, status[r], row, since)
    BY <1>0, <2>1, <2>3, <2>4, <2>5, <2>6, FinishDated
  <2>7. CASE /\ high' = [high EXCEPT ![r] = row] /\ base' = [base EXCEPT ![r] = since]
             /\ pc' = [pc EXCEPT ![n] = "asked"] /\ UNCHANGED payload
    <3>1. /\ \A q \in Replicas : base'[q] = IF q = r THEN since ELSE base[q]
          /\ \A q \in Replicas : high'[q] = IF q = r THEN row ELSE high[q]
      BY <2>7 DEF TypeOK
    <3>2. Current'
      BY <1>0, <2>1, <2>2, <2>7 DEF Dating, Current, TypeOK, DayOf
    <3>3. Past'
      BY <1>0, <2>1, <2>3, <2>7, <3>1 DEF Dating, Past
    <3>4. Fresh'
      BY <1>0, <2>1, <2>5, <2>7, <3>1 DEF Dating, Fresh
    <3>5. QED
      BY <3>2, <3>3, <3>4 DEF Dating
  <2>8. QED
    BY <2>1, <2>6, <2>7
<1>6. ASSUME NEW n \in Numbers, Answered(n) PROVE Dating'
  <2> DEFINE r == quotes[n].home
  <2>1. pc[n] = "asked" /\ UNCHANGED <<day, dayKey, cache, quotes>>
    BY <1>6 DEF Answered
  <2>2. PICK s \in {period, status[r]} : Finish(n, s, high[r], base[r])
    BY <1>6 DEF Answered
  <2>3. r \in Replicas
    BY <2>1, Known
  <2>4. /\ s \in 0..LastSession /\ high[r] \in Row /\ base[r] \in 0..day /\ base[r] <= dayKey
        /\ base[r] = dayKey => Dated(quotes, high[r], dayKey)
    BY <1>0, <2>3 DEF TypeOK, Dating, Past, Fresh
  <2> HIDE DEF r
  <2>5. QED
    BY <1>0, <2>1, <2>2, <2>4, FinishDated
<1>7. ASSUME NEW n \in Numbers, CacheResult(n) \/ Abort(n) PROVE Dating'
  <2>1. /\ pc' = [pc EXCEPT ![n] = "done"] \/ pc' = [pc EXCEPT ![n] = "gone"]
        /\ payload' = [payload EXCEPT ![n] = Nothing]
        /\ cache' = payload[n] \/ cache' = cache
        /\ UNCHANGED <<day, dayKey, high, base, quotes>>
    BY <1>7 DEF CacheResult, Abort
  <2>2. \A k \in Numbers : payload'[k] = IF k = n THEN Nothing ELSE payload[k]
    BY <2>1 DEF TypeOK
  <2>3. Current'
    BY <1>0, <2>1 DEF Dating, Current, TypeOK, DayOf
  <2>4. Past'
    BY <1>0, <2>1, <2>2 DEF Dating, Past, TypeOK, Nothing
  <2>5. Fresh'
    BY <1>0, <2>1, <2>2, EmptyDated DEF Dating, Fresh
  <2>6. QED
    BY <2>3, <2>4, <2>5 DEF Dating
<1>8. CASE UNCHANGED vars
  BY <1>0, <1>8 DEF vars, Dating, Current, Past, Fresh, DayOf
<1>9. QED
  BY <1>1, <1>2, <1>3, <1>4, <1>5, <1>6, <1>7, <1>8 DEF Next, Task

\* A memory known to date from the day in force holds values of that day only,
\* through restarts, lost memories and failing status queries.
THEOREM FreshMemory == Spec => []FreshUnlessLost
<1>1. Init => IInv
  BY InitTyped, InitDated DEF IInv
<1>2. IInv /\ [Next]_vars => IInv'
  BY StepTyped, StepDated DEF IInv
<1>3. IInv => FreshUnlessLost
  BY DEF IInv, TypeOK, Dating, Fresh, Dated, FreshUnlessLost, DayOf
<1>4. QED
  BY <1>1, <1>2, <1>3, PTL DEF Spec

(***************************************************************************)
(* Coverage, where one replica analyses everything.  A price that counted  *)
(* is covered by the memory of the replica while it is up, once published  *)
(* by the cache, and by every payload on its way that is not older than    *)
(* its own.  A restart brings back the cache's row and a payload replaces  *)
(* it, so none of the three is preserved without the others.               *)
(***************************************************************************)
Covers(qs, row, s, n) == row[s] # 0 /\ qs[row[s]].price >= qs[n].price
Counts(n) == taken[n] # 0 /\ DayOf(n) = dayKey
OneHome   == \A i, j \in 1..Len(quotes) : quotes[i].home = quotes[j].home

Begun ==
    /\ \A n \in Numbers : pc[n] = "none" => taken[n] = 0
    /\ \A n \in Numbers : pc[n] \in {"checked", "asked"} => taken[n] = 0 /\ quotes[n].home \in up
    /\ \A n \in Numbers : pc[n] = "cache" => payload[n].nth <= built
Behind == \A n \in Numbers : pc[n] # "none" => DayOf(n) <= dayKey

Remembered ==
    \A n \in Numbers : pc[n] \in {"cache", "done"} /\ Counts(n) /\ quotes[n].home \in up
        => Covers(quotes, high[quotes[n].home], taken[n], n)
Cached ==
    \A n \in Numbers : pc[n] = "done" /\ Counts(n) => Covers(quotes, cache.row, taken[n], n)
InTurn ==
    \A m, n \in Numbers :
        /\ pc[m] = "cache" /\ Counts(n)
        /\ \/ pc[n] = "cache" /\ payload[n].nth <= payload[m].nth
           \/ pc[n] = "done" /\ cache.nth <= payload[m].nth
        => Covers(quotes, payload[m].row, taken[n], n)
Coverage == Remembered /\ Cached /\ InTurn
CovInv   == Begun /\ ("crossed" \notin odd => Behind) /\ (odd = {} /\ OneHome => Coverage)

\* What has happened stays in the history.
LEMMA OddGrows == [Next]_vars => odd \subseteq odd'
BY DEF Next, Task, Tick, Rehydrate, Crash, Analyze, Checked, Answered, CacheResult, Abort, vars,
       history

LEMMA InitCovered == Init => CovInv
BY DEF Init, CovInv, Begun, Behind, Coverage, Remembered, Cached, InTurn, Numbers

\* The price that enters a row is covered by it, and what was covered still is.
LEMMA UpdateCovers ==
    ASSUME TypeOK, NEW n \in Numbers, pc[n] # "none", NEW s \in 0..LastSession, NEW row \in Row
    PROVE  /\ s # 0 => Covers(quotes, Update(n, s, row), s, n)
           /\ \A k \in Numbers, t \in Sessions :
                 pc[k] # "none" /\ Covers(quotes, row, t, k)
                   => Covers(quotes, Update(n, s, row), t, k)
<1>1. n # 0 /\ quotes[n].price \in 1..MaxPrice
  BY Known DEF Numbers
<1>2. \A t \in Sessions : row[t] # 0 => row[t] \in Numbers /\ pc[row[t]] # "none"
  BY DEF Row, TypeOK, Numbers
<1>3. \A k \in Numbers : pc[k] # "none" => quotes[k].price \in 1..MaxPrice
  BY Known
<1>4. s # 0 => s \in Sessions
  BY DEF Sessions
<1>5. CASE s # 0 /\ quotes[n].price > PriceOf(row[s])
  <2>1. Update(n, s, row) = [row EXCEPT ![s] = n]
    BY <1>5 DEF Update
  <2>2. Update(n, s, row)[s] = n /\ \A t \in Sessions \ {s} : Update(n, s, row)[t] = row[t]
    BY <1>4, <1>5, <2>1 DEF Row
  <2>3. Covers(quotes, Update(n, s, row), s, n)
    BY <1>1, <2>2 DEF Covers
  <2>4. ASSUME NEW k \in Numbers, pc[k] # "none", Covers(quotes, row, s, k)
        PROVE  Covers(quotes, Update(n, s, row), s, k)
    <3>1. quotes[n].price > quotes[row[s]].price /\ quotes[row[s]].price >= quotes[k].price
      BY <1>5, <2>4 DEF Covers, PriceOf
    <3>2. quotes[row[s]].price \in Int /\ quotes[k].price \in Int /\ quotes[n].price \in Int
      BY <1>1, <1>2, <1>3, <1>4, <1>5, <2>4 DEF Covers
    <3>3. quotes[n].price >= quotes[k].price
      BY <3>1, <3>2
    <3>4. QED
      BY <1>1, <2>2, <3>3 DEF Covers
  <2>5. QED
    BY <2>2, <2>3, <2>4 DEF Covers
<1>6. CASE s # 0 /\ ~(quotes[n].price > PriceOf(row[s]))
  <2>1. Update(n, s, row) = row
    BY <1>6 DEF Update
  <2>2. row[s] # 0
    BY <1>1, <1>6 DEF PriceOf
  <2>3. quotes[row[s]].price >= quotes[n].price
    BY <1>1, <1>2, <1>3, <1>4, <1>6, <2>2 DEF PriceOf
  <2>4. QED
    BY <2>1, <2>2, <2>3 DEF Covers
<1>7. CASE s = 0
  BY <1>7 DEF Update
<1>8. QED
  BY <1>5, <1>6, <1>7

LEMMA StepBegun ==
    ASSUME TypeOK, TypeOK', Begun, [Next]_vars
    PROVE  Begun'
<1> USE DEF clock, redis, processes, tasks, history
<1>1. CASE Tick \/ UNCHANGED vars
  BY <1>1 DEF Tick, vars, Begun
<1>2. ASSUME NEW r \in Replicas, Rehydrate(r) PROVE Begun'
  BY <1>2 DEF Rehydrate, Begun
<1>3. ASSUME NEW r \in Replicas, Crash(r) PROVE Begun'
  <2>1. /\ up' = up \ {r} /\ UNCHANGED <<quotes, payload, taken, built>>
        /\ pc' = [n \in Numbers |->
                    IF n <= Len(quotes) /\ quotes[n].home = r /\ pc[n] \in {"checked", "asked"}
                    THEN "gone" ELSE pc[n]]
    BY <1>3 DEF Crash
  <2>2. \A n \in Numbers : pc[n] # "none" => n <= Len(quotes)
    BY DEF TypeOK
  <2>3. QED
    BY <2>1, <2>2 DEF Begun
<1>4. ASSUME NEW r \in Replicas, NEW p \in 1..MaxPrice, NEW d \in 1..day, Analyze(r, p, d)
      PROVE  Begun'
  <2> DEFINE n == Len(quotes) + 1
             q == [home |-> r, price |-> p, day |-> d]
  <2>1. /\ n <= MaxQuotes /\ quotes' = Append(quotes, q) /\ pc' = [pc EXCEPT ![n] = "checked"]
        /\ r \in up /\ UNCHANGED <<up, payload, taken, built>>
    BY <1>4 DEF Analyze
  <2>2. quotes'[n] = q /\ \A k \in 1..Len(quotes) : quotes'[k] = quotes[k]
    BY <2>1 DEF TypeOK
  <2>3. n \in Numbers /\ pc[n] = "none"
    BY <2>1 DEF Numbers, TypeOK
  <2>4. \A k \in Numbers \ {n} : pc'[k] = pc[k] /\ (pc[k] # "none" => k \in 1..Len(quotes))
    BY <2>1, Known DEF TypeOK
  <2>5. pc'[n] = "checked" /\ quotes'[n].home = r /\ taken[n] = 0
    BY <2>1, <2>2, <2>3 DEF TypeOK, Begun
  <2>6. QED
    BY <2>1, <2>2, <2>4, <2>5 DEF Begun
<1>5. ASSUME NEW n \in Numbers, NEW s, NEW row, NEW since, pc[n] # "none",
             Finish(n, s, row, since), UNCHANGED <<quotes, up>>
      PROVE  Begun'
  <2>1. /\ pc' = [pc EXCEPT ![n] = "cache"] /\ taken' = [taken EXCEPT ![n] = s]
        /\ payload' = [payload EXCEPT ![n] = [row |-> Update(n, s, row), base |-> since,
                                              nth |-> built + 1]]
        /\ built' = built + 1
    BY <1>5 DEF Finish
  <2>2. pc'[n] = "cache" /\ payload'[n].nth = built + 1
    BY <2>1 DEF TypeOK
  <2>3. \A k \in Numbers \ {n} : pc'[k] = pc[k] /\ taken'[k] = taken[k] /\ payload'[k] = payload[k]
    BY <2>1 DEF TypeOK
  <2>4. built \in Nat /\ \A k \in Numbers : payload[k].nth \in Nat
    BY DEF TypeOK, Payload
  <2>5. QED
    BY <1>5, <2>1, <2>2, <2>3, <2>4 DEF Begun
<1>6. ASSUME NEW n \in Numbers, Checked(n) PROVE Begun'
  <2>1. pc[n] = "checked" /\ UNCHANGED <<quotes, up>>
    BY <1>6 DEF Checked
  <2>2. CASE pc' = [pc EXCEPT ![n] = "asked"] /\ UNCHANGED <<payload, built, taken>>
    BY <2>1, <2>2 DEF Begun, TypeOK
  <2>3. QED
    BY <1>5, <1>6, <2>1, <2>2 DEF Checked
<1>7. ASSUME NEW n \in Numbers, Answered(n) PROVE Begun'
  BY <1>5, <1>7 DEF Answered
<1>8. ASSUME NEW n \in Numbers, CacheResult(n) \/ Abort(n) PROVE Begun'
  <2>1. /\ pc' = [pc EXCEPT ![n] = "done"] \/ pc' = [pc EXCEPT ![n] = "gone"]
        /\ payload' = [payload EXCEPT ![n] = Nothing]
        /\ UNCHANGED <<quotes, up, taken, built>>
    BY <1>8 DEF CacheResult, Abort
  <2>2. QED
    BY <2>1 DEF Begun, TypeOK
<1>9. QED
  BY <1>1, <1>2, <1>3, <1>4, <1>6, <1>7, <1>8 DEF Next, Task

\* The day key never goes back, until a quote straddles midnight.
LEMMA StepBehind ==
    ASSUME TypeOK, TypeOK', Dating, Behind, [Next]_vars, "crossed" \notin odd'
    PROVE  Behind'
<1> USE DEF clock, redis, processes, tasks, history
<1>1. ASSUME NEW r \in Replicas, NEW p \in 1..MaxPrice, NEW d \in 1..day, Analyze(r, p, d)
      PROVE  Behind'
  <2> DEFINE n == Len(quotes) + 1
             q == [home |-> r, price |-> p, day |-> d]
  <2>1. /\ quotes' = Append(quotes, q) /\ pc' = [pc EXCEPT ![n] = "checked"] /\ dayKey' = d
        /\ d = day
    BY <1>1 DEF Analyze
  <2>2. quotes'[n] = q /\ \A k \in 1..Len(quotes) : quotes'[k] = quotes[k]
    BY <2>1 DEF TypeOK
  <2>3. dayKey <= d
    BY <2>1 DEF TypeOK
  <2>4. ASSUME NEW k \in Numbers, pc'[k] # "none", k # n PROVE quotes'[k].day <= d
    <3>1. pc[k] # "none"
      BY <2>1, <2>4 DEF TypeOK
    <3>2. k \in 1..Len(quotes) /\ DayOf(k) \in 1..day /\ DayOf(k) <= dayKey
      BY <3>1, Known DEF Behind
    <3>3. dayKey \in Int
      BY DEF TypeOK
    <3>4. QED
      BY <2>2, <2>3, <3>2, <3>3 DEF DayOf
  <2>5. quotes'[n].day <= d
    BY <2>2
  <2>6. QED
    BY <2>1, <2>4, <2>5 DEF Behind, DayOf
<1>2. ASSUME UNCHANGED <<quotes, dayKey>>, \A n \in Numbers : pc[n] = "none" => pc'[n] = "none"
      PROVE  Behind'
  BY <1>2 DEF Behind, DayOf
<1>3. CASE Tick \/ UNCHANGED vars
  BY <1>2, <1>3 DEF Tick, vars
<1>4. ASSUME NEW r \in Replicas, Rehydrate(r) \/ Crash(r) PROVE Behind'
  BY <1>2, <1>4 DEF Rehydrate, Crash
<1>5. ASSUME NEW n \in Numbers, Task(n) PROVE Behind'
  <2>1. UNCHANGED <<quotes, dayKey>> /\ pc[n] # "none"
    BY <1>5 DEF Task, Checked, Answered, CacheResult, Abort
  <2>2. \E p \in Places : pc' = [pc EXCEPT ![n] = p]
    BY <1>5 DEF Task, Checked, Answered, CacheResult, Abort, Finish, Places
  <2>3. QED
    BY <1>2, <2>1, <2>2 DEF TypeOK
<1>6. QED
  BY <1>1, <1>3, <1>4, <1>5 DEF Next

\* A quote that counted is known, and its session is one.
LEMMA Counting ==
    ASSUME TypeOK, Begun, NEW n \in Numbers, Counts(n)
    PROVE  pc[n] # "none" /\ taken[n] \in Sessions /\ n \in 1..Len(quotes)
<1>1. pc[n] # "none" /\ taken[n] \in Sessions
  BY DEF TypeOK, Begun, Counts, Sessions
<1>2. QED
  BY <1>1, Known

\* A memory that covers what counted so far goes on to, and so does the payload
\* built from it.
LEMMA FinishCovers ==
    ASSUME TypeOK, Begun, Coverage, OneHome, NEW n \in Numbers, pc[n] \in {"checked", "asked"},
           NEW s \in 0..LastSession, NEW row \in Row, NEW since, Finish(n, s, row, since),
           \A k \in Numbers : pc[k] \in {"cache", "done"} /\ Counts(k)
             => Covers(quotes, row, taken[k], k),
           UNCHANGED <<dayKey, cache, quotes, up>>
    PROVE  Coverage'
<1> DEFINE r == quotes[n].home
           u == Update(n, s, row)
<1>1. r \in Replicas /\ taken[n] = 0 /\ pc[n] # "none"
  BY Known DEF Begun
<1>2. /\ high' = [high EXCEPT ![r] = u]
      /\ payload' = [payload EXCEPT ![n] = [row |-> u, base |-> since, nth |-> built + 1]]
      /\ taken' = [taken EXCEPT ![n] = s] /\ pc' = [pc EXCEPT ![n] = "cache"]
  BY DEF Finish
<1>3. /\ pc'[n] = "cache" /\ taken'[n] = s /\ high'[r] = u
      /\ payload'[n].row = u /\ payload'[n].nth = built + 1
  BY <1>1, <1>2 DEF TypeOK
<1>4. \A k \in Numbers \ {n} : pc'[k] = pc[k] /\ taken'[k] = taken[k] /\ payload'[k] = payload[k]
  BY <1>2 DEF TypeOK
<1>5. \A k \in Numbers \ {n} : Counts(k)' <=> Counts(k)
  BY <1>4 DEF Counts, DayOf
<1>6. \A k \in Numbers : pc'[k] \in {"cache", "done"} /\ Counts(k)'
        => Covers(quotes, u, taken'[k], k)
  <2>1. s # 0 => Covers(quotes, u, s, n)
    BY <1>1, UpdateCovers
  <2>2. \A k \in Numbers, t \in Sessions :
           pc[k] # "none" /\ Covers(quotes, row, t, k) => Covers(quotes, u, t, k)
    BY <1>1, UpdateCovers
  <2>3. Counts(n)' => s # 0
    BY <1>3 DEF Counts
  <2>4. ASSUME NEW k \in Numbers \ {n}, pc'[k] \in {"cache", "done"}, Counts(k)'
        PROVE  Covers(quotes, u, taken'[k], k)
    <3>1. pc[k] \in {"cache", "done"} /\ Counts(k) /\ taken'[k] = taken[k]
      BY <1>4, <1>5, <2>4
    <3>2. Covers(quotes, row, taken[k], k) /\ taken[k] \in Sessions /\ pc[k] # "none"
      BY <3>1, Counting
    <3>3. QED
      BY <2>2, <3>1, <3>2
  <2>5. QED
    BY <1>3, <2>1, <2>3, <2>4
<1> HIDE DEF u
<1>7. \A k \in Numbers : pc'[k] # "none" /\ Counts(k)' => quotes[k].home = r
  <2>1. \A k \in Numbers : Counts(k) \/ k = n => k \in 1..Len(quotes)
    BY <1>1, Counting, Known
  <2>2. QED
    BY <1>5, <2>1 DEF OneHome
<1>8. Remembered'
  BY <1>3, <1>6, <1>7 DEF Remembered
<1>9. Cached'
  BY <1>3, <1>4, <1>5 DEF Coverage, Cached
<1>10. InTurn'
  <2>1. ASSUME NEW m \in Numbers, NEW k \in Numbers, pc'[m] = "cache", Counts(k)',
               \/ pc'[k] = "cache" /\ payload'[k].nth <= payload'[m].nth
               \/ pc'[k] = "done" /\ cache.nth <= payload'[m].nth
        PROVE  Covers(quotes, payload'[m].row, taken'[k], k)
    <3>1. CASE m = n
      BY <1>3, <1>6, <2>1, <3>1
    <3>2. CASE m # n /\ k = n
      <4>1. built + 1 <= payload[m].nth /\ pc[m] = "cache"
        BY <1>3, <1>4, <2>1, <3>2
      <4>2. payload[m].nth <= built /\ built \in Nat /\ payload[m].nth \in Nat
        BY <4>1 DEF Begun, TypeOK, Payload
      <4>3. QED
        BY <4>1, <4>2
    <3>3. CASE m # n /\ k # n
      BY <1>4, <1>5, <2>1, <3>3 DEF Coverage, InTurn
    <3>4. QED
      BY <3>1, <3>2, <3>3
  <2>2. QED
    BY <2>1 DEF InTurn
<1>11. QED
  BY <1>8, <1>9, <1>10 DEF Coverage

\* A restart that finds a session begun for every value of the cache brings all
\* of them back.
LEMMA RehydrateCovers ==
    ASSUME TypeOK, Begun, Coverage, OneHome, NEW r \in Replicas, Rehydrate(r), odd' = {}
    PROVE  Coverage'
<1>1. PICK s \in {0, period} :
         /\ high' = [high EXCEPT ![r] = Elapsed(cache.row, s)]
         /\ odd' = IF Blind(s) \/ Underway(r) THEN odd \cup {"blind"} ELSE odd
  BY DEF Rehydrate
<1>2. ~Blind(s) /\ ~Underway(r)
  BY <1>1
<1>3. up' = up \cup {r} /\ UNCHANGED <<dayKey, cache, quotes, pc, payload, taken>>
  BY DEF Rehydrate, clock, redis, tasks
<1>4. Elapsed(cache.row, s) = cache.row
  <2>1. s \in Int /\ cache.row \in [Sessions -> 0..Len(quotes)] /\ \A k \in Sessions : k \in Int
    BY DEF TypeOK, Payload, Row, Sessions
  <2>2. \A k \in Sessions : k > s => cache.row[k] = 0
    BY <1>2 DEF Blind
  <2>3. QED
    BY <2>1, <2>2 DEF Elapsed
<1>5. \A n \in Numbers : Counts(n)' <=> Counts(n)
  BY <1>3 DEF Counts, DayOf
<1>6. Cached' /\ InTurn'
  BY <1>3, <1>5 DEF Coverage, Cached, InTurn
<1>7. Remembered'
  <2>1. ASSUME NEW n \in Numbers, pc[n] \in {"cache", "done"}, Counts(n), quotes[n].home \in up'
        PROVE  Covers(quotes, high'[quotes[n].home], taken[n], n)
    <3>1. CASE quotes[n].home = r
      <4>1. high'[r] = cache.row
        BY <1>1, <1>4 DEF TypeOK
      <4>2. pc[n] # "cache"
        BY <1>2, <2>1, <3>1, Counting DEF Underway
      <4>3. QED
        BY <2>1, <3>1, <4>1, <4>2 DEF Coverage, Cached
    <3>2. CASE quotes[n].home # r
      <4>1. quotes[n].home \in up /\ quotes[n].home \in Replicas
        BY <1>3, <2>1, <3>2 DEF TypeOK
      <4>2. high'[quotes[n].home] = high[quotes[n].home]
        BY <1>1, <3>2, <4>1 DEF TypeOK
      <4>3. QED
        BY <2>1, <4>1, <4>2 DEF Coverage, Remembered
    <3>3. QED
      BY <3>1, <3>2
  <2>2. QED
    BY <1>3, <1>5, <2>1 DEF Remembered
<1>8. QED
  BY <1>6, <1>7 DEF Coverage

LEMMA CrashCovers ==
    ASSUME TypeOK, Coverage, NEW r \in Replicas, Crash(r)
    PROVE  Coverage'
<1>1. /\ up' = up \ {r} /\ high' = [high EXCEPT ![r] = Empty]
      /\ UNCHANGED <<dayKey, cache, quotes, payload, taken>>
  BY DEF Crash, redis, history
<1>2. \A n \in Numbers : /\ pc'[n] = "cache" => pc[n] = "cache"
                         /\ pc'[n] = "done" => pc[n] = "done"
  BY DEF Crash
<1>3. \A n \in Numbers : Counts(n)' <=> Counts(n)
  BY <1>1 DEF Counts, DayOf
<1>4. Cached' /\ InTurn'
  BY <1>1, <1>2, <1>3 DEF Coverage, Cached, InTurn
<1>5. \A q \in up' : high'[q] = high[q] /\ q \in up
  BY <1>1 DEF TypeOK
<1>6. Remembered'
  BY <1>1, <1>2, <1>3, <1>5 DEF Coverage, Remembered
<1>7. QED
  BY <1>4, <1>6 DEF Coverage

\* A new quote, of the day in force or of the next one, which no quote counted
\* for yet.
LEMMA AnalyzeCovers ==
    ASSUME TypeOK, Begun, Behind, Coverage, NEW r \in Replicas, NEW p \in 1..MaxPrice,
           NEW d \in 1..day, Analyze(r, p, d), odd' = {}
    PROVE  Coverage'
<1> DEFINE n == Len(quotes) + 1
           q == [home |-> r, price |-> p, day |-> d]
<1>1. /\ n <= MaxQuotes /\ quotes' = Append(quotes, q) /\ pc' = [pc EXCEPT ![n] = "checked"]
      /\ dayKey' = d /\ d = day /\ UNCHANGED <<up, cache, high, payload, taken>>
  BY DEF Analyze, processes
<1>2. \A k \in 1..Len(quotes) : quotes'[k] = quotes[k]
  BY <1>1 DEF TypeOK
<1>3. n \in Numbers /\ pc[n] = "none" /\ pc'[n] = "checked"
  BY <1>1 DEF Numbers, TypeOK
<1>4. \A k \in Numbers \ {n} : pc'[k] = pc[k]
  BY <1>1 DEF TypeOK
<1>5. ASSUME NEW k \in Numbers, k # n, Counts(k)'
      PROVE  Counts(k) /\ pc[k] # "none" /\ k \in 1..Len(quotes)
  <2>1. taken[k] # 0
    BY <1>1, <1>5 DEF Counts
  <2>2. pc[k] # "none"
    BY <2>1 DEF Begun
  <2>3. k \in 1..Len(quotes) /\ DayOf(k) <= dayKey /\ DayOf(k) \in 1..day
    BY <2>2, Known DEF Behind
  <2>4. DayOf(k) = d
    BY <1>1, <1>2, <1>5, <2>3 DEF Counts, DayOf
  <2>5. dayKey <= d /\ dayKey \in Int /\ d \in Int
    BY <1>1 DEF TypeOK
  <2>6. DayOf(k) = dayKey
    BY <2>3, <2>4, <2>5
  <2>7. QED
    BY <2>1, <2>2, <2>3, <2>6 DEF Counts
<1>6. ASSUME NEW k \in 1..Len(quotes), NEW row \in Row, NEW s \in Sessions,
             Covers(quotes, row, s, k)
      PROVE  Covers(quotes', row, s, k)
  <2>1. row[s] \in 1..Len(quotes)
    BY <1>6 DEF Covers, Row, TypeOK
  <2>2. QED
    BY <1>2, <1>6, <2>1 DEF Covers
<1>7. \A k \in Numbers : Counts(k) => taken[k] \in Sessions
  BY Counting
<1>8. /\ cache.row \in Row /\ \A k \in Numbers : payload[k].row \in Row
      /\ \A v \in Replicas : high[v] \in Row
  BY DEF TypeOK, Payload
<1> HIDE DEF n, q
<1>9. Remembered'
  <2>1. ASSUME NEW k \in Numbers, pc'[k] \in {"cache", "done"}, Counts(k)', quotes'[k].home \in up
        PROVE  Covers(quotes', high[quotes'[k].home], taken[k], k)
    <3>1. k # n /\ Counts(k) /\ k \in 1..Len(quotes) /\ pc[k] = pc'[k] /\ taken[k] \in Sessions
      BY <1>3, <1>4, <1>5, <1>7, <2>1
    <3>2. quotes'[k].home = quotes[k].home /\ quotes[k].home \in Replicas
      BY <1>2, <2>1, <3>1 DEF TypeOK
    <3>3. Covers(quotes, high[quotes[k].home], taken[k], k)
      BY <2>1, <3>1, <3>2 DEF Coverage, Remembered
    <3>4. QED
      BY <1>6, <1>8, <3>1, <3>2, <3>3
  <2>2. QED
    BY <1>1, <2>1 DEF Remembered
<1>10. Cached'
  <2>1. ASSUME NEW k \in Numbers, pc'[k] = "done", Counts(k)'
        PROVE  Covers(quotes', cache.row, taken[k], k)
    <3>1. k # n /\ Counts(k) /\ k \in 1..Len(quotes) /\ pc[k] = "done" /\ taken[k] \in Sessions
      BY <1>3, <1>4, <1>5, <1>7, <2>1
    <3>2. QED
      BY <1>6, <1>8, <3>1 DEF Coverage, Cached
  <2>2. QED
    BY <1>1, <2>1 DEF Cached
<1>11. InTurn'
  <2>1. ASSUME NEW m \in Numbers, NEW k \in Numbers, pc'[m] = "cache", Counts(k)',
               \/ pc'[k] = "cache" /\ payload[k].nth <= payload[m].nth
               \/ pc'[k] = "done" /\ cache.nth <= payload[m].nth
        PROVE  Covers(quotes', payload[m].row, taken[k], k)
    <3>1. k # n /\ Counts(k) /\ k \in 1..Len(quotes) /\ pc[k] = pc'[k] /\ taken[k] \in Sessions
      BY <1>3, <1>4, <1>5, <1>7, <2>1
    <3>2. pc[m] = "cache"
      BY <1>3, <1>4, <2>1
    <3>3. Covers(quotes, payload[m].row, taken[k], k)
      BY <2>1, <3>1, <3>2 DEF Coverage, InTurn
    <3>4. QED
      BY <1>6, <1>8, <3>1, <3>3
  <2>2. QED
    BY <1>1, <2>1 DEF InTurn
<1>12. QED
  BY <1>9, <1>10, <1>11 DEF Coverage

\* The winner clears a memory that nothing of the day is in yet.
LEMMA CheckedCovers ==
    ASSUME TypeOK, Begun, Dating, Coverage, OneHome, NEW n \in Numbers, Checked(n), odd' = {}
    PROVE  Coverage'
<1> DEFINE r     == quotes[n].home
           row   == Cleared(n)
           since == IF reset[n] THEN DayOf(n) ELSE base[r]
<1>1. /\ pc[n] = "checked" /\ UNCHANGED <<up, dayKey, cache, quotes>>
      /\ \/ status[r] # 0 /\ Finish(n, status[r], row, since)
         \/ /\ high' = [high EXCEPT ![r] = row]
            /\ pc' = [pc EXCEPT ![n] = "asked"] /\ UNCHANGED <<payload, taken>>
      /\ ~(reset[n] /\ Wipes(n))
  BY DEF Checked, redis, processes
<1>2. r \in Replicas /\ DayOf(n) = dayKey /\ n \in 1..Len(quotes) /\ r \in up
  BY <1>1, Known DEF Dating, Current, Begun
<1>3. status[r] \in 0..LastSession /\ row \in Row
  <2>1. Empty \in Row
    BY DEF Row, Empty, TypeOK
  <2>2. QED
    BY <1>2, <2>1 DEF TypeOK, Cleared
<1>4. \A k \in Numbers : Counts(k) => quotes[k].home = r /\ k \in 1..Len(quotes)
  BY <1>2, Counting DEF OneHome
<1>5. ASSUME NEW k \in Numbers, pc[k] \in {"cache", "done"}, Counts(k)
      PROVE  Covers(quotes, row, taken[k], k)
  <2>1. ~reset[n]
    BY <1>1, <1>2, <1>4, <1>5 DEF Wipes, Counts
  <2>2. row = high[quotes[k].home]
    BY <1>4, <1>5, <2>1 DEF Cleared
  <2>3. QED
    BY <1>2, <1>4, <1>5, <2>2 DEF Coverage, Remembered
<1> HIDE DEF r, row, since
<1>6. CASE Finish(n, status[r], row, since)
  BY <1>1, <1>3, <1>5, <1>6, FinishCovers
<1>7. CASE /\ high' = [high EXCEPT ![r] = row]
           /\ pc' = [pc EXCEPT ![n] = "asked"] /\ UNCHANGED <<payload, taken>>
  <2>1. \A k \in Numbers : /\ Counts(k)' <=> Counts(k)
                           /\ pc'[k] = "cache" => pc[k] = "cache"
                           /\ pc'[k] = "done" => pc[k] = "done"
    BY <1>1, <1>7 DEF Counts, DayOf, TypeOK
  <2>2. high'[r] = row
    BY <1>2, <1>7 DEF TypeOK
  <2>3. Remembered'
    BY <1>1, <1>4, <1>5, <1>7, <2>1, <2>2 DEF Remembered
  <2>4. Cached' /\ InTurn'
    BY <1>1, <1>7, <2>1 DEF Coverage, Cached, InTurn
  <2>5. QED
    BY <2>3, <2>4 DEF Coverage
<1>8. QED
  BY <1>1, <1>6, <1>7

LEMMA AnsweredCovers ==
    ASSUME TypeOK, Begun, Coverage, OneHome, NEW n \in Numbers, Answered(n)
    PROVE  Coverage'
<1> DEFINE r == quotes[n].home
<1>1. pc[n] = "asked" /\ UNCHANGED <<up, dayKey, cache, quotes>>
  BY DEF Answered, redis
<1>2. PICK s \in {period, status[r]} : Finish(n, s, high[r], base[r])
  BY DEF Answered
<1>3. r \in Replicas /\ r \in up /\ n \in 1..Len(quotes)
  BY <1>1, Known DEF Begun
<1>4. s \in 0..LastSession /\ high[r] \in Row
  BY <1>3 DEF TypeOK
<1>5. \A k \in Numbers : Counts(k) => quotes[k].home = r
  BY <1>3, Counting DEF OneHome
<1>6. \A k \in Numbers : pc[k] \in {"cache", "done"} /\ Counts(k)
        => Covers(quotes, high[r], taken[k], k)
  BY <1>3, <1>5 DEF Coverage, Remembered
<1> HIDE DEF r
<1>7. QED
  BY <1>1, <1>2, <1>4, <1>6, FinishCovers

\* A payload that is no older than the one it replaces covers what that covered.
LEMMA CacheCovers ==
    ASSUME TypeOK, Coverage, NEW n \in Numbers, CacheResult(n) \/ Abort(n), odd' = {}
    PROVE  Coverage'
<1>1. /\ payload' = [payload EXCEPT ![n] = Nothing]
      /\ UNCHANGED <<up, dayKey, high, quotes, taken>>
      /\ \/ /\ pc[n] = "cache" /\ pc' = [pc EXCEPT ![n] = "done"] /\ cache' = payload[n]
            /\ ~(payload[n].nth < cache.nth)
         \/ pc' = [pc EXCEPT ![n] = "gone"] /\ cache' = cache
  BY DEF CacheResult, Abort, redis, processes, history
<1>2. \A k \in Numbers : Counts(k)' <=> Counts(k)
  BY <1>1 DEF Counts, DayOf
<1>3. pc'[n] # "cache" /\ \A k \in Numbers \ {n} : pc'[k] = pc[k] /\ payload'[k] = payload[k]
  BY <1>1 DEF TypeOK
<1>4. cache.nth \in Nat /\ \A k \in Numbers : payload[k].nth \in Nat
  BY DEF TypeOK, Payload
<1>5. CASE pc' = [pc EXCEPT ![n] = "gone"] /\ cache' = cache
  <2>1. pc'[n] = "gone"
    BY <1>5 DEF TypeOK
  <2>2. \A k \in Numbers : pc'[k] \in {"cache", "done"} => k # n
    BY <2>1
  <2>3. Remembered' /\ Cached' /\ InTurn'
    BY <1>1, <1>2, <1>3, <1>5, <2>2 DEF Coverage, Remembered, Cached, InTurn
  <2>4. QED
    BY <2>3 DEF Coverage
<1>6. CASE /\ pc[n] = "cache" /\ pc' = [pc EXCEPT ![n] = "done"] /\ cache' = payload[n]
           /\ ~(payload[n].nth < cache.nth)
  <2>1. pc'[n] = "done" /\ cache.nth <= payload[n].nth
    BY <1>4, <1>6 DEF TypeOK
  <2>2. Remembered'
    BY <1>1, <1>2, <1>3, <1>6 DEF Coverage, Remembered
  <2>3. Cached'
    <3>1. ASSUME NEW k \in Numbers, pc'[k] = "done", Counts(k)
          PROVE  Covers(quotes, payload[n].row, taken[k], k)
      <4>1. CASE k = n
        BY <1>4, <1>6, <3>1, <4>1 DEF Coverage, InTurn
      <4>2. CASE k # n
        BY <1>3, <1>6, <2>1, <3>1, <4>2 DEF Coverage, InTurn
      <4>3. QED
        BY <4>1, <4>2
    <3>2. QED
      BY <1>1, <1>2, <1>6, <3>1 DEF Cached
  <2>4. InTurn'
    <3>1. ASSUME NEW m \in Numbers, NEW k \in Numbers, pc'[m] = "cache", Counts(k),
                 \/ pc'[k] = "cache" /\ payload'[k].nth <= payload'[m].nth
                 \/ pc'[k] = "done" /\ payload[n].nth <= payload'[m].nth
          PROVE  Covers(quotes, payload'[m].row, taken[k], k)
      <4>1. m # n /\ pc[m] = "cache" /\ payload'[m] = payload[m]
        BY <1>3, <3>1
      <4>2. CASE pc'[k] = "cache" /\ payload'[k].nth <= payload'[m].nth
        BY <1>3, <3>1, <4>1, <4>2 DEF Coverage, InTurn
      <4>3. CASE k = n /\ payload[n].nth <= payload'[m].nth
        BY <1>6, <3>1, <4>1, <4>3 DEF Coverage, InTurn
      <4>4. CASE k # n /\ pc'[k] = "done" /\ payload[n].nth <= payload'[m].nth
        <5>1. cache.nth <= payload[m].nth
          BY <1>4, <2>1, <4>1, <4>4
        <5>2. QED
          BY <1>3, <3>1, <4>1, <4>4, <5>1 DEF Coverage, InTurn
      <4>5. QED
        BY <3>1, <4>2, <4>3, <4>4
    <3>2. QED
      BY <1>1, <1>2, <1>6, <3>1 DEF InTurn
  <2>5. QED
    BY <2>2, <2>3, <2>4 DEF Coverage
<1>7. QED
  BY <1>1, <1>5, <1>6

LEMMA StepCovers ==
    ASSUME IInv, IInv', CovInv, [Next]_vars
    PROVE  CovInv'
<1> TypeOK /\ TypeOK' /\ Begun
  BY DEF IInv, CovInv
<1>1. odd \subseteq odd'
  BY OddGrows
<1>2. Begun'
  BY StepBegun DEF CovInv
<1>3. "crossed" \notin odd' => Behind'
  BY <1>1, StepBehind DEF IInv, CovInv
<1>4. ASSUME odd' = {}, OneHome' PROVE Coverage'
  <2>1. odd = {} /\ Dating /\ Behind
    BY <1>1, <1>4 DEF IInv, CovInv
  <2>2. OneHome
    <3>1. CASE UNCHANGED quotes
      BY <1>4, <3>1 DEF OneHome
    <3>2. CASE \E r \in Replicas, p \in 1..MaxPrice, d \in 1..day : Analyze(r, p, d)
      <4>1. PICK q : quotes' = Append(quotes, q)
        BY <3>2 DEF Analyze
      <4>2. Len(quotes) \in Nat /\ Len(quotes') = Len(quotes) + 1
              /\ \A k \in 1..Len(quotes) : quotes'[k] = quotes[k]
        BY <4>1 DEF TypeOK
      <4>3. \A k \in 1..Len(quotes) : k \in 1..Len(quotes')
        BY <4>2
      <4>4. QED
        BY <1>4, <4>2, <4>3 DEF OneHome
    <3>3. QED
      BY <3>1, <3>2 DEF Next, Task, Tick, Rehydrate, Crash, Checked, Answered, CacheResult, Abort,
                        vars, tasks
  <2>3. Coverage
    BY <2>1, <2>2 DEF CovInv
  <2>4. CASE Tick \/ UNCHANGED vars
    <3>1. UNCHANGED <<quotes, dayKey, cache, payload, high, up, pc, taken>>
      BY <2>4 DEF Tick, vars, redis, processes, tasks, history
    <3>2. QED
      BY <2>3, <3>1 DEF Coverage, Remembered, Cached, InTurn, Counts, DayOf
  <2>5. ASSUME NEW r \in Replicas, Rehydrate(r) \/ Crash(r) PROVE Coverage'
    BY <1>4, <2>2, <2>3, <2>5, RehydrateCovers, CrashCovers
  <2>6. ASSUME NEW r \in Replicas, NEW p \in 1..MaxPrice, NEW d \in 1..day, Analyze(r, p, d)
        PROVE  Coverage'
    BY <1>4, <2>1, <2>3, <2>6, AnalyzeCovers
  <2>7. ASSUME NEW n \in Numbers, Task(n) PROVE Coverage'
    BY <1>4, <2>1, <2>2, <2>3, <2>7, CheckedCovers, AnsweredCovers, CacheCovers DEF Task
  <2>8. QED
    BY <2>4, <2>5, <2>6, <2>7 DEF Next
<1>5. QED
  BY <1>2, <1>3, <1>4 DEF CovInv

\* What the replica published is in its memory's highs, through restarts.
THEOREM HighsSurvive == Spec => []HighCovers
<1>1. Init => IInv /\ CovInv
  BY InitTyped, InitDated, InitCovered DEF IInv
<1>2. (IInv /\ CovInv) /\ [Next]_vars => (IInv /\ CovInv)'
  BY StepTyped, StepDated, StepCovers DEF IInv
<1>3. IInv /\ CovInv => HighCovers
  <2> SUFFICES ASSUME TypeOK, Begun, odd = {} /\ OneHome => Coverage, odd = {}, OneHome,
                      NEW n \in 1..Len(quotes), pc[n] = "done", taken[n] # 0,
                      DayOf(n) = dayKey, quotes[n].home \in up
               PROVE  PriceOf(high[quotes[n].home][taken[n]]) >= quotes[n].price
    BY DEF IInv, CovInv, HighCovers, OneHome
  <2>1. n \in Numbers
    BY DEF TypeOK, Numbers
  <2>2. Covers(quotes, high[quotes[n].home], taken[n], n)
    BY <2>1 DEF Counts, Coverage, Remembered
  <2>3. QED
    BY <2>2 DEF Covers, PriceOf
<1>4. QED
  BY <1>1, <1>2, <1>3, PTL DEF Spec
=============================================================================
