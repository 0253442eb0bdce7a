---------------------------- MODULE SingleFlight ----------------------------
(***************************************************************************)
(* What MarketDataCache promises its callers for one cache key: the API is *)
(* called only when nothing usable is cached, by one caller at a time, and *)
(* only the answer of that call fills the cache.  The promise is good      *)
(* until something excuses it.                                             *)
(***************************************************************************)
CONSTANTS Callers, NoCaller
VARIABLES
    cached,     \* whether a usable value is cached
    flight,     \* the caller whose API call is under way
    excused     \* a lock timed out under its holder: the promise is off

vars == <<cached, flight, excused>>

Init == cached = FALSE /\ flight = NoCaller /\ excused = FALSE

TakeOff(x) == /\ ~cached /\ flight = NoCaller
              /\ flight' = x /\ UNCHANGED cached

Land(x)  == flight = x /\ flight' = NoCaller /\ cached' = TRUE
Abort(x) == flight = x /\ flight' = NoCaller /\ UNCHANGED cached
Evict    == cached' = FALSE /\ UNCHANGED flight

Keep == /\ ~excused /\ ~excused'
        /\ Evict \/ \E x \in Callers : TakeOff(x) \/ Land(x) \/ Abort(x)

Excuse == /\ excused' = TRUE
          /\ cached' \in BOOLEAN /\ flight' \in Callers \cup {NoCaller}

Next == Keep \/ Excuse

Spec == Init /\ [][Next]_vars
=============================================================================
