SPECIFICATION Spec
CONSTANTS
    c1 = c1
    c2 = c2
    s1 = s1
    s2 = s2
    Calls <- TwoCalls
    Symbols <- TwoSymbols
    Limit = 1
    MaxTime = 3
    MaxVolume = 2
    MaxEvents = 3
    MaxFailures = 1
\* The bounded events run out.
CHECK_DEADLOCK FALSE
SYMMETRY Symmetry
INVARIANTS OpenResetOnce OpenResetDone FreshUnlessCrossed BaselineShared LeadersKept
