SPECIFICATION Spec
CONSTANTS
    Paths = {p}
    Referrers = {x, y}
    Unsent = Unsent
    Callers = {c1, c2}
    MaxReferrers = 1
    MaxCalls = 4
    MaxFaults = 1
    Nothing = Nothing
CHECK_DEADLOCK FALSE
INVARIANTS
    TypeOK
    HitsAccounted
    ReferrersWithinHits
PROPERTIES
    ResolvedForGood
