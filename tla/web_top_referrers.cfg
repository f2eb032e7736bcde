SPECIFICATION Spec
CONSTANTS
    Paths = {p}
    Referrers = {x, y}
    Unsent = Unsent
    Callers = {c1}
    MaxReferrers = 1
    MaxCalls = 3
    MaxFaults = 0
    Nothing = Nothing
CHECK_DEADLOCK FALSE
INVARIANTS
    TopReferrers
