SPECIFICATION FairSpec
CONSTANTS
    p = p
    Rules <- MCRules
    Expiring <- MCExpiring
    Paths = {p}
    Covers <- MCCovers
    Requests = {q1}
    Writers = {w1}
    Timeout = 2
    MaxEdits = 2
    MaxFaults = 1
    Nothing = Nothing
    Invalidate = Invalidate
INVARIANTS
    TypeOK
    GoneOnlyWhenUnresolved
    ExactObeyed
    ListObeyed
    ExpiredBriefly
PROPERTIES
    EventuallyInForce
