------------------------ MODULE MCRedirectMiddleware ------------------------
EXTENDS RedirectMiddleware, TLC

CONSTANTS p

Rule(i, type, gone) ==
    [id |-> i, type |-> type, pattern |-> p, priority |-> IF type = "regex" THEN 0 ELSE 1, gone |-> gone]

\* A tombstone and a redirect for the same path, and two rules that cover it.
MCRules == {Rule(1, "exact", TRUE), Rule(2, "exact", FALSE),
            Rule(3, "prefix", TRUE), Rule(4, "regex", FALSE)}
MCExpiring == {r \in MCRules : r.type = "regex"}
MCCovers == p :> {p}
=============================================================================
