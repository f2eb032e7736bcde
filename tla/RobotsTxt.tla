------------------------------ MODULE RobotsTxt ------------------------------
(***************************************************************************)
(* services/robots.py as functions of the rules: how render_robots_txt     *)
(* groups and orders them, against what RFC 9309 says a crawler must       *)
(* conclude.  A path is the sequence of its segments and a pattern matches *)
(* what it is a prefix of; '*' and '$' are left out, and the spelling of   *)
(* the name that heads a block.                                            *)
(***************************************************************************)
EXTENDS Naturals, Sequences, FiniteSets

CONSTANTS
    Agents,     \* spellings of user agents
    Folded,     \* Folded[a]: the spelling without case
    PathPatterns,
    MaxOrder    \* bound on RobotsRule.order

ASSUME RobotsAssumption ==
    /\ Folded \in [Agents -> Agents]
    /\ PathPatterns \subseteq Seq(STRING)
    /\ MaxOrder \in Nat

RobotsRules == [agent: Agents, allow: BOOLEAN, path: PathPatterns, order: 0..MaxOrder]

Precedence(r) == IF r.allow THEN 0 ELSE 1

\* Mutant: the administrator's order decides.
SortsBefore_ByOrder(q, r) ==
    \/ q.order < r.order
    \/ q.order = r.order /\ Len(q.path) > Len(r.path)

\* The sort key of _longest_match_order: longest path, then allow, then order.
SortsBefore(q, r) ==
    \/ Len(q.path) > Len(r.path)
    \/ Len(q.path) = Len(r.path) /\ Precedence(q) < Precedence(r)
    \/ /\ Len(q.path) = Len(r.path) /\ Precedence(q) = Precedence(r)
       /\ q.order < r.order

\* The orders in which a group may be rendered: rules that tie may come either way.
Orderings(group) ==
    {s \in [1..Cardinality(group) -> group] :
        \A i, j \in DOMAIN s : i < j => s[i] # s[j] /\ ~SortsBefore(s[j], s[i])}

\* Mutant: spellings are kept apart.
GroupOf_Spelling(rules, agent) == {r \in rules : r.agent = agent}

\* The rules that end up in the block of an agent.
GroupOf(rules, agent) == {r \in rules : Folded[r.agent] = Folded[agent]}

-----------------------------------------------------------------------------
(* Crawlers *)

Matches(r, url) ==
    Len(r.path) <= Len(url) /\ \A i \in 1..Len(r.path) : r.path[i] = url[i]

\* A crawler that reads a block from the top and takes the first rule to match.
FirstMatchAllows(block, url) ==
    \A i \in DOMAIN block :
        Matches(block[i], url) /\ (\A j \in 1..i-1 : ~Matches(block[j], url)) => block[i].allow

\* RFC 9309 2.2.2: the longest match decides, and allow on a tie.
LongestMatchAllows(group, url) ==
    LET matching == {r \in group : Matches(r, url)}
        longest  == {r \in matching : \A q \in matching : Len(q.path) <= Len(r.path)}
    IN matching # {} => \E r \in longest : r.allow

\* Every crawler concludes the same from the block it finds under its name,
\* however that is spelt, and it is what all rules for it say together.
AllAgree(rules, urls) ==
    \A agent \in Agents, url \in urls :
        LET forIt == {r \in rules : Folded[r.agent] = Folded[agent]} IN
        \A block \in Orderings(GroupOf(rules, agent)) :
            FirstMatchAllows(block, url) <=> LongestMatchAllows(forIt, url)
=============================================================================
