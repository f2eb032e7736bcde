--------------------------- MODULE MCDiscoverySite ---------------------------
EXTENDS DiscoverySite, TLC

CONSTANTS robots, llms, bot, Bot

MCFolded == bot :> bot @@ Bot :> bot
MCPaths  == {<<>>, <<"a">>}
MCBodies == {[agent |-> Bot, allow |-> FALSE, path |-> <<>>, order |-> 0],
             [agent |-> bot, allow |-> TRUE, path |-> <<"a">>, order |-> 1]}
MCUrls   == {<<>>, <<"a">>, <<"b">>}

\* The two rows are interchangeable, and so is what the one row of llms.txt says: of
\* the tables that differ in no more than that one is enough to begin with.
Rank(r) == IF r = Nothing THEN 0 ELSE IF r.key = llms THEN 3 ELSE IF r.body.allow THEN 2 ELSE 1

SmallInit ==
    /\ Init
    /\ Rank(rows[1]) <= Rank(rows[2])
    /\ \A i \in Rows : Rank(rows[i]) = 3 => ~rows[i].body.allow

SpecFromSmallStart == SmallInit /\ [][Next]_vars /\ WF_vars(Tick)
==============================================================================
