------------------------ MODULE MCSitemapGeneration ------------------------
(* Instances of SitemapGeneration for TLC. *)
EXTENDS SitemapSharding, TLC

CONSTANTS a, b, w1, w2

\* Workers are interchangeable; for runs without temporal properties.
WorkersAreAlike == Permutations(Workers)

\* Two working sections are many states: one is listed, the other may be, and has at
\* most one URL to begin with.
SmallInit == Init /\ status[a] = "active" /\ status[b] # "future" /\ urls[b][2] = 0

FairSpecFromSmallStart == SmallInit /\ [][Next]_vars /\ Fairness
=============================================================================
