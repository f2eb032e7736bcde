--------------------------- MODULE SitemapSharding ---------------------------
(***************************************************************************)
(* The shards of the runs against the writers: SitemapGeneration counts    *)
(* URLs only, Sharding cuts by the sizes of the rendered entries as well.  *)
(***************************************************************************)
EXTENDS SitemapGeneration, Sharding

\* Whatever the sizes of up to five entries, at, below and above every limit.
SamplesWellCut ==
    \A sizes \in UNION {[1..k -> 1..3] : k \in 0..5}, most \in 1..3, bytes \in 2..9 :
        WellCut(sizes, [urls |-> most, bytes |-> bytes, header |-> 1, footer |-> 1])

\* n entries of one byte each, and limits of which only the URLs can be met.
Ones(n)      == [i \in 1..n |-> 1]
UrlLimits(n) == [urls |-> MaxUrls, bytes |-> n, header |-> 0, footer |-> 0]

Lengths(files) == [k \in DOMAIN files |-> Len(files[k])]

\* A run that has read everything has made the files the writers make of as many
\* entries, or the one file of a section without URLs.
CutByTheWriter(w) ==
    LET n == Len(Together(made[w])) IN
    Lengths(made[w]) = IF n = 0 THEN <<0>> ELSE Lengths(StreamedFiles(Ones(n), UrlLimits(n)))

\* The streaming and the buffered writer cut the same files, lose nothing, and make
\* none that is over a limit (but for a single entry that is over it alone) or
\* ends early; and a run that has read everything has made just these files, as
\* far as the URL limit goes.
EntriesWellCut ==
    /\ SamplesWellCut
    /\ \A w \in Workers : pc[w] = "rows" => CutByTheWriter(w)
=============================================================================
