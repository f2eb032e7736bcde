----------------------------- MODULE NotFoundLog -----------------------------
(***************************************************************************)
(* The log of paths that answered 404: record_404 and its callers, the     *)
(* admin action that turns an entry into a 410 rule, and the task that     *)
(* prunes resolved entries.  Each statement sent to the database is a step.*)
(* Callers are requests that the middleware lets record; it swallows what  *)
(* record_404 raises.                                                      *)
(***************************************************************************)
EXTENDS Naturals, FiniteSets, FiniteSetsExt

CONSTANTS
    Paths,
    Referrers,
    Unsent,       \* a request without the header
    Callers,      \* requests that may record at the same time
    MaxReferrers, \* 10 in record_404
    MaxCalls,     \* bound on calls of record_404
    MaxFaults,    \* bound on failing statements and crashes
    Nothing

ASSUME LogAssumption ==
    /\ Unsent \notin Referrers
    /\ IsFiniteSet(Referrers) /\ IsFiniteSet(Callers)
    /\ Nothing \notin [pk: Nat, hits: Nat \ {0}, referrers: [Referrers -> Nat],
                       resolved: BOOLEAN, old: BOOLEAN]
    /\ MaxReferrers \in Nat \ {0} /\ MaxCalls \in Nat /\ MaxFaults \in Nat

VARIABLES
    log,      \* log[p]: the row of path p, or Nothing
    made,     \* rows made so far; a row's pk is its number
    gone,     \* paths an exact 410 rule was made for; its deletion is left out
    call,     \* call[c]: the statement c's record_404 comes to next, or "idle"
    path, referrer,
    entry,    \* entry[c]: the row as c has read it, or Nothing
    ready,    \* paths whose rule the admin action has made and not yet resolved
    calls, faults,
    tally,    \* history: tally[p]: hits on p that were recorded, refused or failed since
              \* its row was made, its own first one among them
    sent      \* history: sent[p][r]: hits recorded in the row that r referred

callVars == <<call, path, referrer, entry>>
vars == <<log, made, gone, callVars, ready, calls, faults, tally, sent>>

Counts == [Referrers -> Nat]
None   == [r \in Referrers |-> 0]
Total(counts) == MapThenSumSet(LAMBDA r : counts[r], Referrers)
Named(counts) == {r \in Referrers : counts[r] > 0}
LogRow == [pk: Nat, hits: Nat \ {0}, referrers: Counts, resolved: BOOLEAN, old: BOOLEAN]

TypeOK ==
    /\ log \in [Paths -> LogRow \cup {Nothing}]
    /\ made \in Nat
    /\ gone \subseteq Paths /\ ready \subseteq gone
    /\ call \in [Callers -> {"idle", "update", "refresh", "save", "create"}]
    /\ path \in [Callers -> Paths]
    /\ referrer \in [Callers -> Referrers \cup {Unsent}]
    /\ entry \in [Callers -> LogRow \cup {Nothing}]
    /\ \A c \in Callers : call[c] \in {"update", "refresh", "save"} => entry[c] # Nothing
    /\ calls \in 0..MaxCalls /\ faults \in 0..MaxFaults
    /\ tally \in [Paths -> Nat]
    /\ sent \in [Paths -> Counts]

Init ==
    /\ log = [p \in Paths |-> Nothing]
    /\ made = 0 /\ gone = {} /\ ready = {}
    /\ call = [c \in Callers |-> "idle"]
    /\ path \in [Callers -> Paths]
    /\ referrer = [c \in Callers |-> Unsent]
    /\ entry = [c \in Callers |-> Nothing]
    /\ calls = 0 /\ faults = 0
    /\ tally = [p \in Paths |-> 0]
    /\ sent = [p \in Paths |-> None]

Fault == faults < MaxFaults /\ faults' = faults + 1

-----------------------------------------------------------------------------
(* record_404 *)

\* The row c found is still there.
Holds(c) == log[path[c]] # Nothing /\ log[path[c]].pk = entry[c].pk

\* c's hit is not in the row that its path has now.
Unrecorded(c) == call[c] \in {"update", "create"} \/ (call[c] = "refresh" /\ ~Holds(c))

Goto(c, stage) == call' = [call EXCEPT ![c] = stage]

\* The call returns or raises.
Done(c) ==
    /\ Goto(c, "idle")
    /\ referrer' = [referrer EXCEPT ![c] = Unsent]
    /\ entry' = [entry EXCEPT ![c] = Nothing]
    /\ UNCHANGED path

Plus(counts, r) == IF r = Unsent THEN counts ELSE [counts EXCEPT ![r] = @ + 1]

\* get(path)
Find(c, p, r) ==
    /\ call[c] = "idle" /\ calls < MaxCalls
    /\ calls' = calls + 1
    /\ path' = [path EXCEPT ![c] = p]
    /\ referrer' = [referrer EXCEPT ![c] = r]
    /\ \/ log[p] = Nothing /\ Goto(c, "create")
       \/ log[p] # Nothing /\ Goto(c, "update")
    /\ entry' = [entry EXCEPT ![c] = log[p]]
    /\ UNCHANGED <<log, made, gone, ready, faults, tally, sent>>

\* Mutant: the count that was read, and one.
Update_NotAtomic(c) ==
    /\ call[c] = "update" /\ Goto(c, "refresh")
    /\ \/ /\ Holds(c)
          /\ log' = [log EXCEPT ![path[c]].hits = entry[c].hits + 1, ![path[c]].old = FALSE]
          /\ tally' = [tally EXCEPT ![path[c]] = @ + 1]
          /\ sent' = [sent EXCEPT ![path[c]] = Plus(@, referrer[c])]
       \/ ~Holds(c) /\ UNCHANGED <<log, tally, sent>>
    /\ UNCHANGED <<made, gone, path, referrer, entry, ready, calls, faults>>

\* One UPDATE of hit_count and last_seen_at, of no row if it is gone.
Update(c) ==
    /\ call[c] = "update" /\ Goto(c, "refresh")
    /\ \/ /\ Holds(c)
          /\ log' = [log EXCEPT ![path[c]].hits = @ + 1, ![path[c]].old = FALSE]
          /\ tally' = [tally EXCEPT ![path[c]] = @ + 1]
          /\ sent' = [sent EXCEPT ![path[c]] = Plus(@, referrer[c])]
       \/ ~Holds(c) /\ UNCHANGED <<log, tally, sent>>
    /\ UNCHANGED <<made, gone, path, referrer, entry, ready, calls, faults>>

\* Mutant: trimmed only when there is one more than that.
Trimmed_OffByOne(counts, newest) ==
    IF Cardinality(Named(counts)) <= MaxReferrers + 1 THEN {counts} ELSE {None}

\* The referrers kept of these, by count; the sort is stable and the newest comes
\* last, so on a tie it is the one to go.  The others come in any order.
Trimmed(counts, newest) ==
    LET some   == Named(counts)
        Beats(q, r) == counts[q] > counts[r] \/ (counts[q] = counts[r] /\ r = newest)
        isTop(S) == \A r \in S, q \in some \ S : ~Beats(q, r)
        tops   == {S \in SUBSET some : Cardinality(S) = MaxReferrers /\ isTop(S)}
    IN IF Cardinality(some) <= MaxReferrers THEN {counts}
       ELSE {[r \in Referrers |-> IF r \in S THEN counts[r] ELSE 0] : S \in tops}

\* refresh_from_db; a row that is gone is made again.
Refresh(c) ==
    /\ call[c] = "refresh"
    /\ \/ /\ Holds(c) /\ referrer[c] # Unsent /\ Goto(c, "save")
          /\ \E kept \in Trimmed(Plus(log[path[c]].referrers, referrer[c]), referrer[c]) :
                entry' = [entry EXCEPT ![c] = [log[path[c]] EXCEPT !.referrers = kept]]
          /\ UNCHANGED <<path, referrer>>
       \/ Holds(c) /\ referrer[c] = Unsent /\ Done(c)
       \/ ~Holds(c) /\ Goto(c, "create") /\ UNCHANGED <<path, referrer, entry>>
    /\ UNCHANGED <<log, made, gone, ready, calls, faults, tally, sent>>

\* Mutant: save() without update_fields, which writes back what was read before.
Save_AllFields(c) ==
    /\ call[c] = "save" /\ Done(c)
    /\ \/ /\ Holds(c)
          /\ log' = [log EXCEPT ![path[c]] = entry[c]]
       \/ ~Holds(c) /\ UNCHANGED log
    /\ UNCHANGED <<made, gone, ready, calls, faults, tally, sent>>

\* save(update_fields=["referrers"]), which raises when the row is gone.
Save(c) ==
    /\ call[c] = "save" /\ Done(c)
    /\ \/ Holds(c) /\ log' = [log EXCEPT ![path[c]].referrers = entry[c].referrers]
       \/ ~Holds(c) /\ UNCHANGED log
    /\ UNCHANGED <<made, gone, ready, calls, faults, tally, sent>>

\* create(), which raises when another request was first: the hit is recorded nowhere.
Create(c) ==
    LET p == path[c] IN
    /\ call[c] = "create" /\ Done(c)
    /\ \/ /\ log[p] = Nothing
          /\ made' = made + 1
          /\ log' = [log EXCEPT ![p] = [pk |-> made', hits |-> 1, old |-> FALSE, resolved |-> FALSE,
                                        referrers |-> Plus(None, referrer[c])]]
          /\ tally' = [tally EXCEPT ![p] = 1]
          /\ sent' = [sent EXCEPT ![p] = Plus(None, referrer[c])]
       \/ /\ log[p] # Nothing /\ tally' = [tally EXCEPT ![p] = @ + 1]
          /\ UNCHANGED <<made, log, sent>>
    /\ UNCHANGED <<gone, ready, calls, faults>>

\* A statement fails or the process dies: the middleware serves its 404 anyway.
Fail(c) ==
    /\ call[c] # "idle" /\ Fault /\ Done(c)
    /\ \/ log[path[c]] # Nothing /\ Unrecorded(c) /\ tally' = [tally EXCEPT ![path[c]] = @ + 1]
       \/ ~(log[path[c]] # Nothing /\ Unrecorded(c)) /\ UNCHANGED tally
    /\ UNCHANGED <<log, made, gone, ready, calls, sent>>

-----------------------------------------------------------------------------
(* Administrators and the clock *)

\* Mutant: a rule that could not be made resolves the entry all the same.
MakeRule_IgnoresFailure(p) ==
    /\ log[p] # Nothing /\ ~log[p].resolved /\ p \notin gone
    /\ ready' = ready \cup {p}
    /\ UNCHANGED <<log, made, gone, callVars, calls, faults, tally, sent>>

\* create_gone_from_404: add_redirect for an unresolved entry; the unique
\* constraint refuses it if there is a rule already, and the entry stays so.
MakeRule(p) ==
    /\ log[p] # Nothing /\ ~log[p].resolved /\ p \notin gone
    /\ gone' = gone \cup {p} /\ ready' = ready \cup {p}
    /\ UNCHANGED <<log, made, callVars, calls, faults, tally, sent>>

\* ... then save(update_fields=["resolved"]), which may fail or never come.
Resolve(p) ==
    /\ p \in ready /\ ready' = ready \ {p}
    /\ \/ log[p] # Nothing /\ log' = [log EXCEPT ![p].resolved = TRUE] /\ UNCHANGED faults
       \/ Fault /\ UNCHANGED log
    /\ UNCHANGED <<made, gone, callVars, calls, tally, sent>>

\* The admin deletes an entry; the save that would resolve it raises.
Delete(p) ==
    /\ log[p] # Nothing
    /\ log' = [log EXCEPT ![p] = Nothing]
    /\ ready' = ready \ {p}
    /\ UNCHANGED <<made, gone, callVars, calls, faults, tally, sent>>

\* Days pass without a hit on p.
Age(p) ==
    /\ log[p] # Nothing /\ ~log[p].old
    /\ log' = [log EXCEPT ![p].old = TRUE]
    /\ UNCHANGED <<made, gone, ready, callVars, calls, faults, tally, sent>>

\* cleanup_redirect_logs
Prune ==
    /\ \E p \in Paths : log[p] # Nothing /\ log[p].resolved /\ log[p].old
    /\ log' = [p \in Paths |->
                  IF log[p] # Nothing /\ log[p].resolved /\ log[p].old THEN Nothing ELSE log[p]]
    /\ UNCHANGED <<made, gone, ready, callVars, calls, faults, tally, sent>>

Next ==
    \/ \E c \in Callers :
          \/ \E p \in Paths, r \in Referrers \cup {Unsent} : Find(c, p, r)
          \/ Update(c) \/ Refresh(c) \/ Save(c) \/ Create(c) \/ Fail(c)
    \/ \E p \in Paths : MakeRule(p) \/ Resolve(p) \/ Delete(p) \/ Age(p)
    \/ Prune

Spec == Init /\ [][Next]_vars

-----------------------------------------------------------------------------
(* Properties *)

\* hit_count against the hits there were: it counts each at most once, and misses
\* only the one of a call that failed or that was on its way to an INSERT of its own
\* when the row was made, at most one for every other caller.  No increment is lost
\* to a concurrent one or undone by the save of the referrers, and a row does not
\* go on losing hits as it ages.  (models/redirects.py has it incremented on each
\* occurrence: one whose INSERT is refused it never sees.)
HitsAccounted ==
    \A p \in Paths : log[p] # Nothing =>
        /\ log[p].hits <= tally[p]
        /\ tally[p] < log[p].hits + Cardinality(Callers) + faults

\* The best-effort referrers lose counts when calls overlap but never invent
\* any: together they account for no more hits than there were, under at most
\* MaxReferrers names.
ReferrersWithinHits ==
    \A p \in Paths : log[p] # Nothing =>
        /\ Total(log[p].referrers) <= log[p].hits
        /\ Cardinality(Named(log[p].referrers)) <= MaxReferrers

\* An entry is resolved only when the 410 rule exists, and no overlapping call of
\* record_404 makes it unresolved again.
ResolvedForGood ==
    [][\A p \in Paths :
        /\ log'[p] # Nothing /\ log'[p].resolved => p \in gone'
        /\ log[p] # Nothing /\ log'[p] # Nothing /\ log[p].pk = log'[p].pk /\ log[p].resolved
              => log'[p].resolved]_vars

\* What record_404 says of itself ("Maintains a top-10 referrer dict"): between
\* calls, no referrer left out has sent more hits than one that is kept.
TopReferrers ==
    \A p \in Paths : log[p] # Nothing /\ (\A c \in Callers : call[c] = "idle") =>
        \A q, r \in Referrers :
            log[p].referrers[q] = 0 /\ log[p].referrers[r] > 0 => sent[p][q] <= sent[p][r]
=============================================================================
