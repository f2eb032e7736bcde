-------------------------- MODULE NotFoundLogProofs --------------------------
(***************************************************************************)
(* For any paths, referrers and callers: what hit_count may miss, what the *)
(* referrers account for, and that an entry once resolved has its 410 rule *)
(* and stays resolved.                                                     *)
(***************************************************************************)
EXTENDS NotFoundLog, NaturalLemmas, FiniteSetTheorems

\* An entry is only ever resolved behind its rule.
RuleFirst == \A p \in Paths : log[p] # Nothing /\ log[p].resolved => p \in gone

LogInv == TypeOK /\ RuleFirst

\* What a row becomes in the hands of record_404 and of the clock: the same row,
\* as resolved as it was.
SameRow(p) ==
    /\ log[p] # Nothing /\ log'[p] # Nothing
    /\ log'[p].pk = log[p].pk /\ log'[p].resolved = log[p].resolved

-----------------------------------------------------------------------------
LEMMA RowTyped ==
    ASSUME NEW row \in LogRow
    PROVE  /\ row # Nothing
           /\ row.pk \in Nat /\ row.hits \in Nat \ {0} /\ row.referrers \in Counts
           /\ row.resolved \in BOOLEAN /\ row.old \in BOOLEAN
  BY LogAssumption DEF LogRow, Counts

LEMMA FaultTyped == ASSUME TypeOK, Fault PROVE faults' \in 0..MaxFaults
  BY LogAssumption DEF Fault, TypeOK

LEMMA PlusTyped ==
    ASSUME NEW counts \in Counts, NEW r \in Referrers \cup {Unsent}
    PROVE  Plus(counts, r) \in Counts
<1>1. CASE r = Unsent
  BY <1>1 DEF Plus
<1>2. CASE r # Unsent
  BY <1>2 DEF Plus, Counts
<1> QED
  BY <1>1, <1>2

LEMMA TrimmedTyped ==
    ASSUME NEW counts \in Counts, NEW r \in Referrers, NEW kept \in Trimmed(counts, r)
    PROVE  kept \in Counts
<1>1. kept = counts \/ \E S : kept = [q \in Referrers |-> IF q \in S THEN counts[q] ELSE 0]
  BY DEF Trimmed
<1> QED
  BY <1>1 DEF Counts

LEMMA NoneTyped == None \in Counts
  BY DEF None, Counts

LEMMA InitInv == Init => LogInv
<1> SUFFICES ASSUME Init PROVE LogInv
  OBVIOUS
<1>1. TypeOK
  BY LogAssumption, NoneTyped DEF Init, TypeOK
<1>2. RuleFirst
  BY DEF Init, RuleFirst
<1> QED
  BY <1>1, <1>2 DEF LogInv

\* Steps that leave the table alone.
LEMMA LogUntouched ==
    ASSUME LogInv, TypeOK', log' = log, gone \subseteq gone'
    PROVE  LogInv'
  BY DEF LogInv, RuleFirst

\* Steps that change one row.
LEMMA RowRewritten ==
    ASSUME LogInv, TypeOK', NEW p \in Paths, SameRow(p), gone' = gone,
           \A q \in Paths \ {p} : log'[q] = log[q]
    PROVE  LogInv'
  BY DEF LogInv, RuleFirst, SameRow

-----------------------------------------------------------------------------
(* record_404 *)

LEMMA DoneTyped ==
    ASSUME TypeOK, NEW c \in Callers, Done(c)
    PROVE  /\ call' \in [Callers -> {"idle", "update", "refresh", "save", "create"}]
           /\ path' = path
           /\ referrer' \in [Callers -> Referrers \cup {Unsent}]
           /\ entry' \in [Callers -> LogRow \cup {Nothing}]
           /\ \A d \in Callers : call'[d] \in {"update", "refresh", "save"} => entry'[d] # Nothing
  BY DEF Done, Goto, TypeOK

LEMMA FindKeeps ==
    ASSUME LogInv, NEW c \in Callers, NEW p \in Paths, NEW r \in Referrers \cup {Unsent}, Find(c, p, r)
    PROVE  LogInv'
<1>1. TypeOK'
  <2>1. calls' \in 0..MaxCalls
    BY LogAssumption DEF Find, LogInv, TypeOK
  <2>2. /\ call' \in [Callers -> {"idle", "update", "refresh", "save", "create"}]
        /\ path' \in [Callers -> Paths]
        /\ referrer' \in [Callers -> Referrers \cup {Unsent}]
        /\ entry' \in [Callers -> LogRow \cup {Nothing}]
    BY DEF Find, Goto, LogInv, TypeOK
  <2>3. \A d \in Callers : call'[d] \in {"update", "refresh", "save"} => entry'[d] # Nothing
    BY DEF Find, Goto, LogInv, TypeOK
  <2> QED
    BY <2>1, <2>2, <2>3 DEF Find, LogInv, TypeOK
<1> QED
  BY <1>1, LogUntouched DEF Find

LEMMA UpdateKeeps ==
    ASSUME LogInv, NEW c \in Callers, Update(c)
    PROVE  LogInv' /\ (SameRow(path[c]) \/ log' = log)
<1> USE DEF LogInv
<1> DEFINE p == path[c]
<1>0. p \in Paths /\ call' = [call EXCEPT ![c] = "refresh"] /\ call[c] = "update"
  BY DEF Update, Goto, TypeOK
<1>1. CASE Holds(c)
  <2>1. /\ log[p] \in LogRow
        /\ log' = [log EXCEPT ![p] = [log[p] EXCEPT !.hits = log[p].hits + 1, !.old = FALSE]]
        /\ tally' = [tally EXCEPT ![p] = tally[p] + 1]
        /\ sent' = [sent EXCEPT ![p] = Plus(sent[p], referrer[c])]
    BY <1>0, <1>1 DEF Update, Holds, TypeOK
  <2>2. log'[p] = [log[p] EXCEPT !.hits = log[p].hits + 1, !.old = FALSE]
    BY <1>0, <2>1 DEF TypeOK
  <2>3. log'[p] \in LogRow /\ log'[p].hits = log[p].hits + 1
        /\ log'[p].pk = log[p].pk /\ log'[p].resolved = log[p].resolved
    <3>1. log[p].hits + 1 \in Nat \ {0}
      BY <2>1, RowTyped
    <3>2. [log[p] EXCEPT !.hits = log[p].hits + 1, !.old = FALSE] \in LogRow
      BY <2>1, <3>1 DEF LogRow
    <3> QED
      BY <2>1, <2>2, <3>2 DEF LogRow
  <2>4. SameRow(p)
    BY <2>1, <2>3, RowTyped DEF SameRow
  <2>5. TypeOK'
    <3>1. log' \in [Paths -> LogRow \cup {Nothing}]
      BY <2>1, <2>2, <2>3 DEF TypeOK
    <3>2. tally' \in [Paths -> Nat]
      BY <2>1, <1>0 DEF TypeOK
    <3>3. sent' \in [Paths -> Counts]
      BY <2>1, <1>0, PlusTyped DEF TypeOK
    <3> QED
      BY <3>1, <3>2, <3>3, <1>0 DEF TypeOK, Update
  <2>6. \A q \in Paths \ {p} : log'[q] = log[q]
    BY <2>1 DEF TypeOK
  <2>7. gone' = gone
    BY DEF Update
  <2> QED
    BY <1>0, <2>4, <2>5, <2>6, <2>7, RowRewritten
<1>2. CASE ~Holds(c)
  <2>1. log' = log /\ tally' = tally /\ gone' = gone /\ sent' = sent
    BY <1>2 DEF Update
  <2>2. TypeOK'
    BY <1>0, <2>1 DEF TypeOK, Update
  <2> QED
    BY <2>1, <2>2, LogUntouched
<1> QED
  BY <1>1, <1>2

LEMMA RefreshKeeps ==
    ASSUME LogInv, NEW c \in Callers, Refresh(c)
    PROVE  LogInv'
<1> USE DEF LogInv
<1>0. /\ log' = log /\ made' = made /\ gone' = gone /\ ready' = ready /\ calls' = calls
      /\ faults' = faults /\ tally' = tally /\ sent' = sent
      /\ path[c] \in Paths /\ call[c] = "refresh" /\ entry[c] # Nothing
  BY DEF Refresh, TypeOK
<1>1. TypeOK'
  <2>1. CASE Holds(c) /\ referrer[c] # Unsent /\ Goto(c, "save")
    <3>1. PICK kept \in Trimmed(Plus(log[path[c]].referrers, referrer[c]), referrer[c]) :
              entry' = [entry EXCEPT ![c] = [log[path[c]] EXCEPT !.referrers = kept]]
      BY <2>1 DEF Refresh, Done, Goto, TypeOK
    <3>2. referrer[c] \in Referrers /\ log[path[c]] \in LogRow
      BY <2>1, <1>0 DEF Holds, TypeOK
    <3>3. kept \in Counts
      BY <3>1, <3>2, RowTyped, PlusTyped, TrimmedTyped
    <3>4. [log[path[c]] EXCEPT !.referrers = kept] \in LogRow
      BY <3>2, <3>3 DEF LogRow
    <3>5. entry' \in [Callers -> LogRow \cup {Nothing}] /\ entry'[c] # Nothing
      BY <3>1, <3>4, RowTyped DEF TypeOK
    <3>6. \A d \in Callers : d # c => entry'[d] = entry[d] /\ call'[d] = call[d]
      BY <2>1, <3>1 DEF Goto, TypeOK
    <3>7. \A d \in Callers : call'[d] \in {"update", "refresh", "save"} => entry'[d] # Nothing
      BY <3>5, <3>6 DEF TypeOK
    <3>8. path' = path /\ referrer' = referrer
      BY <2>1 DEF Refresh, Done
    <3> QED
      BY <1>0, <2>1, <3>5, <3>7, <3>8 DEF TypeOK, Goto
  <2>2. CASE Done(c)
    BY <1>0, <2>2, DoneTyped DEF TypeOK
  <2>3. CASE Goto(c, "create") /\ UNCHANGED <<path, referrer, entry>>
    BY <1>0, <2>3 DEF TypeOK, Goto
  <2> QED
    BY <2>1, <2>2, <2>3 DEF Refresh
<1> QED
  BY <1>0, <1>1, LogUntouched

LEMMA SaveKeeps ==
    ASSUME LogInv, NEW c \in Callers, Save(c)
    PROVE  LogInv' /\ (SameRow(path[c]) \/ log' = log)
<1> USE DEF LogInv
<1> DEFINE p == path[c]
<1>0. /\ p \in Paths /\ call[c] = "save" /\ Done(c) /\ entry[c] \in LogRow
      /\ made' = made /\ gone' = gone /\ ready' = ready /\ calls' = calls
      /\ faults' = faults /\ tally' = tally /\ sent' = sent
  BY DEF Save, TypeOK
<1>1. CASE Holds(c)
  <2>1. /\ log[p] \in LogRow
        /\ log' = [log EXCEPT ![p] = [log[p] EXCEPT !.referrers = entry[c].referrers]]
    BY <1>0, <1>1 DEF Save, Holds, TypeOK
  <2>2. log'[p] = [log[p] EXCEPT !.referrers = entry[c].referrers]
    BY <1>0, <2>1 DEF TypeOK
  <2>3. log'[p] \in LogRow /\ log'[p].hits = log[p].hits
        /\ log'[p].pk = log[p].pk /\ log'[p].resolved = log[p].resolved
    <3>1. [log[p] EXCEPT !.referrers = entry[c].referrers] \in LogRow
      BY <2>1, <1>0 DEF LogRow
    <3> QED
      BY <2>1, <2>2, <3>1 DEF LogRow
  <2>4. SameRow(p)
    BY <2>1, <2>3, RowTyped DEF SameRow
  <2>5. TypeOK'
    <3>1. log' \in [Paths -> LogRow \cup {Nothing}]
      BY <2>1, <2>2, <2>3 DEF TypeOK
    <3> QED
      BY <3>1, <1>0, DoneTyped DEF TypeOK
  <2>6. \A q \in Paths \ {p} : log'[q] = log[q]
    BY <2>1, <1>0 DEF TypeOK
  <2> QED
    BY <1>0, <2>4, <2>5, <2>6, RowRewritten
<1>2. CASE ~Holds(c)
  <2>1. log' = log
    BY <1>2 DEF Save
  <2>2. TypeOK'
    BY <1>0, <2>1, DoneTyped DEF TypeOK
  <2> QED
    BY <1>0, <2>1, <2>2, LogUntouched
<1> QED
  BY <1>1, <1>2

LEMMA CreateKeeps ==
    ASSUME LogInv, NEW c \in Callers, Create(c)
    PROVE  LogInv' /\ ((log[path[c]] = Nothing /\ ~log'[path[c]].resolved) \/ log' = log)
           /\ \A q \in Paths : q # path[c] => log'[q] = log[q]
<1> USE DEF LogInv
<1> DEFINE p == path[c]
           new == [pk |-> made', hits |-> 1, old |-> FALSE, resolved |-> FALSE,
                   referrers |-> Plus(None, referrer[c])]
<1>0. /\ p \in Paths /\ Done(c) /\ referrer[c] \in Referrers \cup {Unsent}
      /\ gone' = gone /\ ready' = ready /\ calls' = calls /\ faults' = faults
  BY DEF Create, TypeOK
<1>1. CASE log[p] = Nothing
  <2>1. /\ made' = made + 1 /\ log' = [log EXCEPT ![p] = new]
        /\ tally' = [tally EXCEPT ![p] = 1]
        /\ sent' = [sent EXCEPT ![p] = Plus(None, referrer[c])]
    BY <1>1 DEF Create
  <2>2. Plus(None, referrer[c]) \in Counts /\ made' \in Nat
    BY <1>0, <2>1, PlusTyped, NoneTyped DEF TypeOK
  <2>3. new \in LogRow
    BY <2>2 DEF LogRow
  <2>4. TypeOK'
    <3>1. log' \in [Paths -> LogRow \cup {Nothing}]
      BY <2>1, <2>3 DEF TypeOK
    <3>2. tally' \in [Paths -> Nat] /\ sent' \in [Paths -> Counts]
      BY <2>1, <2>2 DEF TypeOK
    <3> QED
      BY <3>1, <3>2, <2>2, <1>0, DoneTyped DEF TypeOK
  <2>5. log'[p] = new /\ ~new.resolved
    BY <2>1, <1>0 DEF TypeOK
  <2>6. \A q \in Paths \ {p} : log'[q] = log[q]
    BY <2>1 DEF TypeOK
  <2>8. RuleFirst'
    <3>1. ~log'[p].resolved
      BY <2>5
    <3> QED
      BY <3>1, <2>6, <1>0 DEF RuleFirst
  <2> QED
    BY <1>1, <2>4, <2>5, <2>6, <2>8
<1>2. CASE log[p] # Nothing
  <2>1. /\ log' = log /\ made' = made /\ sent' = sent
        /\ tally' = [tally EXCEPT ![p] = tally[p] + 1]
    BY <1>2 DEF Create
  <2>2. TypeOK'
    BY <1>0, <2>1, DoneTyped DEF TypeOK
  <2> QED
    BY <1>0, <2>1, <2>2, LogUntouched
<1> QED
  BY <1>1, <1>2

LEMMA FailKeeps ==
    ASSUME LogInv, NEW c \in Callers, Fail(c)
    PROVE  LogInv'
<1>1. tally' \in [Paths -> Nat]
  BY DEF Fail, LogInv, TypeOK
<1>2. TypeOK'
  BY <1>1, DoneTyped, FaultTyped DEF Fail, LogInv, TypeOK
<1> QED
  BY <1>2, LogUntouched DEF Fail

-----------------------------------------------------------------------------
(* Administrators and the clock *)

LEMMA MakeRuleKeeps ==
    ASSUME LogInv, NEW p \in Paths, MakeRule(p)
    PROVE  LogInv'
<1>1. TypeOK'
  BY DEF MakeRule, callVars, LogInv, TypeOK
<1> QED
  BY <1>1, LogUntouched DEF MakeRule

LEMMA ResolveKeeps ==
    ASSUME LogInv, NEW p \in Paths, Resolve(p)
    PROVE  /\ LogInv'
           /\ log' = log \/ (log'[p] # Nothing /\ log'[p].resolved)
           /\ \A q \in Paths : q # p => log'[q] = log[q]
<1> USE DEF LogInv, callVars
<1>0. /\ p \in ready /\ p \in gone /\ ready' = ready \ {p}
      /\ made' = made /\ gone' = gone /\ calls' = calls /\ tally' = tally /\ sent' = sent
      /\ call' = call /\ path' = path /\ referrer' = referrer /\ entry' = entry
  BY DEF Resolve, TypeOK
<1>1. CASE log[p] # Nothing /\ log' = [log EXCEPT ![p].resolved = TRUE] /\ UNCHANGED faults
  <2>1. log[p] \in LogRow
    BY <1>1 DEF TypeOK
  <2>2. log'[p] = [log[p] EXCEPT !.resolved = TRUE]
    BY <1>1 DEF TypeOK
  <2>3. log'[p] \in LogRow /\ log'[p].resolved /\ log'[p].hits = log[p].hits
    BY <2>1, <2>2 DEF LogRow
  <2>4. \A q \in Paths : q # p => log'[q] = log[q]
    BY <1>1 DEF TypeOK
  <2>5. log' \in [Paths -> LogRow \cup {Nothing}]
    BY <1>1, <2>2, <2>3 DEF TypeOK
  <2>6. TypeOK'
    BY <1>0, <1>1, <2>5 DEF TypeOK
  <2>8. RuleFirst'
    BY <1>0, <2>4 DEF RuleFirst
  <2> QED
    BY <2>3, <2>4, <2>6, <2>8, RowTyped
<1>2. CASE Fault /\ UNCHANGED log
  <2>1. TypeOK'
    BY <1>0, <1>2, FaultTyped DEF TypeOK
  <2> QED
    BY <1>0, <1>2, <2>1, LogUntouched
<1> QED
  BY <1>1, <1>2 DEF Resolve

LEMMA DeleteKeeps ==
    ASSUME LogInv, NEW p \in Paths, Delete(p)
    PROVE  LogInv' /\ \A q \in Paths : log'[q] # Nothing => log'[q] = log[q]
<1> USE DEF LogInv, callVars
<1>1. \A q \in Paths : log'[q] = log[q] \/ log'[q] = Nothing
  BY DEF Delete, TypeOK
<1>2. log' \in [Paths -> LogRow \cup {Nothing}]
  BY DEF Delete, TypeOK
<1>3. TypeOK'
  BY <1>2 DEF Delete, TypeOK
<1>4. RuleFirst'
  BY <1>1 DEF Delete, RuleFirst
<1> QED
  BY <1>1, <1>3, <1>4

LEMMA AgeKeeps ==
    ASSUME LogInv, NEW p \in Paths, Age(p)
    PROVE  LogInv' /\ SameRow(p) /\ \A q \in Paths : q # p => log'[q] = log[q]
<1> USE DEF LogInv, callVars
<1>1. log[p] \in LogRow /\ log' = [log EXCEPT ![p].old = TRUE]
  BY DEF Age, TypeOK
<1>2. log'[p] = [log[p] EXCEPT !.old = TRUE]
  BY <1>1 DEF TypeOK
<1>3. log'[p] \in LogRow /\ log'[p].hits = log[p].hits
      /\ log'[p].pk = log[p].pk /\ log'[p].resolved = log[p].resolved
  <2>1. [log[p] EXCEPT !.old = TRUE] \in LogRow
    BY <1>1 DEF LogRow
  <2> QED
    BY <1>1, <1>2, <2>1 DEF LogRow
<1>4. SameRow(p)
  BY <1>1, <1>3, RowTyped DEF SameRow
<1>5. log' \in [Paths -> LogRow \cup {Nothing}] /\ \A q \in Paths : q # p => log'[q] = log[q]
  BY <1>1, <1>2, <1>3 DEF TypeOK
<1>6. TypeOK'
  BY <1>5 DEF Age, TypeOK
<1>7. gone' = gone
  BY DEF Age
<1> QED
  BY <1>4, <1>5, <1>6, <1>7, RowRewritten

LEMMA PruneKeeps ==
    ASSUME LogInv, Prune
    PROVE  LogInv' /\ \A p \in Paths : log'[p] # Nothing => log'[p] = log[p]
<1> USE DEF LogInv, callVars
<1>1. \A p \in Paths : log'[p] = log[p] \/ log'[p] = Nothing
  BY DEF Prune
<1>2. log' \in [Paths -> LogRow \cup {Nothing}]
  BY <1>1 DEF Prune, TypeOK
<1>3. TypeOK'
  BY <1>2 DEF Prune, TypeOK
<1>4. RuleFirst'
  BY <1>1 DEF Prune, RuleFirst
<1> QED
  BY <1>1, <1>3, <1>4

-----------------------------------------------------------------------------
\* What no step does to a row.
Kept == \A p \in Paths :
    log[p] # Nothing /\ log'[p] # Nothing /\ log[p].pk = log'[p].pk /\ log[p].resolved
        => log'[p].resolved

LEMMA StepKeeps == ASSUME LogInv, [Next]_vars PROVE LogInv' /\ Kept
<1>1. ASSUME NEW c \in Callers, NEW p \in Paths, NEW r \in Referrers \cup {Unsent}, Find(c, p, r)
      PROVE  LogInv' /\ Kept
  <2>1. log' = log
    BY <1>1 DEF Find
  <2> QED
    BY <1>1, <2>1, FindKeeps DEF Kept
<1>2. ASSUME NEW c \in Callers, Update(c) \/ Save(c) PROVE LogInv' /\ Kept
  <2>1. LogInv' /\ (SameRow(path[c]) \/ log' = log)
    BY <1>2, UpdateKeeps, SaveKeeps
  <2>2. \A q \in Paths : q # path[c] => log'[q] = log[q]
    BY <1>2 DEF Update, Save, LogInv, TypeOK
  <2> QED
    BY <2>1, <2>2 DEF Kept, SameRow
<1>3. ASSUME NEW c \in Callers, Refresh(c) \/ Fail(c) PROVE LogInv' /\ Kept
  <2>1. log' = log
    BY <1>3 DEF Refresh, Fail
  <2> QED
    BY <1>3, <2>1, RefreshKeeps, FailKeeps DEF Kept
<1>4. ASSUME NEW c \in Callers, Create(c) PROVE LogInv' /\ Kept
  BY <1>4, CreateKeeps DEF Kept
<1>5. ASSUME NEW p \in Paths, MakeRule(p) PROVE LogInv' /\ Kept
  <2>1. log' = log
    BY <1>5 DEF MakeRule
  <2> QED
    BY <1>5, <2>1, MakeRuleKeeps DEF Kept
<1>6. ASSUME NEW p \in Paths, Resolve(p) PROVE LogInv' /\ Kept
  BY <1>6, ResolveKeeps DEF Kept
<1>7. ASSUME NEW p \in Paths, Age(p) PROVE LogInv' /\ Kept
  BY <1>7, AgeKeeps DEF Kept, SameRow
<1>8. CASE Prune
  BY <1>8, PruneKeeps DEF Kept
<1>9. ASSUME NEW p \in Paths, Delete(p) PROVE LogInv' /\ Kept
  BY <1>9, DeleteKeeps DEF Kept
<1>10. CASE UNCHANGED vars
  <2>1. log' = log /\ gone' = gone
    BY <1>10 DEF vars
  <2>2. TypeOK'
    BY <1>10 DEF vars, callVars, LogInv, TypeOK
  <2> QED
    BY <2>1, <2>2, LogUntouched DEF Kept
<1> QED
  BY <1>1, <1>2, <1>3, <1>4, <1>5, <1>6, <1>7, <1>8, <1>9, <1>10 DEF Next

\* Every row and every call is always what the model says it may be.
THEOREM LogTypeCorrect == Spec => []TypeOK
<1>1. LogInv => TypeOK
  BY DEF LogInv
<1>2. LogInv /\ [Next]_vars => LogInv'
  BY StepKeeps
<1> QED
  BY <1>1, <1>2, InitInv, PTL DEF Spec

\* An entry becomes resolved behind its 410 rule only, and stays so until it is
\* pruned, whatever calls of record_404 had it in hand.
THEOREM ResolvedForGoodHolds == Spec => ResolvedForGood
<1>1. LogInv /\ [Next]_vars => LogInv'
  BY StepKeeps
<1>2. LogInv /\ [Next]_vars =>
          [\A p \in Paths :
              /\ log'[p] # Nothing /\ log'[p].resolved => p \in gone'
              /\ log[p] # Nothing /\ log'[p] # Nothing /\ log[p].pk = log'[p].pk /\ log[p].resolved
                    => log'[p].resolved]_vars
  BY StepKeeps DEF LogInv, RuleFirst, Kept
<1> QED
  BY <1>1, <1>2, InitInv, PTL DEF Spec, ResolvedForGood

-----------------------------------------------------------------------------
(* Sums of referrers' counts *)

\* The member a sum takes first.
One(s) == CHOOSE x \in s : TRUE

\* f[s] is the sum of counts over s.
IsSum(f, counts) ==
    f = [s \in SUBSET Referrers |-> IF s = {} THEN 0 ELSE counts[One(s)] + f[s \ {One(s)}]]

LEMMA SubsetFacts ==
    ASSUME NEW s \in SUBSET Referrers
    PROVE  /\ Cardinality(s) \in Nat /\ (Cardinality(s) = 0 <=> s = {})
           /\ s # {} => /\ One(s) \in s /\ s \ {One(s)} \in SUBSET Referrers
                        /\ Cardinality(s \ {One(s)}) = Cardinality(s) - 1
<1>1. IsFiniteSet(s)
  BY LogAssumption, FS_Subset
<1>2. s # {} => One(s) \in s
  BY DEF One
<1> QED
  BY <1>1, <1>2, FS_CardinalityType, FS_EmptySet, FS_RemoveElement

LEMMA SubsetInduction ==
    ASSUME NEW U, {} \in U,
           \A s \in SUBSET Referrers : s # {} /\ s \ {One(s)} \in U => s \in U
    PROVE  SUBSET Referrers \subseteq U
<1> DEFINE S == {m \in Nat : \A s \in SUBSET Referrers : Cardinality(s) = m => s \in U}
<1>1. 0 \in S
  BY SubsetFacts
<1>2. ASSUME NEW m \in Nat, m \in S PROVE m + 1 \in S
  <2> SUFFICES ASSUME NEW s \in SUBSET Referrers, Cardinality(s) = m + 1 PROVE s \in U
    OBVIOUS
  <2>0. /\ Cardinality(s) = 0 <=> s = {}
        /\ s # {} => /\ s \ {One(s)} \in SUBSET Referrers
                     /\ Cardinality(s \ {One(s)}) = Cardinality(s) - 1
    BY SubsetFacts
  <2>1. s # {} /\ Cardinality(s \ {One(s)}) = m /\ s \ {One(s)} \in SUBSET Referrers
    BY <2>0
  <2> QED
    BY <1>2, <2>1
<1>3. Nat \subseteq S
  <2> HIDE DEF S
  <2> QED
    BY <1>1, <1>2, Induction
<1> QED
  BY <1>3, SubsetFacts

LEMMA SumExists ==
    ASSUME NEW counts \in Counts
    PROVE  \E f \in [SUBSET Referrers -> Nat] : IsSum(f, counts)
<1> DEFINE Rec(f, s) == IF s = {} THEN 0 ELSE counts[One(s)] + f[s \ {One(s)}]
           Upto(f, m) == \A s \in SUBSET Referrers : Cardinality(s) <= m => f[s] = Rec(f, s)
           S == {m \in Nat : \E f \in [SUBSET Referrers -> Nat] : Upto(f, m)}
<1>1. \A s \in SUBSET Referrers :
         /\ Cardinality(s) \in Nat /\ (Cardinality(s) = 0 <=> s = {})
         /\ s # {} => /\ One(s) \in s /\ s \ {One(s)} \in SUBSET Referrers
                      /\ Cardinality(s \ {One(s)}) = Cardinality(s) - 1
  BY SubsetFacts
<1>2. 0 \in S
  <2>1. Upto([s \in SUBSET Referrers |-> 0], 0)
    BY <1>1
  <2>2. [s \in SUBSET Referrers |-> 0] \in [SUBSET Referrers -> Nat]
    OBVIOUS
  <2> HIDE DEF Upto
  <2> QED
    BY <2>1, <2>2
<1>3. ASSUME NEW m \in Nat, m \in S PROVE m + 1 \in S
  <2>1. PICK f \in [SUBSET Referrers -> Nat] : Upto(f, m)
    BY <1>3
  <2> DEFINE g == [s \in SUBSET Referrers |-> IF Cardinality(s) = m + 1 THEN Rec(f, s) ELSE f[s]]
  <2>2. g \in [SUBSET Referrers -> Nat]
    <3>1. ASSUME NEW s \in SUBSET Referrers PROVE Rec(f, s) \in Nat
      <4>1. CASE s = {}
        BY <4>1
      <4>2. CASE s # {}
        <5>1. One(s) \in Referrers /\ s \ {One(s)} \in SUBSET Referrers
          BY <1>1, <4>2
        <5>2. counts[One(s)] \in Nat /\ f[s \ {One(s)}] \in Nat
          BY <5>1 DEF Counts
        <5> QED
          BY <4>2, <5>2
      <4> QED
        BY <4>1, <4>2
    <3> HIDE DEF Rec
    <3> QED
      BY <3>1
  <2>3. ASSUME NEW s \in SUBSET Referrers, Cardinality(s) <= m + 1 PROVE g[s] = Rec(g, s)
    <3>0. Cardinality(s) \in Nat /\ (Cardinality(s) = 0 <=> s = {})
      BY <1>1
    <3>1. CASE s = {}
      <4>1. Cardinality(s) <= m /\ Cardinality(s) # m + 1
        BY <3>0, <3>1
      <4>2. f[s] = Rec(f, s) /\ g[s] = f[s]
        BY <2>1, <4>1
      <4> QED
        BY <3>1, <4>2
    <3>2. CASE s # {}
      <4>1. g[s \ {One(s)}] = f[s \ {One(s)}]
        BY <1>1, <2>3, <3>2
      <4>2. Rec(g, s) = Rec(f, s)
        BY <4>1
      <4>3. CASE Cardinality(s) = m + 1
        BY <4>2, <4>3
      <4>4. CASE Cardinality(s) # m + 1
        <5>1. Cardinality(s) <= m
          BY <3>0, <2>3, <4>4
        <5>2. f[s] = Rec(f, s)
          BY <2>1, <5>1
        <5>3. g[s] = f[s]
          BY <4>4
        <5> QED
          BY <4>2, <5>2, <5>3
      <4> QED
        BY <4>3, <4>4
    <3> QED
      BY <3>1, <3>2
  <2>4. Upto(g, m + 1)
    BY <2>3
  <2> HIDE DEF g, Upto
  <2> QED
    BY <2>2, <2>4
<1>4. Cardinality(Referrers) \in S
  <2> HIDE DEF S
  <2>1. Cardinality(Referrers) \in Nat
    BY <1>1
  <2> QED
    BY <1>2, <1>3, <2>1, Induction
<1>5. PICK f \in [SUBSET Referrers -> Nat] : Upto(f, Cardinality(Referrers))
  BY <1>4
<1>6. \A s \in SUBSET Referrers : Cardinality(s) <= Cardinality(Referrers)
  BY LogAssumption, FS_Subset
<1>7. f = [s \in SUBSET Referrers |-> Rec(f, s)]
  BY <1>5, <1>6
<1> QED
  BY <1>7 DEF IsSum

LEMMA SumTyped ==
    ASSUME NEW counts \in Counts, NEW f, IsSum(f, counts)
    PROVE  f \in [SUBSET Referrers -> Nat]
<1> DEFINE U == {s \in SUBSET Referrers : f[s] \in Nat}
<1>1. {} \in U
  BY DEF IsSum
<1>2. ASSUME NEW s \in SUBSET Referrers, s # {}, s \ {One(s)} \in U PROVE s \in U
  <2>1. counts[One(s)] \in Nat
    BY <1>2, SubsetFacts DEF Counts
  <2>2. f[s] = counts[One(s)] + f[s \ {One(s)}]
    BY <1>2 DEF IsSum
  <2> QED
    BY <1>2, <2>1, <2>2
<1>3. SUBSET Referrers \subseteq U
  <2> HIDE DEF U
  <2> QED
    BY <1>1, <1>2, SubsetInduction
<1> QED
  BY <1>3 DEF IsSum

LEMMA TotalIsSum ==
    ASSUME NEW counts \in Counts
    PROVE  \E f \in [SUBSET Referrers -> Nat] : IsSum(f, counts) /\ Total(counts) = f[Referrers]
<1> DEFINE iter == CHOOSE f : IsSum(f, counts)
<1>1. IsSum(iter, counts)
  BY SumExists
<1>2. Total(counts) = iter[Referrers]
  BY DEF Total, MapThenSumSet, MapThenFoldSet, IsSum, One
<1>3. iter \in [SUBSET Referrers -> Nat]
  BY <1>1, SumTyped
<1> QED
  BY <1>1, <1>2, <1>3

LEMMA TotalNone == Total(None) = 0
<1>1. PICK f \in [SUBSET Referrers -> Nat] : IsSum(f, None) /\ Total(None) = f[Referrers]
  BY TotalIsSum DEF None, Counts
<1> DEFINE U == {s \in SUBSET Referrers : f[s] = 0}
<1>2. {} \in U
  BY <1>1 DEF IsSum
<1>3. ASSUME NEW s \in SUBSET Referrers, s # {}, s \ {One(s)} \in U PROVE s \in U
  <2>1. None[One(s)] = 0
    BY <1>3, SubsetFacts DEF None
  <2>2. f[s] = None[One(s)] + f[s \ {One(s)}]
    BY <1>1, <1>3 DEF IsSum
  <2> QED
    BY <1>3, <2>1, <2>2
<1>4. SUBSET Referrers \subseteq U
  <2> HIDE DEF U
  <2> QED
    BY <1>2, <1>3, SubsetInduction
<1> QED
  BY <1>1, <1>4

LEMMA TotalMonotonic ==
    ASSUME NEW few \in Counts, NEW counts \in Counts, \A r \in Referrers : few[r] <= counts[r]
    PROVE  Total(few) <= Total(counts)
<1>1. PICK f \in [SUBSET Referrers -> Nat] : IsSum(f, few) /\ Total(few) = f[Referrers]
  BY TotalIsSum
<1>2. PICK g \in [SUBSET Referrers -> Nat] : IsSum(g, counts) /\ Total(counts) = g[Referrers]
  BY TotalIsSum
<1> DEFINE U == {s \in SUBSET Referrers : f[s] <= g[s]}
<1>3. {} \in U
  BY <1>1, <1>2 DEF IsSum
<1>4. ASSUME NEW s \in SUBSET Referrers, s # {}, s \ {One(s)} \in U PROVE s \in U
  <2>1. /\ few[One(s)] \in Nat /\ counts[One(s)] \in Nat /\ few[One(s)] <= counts[One(s)]
        /\ f[s \ {One(s)}] \in Nat /\ g[s \ {One(s)}] \in Nat
    BY <1>4, SubsetFacts DEF Counts
  <2>2. f[s] = few[One(s)] + f[s \ {One(s)}] /\ g[s] = counts[One(s)] + g[s \ {One(s)}]
    BY <1>1, <1>2, <1>4 DEF IsSum
  <2> QED
    BY <1>4, <2>1, <2>2
<1>5. SUBSET Referrers \subseteq U
  <2> HIDE DEF U
  <2> QED
    BY <1>3, <1>4, SubsetInduction
<1> QED
  BY <1>1, <1>2, <1>5

LEMMA TotalPlus ==
    ASSUME NEW counts \in Counts, NEW r \in Referrers
    PROVE  Total([counts EXCEPT ![r] = @ + 1]) = Total(counts) + 1
<1> DEFINE more == [counts EXCEPT ![r] = @ + 1]
<1>0. more \in Counts /\ more[r] = counts[r] + 1 /\ \A q \in Referrers \ {r} : more[q] = counts[q]
  BY DEF Counts
<1> HIDE DEF more
<1>1. PICK f \in [SUBSET Referrers -> Nat] : IsSum(f, counts) /\ Total(counts) = f[Referrers]
  BY TotalIsSum
<1>2. PICK g \in [SUBSET Referrers -> Nat] : IsSum(g, more) /\ Total(more) = g[Referrers]
  BY <1>0, TotalIsSum
<1> DEFINE U == {s \in SUBSET Referrers : g[s] = f[s] + (IF r \in s THEN 1 ELSE 0)}
<1>3. {} \in U
  BY <1>1, <1>2 DEF IsSum
<1>4. ASSUME NEW s \in SUBSET Referrers, s # {}, s \ {One(s)} \in U PROVE s \in U
  <2> DEFINE x == One(s)
             t == s \ {x}
  <2>1. /\ x \in s /\ counts[x] \in Nat /\ more[x] \in Nat
        /\ t \in SUBSET Referrers /\ f[t] \in Nat /\ g[t] \in Nat
    BY <1>0, <1>4, SubsetFacts DEF Counts
  <2>2. f[s] = counts[x] + f[t] /\ g[s] = more[x] + g[t]
    BY <1>1, <1>2, <1>4 DEF IsSum
  <2>3. g[t] = f[t] + (IF r \in t THEN 1 ELSE 0)
    BY <1>4
  <2>4. CASE x = r
    <3>1. r \in s /\ r \notin t /\ more[x] = counts[x] + 1
      BY <1>0, <2>1, <2>4
    <3>2. g[t] = f[t]
      BY <2>3, <3>1
    <3>3. g[s] = f[s] + 1
      BY <2>1, <2>2, <3>1, <3>2
    <3> QED
      BY <3>1, <3>3
  <2>5. CASE x # r
    <3>1. (r \in s <=> r \in t) /\ more[x] = counts[x]
      BY <1>0, <2>1, <2>5
    <3>2. g[s] = f[s] + (IF r \in t THEN 1 ELSE 0)
      BY <2>1, <2>2, <2>3, <3>1
    <3> QED
      BY <3>1, <3>2
  <2> QED
    BY <2>4, <2>5
<1>5. SUBSET Referrers \subseteq U
  <2> HIDE DEF U
  <2> QED
    BY <1>3, <1>4, SubsetInduction
<1> QED
  BY <1>1, <1>2, <1>5 DEF more

LEMMA TrimmedFew ==
    ASSUME NEW counts \in Counts, NEW r \in Referrers, NEW kept \in Trimmed(counts, r)
    PROVE  Total(kept) <= Total(counts) /\ Cardinality(Named(kept)) <= MaxReferrers
<1>1. CASE Cardinality(Named(counts)) <= MaxReferrers
  <2>1. kept = counts
    BY <1>1 DEF Trimmed
  <2>2. Total(counts) \in Nat
    BY TotalIsSum
  <2> QED
    BY <1>1, <2>1, <2>2
<1>2. CASE ~(Cardinality(Named(counts)) <= MaxReferrers)
  <2>1. PICK S \in SUBSET Named(counts) :
          /\ Cardinality(S) = MaxReferrers
          /\ kept = [q \in Referrers |-> IF q \in S THEN counts[q] ELSE 0]
    BY <1>2 DEF Trimmed
  <2>2. kept \in Counts /\ \A q \in Referrers : kept[q] <= counts[q]
    BY <2>1 DEF Counts
  <2>3. Named(kept) \subseteq S /\ S \subseteq Referrers
    BY <2>1 DEF Named
  <2>4. Cardinality(Named(kept)) <= Cardinality(S)
    BY <2>3, LogAssumption, FS_Subset
  <2> QED
    BY <2>1, <2>2, <2>4, TotalMonotonic
<1> QED
  BY <1>1, <1>2

LEMMA PlusBounded ==
    ASSUME NEW counts \in Counts, NEW r \in Referrers \cup {Unsent}
    PROVE  Total(Plus(counts, r)) \in Nat /\ Total(Plus(counts, r)) <= Total(counts) + 1
<1>1. Total(counts) \in Nat
  BY TotalIsSum
<1>2. CASE r = Unsent
  BY <1>1, <1>2 DEF Plus
<1>3. CASE r # Unsent
  BY <1>1, <1>3, TotalPlus DEF Plus
<1> QED
  BY <1>2, <1>3

-----------------------------------------------------------------------------
(* Referrers and hits.  A call counts its hit two statements before its    *)
(* referrer, and other calls may write both between them.                  *)

\* Calls that have counted a hit on the row of p and not yet its referrer.
Owing(p) == {c \in Callers : call[c] \in {"refresh", "save"} /\ path[c] = p /\ Holds(c)}

\* Primary keys are not used again.
Numbered ==
    /\ \A p \in Paths : log[p] # Nothing => log[p].pk <= made
    /\ \A c \in Callers : entry[c] # Nothing => entry[c].pk <= made

Few(counts) == Cardinality(Named(counts)) <= MaxReferrers

\* Hits are ahead of referrers by what calls owe ...
RowsAhead == \A p \in Paths : log[p] # Nothing =>
    /\ Few(log[p].referrers)
    /\ Total(log[p].referrers) + Cardinality(Owing(p)) <= log[p].hits

\* ... and so they will be when a save replaces the referrers.
SavesAhead == \A c \in Callers : call[c] = "save" =>
    /\ Few(entry[c].referrers)
    /\ Holds(c) => Total(entry[c].referrers) + Cardinality(Owing(path[c]) \ {c}) <= log[path[c]].hits

ReferrerInv == LogInv /\ Numbered /\ RowsAhead /\ SavesAhead

LEMMA OwingCounted ==
    ASSUME NEW S, NEW T \in SUBSET Callers, S \subseteq T
    PROVE  /\ Cardinality(S) \in Nat /\ Cardinality(T) \in Nat /\ Cardinality(S) <= Cardinality(T)
           /\ \A c \in Callers : Cardinality(T \cup {c}) <= Cardinality(T) + 1
           /\ \A c \in T : Cardinality(T \ {c}) = Cardinality(T) - 1
<1>1. IsFiniteSet(T) /\ IsFiniteSet(S)
  BY LogAssumption, FS_Subset
<1>2. Cardinality(S) \in Nat /\ Cardinality(T) \in Nat /\ Cardinality(S) <= Cardinality(T)
  BY <1>1, FS_Subset, FS_CardinalityType
<1>3. \A c \in Callers : Cardinality(T \cup {c}) <= Cardinality(T) + 1
  BY <1>1, <1>2, FS_AddElement
<1>4. \A c \in T : Cardinality(T \ {c}) = Cardinality(T) - 1
  BY <1>1, FS_RemoveElement
<1> QED
  BY <1>2, <1>3, <1>4

LEMMA RowSums ==
    ASSUME NEW row \in LogRow
    PROVE  Total(row.referrers) \in Nat
  BY RowTyped, TotalIsSum

\* Steps that write neither referrers nor hits and bring no call on to its save.
LEMMA DebtsStand ==
    ASSUME ReferrerInv, LogInv', Numbered',
           \A p \in Paths : log'[p] # Nothing =>
              /\ log[p] # Nothing /\ log'[p].pk = log[p].pk
              /\ log'[p].hits = log[p].hits /\ log'[p].referrers = log[p].referrers,
           \A c \in Callers : call'[c] \in {"refresh", "save"} /\ Holds(c)' =>
              call[c] = call'[c] /\ path'[c] = path[c] /\ entry'[c] = entry[c],
           \A c \in Callers : call'[c] = "save" => call[c] = "save" /\ entry'[c] = entry[c]
    PROVE  ReferrerInv'
<1> USE DEF ReferrerInv, LogInv
<1>0. \A c \in Callers : path[c] \in Paths /\ path'[c] \in Paths
  BY DEF TypeOK
<1>1. \A c \in Callers : call'[c] \in {"refresh", "save"} /\ Holds(c)' => Holds(c)
  BY <1>0 DEF Holds
<1>2. \A p \in Paths : Owing(p)' \subseteq Owing(p)
  BY <1>1 DEF Owing
<1>3. \A p \in Paths : log[p] # Nothing => Total(log[p].referrers) \in Nat /\ log[p].hits \in Nat
  BY RowSums, RowTyped DEF TypeOK
<1>4. RowsAhead'
  <2> SUFFICES ASSUME NEW p \in Paths, log'[p] # Nothing
               PROVE  /\ Few(log'[p].referrers)
                      /\ Total(log'[p].referrers) + Cardinality(Owing(p)') <= log'[p].hits
    BY DEF RowsAhead, Few
  <2>1. Cardinality(Owing(p)') \in Nat /\ Cardinality(Owing(p)) \in Nat
        /\ Cardinality(Owing(p)') <= Cardinality(Owing(p))
    BY <1>2, OwingCounted DEF Owing
  <2>2. Few(log[p].referrers) /\ Total(log[p].referrers) + Cardinality(Owing(p)) <= log[p].hits
    BY DEF RowsAhead
  <2> QED
    BY <1>3, <2>1, <2>2
<1>5. SavesAhead'
  <2> SUFFICES ASSUME NEW c \in Callers, call'[c] = "save"
               PROVE  /\ Few(entry'[c].referrers)
                      /\ Holds(c)' => Total(entry'[c].referrers) + Cardinality(Owing(path[c])' \ {c})
                                        <= log'[path[c]].hits
    BY DEF SavesAhead, Few, Owing
  <2>1. Few(entry[c].referrers) /\ entry'[c] = entry[c] /\ entry[c] \in LogRow
    BY DEF SavesAhead, TypeOK
  <2>2. ASSUME Holds(c)'
        PROVE  Total(entry'[c].referrers) + Cardinality(Owing(path[c])' \ {c}) <= log'[path[c]].hits
    <3>1. Holds(c) /\ path'[c] = path[c] /\ log'[path[c]] # Nothing
      BY <1>1, <2>2 DEF Holds
    <3>2. Total(entry[c].referrers) + Cardinality(Owing(path[c]) \ {c}) <= log[path[c]].hits
      BY <3>1 DEF SavesAhead
    <3>3. Owing(path[c])' \ {c} \subseteq Owing(path[c]) \ {c} /\ Owing(path[c]) \ {c} \in SUBSET Callers
      BY <1>0, <1>2, <3>1 DEF Owing
    <3>4. Cardinality(Owing(path[c])' \ {c}) \in Nat /\ Cardinality(Owing(path[c]) \ {c}) \in Nat
          /\ Cardinality(Owing(path[c])' \ {c}) <= Cardinality(Owing(path[c]) \ {c})
      BY <3>3, OwingCounted
    <3>5. Total(entry[c].referrers) \in Nat /\ log'[path[c]].hits = log[path[c]].hits
          /\ log[path[c]].hits \in Nat
      BY <1>0, <1>3, <2>1, <3>1, RowSums DEF Holds
    <3> QED
      BY <2>1, <3>2, <3>4, <3>5
  <2> QED
    BY <2>1, <2>2
<1> QED
  BY <1>4, <1>5

LEMMA NumbersStand ==
    ASSUME LogInv, Numbered, LogInv', made <= made',
           \A p \in Paths : log'[p] # Nothing =>
              log'[p].pk = made' \/ (log[p] # Nothing /\ log'[p].pk = log[p].pk),
           \A c \in Callers : entry'[c] # Nothing =>
              \/ entry[c] # Nothing /\ entry'[c].pk = entry[c].pk
              \/ \E p \in Paths : log[p] # Nothing /\ entry'[c].pk = log[p].pk
    PROVE  Numbered'
<1> USE DEF LogInv
<1>1. made \in Nat /\ made' \in Nat
  BY DEF TypeOK
<1>2. \A p \in Paths : log[p] # Nothing => log[p].pk \in Nat
  BY RowTyped DEF TypeOK
<1>3. \A c \in Callers : entry[c] # Nothing => entry[c].pk \in Nat
  BY RowTyped DEF TypeOK
<1>4. \A p \in Paths : log'[p] # Nothing => log'[p].pk <= made'
  BY <1>1, <1>2 DEF Numbered
<1>5. \A c \in Callers : entry'[c] # Nothing => entry'[c].pk <= made'
  BY <1>1, <1>2, <1>3 DEF Numbered
<1> QED
  BY <1>4, <1>5 DEF Numbered

LEMMA DoneIdles ==
    ASSUME LogInv, NEW c \in Callers, Done(c)
    PROVE  /\ call'[c] = "idle" /\ entry'[c] = Nothing /\ path' = path
           /\ \A d \in Callers : d # c => call'[d] = call[d] /\ entry'[d] = entry[d]
  BY DEF Done, Goto, LogInv, TypeOK

\* The hit is counted and its referrer owed.
LEMMA UpdateOwes ==
    ASSUME ReferrerInv, NEW c \in Callers, Update(c)
    PROVE  ReferrerInv'
<1> USE DEF ReferrerInv, LogInv
<1> DEFINE p == path[c]
<1>0. /\ p \in Paths /\ call[c] = "update" /\ call'[c] = "refresh" /\ LogInv'
      /\ made' = made /\ path' = path /\ entry' = entry
      /\ \A d \in Callers : d # c => call'[d] = call[d]
  BY UpdateKeeps DEF Update, Goto, TypeOK
<1>1. CASE ~Holds(c)
  <2>1. log' = log
    BY <1>1 DEF Update
  <2>2. Numbered'
    BY <1>0, <2>1 DEF Numbered
  <2>3. ~Holds(c)'
    BY <1>0, <1>1, <2>1 DEF Holds
  <2>4. \A d \in Callers : call'[d] \in {"refresh", "save"} /\ Holds(d)' => call[d] = call'[d]
    BY <1>0, <2>3
  <2>5. \A d \in Callers : call'[d] = "save" => call[d] = "save"
    BY <1>0
  <2> QED
    BY <1>0, <2>1, <2>2, <2>4, <2>5, DebtsStand
<1>2. CASE Holds(c)
  <2>1. log[p] \in LogRow /\ \A q \in Paths : q # p => log'[q] = log[q]
    BY <1>2, <1>0 DEF Update, Holds, TypeOK
  <2>2. log'[p] = [log[p] EXCEPT !.hits = @ + 1, !.old = FALSE]
    BY <1>2, <1>0 DEF Update, TypeOK
  <2>3. /\ log'[p].hits = log[p].hits + 1 /\ log'[p].pk = log[p].pk
        /\ log'[p].referrers = log[p].referrers
    BY <2>1, <2>2 DEF LogRow
  <2>4. log[p] # Nothing /\ log[p].hits \in Nat /\ Total(log[p].referrers) \in Nat
    BY <2>1, RowTyped, RowSums
  <2>5. Numbered'
    BY <1>0, <2>1, <2>3, <2>4 DEF Numbered
  <2>6. \A d \in Callers : Holds(d)' => Holds(d)
    BY <1>0, <2>1, <2>3, <2>4 DEF Holds, TypeOK
  <2>7. \A q \in Paths : Owing(q)' \subseteq (Owing(q) \cup (IF q = p THEN {c} ELSE {}))
    BY <1>0, <2>6 DEF Owing
  <2>8. RowsAhead'
    <3> SUFFICES ASSUME NEW q \in Paths, log'[q] # Nothing
                 PROVE  /\ Few(log'[q].referrers)
                        /\ Total(log'[q].referrers) + Cardinality(Owing(q)') <= log'[q].hits
      BY DEF RowsAhead, Few
    <3>1. CASE q = p
      <4>1. Owing(p)' \subseteq Owing(p) \cup {c} /\ Owing(p) \in SUBSET Callers
        BY <1>0, <2>7, <3>1 DEF Owing
      <4>2. Cardinality(Owing(p)') \in Nat /\ Cardinality(Owing(p)) \in Nat
            /\ Cardinality(Owing(p)') <= Cardinality(Owing(p)) + 1
        <5>1. Cardinality(Owing(p) \cup {c}) \in Nat
              /\ Cardinality(Owing(p)') <= Cardinality(Owing(p) \cup {c})
              /\ Cardinality(Owing(p)') \in Nat
          BY <4>1, OwingCounted
        <5>2. Cardinality(Owing(p)) \in Nat /\ Cardinality(Owing(p) \cup {c}) <= Cardinality(Owing(p)) + 1
          BY <4>1, OwingCounted
        <5> QED
          BY <5>1, <5>2
      <4>3. Few(log[p].referrers) /\ Total(log[p].referrers) + Cardinality(Owing(p)) <= log[p].hits
        BY <1>0, <2>4 DEF RowsAhead
      <4> QED
        BY <1>0, <2>3, <2>4, <3>1, <4>2, <4>3
    <3>2. CASE q # p
      <4>1. Owing(q)' \subseteq Owing(q) /\ Owing(q) \in SUBSET Callers
        BY <2>7, <3>2 DEF Owing
      <4>2. Cardinality(Owing(q)') \in Nat /\ Cardinality(Owing(q)) \in Nat
            /\ Cardinality(Owing(q)') <= Cardinality(Owing(q))
        BY <4>1, OwingCounted
      <4>3. log'[q] = log[q] /\ log[q] \in LogRow
        BY <2>1, <3>2 DEF TypeOK
      <4>4. Few(log[q].referrers) /\ Total(log[q].referrers) + Cardinality(Owing(q)) <= log[q].hits
        BY <4>3 DEF RowsAhead
      <4>5. Total(log[q].referrers) \in Nat /\ log[q].hits \in Nat
        BY <4>3, RowSums, RowTyped
      <4> QED
        BY <4>2, <4>3, <4>4, <4>5
    <3> QED
      BY <3>1, <3>2
  <2>9. SavesAhead'
    <3> SUFFICES ASSUME NEW d \in Callers, call'[d] = "save"
                 PROVE  /\ Few(entry[d].referrers)
                        /\ Holds(d)' => Total(entry[d].referrers) + Cardinality(Owing(path[d])' \ {d})
                                          <= log'[path[d]].hits
      BY <1>0 DEF SavesAhead, Few, Owing
    <3>1. d # c /\ call[d] = "save" /\ path[d] \in Paths
      BY <1>0 DEF TypeOK
    <3>2. Few(entry[d].referrers) /\ entry[d] \in LogRow
      BY <3>1 DEF SavesAhead, TypeOK
    <3>3. ASSUME Holds(d)'
          PROVE  Total(entry[d].referrers) + Cardinality(Owing(path[d])' \ {d}) <= log'[path[d]].hits
      <4>1. Total(entry[d].referrers) + Cardinality(Owing(path[d]) \ {d}) <= log[path[d]].hits
        BY <2>6, <3>1, <3>3 DEF SavesAhead
      <4>2. Total(entry[d].referrers) \in Nat
        BY <3>2, RowSums
      <4>3. Cardinality(Owing(path[d]) \ {d}) \in Nat /\ Owing(path[d]) \ {d} \in SUBSET Callers
        BY OwingCounted DEF Owing
      <4>4. CASE path[d] = p
        <5>1. Owing(p)' \ {d} \subseteq (Owing(p) \ {d}) \cup {c}
          BY <1>0, <2>7
        <5>2. /\ Cardinality(Owing(p)' \ {d}) \in Nat
              /\ Cardinality((Owing(p) \ {d}) \cup {c}) \in Nat
              /\ Cardinality(Owing(p)' \ {d}) <= Cardinality((Owing(p) \ {d}) \cup {c})
          BY <4>3, <4>4, <5>1, OwingCounted
        <5>3. Cardinality((Owing(p) \ {d}) \cup {c}) <= Cardinality(Owing(p) \ {d}) + 1
          BY <4>3, <4>4, OwingCounted
        <5> QED
          BY <1>0, <2>3, <2>4, <4>1, <4>2, <4>3, <4>4, <5>2, <5>3
      <4>5. CASE path[d] # p
        <5>1. Owing(path[d])' \ {d} \subseteq Owing(path[d]) \ {d}
          BY <1>0, <2>7, <3>1, <4>5
        <5>2. /\ Cardinality(Owing(path[d])' \ {d}) \in Nat
              /\ Cardinality(Owing(path[d])' \ {d}) <= Cardinality(Owing(path[d]) \ {d})
          BY <4>3, <5>1, OwingCounted
        <5>3. log'[path[d]] = log[path[d]] /\ log[path[d]] \in LogRow
          BY <2>1, <2>6, <3>1, <3>3, <4>5 DEF Holds, TypeOK
        <5>4. log[path[d]].hits \in Nat
          BY <5>3, RowTyped
        <5> QED
          BY <4>1, <4>2, <4>3, <5>2, <5>3, <5>4
      <4> QED
        BY <4>4, <4>5
    <3> QED
      BY <3>2, <3>3
  <2> QED
    BY <1>0, <2>5, <2>8, <2>9
<1> QED
  BY <1>1, <1>2


\* The call comes to its save with the referrers it read and its own.
LEMMA RefreshOwes ==
    ASSUME ReferrerInv, NEW c \in Callers, Refresh(c)
    PROVE  ReferrerInv'
<1> USE DEF ReferrerInv, LogInv
<1> DEFINE p == path[c]
<1>0. /\ p \in Paths /\ call[c] = "refresh" /\ LogInv'
      /\ log' = log /\ made' = made /\ path' = path /\ entry[c] # Nothing
      /\ \A d \in Callers : d # c => call'[d] = call[d] /\ entry'[d] = entry[d]
  BY RefreshKeeps DEF Refresh, Done, Goto, TypeOK
<1>1. CASE call'[c] \in {"idle", "create"}
  <2>1. entry'[c] = Nothing \/ entry'[c] = entry[c]
    BY <1>0, <1>1 DEF Refresh, Done, Goto, TypeOK
  <2>2. Numbered'
    BY <1>0, <2>1, NumbersStand DEF TypeOK
  <2>3. \A d \in Callers : call'[d] \in {"refresh", "save"} => d # c
    BY <1>1
  <2> QED
    BY <1>0, <2>2, <2>3, DebtsStand
<1>2. CASE /\ Holds(c) /\ referrer[c] # Unsent /\ Goto(c, "save")
           /\ \E kept \in Trimmed(Plus(log[p].referrers, referrer[c]), referrer[c]) :
                entry' = [entry EXCEPT ![c] = [log[p] EXCEPT !.referrers = kept]]
  <2>1. PICK kept \in Trimmed(Plus(log[p].referrers, referrer[c]), referrer[c]) :
                entry' = [entry EXCEPT ![c] = [log[p] EXCEPT !.referrers = kept]]
    BY <1>2
  <2>2. /\ log[p] \in LogRow /\ referrer[c] \in Referrers /\ log[p].referrers \in Counts
        /\ log[p].hits \in Nat /\ log[p] # Nothing
    BY <1>0, <1>2, RowTyped DEF Holds, TypeOK
  <2>3. entry'[c].referrers = kept /\ entry'[c].pk = log[p].pk /\ call'[c] = "save"
    BY <1>2, <2>1, <2>2 DEF LogRow, Goto, TypeOK
  <2>4. Plus(log[p].referrers, referrer[c]) \in Counts
        /\ Total(Plus(log[p].referrers, referrer[c])) \in Nat
        /\ Total(Plus(log[p].referrers, referrer[c])) <= Total(log[p].referrers) + 1
    BY <2>2, PlusTyped, PlusBounded
  <2>5. Few(kept) /\ Total(kept) <= Total(Plus(log[p].referrers, referrer[c]))
    BY <2>2, <2>4, TrimmedFew DEF Few
  <2>6. Total(kept) \in Nat /\ Total(log[p].referrers) \in Nat
    BY <2>2, <2>4, TrimmedTyped, TotalIsSum
  <2>7. Numbered'
    BY <1>0, <2>2, <2>3, NumbersStand DEF TypeOK
  <2>8. \A d \in Callers : Holds(d)' <=> Holds(d)
    BY <1>0, <1>2, <2>3 DEF Holds
  <2>9. \A q \in Paths : Owing(q)' = Owing(q)
    BY <1>0, <2>3, <2>8 DEF Owing
  <2>10. RowsAhead'
    BY <1>0, <2>9 DEF RowsAhead, Few
  <2>11. SavesAhead'
    <3>1. ASSUME NEW d \in Callers, call'[d] = "save", d # c
          PROVE  /\ Few(entry'[d].referrers)
                 /\ Holds(d) => Total(entry'[d].referrers) + Cardinality(Owing(path[d]) \ {d})
                                  <= log[path[d]].hits
      BY <1>0, <3>1 DEF SavesAhead
    <3>2. Total(entry'[c].referrers) + Cardinality(Owing(p) \ {c}) <= log[p].hits
      <4>1. c \in Owing(p) /\ Owing(p) \in SUBSET Callers
        BY <1>0, <1>2 DEF Owing
      <4>2. Cardinality(Owing(p)) \in Nat /\ Cardinality(Owing(p) \ {c}) = Cardinality(Owing(p)) - 1
        BY <4>1, OwingCounted
      <4>3. Total(log[p].referrers) + Cardinality(Owing(p)) <= log[p].hits
        BY <1>0, <2>2 DEF RowsAhead
      <4> QED
        BY <2>2, <2>3, <2>4, <2>5, <2>6, <4>2, <4>3
    <3>3. \A d \in Callers : path[d] \in Paths /\ path'[d] = path[d] /\ Owing(path[d])' = Owing(path[d])
      BY <1>0, <2>9 DEF TypeOK
    <3>4. ASSUME NEW d \in Callers, call'[d] = "save"
          PROVE  /\ Few(entry'[d].referrers)
                 /\ Holds(d) => Total(entry'[d].referrers) + Cardinality(Owing(path[d]) \ {d})
                                  <= log[path[d]].hits
      BY <2>3, <2>5, <3>1, <3>2, <3>4
    <3> QED
      BY <1>0, <2>8, <3>3, <3>4 DEF SavesAhead, Few
  <2> QED
    BY <1>0, <2>7, <2>10, <2>11
<1> QED
  BY <1>0, <1>1, <1>2 DEF Refresh, Done, Goto, TypeOK

\* The save writes the referrers the call holds, and its debt is paid.
LEMMA SavePays ==
    ASSUME ReferrerInv, NEW c \in Callers, Save(c)
    PROVE  ReferrerInv'
<1> USE DEF ReferrerInv, LogInv
<1> DEFINE p == path[c]
<1>0. /\ p \in Paths /\ call[c] = "save" /\ LogInv' /\ entry[c] \in LogRow
      /\ made' = made /\ path' = path
      /\ call'[c] = "idle" /\ entry'[c] = Nothing
      /\ \A d \in Callers : d # c => call'[d] = call[d] /\ entry'[d] = entry[d]
  BY SaveKeeps, DoneIdles DEF Save, TypeOK
<1>1. \A d \in Callers : call'[d] \in {"refresh", "save"} => d # c
  BY <1>0
<1>2. CASE ~Holds(c)
  <2>1. log' = log
    BY <1>2 DEF Save
  <2>2. Numbered'
    BY <1>0, <2>1, NumbersStand DEF TypeOK
  <2> QED
    BY <1>0, <1>1, <2>1, <2>2, DebtsStand
<1>3. CASE Holds(c)
  <2>1. /\ log[p] \in LogRow /\ log[p].hits \in Nat /\ log[p] # Nothing
        /\ \A q \in Paths : q # p => log'[q] = log[q]
    BY <1>3, <1>0, RowTyped DEF Save, Holds, TypeOK
  <2>2. log'[p] = [log[p] EXCEPT !.referrers = entry[c].referrers]
    BY <1>3, <1>0 DEF Save, TypeOK
  <2>3. /\ log'[p].hits = log[p].hits /\ log'[p].pk = log[p].pk
        /\ log'[p].referrers = entry[c].referrers
    BY <2>1, <2>2 DEF LogRow
  <2>4. Numbered'
    BY <1>0, <2>1, <2>3, NumbersStand DEF TypeOK
  <2>5. \A d \in Callers : d # c /\ Holds(d)' => Holds(d)
    BY <1>0, <2>1, <2>3 DEF Holds, TypeOK
  <2>6. \A q \in Paths : Owing(q)' \subseteq Owing(q) \ {c}
    BY <1>0, <1>1, <2>5 DEF Owing
  <2>7. RowsAhead'
    <3> SUFFICES ASSUME NEW q \in Paths, log'[q] # Nothing
                 PROVE  /\ Few(log'[q].referrers)
                        /\ Total(log'[q].referrers) + Cardinality(Owing(q)') <= log'[q].hits
      BY DEF RowsAhead, Few
    <3>1. /\ Cardinality(Owing(q)') \in Nat /\ Cardinality(Owing(q) \ {c}) \in Nat
          /\ Cardinality(Owing(q)') <= Cardinality(Owing(q) \ {c})
      BY <2>6, OwingCounted DEF Owing
    <3>2. CASE q = p
      <4>1. Few(entry[c].referrers)
            /\ Total(entry[c].referrers) + Cardinality(Owing(p) \ {c}) <= log[p].hits
        BY <1>0, <1>3 DEF SavesAhead
      <4>2. Total(entry[c].referrers) \in Nat
        BY <1>0, RowSums
      <4> HIDE DEF p
      <4> QED
        BY <2>1, <2>3, <3>1, <3>2, <4>1, <4>2
    <3>3. CASE q # p
      <4>1. log'[q] = log[q] /\ log[q] \in LogRow /\ log[q] # Nothing
        BY <2>1, <3>3 DEF TypeOK
      <4>2. Few(log[q].referrers) /\ Total(log[q].referrers) + Cardinality(Owing(q)) <= log[q].hits
        BY <4>1 DEF RowsAhead
      <4>3. Total(log[q].referrers) \in Nat /\ log[q].hits \in Nat
        BY <4>1, RowSums, RowTyped
      <4>4. Owing(q) \in SUBSET Callers /\ Owing(q) \ {c} \subseteq Owing(q)
        BY DEF Owing
      <4>5. Cardinality(Owing(q)) \in Nat /\ Cardinality(Owing(q) \ {c}) <= Cardinality(Owing(q))
        BY <4>4, OwingCounted
      <4> QED
        BY <3>1, <4>1, <4>2, <4>3, <4>5
    <3> QED
      BY <3>2, <3>3
  <2>8. SavesAhead'
    <3> SUFFICES ASSUME NEW d \in Callers, call'[d] = "save"
                 PROVE  /\ Few(entry'[d].referrers)
                        /\ Holds(d)' => Total(entry'[d].referrers) + Cardinality(Owing(path[d])' \ {d})
                                          <= log'[path[d]].hits
      BY <1>0 DEF SavesAhead, Few, Owing
    <3>1. d # c /\ call[d] = "save" /\ path[d] \in Paths /\ entry'[d] = entry[d] /\ entry[d] \in LogRow
      BY <1>0, <1>1 DEF TypeOK
    <3>2. ASSUME Holds(d)'
          PROVE  Total(entry[d].referrers) + Cardinality(Owing(path[d])' \ {d}) <= log'[path[d]].hits
      <4>1. Holds(d)
        BY <2>5, <3>1, <3>2
      <4>2. Total(entry[d].referrers) + Cardinality(Owing(path[d]) \ {d}) <= log[path[d]].hits
        BY <3>1, <4>1 DEF SavesAhead
      <4>3. Owing(path[d])' \ {d} \subseteq Owing(path[d]) \ {d}
            /\ Owing(path[d]) \ {d} \in SUBSET Callers
        BY <1>0, <2>6, <3>1 DEF Owing
      <4>4. /\ Cardinality(Owing(path[d])' \ {d}) \in Nat /\ Cardinality(Owing(path[d]) \ {d}) \in Nat
            /\ Cardinality(Owing(path[d])' \ {d}) <= Cardinality(Owing(path[d]) \ {d})
        BY <4>3, OwingCounted
      <4>5. log'[path[d]].hits = log[path[d]].hits /\ log[path[d]] # Nothing
        BY <2>1, <2>3, <3>1, <4>1 DEF Holds
      <4>6. Total(entry[d].referrers) \in Nat /\ log[path[d]].hits \in Nat
        BY <3>1, <4>5, RowSums, RowTyped DEF TypeOK
      <4> QED
        BY <4>2, <4>4, <4>5, <4>6
    <3> QED
      BY <3>1, <3>2 DEF SavesAhead
  <2> QED
    BY <1>0, <2>4, <2>7, <2>8
<1> QED
  BY <1>2, <1>3

\* A new row owes nothing: no call holds its key.
LEMMA CreateOwes ==
    ASSUME ReferrerInv, NEW c \in Callers, Create(c)
    PROVE  ReferrerInv'
<1> USE DEF ReferrerInv, LogInv
<1> DEFINE p == path[c]
           new == [pk |-> made', hits |-> 1, old |-> FALSE, resolved |-> FALSE,
                   referrers |-> Plus(None, referrer[c])]
<1>0. /\ p \in Paths /\ call[c] = "create" /\ LogInv' /\ path' = path
      /\ call'[c] = "idle" /\ entry'[c] = Nothing
      /\ referrer[c] \in Referrers \cup {Unsent} /\ made \in Nat
      /\ \A d \in Callers : d # c => call'[d] = call[d] /\ entry'[d] = entry[d]
  BY CreateKeeps, DoneIdles DEF Create, TypeOK
<1>1. \A d \in Callers : call'[d] \in {"refresh", "save"} => d # c
  BY <1>0
<1>2. CASE log[p] # Nothing
  <2>1. log' = log /\ made' = made
    BY <1>2 DEF Create
  <2>2. Numbered'
    BY <1>0, <2>1, NumbersStand DEF TypeOK
  <2> QED
    BY <1>0, <1>1, <2>1, <2>2, DebtsStand
<1>3. CASE log[p] = Nothing
  <2>1. made' = made + 1 /\ log' = [log EXCEPT ![p] = new]
    BY <1>3 DEF Create
  <2>2. log'[p] = new /\ \A q \in Paths : q # p => log'[q] = log[q]
    BY <1>0, <2>1 DEF TypeOK
  <2>3. Numbered'
    BY <1>0, <2>1, <2>2, NumbersStand DEF TypeOK
  <2>4. \A d \in Callers : call'[d] \in {"refresh", "save"} => entry[d].pk # made' /\ call[d] = call'[d]
    <3>1. \A d \in Callers : call[d] \in {"refresh", "save"} => entry[d].pk \in Nat /\ entry[d].pk <= made
      BY RowTyped DEF Numbered, TypeOK
    <3> QED
      BY <1>0, <1>1, <2>1, <3>1
  <2>5. \A d \in Callers : call'[d] \in {"refresh", "save"} /\ Holds(d)' =>
            path[d] # p /\ Holds(d)
    BY <1>0, <1>1, <2>2, <2>4 DEF Holds, TypeOK
  <2>6. Owing(p)' = {} /\ \A q \in Paths : Owing(q)' \subseteq Owing(q)
    BY <1>0, <1>1, <2>4, <2>5 DEF Owing
  <2>7. Total(new.referrers) <= 1 /\ Total(new.referrers) \in Nat /\ Few(new.referrers)
    <3>1. Total(Plus(None, referrer[c])) \in Nat /\ Total(Plus(None, referrer[c])) <= Total(None) + 1
      BY <1>0, NoneTyped, PlusBounded
    <3>2. Named(Plus(None, referrer[c])) \subseteq {referrer[c]}
      BY DEF Named, Plus, None
    <3>3. IsFiniteSet({referrer[c]}) /\ Cardinality({referrer[c]}) = 1
      BY FS_Singleton
    <3>4. Cardinality(Named(Plus(None, referrer[c]))) <= 1
          /\ Cardinality(Named(Plus(None, referrer[c]))) \in Nat
      BY <3>2, <3>3, FS_Subset, FS_CardinalityType
    <3> QED
      BY <3>1, <3>4, TotalNone, LogAssumption DEF Few
  <2>8. RowsAhead'
    <3> SUFFICES ASSUME NEW q \in Paths, log'[q] # Nothing
                 PROVE  /\ Few(log'[q].referrers)
                        /\ Total(log'[q].referrers) + Cardinality(Owing(q)') <= log'[q].hits
      BY DEF RowsAhead, Few
    <3>1. CASE q = p
      <4>1. Owing(q)' = {}
        BY <1>0, <2>6, <3>1
      <4>2. Cardinality(Owing(q)') = 0
        BY <4>1, FS_EmptySet
      <4>3. log'[q].hits = 1 /\ log'[q].referrers = new.referrers
        BY <2>2, <3>1
      <4> HIDE DEF new
      <4> QED
        BY <2>7, <4>2, <4>3
    <3>2. CASE q # p
      <4>1. log'[q] = log[q] /\ log[q] \in LogRow /\ log[q] # Nothing
        BY <2>2, <3>2 DEF TypeOK
      <4>2. Few(log[q].referrers) /\ Total(log[q].referrers) + Cardinality(Owing(q)) <= log[q].hits
        BY <4>1 DEF RowsAhead
      <4>3. Total(log[q].referrers) \in Nat /\ log[q].hits \in Nat
        BY <4>1, RowSums, RowTyped
      <4>4. Owing(q) \in SUBSET Callers /\ Owing(q)' \subseteq Owing(q)
        BY <2>6 DEF Owing
      <4>5. Cardinality(Owing(q)) \in Nat /\ Cardinality(Owing(q)') \in Nat
            /\ Cardinality(Owing(q)') <= Cardinality(Owing(q))
        BY <4>4, OwingCounted
      <4> QED
        BY <4>1, <4>2, <4>3, <4>5
    <3> QED
      BY <3>1, <3>2
  <2>9. SavesAhead'
    <3> SUFFICES ASSUME NEW d \in Callers, call'[d] = "save"
                 PROVE  /\ Few(entry'[d].referrers)
                        /\ Holds(d)' => Total(entry'[d].referrers) + Cardinality(Owing(path[d])' \ {d})
                                          <= log'[path[d]].hits
      BY <1>0 DEF SavesAhead, Few, Owing
    <3>1. d # c /\ call[d] = "save" /\ path[d] \in Paths /\ entry'[d] = entry[d] /\ entry[d] \in LogRow
      BY <1>0, <1>1 DEF TypeOK
    <3>2. ASSUME Holds(d)'
          PROVE  Total(entry[d].referrers) + Cardinality(Owing(path[d])' \ {d}) <= log'[path[d]].hits
      <4>1. Holds(d) /\ path[d] # p
        BY <2>5, <3>2
      <4>2. Total(entry[d].referrers) + Cardinality(Owing(path[d]) \ {d}) <= log[path[d]].hits
        BY <3>1, <4>1 DEF SavesAhead
      <4>3. Owing(path[d])' \ {d} \subseteq Owing(path[d]) \ {d}
            /\ Owing(path[d]) \ {d} \in SUBSET Callers
        BY <1>0, <2>6, <3>1 DEF Owing
      <4>4. /\ Cardinality(Owing(path[d])' \ {d}) \in Nat /\ Cardinality(Owing(path[d]) \ {d}) \in Nat
            /\ Cardinality(Owing(path[d])' \ {d}) <= Cardinality(Owing(path[d]) \ {d})
        BY <4>3, OwingCounted
      <4>5. log'[path[d]].hits = log[path[d]].hits /\ log[path[d]] # Nothing
        BY <2>2, <3>1, <4>1 DEF Holds
      <4>6. Total(entry[d].referrers) \in Nat /\ log[path[d]].hits \in Nat
        BY <3>1, <4>5, RowSums, RowTyped DEF TypeOK
      <4> QED
        BY <4>2, <4>4, <4>5, <4>6
    <3> QED
      BY <3>1, <3>2 DEF SavesAhead
  <2> QED
    BY <1>0, <2>3, <2>8, <2>9
<1> QED
  BY <1>2, <1>3

LEMMA InitReferrers == Init => ReferrerInv
<1> SUFFICES ASSUME Init PROVE ReferrerInv
  OBVIOUS
<1>1. Numbered /\ RowsAhead /\ SavesAhead
  BY DEF Init, Numbered, RowsAhead, SavesAhead
<1> QED
  BY <1>1, InitInv DEF ReferrerInv

LEMMA StepOwes == ASSUME ReferrerInv, [Next]_vars PROVE ReferrerInv'
<1> USE DEF ReferrerInv
<1>0. LogInv'
  BY StepKeeps
<1>1. ASSUME NEW c \in Callers, NEW p \in Paths, NEW r \in Referrers \cup {Unsent}, Find(c, p, r)
      PROVE  ReferrerInv'
  <2>1. /\ log' = log /\ made' = made /\ call'[c] \in {"create", "update"} /\ entry'[c] = log[p]
        /\ \A d \in Callers : d # c => call'[d] = call[d] /\ entry'[d] = entry[d] /\ path'[d] = path[d]
    BY <1>1 DEF Find, Goto, LogInv, TypeOK
  <2>2. Numbered'
    BY <1>0, <2>1, NumbersStand DEF LogInv, TypeOK
  <2>3. \A d \in Callers : call'[d] \in {"refresh", "save"} => d # c
    BY <2>1
  <2> QED
    BY <1>0, <2>1, <2>2, <2>3, DebtsStand
<1>2. ASSUME NEW c \in Callers, Fail(c) PROVE ReferrerInv'
  <2>1. /\ log' = log /\ made' = made /\ call'[c] = "idle" /\ entry'[c] = Nothing /\ path' = path
        /\ \A d \in Callers : d # c => call'[d] = call[d] /\ entry'[d] = entry[d]
    BY <1>2, DoneIdles DEF Fail
  <2>2. Numbered'
    BY <1>0, <2>1, NumbersStand DEF LogInv, TypeOK
  <2>3. \A d \in Callers : call'[d] \in {"refresh", "save"} => d # c
    BY <2>1
  <2> QED
    BY <1>0, <2>1, <2>2, <2>3, DebtsStand
<1>3. ASSUME made' = made, UNCHANGED callVars,
             \A p \in Paths : log'[p] # Nothing =>
                /\ log[p] # Nothing /\ log'[p].pk = log[p].pk
                /\ log'[p].hits = log[p].hits /\ log'[p].referrers = log[p].referrers
      PROVE  ReferrerInv'
  <2>1. Numbered'
    BY <1>0, <1>3, NumbersStand DEF LogInv, TypeOK, callVars
  <2> QED
    BY <1>0, <1>3, <2>1, DebtsStand DEF callVars
<1>4. ASSUME NEW p \in Paths, MakeRule(p) \/ Resolve(p) \/ Delete(p) \/ Age(p) PROVE ReferrerInv'
  <2>1. \A q \in Paths : log[q] # Nothing => log[q] \in LogRow
    BY DEF LogInv, TypeOK
  <2>2. \A q \in Paths : q # p => log'[q] = log[q]
    BY <1>4 DEF MakeRule, Resolve, Delete, Age, LogInv, TypeOK
  <2>3. log'[p] # Nothing =>
          /\ log[p] # Nothing /\ log'[p].pk = log[p].pk
          /\ log'[p].hits = log[p].hits /\ log'[p].referrers = log[p].referrers
    <3>1. CASE MakeRule(p)
      BY <3>1 DEF MakeRule
    <3>2. CASE Delete(p)
      BY <3>2 DEF Delete, LogInv, TypeOK
    <3>3. CASE Age(p)
      <4>1. log[p] # Nothing /\ log'[p] = [log[p] EXCEPT !.old = TRUE]
        BY <3>3 DEF Age, LogInv, TypeOK
      <4> QED
        BY <2>1, <4>1 DEF LogRow
    <3>4. CASE Resolve(p) /\ log[p] # Nothing /\ log' = [log EXCEPT ![p].resolved = TRUE]
      <4>1. log'[p] = [log[p] EXCEPT !.resolved = TRUE]
        BY <3>4 DEF LogInv, TypeOK
      <4> QED
        BY <2>1, <3>4, <4>1 DEF LogRow
    <3>5. CASE Resolve(p) /\ log' = log
      BY <3>5
    <3> QED
      BY <1>4, <3>1, <3>2, <3>3, <3>4, <3>5 DEF Resolve
  <2>4. made' = made /\ UNCHANGED callVars
    BY <1>4 DEF MakeRule, Resolve, Delete, Age
  <2> QED
    BY <1>3, <2>2, <2>3, <2>4
<1>5. CASE Prune
  <2>1. \A p \in Paths : log'[p] # Nothing => log[p] # Nothing /\ log'[p] = log[p]
    BY <1>5 DEF Prune
  <2>2. made' = made /\ UNCHANGED callVars
    BY <1>5 DEF Prune
  <2> QED
    BY <1>3, <2>1, <2>2
<1>6. CASE UNCHANGED vars
  BY <1>3, <1>6 DEF vars
<1>7. ASSUME NEW c \in Callers, Update(c) \/ Refresh(c) \/ Save(c) \/ Create(c) PROVE ReferrerInv'
  BY <1>7, UpdateOwes, RefreshOwes, SavePays, CreateOwes
<1> QED
  BY <1>1, <1>2, <1>4, <1>5, <1>6, <1>7 DEF Next

\* However calls, administrators and failures interleave, the referrers of a row
\* account for no more hits than it has, under at most MaxReferrers names.
THEOREM ReferrersWithinHitsHolds == Spec => []ReferrersWithinHits
<1>1. ReferrerInv => ReferrersWithinHits
  <2> SUFFICES ASSUME ReferrerInv, NEW p \in Paths, log[p] # Nothing
               PROVE  /\ Total(log[p].referrers) <= log[p].hits
                      /\ Cardinality(Named(log[p].referrers)) <= MaxReferrers
    BY DEF ReferrersWithinHits
  <2>1. log[p] \in LogRow
    BY DEF ReferrerInv, LogInv, TypeOK
  <2>2. Total(log[p].referrers) \in Nat /\ log[p].hits \in Nat
    BY <2>1, RowSums, RowTyped
  <2>3. Cardinality(Owing(p)) \in Nat
    BY OwingCounted DEF Owing
  <2>4. Few(log[p].referrers) /\ Total(log[p].referrers) + Cardinality(Owing(p)) <= log[p].hits
    BY DEF ReferrerInv, RowsAhead
  <2> QED
    BY <2>2, <2>3, <2>4 DEF Few
<1>2. ReferrerInv /\ [Next]_vars => ReferrerInv'
  BY StepOwes
<1> QED
  BY <1>1, <1>2, InitReferrers, PTL DEF Spec

-----------------------------------------------------------------------------
(* Hits that hit_count misses *)

\* Calls that will find the row of p when they try to make it.
Stragglers(p) ==
    {c \in Callers : /\ path[c] = p
                     /\ call[c] = "create" \/ (call[c] \in {"update", "refresh"} /\ ~Holds(c))}

\* Stragglers have a hit to lose each, and there are fewer of them than callers.
Accounted(p) == log[p] # Nothing =>
    /\ log[p].hits <= tally[p]
    /\ tally[p] + Cardinality(Stragglers(p)) < log[p].hits + Cardinality(Callers) + faults

HitInv == LogInv /\ \A p \in Paths : Accounted(p)

\* Steps that leave a row in being and make nobody a straggler: they count h more
\* hits, or one goes uncounted and a fault or a straggler goes with it.
LEMMA AccountBalances ==
    ASSUME TypeOK, TypeOK', NEW p \in Paths, Accounted(p),
           log[p] # Nothing, log'[p] # Nothing,
           Stragglers(p)' \subseteq Stragglers(p),
           NEW h \in {0, 1}, log'[p].hits = log[p].hits + h,
           \/ tally'[p] = tally[p] + h /\ faults' >= faults
           \/ /\ h = 0 /\ tally'[p] = tally[p] + 1
              /\ \/ faults' = faults + 1
                 \/ faults' = faults /\ \E c \in Stragglers(p) : c \notin Stragglers(p)'
    PROVE  Accounted(p)'
<1> SUFFICES /\ log'[p].hits <= tally'[p]
             /\ tally'[p] + Cardinality(Stragglers(p)') < log'[p].hits + Cardinality(Callers) + faults'
  BY DEF Accounted, Stragglers, Holds
<1> DEFINE few == Cardinality(Stragglers(p)')
           many == Cardinality(Stragglers(p))
<1>1. /\ log[p].hits \in Nat /\ tally[p] \in Nat /\ tally'[p] \in Nat
      /\ faults \in Nat /\ faults' \in Nat
  BY LogAssumption, RowTyped DEF TypeOK
<1>2. log[p].hits <= tally[p] /\ tally[p] + many < log[p].hits + Cardinality(Callers) + faults
  BY DEF Accounted
<1>3. Stragglers(p) \in SUBSET Callers /\ Cardinality(Callers) \in Nat
  BY LogAssumption, FS_CardinalityType DEF Stragglers
<1>4. few \in Nat /\ many \in Nat /\ few <= many
  BY <1>3, OwingCounted
<1>5. ASSUME NEW c \in Stragglers(p), c \notin Stragglers(p)' PROVE few <= many - 1
  <2>1. Stragglers(p)' \subseteq Stragglers(p) \ {c} /\ Stragglers(p) \ {c} \in SUBSET Callers
    BY <1>3, <1>5
  <2>2. Cardinality(Stragglers(p)') <= Cardinality(Stragglers(p) \ {c})
    BY <2>1, OwingCounted
  <2>3. Cardinality(Stragglers(p) \ {c}) = many - 1
    BY <1>3, OwingCounted
  <2> QED
    BY <2>2, <2>3
<1> HIDE DEF few, many
<1>6. CASE tally'[p] = tally[p] + h /\ faults' >= faults
  BY <1>1, <1>2, <1>3, <1>4, <1>6 DEF few
<1>7. CASE h = 0 /\ tally'[p] = tally[p] + 1 /\ faults' = faults + 1
  BY <1>1, <1>2, <1>3, <1>4, <1>7 DEF few
<1>8. CASE /\ h = 0 /\ tally'[p] = tally[p] + 1 /\ faults' = faults
           /\ \E c \in Stragglers(p) : c \notin Stragglers(p)'
  <2>1. few <= many - 1
    BY <1>5, <1>8
  <2> QED
    BY <1>1, <1>2, <1>3, <1>4, <1>8, <2>1 DEF few
<1> QED
  BY <1>6, <1>7, <1>8

\* Steps that leave p's row and its history as they are.
LEMMA AccountStands ==
    ASSUME TypeOK, TypeOK', NEW p \in Paths, Accounted(p), log[p] # Nothing, log'[p] # Nothing,
           log'[p].hits = log[p].hits, tally'[p] = tally[p], faults' >= faults,
           Stragglers(p)' \subseteq Stragglers(p)
    PROVE  Accounted(p)'
<1>1. tally[p] \in Nat /\ log[p].hits \in Nat
  BY RowTyped DEF TypeOK
<1>2. log'[p].hits = log[p].hits + 0 /\ tally'[p] = tally[p] + 0
  BY <1>1
<1> QED
  BY <1>2, AccountBalances

\* Steps of one call that leave p's row what it is to the others.
LEMMA OthersStraggleOn ==
    ASSUME NEW p \in Paths, NEW c \in Callers,
           log[p] # Nothing, log'[p] # Nothing, log'[p].pk = log[p].pk,
           \A d \in Callers : d # c =>
              call'[d] = call[d] /\ entry'[d] = entry[d] /\ path'[d] = path[d],
           c \in Stragglers(p)' => c \in Stragglers(p)
    PROVE  Stragglers(p)' \subseteq Stragglers(p)
<1> SUFFICES ASSUME NEW d \in Callers, d # c, d \in Stragglers(p)'
             PROVE  d \in Stragglers(p)
  BY DEF Stragglers
<1> QED
  BY DEF Stragglers, Holds

LEMMA FaultCounts == ASSUME TypeOK, Fault PROVE faults' = faults + 1 /\ faults' >= faults
  BY LogAssumption DEF Fault, TypeOK

LEMMA CallAccounts ==
    ASSUME HitInv, LogInv', NEW c \in Callers, NEW p \in Paths, log'[p] # Nothing,
           Update(c) \/ Refresh(c) \/ Save(c) \/ Create(c) \/ Fail(c)
    PROVE  Accounted(p)'
<1> USE DEF HitInv, LogInv
<1>0. /\ \A d \in Callers : d # c =>
            call'[d] = call[d] /\ entry'[d] = entry[d] /\ path'[d] = path[d]
      /\ path' = path /\ path[c] \in Paths /\ faults \in Nat
  BY LogAssumption, DoneIdles DEF Update, Refresh, Save, Create, Fail, Goto, TypeOK
<1>1. CASE log[p] = Nothing
  <2>1. Create(c) /\ path[c] = p
    BY <1>1 DEF Update, Refresh, Save, Create, Fail, Holds, TypeOK
  <2>2. log'[p].hits = 1 /\ tally'[p] = 1 /\ faults' = faults
    BY <1>1, <2>1 DEF Create, TypeOK
  <2>3. call'[c] = "idle"
    BY <2>1, DoneIdles DEF Create
  <2>4. Stragglers(p)' \subseteq Callers \ {c}
    BY <2>3 DEF Stragglers
  <2>5. /\ Cardinality(Stragglers(p)') \in Nat /\ Cardinality(Callers) \in Nat
        /\ Cardinality(Stragglers(p)') <= Cardinality(Callers \ {c})
        /\ Cardinality(Callers \ {c}) = Cardinality(Callers) - 1
    BY <2>4, OwingCounted
  <2>6. 1 + Cardinality(Stragglers(p)') < 1 + Cardinality(Callers) + faults
    BY <1>0, <2>5
  <2> QED
    BY <2>2, <2>6 DEF Accounted, Stragglers, Holds
<1>2. CASE log[p] # Nothing
  <2>0. log[p] \in LogRow /\ Accounted(p) /\ log[p].hits \in Nat /\ tally[p] \in Nat
    BY <1>2, RowTyped DEF TypeOK
  <2>1. CASE Update(c)
    <3>1. log'[p].pk = log[p].pk
      BY <2>0, <2>1 DEF Update, TypeOK, LogRow
    <3>2. c \in Stragglers(p)' => c \in Stragglers(p)
      BY <1>0, <1>2, <2>1, <3>1 DEF Update, Stragglers, Holds, Goto, TypeOK
    <3>3. Stragglers(p)' \subseteq Stragglers(p) /\ faults' = faults
      BY <1>0, <1>2, <2>1, <3>1, <3>2, OthersStraggleOn DEF Update
    <3>4. CASE Holds(c) /\ path[c] = p
      <4>1. /\ log' = [log EXCEPT ![p] = [log[p] EXCEPT !.hits = log[p].hits + 1, !.old = FALSE]]
            /\ tally' = [tally EXCEPT ![p] = tally[p] + 1]
        BY <2>1, <3>4 DEF Update
      <4>2. log'[p].hits = log[p].hits + 1 /\ tally'[p] = tally[p] + 1
        BY <2>0, <4>1 DEF TypeOK, LogRow
      <4> QED
        BY <1>0, <1>2, <2>0, <3>3, <4>2, AccountBalances
    <3>5. CASE ~(Holds(c) /\ path[c] = p)
      <4>1. log'[p] = log[p] /\ tally'[p] = tally[p]
        BY <2>1, <3>5 DEF Update, TypeOK
      <4> QED
        BY <1>0, <1>2, <2>0, <3>3, <4>1, AccountStands
    <3> QED
      BY <3>4, <3>5
  <2>2. CASE Refresh(c)
    <3>1. log' = log /\ tally' = tally /\ faults' = faults
      BY <2>2 DEF Refresh
    <3>2. c \in Stragglers(p)' => c \in Stragglers(p)
      BY <1>0, <2>2, <3>1 DEF Refresh, Done, Stragglers, Holds, Goto, TypeOK
    <3> QED
      BY <1>0, <1>2, <2>0, <3>1, <3>2, OthersStraggleOn, AccountStands
  <2>3. CASE Save(c)
    <3>1. tally' = tally /\ faults' = faults /\ call'[c] = "idle"
      BY <2>3, DoneIdles DEF Save
    <3>2. log'[p].pk = log[p].pk /\ log'[p].hits = log[p].hits
      BY <2>0, <2>3 DEF Save, TypeOK, LogRow
    <3>3. c \in Stragglers(p)' => c \in Stragglers(p)
      BY <3>1 DEF Stragglers
    <3> QED
      BY <1>0, <1>2, <2>0, <3>1, <3>2, <3>3, OthersStraggleOn, AccountStands
  <2>4. CASE Create(c)
    <3>1. faults' = faults /\ call'[c] = "idle" /\ call[c] = "create"
      BY <2>4, DoneIdles DEF Create
    <3>2. log'[p] = log[p]
      BY <1>2, <2>4 DEF Create, TypeOK
    <3>3. c \notin Stragglers(p)'
      BY <3>1 DEF Stragglers
    <3>4. Stragglers(p)' \subseteq Stragglers(p)
      BY <1>0, <1>2, <3>2, <3>3, OthersStraggleOn
    <3>5. CASE path[c] = p
      <4>1. c \in Stragglers(p)
        BY <3>1, <3>5 DEF Stragglers
      <4>2. tally'[p] = tally[p] + 1
        BY <1>2, <2>4, <3>5 DEF Create, TypeOK
      <4>3. log'[p].hits = log[p].hits + 0
        BY <2>0, <3>2
      <4> QED
        BY <1>2, <2>0, <3>1, <3>3, <3>4, <4>1, <4>2, <4>3, AccountBalances
    <3>6. CASE path[c] # p
      <4>1. tally'[p] = tally[p]
        BY <2>4, <3>6 DEF Create, TypeOK
      <4> QED
        BY <1>0, <1>2, <2>0, <3>1, <3>2, <3>4, <4>1, AccountStands
    <3> QED
      BY <3>5, <3>6
  <2>5. CASE Fail(c)
    <3>1. log' = log /\ call'[c] = "idle" /\ faults' = faults + 1 /\ faults' >= faults
      BY <2>5, DoneIdles, FaultCounts DEF Fail
    <3>2. tally'[p] = tally[p] \/ tally'[p] = tally[p] + 1
      BY <2>5 DEF Fail, TypeOK
    <3>3. c \notin Stragglers(p)'
      BY <3>1 DEF Stragglers
    <3>4. Stragglers(p)' \subseteq Stragglers(p)
      BY <1>0, <1>2, <3>1, <3>3, OthersStraggleOn
    <3>5. log'[p].hits = log[p].hits + 0
      BY <2>0, <3>1
    <3> QED
      BY <1>2, <2>0, <3>1, <3>2, <3>4, <3>5, AccountBalances, AccountStands
  <2> QED
    BY <2>1, <2>2, <2>3, <2>4, <2>5
<1> QED
  BY <1>1, <1>2

LEMMA StepAccounts == ASSUME HitInv, [Next]_vars PROVE HitInv'
<1> USE DEF HitInv
<1>0. LogInv' /\ LogInv
  BY StepKeeps
<1> SUFFICES ASSUME NEW p \in Paths, log'[p] # Nothing PROVE Accounted(p)'
  BY <1>0 DEF Accounted
<1>1. ASSUME NEW c \in Callers, NEW q \in Paths, NEW r \in Referrers \cup {Unsent}, Find(c, q, r)
      PROVE  Accounted(p)'
  <2>1. /\ log' = log /\ tally' = tally /\ faults' = faults
        /\ \A d \in Callers : d # c =>
              call'[d] = call[d] /\ entry'[d] = entry[d] /\ path'[d] = path[d]
    BY <1>0, <1>1 DEF Find, Goto, LogInv, TypeOK
  <2>2. path'[c] = q /\ entry'[c] = log[q] /\ (log[q] # Nothing => call'[c] = "update")
    BY <1>0, <1>1 DEF Find, Goto, LogInv, TypeOK
  <2>3. c \notin Stragglers(p)'
    BY <2>1, <2>2 DEF Stragglers, Holds
  <2>4. Stragglers(p)' \subseteq Stragglers(p)
    BY <2>1, <2>3, OthersStraggleOn
  <2>5. faults \in Nat
    BY <1>0, LogAssumption DEF LogInv, TypeOK
  <2> QED
    BY <1>0, <2>1, <2>4, <2>5, AccountStands DEF LogInv
<1>2. ASSUME NEW c \in Callers, Update(c) \/ Refresh(c) \/ Save(c) \/ Create(c) \/ Fail(c)
      PROVE  Accounted(p)'
  BY <1>0, <1>2, CallAccounts
<1>3. ASSUME UNCHANGED callVars, tally' = tally, faults' >= faults,
             log[p] # Nothing, log'[p].pk = log[p].pk, log'[p].hits = log[p].hits
      PROVE  Accounted(p)'
  <2>1. Stragglers(p)' \subseteq Stragglers(p)
    BY <1>3 DEF callVars, Stragglers, Holds
  <2> QED
    BY <1>0, <1>3, <2>1, AccountStands DEF LogInv
<1>4. log[p] # Nothing => log[p] \in LogRow
  BY <1>0 DEF LogInv, TypeOK
<1>5. faults \in Nat
  BY <1>0, LogAssumption DEF LogInv, TypeOK
<1>6. ASSUME NEW q \in Paths, MakeRule(q) \/ Resolve(q) \/ Delete(q) \/ Age(q) PROVE Accounted(p)'
  <2>1. UNCHANGED callVars /\ tally' = tally
    BY <1>6 DEF MakeRule, Resolve, Delete, Age
  <2>2. faults' >= faults
    BY <1>0, <1>5, <1>6, FaultCounts DEF MakeRule, Resolve, Delete, Age, LogInv
  <2>3. log[p] # Nothing /\ log'[p].pk = log[p].pk /\ log'[p].hits = log[p].hits
    <3>1. CASE MakeRule(q)
      BY <3>1 DEF MakeRule
    <3>2. CASE Delete(q)
      BY <1>0, <3>2 DEF Delete, LogInv, TypeOK
    <3>3. CASE Age(q)
      BY <1>0, <1>4, <3>3 DEF Age, LogInv, TypeOK, LogRow
    <3>4. CASE Resolve(q)
      BY <1>0, <1>4, <3>4 DEF Resolve, LogInv, TypeOK, LogRow
    <3> QED
      BY <1>6, <3>1, <3>2, <3>3, <3>4
  <2> QED
    BY <1>3, <2>1, <2>2, <2>3
<1>7. CASE Prune
  <2>1. UNCHANGED callVars /\ tally' = tally /\ faults' = faults
    BY <1>7 DEF Prune
  <2>2. log'[p] = log[p]
    BY <1>7 DEF Prune
  <2> QED
    BY <1>3, <1>5, <2>1, <2>2
<1>8. CASE UNCHANGED vars
  BY <1>3, <1>5, <1>8 DEF vars
<1> QED
  BY <1>1, <1>2, <1>6, <1>7, <1>8 DEF Next

\* hit_count counts each hit at most once, and misses only those of calls that
\* failed or were on their way to an INSERT when the row was made, fewer than there
\* are callers: however calls, administrators and prunings interleave.
THEOREM HitsAreAccounted == Spec => []HitsAccounted
<1>1. Init => HitInv
  BY InitInv DEF Init, HitInv, Accounted
<1>2. HitInv => HitsAccounted
  <2> SUFFICES ASSUME HitInv, NEW p \in Paths, log[p] # Nothing
               PROVE  /\ log[p].hits <= tally[p]
                      /\ tally[p] < log[p].hits + Cardinality(Callers) + faults
    BY DEF HitsAccounted
  <2>1. tally[p] \in Nat /\ log[p].hits \in Nat /\ faults \in Nat /\ Cardinality(Callers) \in Nat
    BY LogAssumption, RowTyped, FS_CardinalityType DEF HitInv, LogInv, TypeOK
  <2>2. Cardinality(Stragglers(p)) \in Nat
    BY OwingCounted DEF Stragglers
  <2>3. log[p].hits <= tally[p]
        /\ tally[p] + Cardinality(Stragglers(p)) < log[p].hits + Cardinality(Callers) + faults
    BY DEF HitInv, Accounted
  <2> QED
    BY <2>1, <2>2, <2>3
<1>3. HitInv /\ [Next]_vars => HitInv'
  BY StepAccounts
<1> QED
  BY <1>1, <1>2, <1>3, PTL DEF Spec
=============================================================================
