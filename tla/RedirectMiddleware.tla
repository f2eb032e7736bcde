------------------------- MODULE RedirectMiddleware -------------------------
(***************************************************************************)
(* Requests through the redirect middleware (middleware.py), the rules     *)
(* they consult (services/redirects.py) and those who change them.  Live   *)
(* redirects are looked up before the view, 410s after it has answered     *)
(* 404; exact rules are read from the table, prefix and regex rules from   *)
(* a cached list.  Queries, the cache and the tenant resolver may fail.    *)
(* Hit counters are left out: nothing here reads them.                     *)
(***************************************************************************)
EXTENDS Naturals, Sequences, FiniteSets

CONSTANTS
    Rules,      \* rules there may be: [id, type, pattern, priority, gone]
    Expiring,   \* those with an expires_at
    Paths,
    Covers,     \* Covers[pattern]: the paths it matches as a prefix or regex
    Requests,
    Writers,    \* threads and processes that change rules
    Timeout,    \* ICV_SITEMAPS_REDIRECT_CACHE_TIMEOUT in ticks of the clock
    MaxEdits,   \* bound on changes
    MaxFaults,  \* bound on failures
    Nothing, Invalidate

ASSUME RedirectAssumption ==
    /\ \A r \in Rules :
          /\ r.type \in {"exact", "prefix", "regex"} /\ r.gone \in BOOLEAN
          /\ r.id \in Nat /\ r.priority \in Nat /\ r.pattern \in DOMAIN Covers
    /\ \A q, r \in Rules : q.id = r.id => q = r
    /\ Expiring \subseteq Rules
    /\ Timeout \in Nat \ {0} /\ MaxEdits \in Nat /\ MaxFaults \in Nat
    /\ Nothing \notin [list: SUBSET Rules, left: 1..Timeout]

VARIABLES
    table,      \* the active rules
    overdue,    \* overdue[r]: ticks since r expired, up to Timeout; 0 if it has not
    cached,     \* the cached list and the ticks it has left, or Nothing
    at,         \* at[q]: where request q is
    path,       \* path[q]: what it asks for
    missing,    \* missing[q]: the view has answered 404
    list,       \* list[q]: the prefix and regex rules it has in hand
    answer,     \* answer[q]: "rule", "page", "gone" (the resolver's), "counted" or "missing"
    obeyed,     \* obeyed[q]: the rule that answers it, as a set
    todo,       \* todo[w]: what w's change has yet to do
    edits, faults,
    kept,       \* history: kept[q]: the exact rules in force all through q
    failed,     \* history: requests a failed lookup let through
    slow,       \* history: requests in whose list a rule expires before it is set
    late        \* history: the cached list was set by one of them

requestVars == <<at, path, missing, list, answer, obeyed>>
history == <<kept, failed, slow, late>>
vars == <<table, overdue, cached, requestVars, todo, edits, faults, history>>

Entry  == [list: SUBSET Rules, left: 1..Timeout]
\* What a commit does: rules that conflict are refused, or skipped.
Change == [add: SUBSET Rules, drop: SUBSET Rules, skip: BOOLEAN]
Stages == {"new", "exact", "list", "query", "store", "view", "resolver", "record", "done"}

TypeOK ==
    /\ table \subseteq Rules
    /\ overdue \in [Rules -> 0..Timeout]
    /\ cached \in Entry \cup {Nothing}
    /\ at \in [Requests -> Stages]
    /\ path \in [Requests -> Paths]
    /\ missing \in [Requests -> BOOLEAN]
    /\ list \in [Requests -> SUBSET Rules]
    /\ answer \in [Requests -> {"none", "rule", "page", "gone", "counted", "missing"}]
    /\ obeyed \in [Requests -> SUBSET Rules]
    /\ todo \in [Writers -> Seq(Change \cup {Invalidate})]
    /\ edits \in 0..MaxEdits /\ faults \in 0..MaxFaults
    /\ kept \in [Requests -> SUBSET Rules]
    /\ failed \subseteq Requests /\ slow \subseteq Requests /\ late \in BOOLEAN

\* The unique constraint on (source_pattern, tenant_id) of exact rules.
ExactUnique(rules) ==
    \A q, r \in rules :
        q.type = "exact" /\ r.type = "exact" /\ q.pattern = r.pattern => q = r

Init ==
    /\ table \in SUBSET Rules /\ ExactUnique(table)
    /\ overdue = [r \in Rules |-> 0]
    /\ cached = Nothing
    /\ at = [q \in Requests |-> "new"]
    /\ path \in [Requests -> Paths]
    /\ missing = [q \in Requests |-> FALSE]
    /\ list = [q \in Requests |-> {}]
    /\ answer = [q \in Requests |-> "none"]
    /\ obeyed = [q \in Requests |-> {}]
    /\ todo = [w \in Writers |-> <<>>]
    /\ edits = 0 /\ faults = 0
    /\ kept = [q \in Requests |-> {}] /\ failed = {}
    /\ slow = {} /\ late = FALSE

Fault == faults < MaxFaults /\ faults' = faults + 1

-----------------------------------------------------------------------------
(* Looking rules up *)

Exact(rules) == {r \in rules : r.type = "exact"}

\* RedirectRuleManager.active()
Effective == {r \in table : overdue[r] = 0}

\* Mutant: exact rules are looked for in the cached list.
ExactFor_Cached(q) ==
    IF cached = Nothing THEN {} ELSE {r \in Exact(cached.list) : r.pattern = path[q]}

\* Mutant: the status code is left to the caller.
ExactFor_AnyStatus(q) == {r \in Exact(Effective) : r.pattern = path[q]}

\* _get_exact_redirect_rule
ExactFor(q) == {r \in Exact(Effective) : r.pattern = path[q] /\ r.gone = missing[q]}

\* Mutant: the query forgets expiry.
Listed_WithExpired == table \ Exact(table)

\* The query of get_cached_redirect_rules.
Listed == Effective \ Exact(Effective)

\* Its order: prefix before regex, then priority, then primary key.
Precedes(q, r) ==
    \/ q.type = "prefix" /\ r.type = "regex"
    \/ /\ q.type = r.type
       /\ \/ q.priority < r.priority
          \/ q.priority = r.priority /\ q.id < r.id

\* The first of these rules in that order.
First(rules) == {r \in rules : \A q \in rules \ {r} : Precedes(r, q)}

\* Mutant: the first match is found and then its status is looked at.
Found_FilterLate(q, rules) ==
    {r \in First({m \in rules : path[q] \in Covers[m.pattern]}) : r.gone = missing[q]}

\* check_redirect on a list: only rules of the wanted status are matched.
Found(q, rules) ==
    First({r \in rules : r.gone = missing[q] /\ path[q] \in Covers[r.pattern]})

-----------------------------------------------------------------------------
(* A request *)

Goto(q, stage) == at' = [at EXCEPT ![q] = stage]

Answer(q, a, rules) ==
    /\ Goto(q, "done")
    /\ answer' = [answer EXCEPT ![q] = a]
    /\ obeyed' = [obeyed EXCEPT ![q] = rules]

\* No rule: on to the view, or after it to the resolver.
PassOn(q) == Goto(q, IF missing[q] THEN "resolver" ELSE "view") /\ UNCHANGED <<answer, obeyed>>

\* The rule a list yields is served, or there is none.
Decide(q, rules) ==
    \/ \E r \in Found(q, rules) : Answer(q, "rule", {r})
    \/ Found(q, rules) = {} /\ PassOn(q)

Arrive(q) ==
    /\ at[q] \in {"new", "done"} /\ Goto(q, "exact")
    /\ \E p \in Paths : path' = [path EXCEPT ![q] = p]
    /\ missing' = [missing EXCEPT ![q] = FALSE]
    /\ list' = [list EXCEPT ![q] = {}]
    /\ answer' = [answer EXCEPT ![q] = "none"]
    /\ obeyed' = [obeyed EXCEPT ![q] = {}]
    /\ kept' = [kept EXCEPT ![q] = Exact(Effective)]
    /\ failed' = failed \ {q}
    /\ UNCHANGED <<table, overdue, cached, todo, edits, faults, slow, late>>

\* A lookup raises, or the tenant cannot be told.  Before the view: its answer is
\* the answer, even a 404, which is neither made a 410 nor counted.  After it:
\* there is no gone rule.
LookupFails(q) ==
    /\ at[q] \in {"exact", "query"} /\ Fault
    /\ \/ missing[q] /\ PassOn(q) /\ UNCHANGED missing
       \/ /\ ~missing[q]
          /\ \E lost \in BOOLEAN :
                /\ Answer(q, IF lost THEN "missing" ELSE "page", {})
                /\ missing' = [missing EXCEPT ![q] = lost]
    /\ list' = [list EXCEPT ![q] = {}]
    /\ failed' = failed \cup {q}
    /\ UNCHANGED <<table, overdue, cached, path, todo, edits, kept, slow, late>>

LookUpExact(q) ==
    /\ at[q] = "exact"
    /\ \/ \E r \in ExactFor(q) : Answer(q, "rule", {r})
       \/ ExactFor(q) = {} /\ Goto(q, "list") /\ UNCHANGED <<answer, obeyed>>
    /\ UNCHANGED <<table, overdue, cached, path, missing, list, todo, edits, faults, history>>

\* safe_get of the list: a hit, a miss, or a failure taken for a miss.
ReadList(q) ==
    /\ at[q] = "list"
    /\ \/ /\ cached # Nothing /\ Decide(q, cached.list)
          /\ list' = [list EXCEPT ![q] = cached.list]
          /\ UNCHANGED faults
       \/ /\ cached = Nothing /\ Goto(q, "query")
          /\ UNCHANGED <<answer, obeyed, list, faults>>
       \/ /\ cached # Nothing /\ Fault /\ Goto(q, "query")
          /\ UNCHANGED <<answer, obeyed, list>>
    /\ UNCHANGED <<table, overdue, cached, path, missing, todo, edits, history>>

QueryList(q) ==
    /\ at[q] = "query" /\ Goto(q, "store")
    /\ list' = [list EXCEPT ![q] = Listed]
    /\ UNCHANGED <<table, overdue, cached, path, missing, answer, obeyed, todo, edits, faults, history>>

StoreList(q) ==
    /\ at[q] = "store" /\ Decide(q, list[q])
    /\ \/ /\ cached' = [list |-> list[q], left |-> Timeout] /\ late' = (q \in slow)
          /\ UNCHANGED faults
       \/ Fault /\ UNCHANGED <<cached, late>>
    /\ slow' = slow \ {q}
    /\ UNCHANGED <<table, overdue, path, missing, list, todo, edits, kept, failed>>

\* The rest of the stack answers; after a 404 the gone rules are looked up.
View(q) ==
    /\ at[q] = "view" /\ list' = [list EXCEPT ![q] = {}]
    /\ \/ Answer(q, "page", {}) /\ UNCHANGED missing
       \/ /\ missing' = [missing EXCEPT ![q] = TRUE] /\ Goto(q, "exact")
          /\ UNCHANGED <<answer, obeyed>>
    /\ UNCHANGED <<table, overdue, cached, path, todo, edits, faults, history>>

\* ICV_SITEMAPS_GONE_RESOLVER says 410; unset, failing or anything else: no.
AskResolver(q) ==
    /\ at[q] = "resolver" /\ list' = [list EXCEPT ![q] = {}]
    /\ \/ Answer(q, "gone", {})
       \/ Goto(q, "record") /\ UNCHANGED <<answer, obeyed>>
    /\ UNCHANGED <<table, overdue, cached, path, missing, todo, edits, faults, history>>

\* record_404, unless disabled, sampled out, ignored or failing.
Record404(q) ==
    /\ at[q] = "record" /\ \E a \in {"counted", "missing"} : Answer(q, a, {})
    /\ UNCHANGED <<table, overdue, cached, path, missing, list, todo, edits, faults, history>>

-----------------------------------------------------------------------------
(* Changing rules *)

Same(r, rules) == {q \in rules : q.type = r.type /\ q.pattern = r.pattern}

Send(w, steps) ==
    /\ todo[w] = <<>> /\ edits < MaxEdits
    /\ todo' = [todo EXCEPT ![w] = steps] /\ edits' = edits + 1
    /\ UNCHANGED <<table, overdue, cached, requestVars, faults, history>>

Put(rules)  == [add |-> rules, drop |-> {}, skip |-> FALSE]
Drop(rules) == [add |-> {}, drop |-> rules, skip |-> FALSE]

\* add_redirect, from a service call or the "create 410" admin action:
\* post_save and then a call of its own.  A second exact rule is refused.
AddRedirect(w, r) ==
    /\ r \notin table
    /\ Send(w, <<Put({r}), Invalidate, Invalidate>>)

\* bulk_create_redirects: one statement that skips what conflicts, one call.
BulkCreate(w, rules) ==
    /\ rules # {} /\ rules \cap table = {} /\ ExactUnique(rules)
    /\ Send(w, <<[Put(rules) EXCEPT !.skip = TRUE], Invalidate>>)

\* bulk_import_redirects: update_or_create for each row, whose signal comes
\* before its commit, and a call at the end.  A row with several rules to update
\* is an error, and one whose rule has expired leaves it so: neither is sent.
BulkImport(w, q, r) ==
    LET row(s) == [Put({s}) EXCEPT !.drop = Same(s, Rules) \ {s}] IN
    /\ q # r
    /\ \A s \in {q, r} : Same(s, table) \subseteq Effective /\ Cardinality(Same(s, table)) <= 1
    /\ Send(w, <<Invalidate, row(q), Invalidate, row(r), Invalidate>>)

\* The admin's forms, list_editable and delete, each within a transaction; a rule
\* may become another one or, when it has expired, get a later expires_at.
AdminAdd(w, r) ==
    /\ r \notin table /\ ExactUnique(table \cup {r})
    /\ Send(w, <<Invalidate, Put({r})>>)
AdminSave(w, r, s) ==
    /\ r \in table /\ (s \notin table \/ (s = r /\ r \notin Effective))
    /\ ExactUnique((table \ {r}) \cup {s})
    /\ Send(w, <<Invalidate, [Put({s}) EXCEPT !.drop = {r}]>>)
AdminDelete(w, r) == r \in table /\ Send(w, <<Invalidate, Drop({r})>>)

\* cleanup_expired_redirects: post_delete fires before the commit.
CleanupExpired(w) ==
    /\ table # Effective
    /\ Send(w, <<Invalidate, Drop(table \ Effective)>>)

Rest(w) == todo' = [todo EXCEPT ![w] = Tail(@)]

\* What is new in the table has not expired; the unique constraint may refuse it.
Commit(w) ==
    /\ todo[w] # <<>> /\ Head(todo[w]) # Invalidate
    /\ LET c    == Head(todo[w])
           left == table \ c.drop
           put  == IF c.skip THEN {r \in c.add : Exact(Same(r, left)) = {}} ELSE c.add
           new  == left \cup put
       IN \/ /\ ExactUnique(new)
             /\ table' = new
             /\ overdue' = [r \in Rules |-> IF r \in put \ left THEN 0 ELSE overdue[r]]
             /\ kept' = [q \in Requests |-> IF at[q] = "done" THEN kept[q] ELSE kept[q] \cap Effective']
             /\ Rest(w)
          \/ /\ ~ExactUnique(new)
             /\ todo' = [todo EXCEPT ![w] = <<>>]
             /\ UNCHANGED <<table, overdue, kept>>
    /\ UNCHANGED <<cached, requestVars, edits, faults, failed, slow, late>>

InvalidateList(w) ==
    /\ todo[w] # <<>> /\ Head(todo[w]) = Invalidate
    /\ \/ cached' = Nothing /\ late' = FALSE /\ UNCHANGED faults
       \/ Fault /\ UNCHANGED <<cached, late>>
    /\ Rest(w)
    /\ UNCHANGED <<table, overdue, requestVars, edits, kept, failed, slow>>

\* The process dies half-way.
Crash(w) ==
    /\ todo[w] # <<>> /\ Fault
    /\ todo' = [todo EXCEPT ![w] = <<>>]
    /\ UNCHANGED <<table, overdue, cached, requestVars, edits, history>>

-----------------------------------------------------------------------------
\* Mutant: the list outlives its timeout by a tick.
Aged_Lingers(entry) ==
    IF entry = Nothing \/ entry.left = 0 THEN Nothing ELSE [entry EXCEPT !.left = @ - 1]

\* Mutant: the list is cached without a timeout.
Aged_Kept(entry) == entry

Aged(entry) ==
    IF entry = Nothing \/ entry.left = 1 THEN Nothing ELSE [entry EXCEPT !.left = @ - 1]

\* The clock.  Some rules expire.
Tick ==
    /\ UNCHANGED <<table, requestVars, todo, edits, faults, failed>>
    /\ cached' = Aged(cached) /\ late' = (late /\ cached' # Nothing)
    /\ \E lapsed \in SUBSET {r \in Expiring : overdue[r] = 0} :
          /\ overdue' = [r \in Rules |->
              IF r \in lapsed THEN 1
              ELSE IF overdue[r] \in 1..Timeout-1 THEN overdue[r] + 1 ELSE overdue[r]]
          /\ slow' = slow \cup {q \in Requests : at[q] = "store" /\ list[q] \cap lapsed # {}}
    /\ kept' = [q \in Requests |-> IF at[q] = "done" THEN kept[q] ELSE kept[q] \cap Effective']

Serve(q) ==
    \/ Arrive(q) \/ LookUpExact(q) \/ ReadList(q) \/ QueryList(q) \/ StoreList(q)
    \/ LookupFails(q) \/ View(q) \/ AskResolver(q) \/ Record404(q)

Write(w) ==
    \/ \E r \in Rules : AddRedirect(w, r) \/ AdminAdd(w, r) \/ AdminDelete(w, r)
    \/ \E rules \in SUBSET Rules : BulkCreate(w, rules)
    \/ \E q, r \in Rules : BulkImport(w, q, r) \/ AdminSave(w, q, r)
    \/ CleanupExpired(w) \/ Commit(w) \/ InvalidateList(w) \/ Crash(w)

Next == (\E q \in Requests : Serve(q)) \/ (\E w \in Writers : Write(w)) \/ Tick

Spec == Init /\ [][Next]_vars

\* Only the clock is sure to go on, and a fill that has begun to end.
FairSpec == Spec /\ WF_vars(Tick) /\ \A q \in Requests : WF_vars(StoreList(q))

-----------------------------------------------------------------------------
(* Properties *)

\* A 410 answers a path only after the view has failed to: whatever the rules,
\* the cache and the failures, no gone rule and no resolver takes a page away,
\* and no redirect is made of a 404.
GoneOnlyWhenUnresolved ==
    \A q \in Requests :
        /\ answer[q] = "gone" => missing[q]
        /\ answer[q] = "page" => ~missing[q]
        /\ \A r \in obeyed[q] : r.gone <=> missing[q]

\* An exact rule that was in force all through a request is obeyed, whatever
\* lists other requests cache and writers invalidate meanwhile: a redirect
\* always, a 410 whenever the view answered 404 (which is then not counted as
\* one).  Only a failed lookup lets a request past it.
ExactObeyed ==
    \A q \in Requests : at[q] = "done" /\ q \notin failed =>
        \A r \in kept[q] : r.pattern = path[q] /\ r.gone = missing[q] => obeyed[q] = {r}

\* A rule of the other status hides nothing: a request that goes past its list,
\* however old that is, had no rule in it to obey, and one that a regex rule
\* answers had no prefix rule, whatever their priorities.
ListObeyed ==
    \A q \in Requests :
        LET fitting == {r \in list[q] : r.gone = missing[q] /\ path[q] \in Covers[r.pattern]} IN
        /\ at[q] \in {"view", "resolver"} => fitting = {}
        /\ \A o \in obeyed[q] \cap list[q], r \in fitting : o.type = "regex" => r.type = "regex"

\* The cached list is not checked for expiry again, so a rule goes on being
\* obeyed after its expires_at; but for less than the timeout, and no refill,
\* failed invalidation or crash prolongs it, unless it expired while the request
\* that fills the cache was on its way from its query to its set.
ExpiredBriefly ==
    cached # Nothing /\ ~late => \A r \in cached.list : overdue[r] < Timeout

\* When changes stop, the cached list becomes and stays the rules in force.
EventuallyInForce == <>[](cached = Nothing \/ cached.list = Listed)
=============================================================================
