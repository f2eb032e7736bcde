--------------------------- MODULE DiscoveryCache ---------------------------
(***************************************************************************)
(* robots.txt, ads.txt, app-ads.txt, llms.txt, security.txt and humans.txt *)
(* are rendered from database rows and cached.  The views (views.py) fill  *)
(* the cache, the signal handlers (handlers.py) and the services empty it  *)
(* when a row changes.  A save and a delete are several steps, a fill is   *)
(* several steps, and nothing keeps them apart.                            *)
(*                                                                         *)
(* What is cached is taken to be the set of rows it was rendered from.  A  *)
(* request that finds its file cached changes nothing and is not a step.   *)
(***************************************************************************)
EXTENDS Naturals, Sequences, FiniteSets

CONSTANTS
    Keys,       \* cache keys: a kind of file and a tenant
    FileKeys,   \* those whose file is one DiscoveryFileConfig row, or a 404
    Rows,       \* primary keys of rows
    Bodies,     \* what else a row says
    Readers,    \* threads that serve requests
    Writers,    \* threads and processes that change rows
    Timeout,    \* ICV_SITEMAPS_CACHE_TIMEOUT in ticks of the clock
    MaxEdits,   \* bound on changes
    MaxFaults,  \* bound on failures and crashes
    Nothing

ASSUME CacheAssumption ==
    /\ FileKeys \subseteq Keys
    /\ Timeout \in Nat \ {0} /\ MaxEdits \in Nat /\ MaxFaults \in Nat
    /\ Nothing \notin Keys \cup Rows \cup [key: Keys, body: Bodies]
    /\ Nothing \notin [content: SUBSET (Rows \X Bodies), left: 1..Timeout]

VARIABLES
    rows,       \* rows[i]: the key and body of an active row, or Nothing
    cache,      \* cache[k]: what is cached and the ticks it has left, or Nothing
    step,       \* step[r]: "idle", "query" or "store"
    file,       \* file[r]: the key of the file r serves
    got,        \* got[r]: what r has rendered and not yet stored
    todo,       \* todo[w]: the steps w's change has yet to take
    row, new,   \* the row it changes, and to what
    touched,    \* touched[w]: the keys whose content that changes
    edits, faults,
    raced,      \* history: readers whose fill a change overlaps
    suspect     \* history: keys a race, a failure or a move may leave outdated

readerVars == <<step, file, got>>
writerVars == <<todo, row, new, touched>>
vars == <<rows, cache, readerVars, writerVars, edits, faults, raced, suspect>>

Row      == [key: Keys, body: Bodies]
Contents == SUBSET (Rows \X Bodies)
Entry    == [content: Contents, left: 1..Timeout]

Busy(w) == todo[w] # <<>>

\* The key its handler makes of the instance: where the row is now, if it moved.
Target(w) == IF new[w] = Nothing THEN CHOOSE k \in touched[w] : TRUE ELSE new[w].key

TypeOK ==
    /\ rows \in [Rows -> Row \cup {Nothing}]
    /\ cache \in [Keys -> Entry \cup {Nothing}]
    /\ step \in [Readers -> {"idle", "query", "store"}]
    /\ file \in [Readers -> Keys \cup {Nothing}]
    /\ \A r \in Readers : step[r] # "idle" => file[r] # Nothing
    /\ got \in [Readers -> Contents]
    /\ todo \in [Writers -> Seq({"commit", "invalidate"})]
    /\ row \in [Writers -> Rows \cup {Nothing}]
    /\ \A w \in Writers : Busy(w) => row[w] # Nothing /\ Target(w) \in Keys
    /\ new \in [Writers -> Row \cup {Nothing}]
    /\ touched \in [Writers -> SUBSET Keys]
    /\ edits \in 0..MaxEdits /\ faults \in 0..MaxFaults
    /\ raced \subseteq Readers
    /\ suspect \subseteq Keys

\* The unique constraint on (file_type, tenant_id).
OneRowPerFile(table) ==
    \A i, j \in Rows :
        table[i] # Nothing /\ table[j] # Nothing /\ table[i].key = table[j].key
            /\ table[i].key \in FileKeys => i = j

Init ==
    /\ rows \in [Rows -> Row \cup {Nothing}] /\ OneRowPerFile(rows)
    /\ cache = [k \in Keys |-> Nothing]
    /\ step = [r \in Readers |-> "idle"]
    /\ file = [r \in Readers |-> Nothing]
    /\ got = [r \in Readers |-> {}]
    /\ todo = [w \in Writers |-> <<>>]
    /\ row = [w \in Writers |-> Nothing]
    /\ new = [w \in Writers |-> Nothing]
    /\ touched = [w \in Writers |-> {}]
    /\ edits = 0 /\ faults = 0
    /\ raced = {} /\ suspect = {}

Fault == faults < MaxFaults /\ faults' = faults + 1

\* What the rows of a file say now.
Content(k) ==
    {<<i, rows[i].body>> : i \in {j \in Rows : rows[j] # Nothing /\ rows[j].key = k}}

Quiet(k) == \A w \in Writers : ~(Busy(w) /\ k \in touched[w])
-----------------------------------------------------------------------------
(* Serving *)

\* A request that does not find its file cached, or cannot ask.
Request(r, k) ==
    /\ step[r] = "idle"
    /\ \/ cache[k] = Nothing /\ UNCHANGED faults
       \/ cache[k] # Nothing /\ Fault
    /\ step' = [step EXCEPT ![r] = "query"]
    /\ file' = [file EXCEPT ![r] = k]
    /\ UNCHANGED <<rows, cache, got, writerVars, edits, raced, suspect>>

Answered(r) ==
    /\ step' = [step EXCEPT ![r] = "idle"]
    /\ file' = [file EXCEPT ![r] = Nothing]

\* The query and what is made of it.  A FileKeys file without a row is a 404;
\* a failed rendering is served empty; neither is stored.
Render(r) ==
    /\ step[r] = "query"
    /\ \/ /\ file[r] \in FileKeys => Content(file[r]) # {}
          /\ got' = [got EXCEPT ![r] = Content(file[r])]
          /\ step' = [step EXCEPT ![r] = "store"]
          /\ raced' = IF Quiet(file[r]) THEN raced ELSE raced \cup {r}
          /\ UNCHANGED <<file, faults>>
       \/ /\ file[r] \in FileKeys /\ Content(file[r]) = {}
          /\ Answered(r) /\ UNCHANGED <<got, raced, faults>>
       \/ Fault /\ Answered(r) /\ UNCHANGED <<got, raced>>
    /\ UNCHANGED <<rows, cache, writerVars, edits, suspect>>

\* safe_set, which a failing backend turns into nothing.
Store(r) ==
    /\ step[r] = "store"
    /\ Answered(r)
    /\ got' = [got EXCEPT ![r] = {}]
    /\ raced' = raced \ {r}
    /\ \/ /\ cache' = [cache EXCEPT ![file[r]] = [content |-> got[r], left |-> Timeout]]
          /\ suspect' = IF r \in raced THEN suspect \cup {file[r]} ELSE suspect \ {file[r]}
          /\ UNCHANGED faults
       \/ Fault /\ UNCHANGED <<cache, suspect>>
    /\ UNCHANGED <<rows, writerVars, edits>>

-----------------------------------------------------------------------------
(* Changing rows *)

\* Mutant: rows are created without a signal and nothing is invalidated.
AddSteps_Silent == <<"commit">>

\* add_robots_rule and add_ads_entry: the INSERT, post_save, their own call.
AddSteps   == <<"commit", "invalidate", "invalidate">>
\* set_discovery_file_content: post_save fires inside its transaction.
SetSteps   == <<"invalidate", "commit", "invalidate">>
\* save(), or rows written in bulk and the named invalidate_* called.
SaveSteps  == <<"commit", "invalidate">>
\* The admin saves within a transaction and so does delete() anywhere: the
\* signal comes before the commit.
AdminSteps == <<"invalidate", "commit">>

KeyOf(n) == IF n = Nothing THEN {} ELSE {n.key}

Uncommitted(w) == \E i \in DOMAIN todo[w] : todo[w][i] = "commit"

\* The row lock, and the unique index, on which an INSERT waits.
Locked(i, n) ==
    \E w \in Writers : Uncommitted(w) /\ (row[w] = i \/ KeyOf(new[w]) \cap KeyOf(n) \cap FileKeys # {})

\* A change of row i to n (Nothing: deleted or made inactive) is sent.
Begin(w, i, n, steps) ==
    /\ ~Busy(w) /\ edits < MaxEdits /\ n # rows[i]
    /\ ~Locked(i, n) /\ OneRowPerFile([rows EXCEPT ![i] = n])
    /\ todo' = [todo EXCEPT ![w] = steps]
    /\ row' = [row EXCEPT ![w] = i]
    /\ new' = [new EXCEPT ![w] = n]
    /\ touched' = [touched EXCEPT ![w] = KeyOf(rows[i]) \cup KeyOf(n)]
    /\ raced' = raced \cup {r \in Readers : step[r] = "store" /\ file[r] \in touched'[w]}
    /\ edits' = edits + 1
    /\ UNCHANGED <<rows, cache, readerVars, faults, suspect>>

Add(w, i, n)   == /\ rows[i] = Nothing /\ n # Nothing /\ KeyOf(n) \cap FileKeys = {}
                  /\ Begin(w, i, n, AddSteps)
Set(w, i, n)   == /\ n # Nothing /\ n.key \in FileKeys /\ KeyOf(rows[i]) \subseteq {n.key}
                  /\ Begin(w, i, n, SetSteps)
Save(w, i, n)  == Begin(w, i, n, SaveSteps)
Admin(w, i, n) == Begin(w, i, n, AdminSteps)

\* The next step, and after the last none of the change is remembered.
Continue(w, steps) ==
    /\ todo' = [todo EXCEPT ![w] = steps]
    /\ row' = [row EXCEPT ![w] = IF steps = <<>> THEN Nothing ELSE @]
    /\ new' = [new EXCEPT ![w] = IF steps = <<>> THEN Nothing ELSE @]
    /\ touched' = [touched EXCEPT ![w] = IF steps = <<>> THEN {} ELSE @]

Commit(w) ==
    /\ Busy(w) /\ Head(todo[w]) = "commit"
    /\ rows' = [rows EXCEPT ![row[w]] = new[w]]
    /\ suspect' = suspect \cup (touched[w] \ {Target(w)})
    /\ Continue(w, Tail(todo[w]))
    /\ UNCHANGED <<cache, readerVars, edits, faults, raced>>

\* safe_delete, which logs a failure and goes on.
Invalidate(w) ==
    /\ Busy(w) /\ Head(todo[w]) = "invalidate"
    /\ \/ /\ cache' = [cache EXCEPT ![Target(w)] = Nothing]
          /\ suspect' = suspect \ {Target(w)}
          /\ UNCHANGED faults
       \/ /\ Fault
          /\ suspect' = suspect \cup {Target(w)}
          /\ UNCHANGED cache
    /\ Continue(w, Tail(todo[w]))
    /\ UNCHANGED <<rows, readerVars, edits, raced>>

\* The process dies: what is not committed is rolled back, what is not yet
\* invalidated never will be.
Crash(w) ==
    /\ Busy(w) /\ Fault
    /\ Continue(w, <<>>)
    /\ suspect' = IF Uncommitted(w) THEN suspect ELSE suspect \cup touched[w]
    /\ UNCHANGED <<rows, cache, readerVars, edits, raced>>

-----------------------------------------------------------------------------
(* The backend *)

\* Mutant: an entry outlives its timeout by a tick.
Aged_Lingers(entry) ==
    IF entry = Nothing \/ entry.left = 0 THEN Nothing ELSE [entry EXCEPT !.left = @ - 1]

\* Mutant: entries are stored without a timeout.
Aged_Kept(entry) == entry

\* An entry a tick later.
Aged(entry) ==
    IF entry = Nothing \/ entry.left = 1 THEN Nothing ELSE [entry EXCEPT !.left = @ - 1]

Tick ==
    /\ \E k \in Keys : cache[k] # Nothing
    /\ cache' = [k \in Keys |-> Aged(cache[k])]
    /\ UNCHANGED <<rows, readerVars, writerVars, edits, faults, raced, suspect>>

\* A backend may drop an entry early.
Evict(k) ==
    /\ cache[k] # Nothing
    /\ cache' = [cache EXCEPT ![k] = Nothing]
    /\ UNCHANGED <<rows, readerVars, writerVars, edits, faults, raced, suspect>>

-----------------------------------------------------------------------------
Change(w) ==
    \/ \E i \in Rows, n \in Row \cup {Nothing} :
          Add(w, i, n) \/ Set(w, i, n) \/ Save(w, i, n) \/ Admin(w, i, n)
    \/ Commit(w) \/ Invalidate(w) \/ Crash(w)

Next ==
    \/ \E r \in Readers : (\E k \in Keys : Request(r, k)) \/ Render(r) \/ Store(r)
    \/ \E w \in Writers : Change(w)
    \/ Tick
    \/ \E k \in Keys : Evict(k)

\* Only the clock is sure to go on.
Spec == Init /\ [][Next]_vars /\ WF_vars(Tick)

-----------------------------------------------------------------------------
(* What is served *)

Fresh(k) == cache[k] = Nothing \/ cache[k].content = Content(k)

\* handlers.py is there so that "views always serve fresh content after database
\* changes".  What can be said without exception is this: when no change of a file
\* is under way, what is cached of it is what its rows say, unless a fill
\* overlapped a change, an invalidation failed or was cut off by a crash, or the
\* row moved away from this file.
OnlyRacesLeaveStale == \A k \in Keys \ suspect : Quiet(k) => Fresh(k)

\* Whatever went wrong, the timeout mends it: once the changes stop, every file
\* becomes and stays what its rows say, even if every writer and reader stops
\* half-way.
EventuallyFresh == <>[](\A k \in Keys : Fresh(k))
=============================================================================
