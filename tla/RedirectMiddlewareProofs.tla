---------------------- MODULE RedirectMiddlewareProofs ----------------------
(***************************************************************************)
(* For any rules, requests, writers and timeout: 410s answer only what the *)
(* view could not, exact rules are obeyed, lists are obeyed in order, and  *)
(* no cached list holds a rule for a timeout after it expired, but for one *)
(* that expired while the list was fetched.                                *)
(***************************************************************************)
EXTENDS RedirectMiddleware, NaturalLemmas

\* A request is answered once, and comes to the resolver by way of a 404.
Orderly(q) ==
    /\ at[q] # "done" => obeyed[q] = {} /\ answer[q] = "none"
    /\ at[q] = "view" => ~missing[q]
    /\ at[q] \in {"resolver", "record"} => missing[q]

Answered(q) ==
    /\ answer[q] = "gone" => missing[q]
    /\ answer[q] = "page" => ~missing[q]
    /\ \A r \in obeyed[q] : r.gone <=> missing[q]

Fits(q, r) == r.pattern = path[q] /\ r.gone = missing[q]

\* Past the exact rules, none of those in force all along fits.
Heeded(q) ==
    /\ at[q] \notin {"new", "done"} => kept[q] \subseteq Exact(Effective)
    /\ at[q] \in {"list", "query", "store", "view", "resolver", "record"} /\ q \notin failed =>
          \A r \in kept[q] : ~Fits(q, r)
    /\ at[q] = "done" /\ q \notin failed =>
          \A r \in kept[q] : Fits(q, r) => obeyed[q] = {r}

\* Nothing in a list about to be stored has expired, unless it did on the way.
Dated(q) == at[q] = "store" /\ q \notin slow => \A r \in list[q] : overdue[r] = 0

\* The older a rule's expiry, the less time the list has left.
Aging == cached # Nothing /\ ~late => \A r \in cached.list : overdue[r] + cached.left <= Timeout

RequestInv(q) == Orderly(q) /\ Answered(q) /\ Heeded(q) /\ Dated(q)

RedirectInv ==
    /\ TypeOK /\ ExactUnique(table) /\ Aging
    /\ \A q \in Requests : RequestInv(q)

-----------------------------------------------------------------------------
LEMMA FaultTyped == ASSUME TypeOK, Fault PROVE faults' \in 0..MaxFaults
  BY RedirectAssumption DEF Fault, TypeOK

LEMMA EffectiveTyped == ASSUME TypeOK PROVE Effective \subseteq table /\ Effective \subseteq Rules
  BY DEF Effective, TypeOK

LEMMA InitInv == Init => RedirectInv
<1> SUFFICES ASSUME Init PROVE RedirectInv
  OBVIOUS
<1>1. TypeOK
  <2>1. slow \subseteq Requests /\ late \in BOOLEAN
    BY DEF Init
  <2> QED
    BY <2>1, RedirectAssumption DEF Init, TypeOK, Stages
<1>2. Aging
  BY DEF Init, Aging
<1>3. \A q \in Requests : RequestInv(q)
  BY DEF Init, RequestInv, Orderly, Answered, Heeded, Dated
<1> QED
  BY <1>1, <1>2, <1>3 DEF Init, RedirectInv

-----------------------------------------------------------------------------
(* Requests *)

\* A step of one request leaves the others what they were.
LEMMA OneRequest ==
    ASSUME RedirectInv, NEW q \in Requests, table' = table, overdue' = overdue,
           TypeOK', Aging', RequestInv(q)',
           \A p \in Requests : p # q =>
               /\ at'[p] = at[p] /\ path'[p] = path[p] /\ missing'[p] = missing[p] /\ list'[p] = list[p]
               /\ answer'[p] = answer[p] /\ obeyed'[p] = obeyed[p] /\ kept'[p] = kept[p]
               /\ (p \in failed' <=> p \in failed) /\ (p \in slow' <=> p \in slow)
    PROVE  RedirectInv'
<1> USE DEF RedirectInv
<1>1. ASSUME NEW p \in Requests, p # q PROVE RequestInv(p)'
  <2>1. Exact(Effective)' = Exact(Effective)
    BY DEF Effective, Exact
  <2>2. Orderly(p)' /\ Answered(p)' /\ Dated(p)'
    BY <1>1 DEF RequestInv, Orderly, Answered, Dated
  <2>3. Heeded(p)'
    BY <1>1, <2>1 DEF RequestInv, Heeded, Fits
  <2> QED
    BY <2>2, <2>3 DEF RequestInv
<1>2. ExactUnique(table)'
  BY DEF ExactUnique
<1> QED
  BY <1>1, <1>2

LEMMA ArriveKeeps == ASSUME RedirectInv, NEW q \in Requests, Arrive(q) PROVE RedirectInv'
<1> USE DEF RedirectInv
<1>1. TypeOK'
  <2>1. Exact(Effective) \subseteq Rules
    BY EffectiveTyped DEF Exact
  <2> QED
    BY <2>1 DEF Arrive, Goto, TypeOK, Stages
<1>2. Aging'
  BY DEF Arrive, Aging
<1>3. RequestInv(q)'
  <2>1. /\ at'[q] = "exact" /\ missing'[q] = FALSE /\ obeyed'[q] = {} /\ answer'[q] = "none"
        /\ kept'[q] = Exact(Effective)
    BY DEF Arrive, Goto, TypeOK
  <2>2. Exact(Effective)' = Exact(Effective)
    BY DEF Effective, Exact, Arrive
  <2> QED
    BY <2>1, <2>2 DEF RequestInv, Orderly, Answered, Heeded, Dated
<1>4. \A p \in Requests : p # q =>
          /\ at'[p] = at[p] /\ path'[p] = path[p] /\ missing'[p] = missing[p] /\ list'[p] = list[p]
          /\ answer'[p] = answer[p] /\ obeyed'[p] = obeyed[p] /\ kept'[p] = kept[p]
          /\ (p \in failed' <=> p \in failed) /\ (p \in slow' <=> p \in slow)
  BY DEF Arrive, Goto, TypeOK
<1> QED
  BY <1>1, <1>2, <1>3, <1>4, OneRequest DEF Arrive

\* What the other steps of a request have in common: where it goes and with what
\* answer, the rules and its path being as they were.
Goes(q, stage, a, rules) ==
    /\ at' = [at EXCEPT ![q] = stage] /\ stage \in Stages \ {"new"}
    /\ answer' = [answer EXCEPT ![q] = a]
    /\ a \in {"none", "rule", "page", "gone", "counted", "missing"}
    /\ obeyed' = [obeyed EXCEPT ![q] = rules] /\ rules \in SUBSET Rules
    /\ missing' \in [Requests -> BOOLEAN] /\ \A p \in Requests : p # q => missing'[p] = missing[p]
    /\ list' \in [Requests -> SUBSET Rules] /\ \A p \in Requests : p # q => list'[p] = list[p]
    /\ failed' \in {failed, failed \cup {q}} /\ faults' \in 0..MaxFaults
    /\ slow' \in {slow, slow \ {q}} /\ late' \in BOOLEAN
    /\ cached' \in Entry \cup {Nothing} /\ Aging'
    /\ UNCHANGED <<table, overdue, path, todo, edits, kept>>
    /\ stage # "done" => rules = {} /\ a = "none" /\ at[q] \notin {"new", "done"}
    /\ stage = "view" => ~missing'[q]
    /\ stage \in {"resolver", "record"} => missing'[q]
    /\ a = "gone" => missing'[q]
    /\ a = "page" => ~missing'[q]
    /\ \A r \in rules : r.gone <=> missing'[q]
    /\ stage \in {"list", "query", "store", "view", "resolver", "record"} /\ q \notin failed' =>
           \A r \in kept[q] : ~(r.pattern = path[q] /\ r.gone = missing'[q])
    /\ stage = "done" /\ q \notin failed' =>
           \A r \in kept[q] : r.pattern = path[q] /\ r.gone = missing'[q] => rules = {r}
    /\ stage = "store" => \A r \in list'[q] : overdue[r] = 0

LEMMA RequestGoes ==
    ASSUME RedirectInv, NEW q \in Requests, NEW stage, NEW a, NEW rules, Goes(q, stage, a, rules)
    PROVE  RedirectInv'
<1> USE DEF RedirectInv, Goes
<1>1. TypeOK'
  BY DEF TypeOK
<1>2. at'[q] = stage /\ answer'[q] = a /\ obeyed'[q] = rules
  BY DEF TypeOK
<1>3. Orderly(q)' /\ Answered(q)' /\ Dated(q)'
  BY <1>2 DEF Orderly, Answered, Dated
<1>4. Heeded(q)'
  <2>1. Exact(Effective)' = Exact(Effective)
    BY DEF Effective, Exact
  <2>2. stage \notin {"new", "done"} => kept[q] \subseteq Exact(Effective)
    BY DEF RequestInv, Heeded
  <2>3. path'[q] = path[q] /\ kept'[q] = kept[q]
    OBVIOUS
  <2> QED
    BY <1>2, <2>1, <2>2, <2>3 DEF Heeded, Fits
<1>5. RequestInv(q)'
  BY <1>3, <1>4 DEF RequestInv
<1>6. \A p \in Requests : p # q =>
          /\ at'[p] = at[p] /\ path'[p] = path[p] /\ missing'[p] = missing[p] /\ list'[p] = list[p]
          /\ answer'[p] = answer[p] /\ obeyed'[p] = obeyed[p] /\ kept'[p] = kept[p]
          /\ (p \in failed' <=> p \in failed) /\ (p \in slow' <=> p \in slow)
  BY DEF TypeOK
<1> QED
  BY <1>1, <1>5, <1>6, OneRequest

LEMMA Unanswered ==
    ASSUME RedirectInv, NEW q \in Requests, at[q] # "done"
    PROVE  /\ answer = [answer EXCEPT ![q] = "none"] /\ obeyed = [obeyed EXCEPT ![q] = {}]
           /\ missing[q] \in BOOLEAN
  BY DEF RedirectInv, TypeOK, RequestInv, Orderly

LEMMA LookupFailsKeeps ==
    ASSUME RedirectInv, NEW q \in Requests, LookupFails(q) PROVE RedirectInv'
<1>1. /\ at[q] \notin {"new", "done"}
      /\ cached' = cached /\ failed' = failed \cup {q}
      /\ UNCHANGED <<table, overdue, path, todo, edits, kept, slow, late>>
  BY DEF LookupFails
<1>2. faults' \in 0..MaxFaults
  BY FaultTyped DEF LookupFails, RedirectInv
<1>3. list' \in [Requests -> SUBSET Rules] /\ \A p \in Requests : p # q => list'[p] = list[p]
  BY DEF LookupFails, RedirectInv, TypeOK
<1>4. Aging' /\ cached' \in Entry \cup {Nothing} /\ late' \in BOOLEAN
  BY <1>1 DEF RedirectInv, Aging, TypeOK
<1>5. missing \in [Requests -> BOOLEAN]
  BY DEF RedirectInv, TypeOK
<1>6. ASSUME missing[q], PassOn(q), UNCHANGED missing PROVE RedirectInv'
  <2>1. /\ answer' = [answer EXCEPT ![q] = "none"] /\ obeyed' = [obeyed EXCEPT ![q] = {}]
        /\ at' = [at EXCEPT ![q] = "resolver"] /\ "resolver" \in Stages \ {"new"}
    BY <1>1, <1>6, Unanswered DEF PassOn, Goto, Stages
  <2>2. Goes(q, "resolver", "none", {})
    BY <1>1, <1>2, <1>3, <1>4, <1>5, <1>6, <2>1 DEF Goes
  <2> QED
    BY <2>2, RequestGoes
<1>7. ASSUME NEW lost \in BOOLEAN, Answer(q, IF lost THEN "missing" ELSE "page", {}),
             missing' = [missing EXCEPT ![q] = lost]
      PROVE  RedirectInv'
  <2> DEFINE a == IF lost THEN "missing" ELSE "page"
  <2>1. /\ at' = [at EXCEPT ![q] = "done"] /\ answer' = [answer EXCEPT ![q] = a]
        /\ obeyed' = [obeyed EXCEPT ![q] = {}] /\ "done" \in Stages \ {"new"}
    BY <1>7 DEF Answer, Goto, Stages
  <2>2. /\ a \in {"missing", "page"} /\ (a = "page" => ~lost)
        /\ missing'[q] = lost /\ missing' \in [Requests -> BOOLEAN]
        /\ \A p \in Requests : p # q => missing'[p] = missing[p]
    BY <1>5, <1>7
  <2> HIDE DEF a
  <2>3. Goes(q, "done", a, {})
    BY <1>1, <1>2, <1>3, <1>4, <2>1, <2>2 DEF Goes
  <2> QED
    BY <2>3, RequestGoes
<1> QED
  BY <1>6, <1>7 DEF LookupFails

LEMMA LookUpExactKeeps ==
    ASSUME RedirectInv, NEW q \in Requests, LookUpExact(q) PROVE RedirectInv'
<1> USE DEF RedirectInv
<1>1. /\ at[q] = "exact"
      /\ missing' = missing /\ cached' = cached /\ list' = list /\ failed' = failed /\ faults' = faults
      /\ UNCHANGED <<table, overdue, path, todo, edits, kept, slow, late>>
  BY DEF LookUpExact, history
<1>2. /\ missing' \in [Requests -> BOOLEAN] /\ cached' \in Entry \cup {Nothing}
      /\ list' \in [Requests -> SUBSET Rules] /\ faults' \in 0..MaxFaults
  BY <1>1 DEF TypeOK
<1>3. Aging' /\ late' \in BOOLEAN
  BY <1>1 DEF Aging, TypeOK
<1>4. kept[q] \subseteq Exact(Effective) /\ Effective \subseteq table
  BY <1>1, EffectiveTyped DEF RequestInv, Heeded
<1>5. ASSUME NEW r \in ExactFor(q), Answer(q, "rule", {r}) PROVE RedirectInv'
  <2>1. r \in Rules /\ r \in table /\ r.type = "exact" /\ r.pattern = path[q] /\ r.gone = missing[q]
    BY <1>4, EffectiveTyped DEF ExactFor, Exact
  <2>2. \A s \in kept[q] : s.pattern = path[q] => s = r
    BY <1>4, <2>1 DEF ExactUnique, Exact
  <2>3. /\ at' = [at EXCEPT ![q] = "done"] /\ answer' = [answer EXCEPT ![q] = "rule"]
        /\ obeyed' = [obeyed EXCEPT ![q] = {r}] /\ "done" \in Stages /\ {r} \in SUBSET Rules
    BY <1>5, <2>1 DEF Answer, Goto, Stages
  <2>4. \A s \in kept[q] : s.pattern = path[q] /\ s.gone = missing'[q] => {r} = {s}
    BY <2>2
  <2>5. \A s \in {r} : s.gone <=> missing'[q]
    BY <1>1, <1>2, <2>1
  <2>6. Goes(q, "done", "rule", {r})
    BY <1>1, <1>2, <1>3, <2>3, <2>4, <2>5 DEF Goes
  <2> QED
    BY <2>6, RequestGoes
<1>6. ASSUME ExactFor(q) = {}, Goto(q, "list"), UNCHANGED <<answer, obeyed>> PROVE RedirectInv'
  <2>1. \A s \in kept[q] : ~(s.pattern = path[q] /\ s.gone = missing'[q])
    BY <1>1, <1>4, <1>6 DEF ExactFor
  <2>2. /\ answer' = [answer EXCEPT ![q] = "none"] /\ obeyed' = [obeyed EXCEPT ![q] = {}]
        /\ at' = [at EXCEPT ![q] = "list"] /\ "list" \in Stages
    BY <1>1, <1>6, Unanswered DEF Goto, Stages
  <2>3. Goes(q, "list", "none", {})
    BY <1>1, <1>2, <1>3, <2>1, <2>2 DEF Goes
  <2> QED
    BY <2>3, RequestGoes
<1> QED
  BY <1>5, <1>6 DEF LookUpExact

\* A list is searched, and the search ends the lookup.
LEMMA DecideKeeps ==
    ASSUME RedirectInv, NEW q \in Requests, NEW rules \in SUBSET Rules, Decide(q, rules),
           at[q] \in {"list", "store"},
           list' \in [Requests -> SUBSET Rules], \A p \in Requests : p # q => list'[p] = list[p],
           faults' \in 0..MaxFaults, cached' \in Entry \cup {Nothing}, Aging',
           UNCHANGED <<table, overdue, path, missing, todo, edits, kept, failed>>,
           slow' \in {slow, slow \ {q}}, late' \in BOOLEAN
    PROVE  RedirectInv'
<1> USE DEF RedirectInv
<1>1. missing' \in [Requests -> BOOLEAN] /\ missing'[q] = missing[q] /\ failed' = failed
  BY DEF TypeOK
<1>2. q \notin failed => \A s \in kept[q] : ~(s.pattern = path[q] /\ s.gone = missing'[q])
  BY <1>1 DEF RequestInv, Heeded, Fits
<1>3. ASSUME NEW r \in Found(q, rules), Answer(q, "rule", {r}) PROVE RedirectInv'
  <2>1. r \in Rules /\ r.gone = missing[q]
    BY DEF Found, First
  <2>2. /\ at' = [at EXCEPT ![q] = "done"] /\ answer' = [answer EXCEPT ![q] = "rule"]
        /\ obeyed' = [obeyed EXCEPT ![q] = {r}] /\ "done" \in Stages /\ {r} \in SUBSET Rules
    BY <1>3, <2>1 DEF Answer, Goto, Stages
  <2>3. \A s \in {r} : s.gone <=> missing'[q]
    BY <1>1, <2>1
  <2>4. Goes(q, "done", "rule", {r})
    BY <1>1, <1>2, <2>2, <2>3 DEF Goes
  <2> QED
    BY <2>4, RequestGoes
<1>4. ASSUME PassOn(q) PROVE RedirectInv'
  <2> DEFINE stage == IF missing[q] THEN "resolver" ELSE "view"
  <2>1. /\ answer' = [answer EXCEPT ![q] = "none"] /\ obeyed' = [obeyed EXCEPT ![q] = {}]
        /\ missing[q] \in BOOLEAN /\ stage \in Stages
    BY <1>4, Unanswered DEF PassOn, Stages
  <2>2. at' = [at EXCEPT ![q] = stage] /\ at[q] \notin {"new", "done"}
    BY <1>4 DEF PassOn, Goto
  <2> HIDE DEF stage
  <2>3. /\ stage \in {"view", "resolver"}
        /\ stage = "view" => ~missing[q]
        /\ stage = "resolver" => missing[q]
    BY DEF stage
  <2>4. Goes(q, stage, "none", {})
    BY <1>1, <1>2, <2>1, <2>2, <2>3 DEF Goes
  <2> QED
    BY <2>4, RequestGoes
<1> QED
  BY <1>3, <1>4 DEF Decide

LEMMA ReadListKeeps ==
    ASSUME RedirectInv, NEW q \in Requests, ReadList(q) PROVE RedirectInv'
<1> USE DEF RedirectInv
<1>1. /\ at[q] = "list" /\ missing' = missing /\ cached' = cached /\ failed' = failed
      /\ UNCHANGED <<table, overdue, path, todo, edits, kept, slow, late>>
  BY DEF ReadList, history
<1>2. /\ missing' \in [Requests -> BOOLEAN] /\ cached' \in Entry \cup {Nothing} /\ Aging'
      /\ late' \in BOOLEAN
  BY <1>1 DEF TypeOK, Aging
<1>3. faults' \in 0..MaxFaults
  BY FaultTyped DEF ReadList, TypeOK
<1>4. CASE cached # Nothing /\ Decide(q, cached.list) /\ list' = [list EXCEPT ![q] = cached.list]
  <2>1. cached.list \in SUBSET Rules
    BY <1>4 DEF TypeOK, Entry
  <2>2. list' \in [Requests -> SUBSET Rules] /\ \A p \in Requests : p # q => list'[p] = list[p]
    BY <1>4, <2>1 DEF TypeOK
  <2> QED
    BY <1>1, <1>2, <1>3, <1>4, <2>1, <2>2, DecideKeeps
<1>5. CASE Goto(q, "query") /\ UNCHANGED <<answer, obeyed, list>>
  <2>1. q \notin failed => \A s \in kept[q] : ~(s.pattern = path[q] /\ s.gone = missing'[q])
    BY <1>1 DEF RequestInv, Heeded, Fits
  <2>2. /\ answer' = [answer EXCEPT ![q] = "none"] /\ obeyed' = [obeyed EXCEPT ![q] = {}]
        /\ at' = [at EXCEPT ![q] = "query"] /\ "query" \in Stages
    BY <1>1, <1>5, Unanswered DEF Goto, Stages
  <2>3. list' \in [Requests -> SUBSET Rules] /\ \A p \in Requests : p # q => list'[p] = list[p]
    BY <1>5 DEF TypeOK
  <2>4. Goes(q, "query", "none", {})
    BY <1>1, <1>2, <1>3, <2>1, <2>2, <2>3 DEF Goes
  <2> QED
    BY <2>4, RequestGoes
<1> QED
  BY <1>4, <1>5 DEF ReadList

LEMMA QueryListKeeps ==
    ASSUME RedirectInv, NEW q \in Requests, QueryList(q) PROVE RedirectInv'
<1> USE DEF RedirectInv
<1>1. /\ at[q] = "query" /\ missing' = missing /\ cached' = cached /\ failed' = failed /\ faults' = faults
      /\ UNCHANGED <<table, overdue, path, todo, edits, kept, slow, late>>
  BY DEF QueryList, history
<1>2. /\ missing' \in [Requests -> BOOLEAN] /\ cached' \in Entry \cup {Nothing} /\ Aging'
      /\ faults' \in 0..MaxFaults /\ late' \in BOOLEAN
  BY <1>1 DEF TypeOK, Aging
<1>3. Listed \in SUBSET Rules /\ \A r \in Listed : overdue[r] = 0
  BY EffectiveTyped DEF Listed, Effective
<1>4. /\ list' \in [Requests -> SUBSET Rules] /\ \A p \in Requests : p # q => list'[p] = list[p]
      /\ list'[q] = Listed
  BY <1>3 DEF QueryList, TypeOK
<1>5. q \notin failed => \A s \in kept[q] : ~(s.pattern = path[q] /\ s.gone = missing'[q])
  BY <1>1 DEF RequestInv, Heeded, Fits
<1>6. /\ answer' = [answer EXCEPT ![q] = "none"] /\ obeyed' = [obeyed EXCEPT ![q] = {}]
      /\ at' = [at EXCEPT ![q] = "store"] /\ "store" \in Stages
  BY <1>1, Unanswered DEF QueryList, Goto, Stages
<1>7. Goes(q, "store", "none", {})
  BY <1>1, <1>2, <1>3, <1>4, <1>5, <1>6 DEF Goes
<1> QED
  BY <1>7, RequestGoes

LEMMA StoreListKeeps ==
    ASSUME RedirectInv, NEW q \in Requests, StoreList(q) PROVE RedirectInv'
<1> USE DEF RedirectInv
<1>1. /\ at[q] = "store" /\ Decide(q, list[q]) /\ list' = list
      /\ UNCHANGED <<table, overdue, path, missing, todo, edits, kept, failed>>
  BY DEF StoreList, history
<1>2. list[q] \in SUBSET Rules /\ list' \in [Requests -> SUBSET Rules]
  BY <1>1 DEF TypeOK
<1>3. faults' \in 0..MaxFaults /\ slow' = slow \ {q}
  BY FaultTyped DEF StoreList, TypeOK
<1>5. late' \in BOOLEAN
  <2>1. late' = (q \in slow) \/ late' = late
    BY DEF StoreList
  <2>2. (q \in slow) \in BOOLEAN
    OBVIOUS
  <2>3. late \in BOOLEAN
    BY DEF TypeOK
  <2> QED
    BY <2>1, <2>2, <2>3
<1>4. cached' \in Entry \cup {Nothing} /\ Aging'
  <2>1. CASE cached' = [list |-> list[q], left |-> Timeout] /\ late' = (q \in slow)
    <3>1. cached' \in Entry
      BY <1>2, <2>1, RedirectAssumption DEF Entry
    <3>2. ASSUME ~late', NEW r \in list[q] PROVE overdue'[r] + Timeout <= Timeout
      <4>1. q \notin slow
        BY <2>1, <3>2
      <4>2. overdue'[r] = 0
        BY <1>1, <4>1 DEF RequestInv, Dated
      <4> QED
        BY <4>2, RedirectAssumption
    <3> QED
      BY <2>1, <3>1, <3>2 DEF Aging
  <2>2. CASE cached' = cached /\ late' = late
    BY <1>1, <2>2 DEF TypeOK, Aging
  <2> QED
    BY <2>1, <2>2 DEF StoreList
<1> QED
  BY <1>1, <1>2, <1>3, <1>4, <1>5, DecideKeeps

LEMMA ViewKeeps == ASSUME RedirectInv, NEW q \in Requests, View(q) PROVE RedirectInv'
<1> USE DEF RedirectInv
<1>1. /\ at[q] = "view" /\ cached' = cached /\ failed' = failed /\ faults' = faults /\ ~missing[q]
      /\ UNCHANGED <<table, overdue, path, todo, edits, kept, slow, late>>
  BY DEF View, history, RequestInv, Orderly
<1>2. /\ cached' \in Entry \cup {Nothing} /\ Aging' /\ faults' \in 0..MaxFaults
      /\ late' \in BOOLEAN
  BY <1>1 DEF TypeOK, Aging
<1>3. list' \in [Requests -> SUBSET Rules] /\ \A p \in Requests : p # q => list'[p] = list[p]
  BY DEF View, TypeOK
<1>4. CASE Answer(q, "page", {}) /\ UNCHANGED missing
  <2>1. /\ at' = [at EXCEPT ![q] = "done"] /\ answer' = [answer EXCEPT ![q] = "page"]
        /\ obeyed' = [obeyed EXCEPT ![q] = {}] /\ "done" \in Stages
    BY <1>4 DEF Answer, Goto, Stages
  <2>2. q \notin failed => \A s \in kept[q] : ~(s.pattern = path[q] /\ s.gone = missing'[q])
    BY <1>1, <1>4 DEF RequestInv, Heeded, Fits
  <2>3. missing' \in [Requests -> BOOLEAN] /\ missing' = missing
    BY <1>4 DEF TypeOK
  <2>4. Goes(q, "done", "page", {})
    BY <1>1, <1>2, <1>3, <2>1, <2>2, <2>3 DEF Goes
  <2> QED
    BY <2>4, RequestGoes
<1>5. CASE missing' = [missing EXCEPT ![q] = TRUE] /\ Goto(q, "exact") /\ UNCHANGED <<answer, obeyed>>
  <2>1. /\ at' = [at EXCEPT ![q] = "exact"] /\ "exact" \in Stages
        /\ answer' = [answer EXCEPT ![q] = "none"] /\ obeyed' = [obeyed EXCEPT ![q] = {}]
    BY <1>1, <1>5, Unanswered DEF Goto, Stages
  <2>2. missing' \in [Requests -> BOOLEAN] /\ \A p \in Requests : p # q => missing'[p] = missing[p]
    BY <1>5 DEF TypeOK
  <2>3. Goes(q, "exact", "none", {})
    BY <1>1, <1>2, <1>3, <2>1, <2>2 DEF Goes
  <2> QED
    BY <2>3, RequestGoes
<1> QED
  BY <1>4, <1>5 DEF View

LEMMA AskResolverKeeps == ASSUME RedirectInv, NEW q \in Requests, AskResolver(q) PROVE RedirectInv'
<1> USE DEF RedirectInv
<1>1. /\ at[q] = "resolver" /\ cached' = cached /\ failed' = failed /\ faults' = faults
      /\ missing' = missing /\ missing[q]
      /\ UNCHANGED <<table, overdue, path, todo, edits, kept, slow, late>>
  BY DEF AskResolver, history, RequestInv, Orderly
<1>2. /\ cached' \in Entry \cup {Nothing} /\ Aging' /\ faults' \in 0..MaxFaults
      /\ late' \in BOOLEAN
      /\ missing' \in [Requests -> BOOLEAN]
  BY <1>1 DEF TypeOK, Aging
<1>3. list' \in [Requests -> SUBSET Rules] /\ \A p \in Requests : p # q => list'[p] = list[p]
  BY DEF AskResolver, TypeOK
<1>4. q \notin failed => \A s \in kept[q] : ~(s.pattern = path[q] /\ s.gone = missing'[q])
  BY <1>1 DEF RequestInv, Heeded, Fits
<1>5. PICK stage \in {"done", "record"}, a \in {"gone", "none"} :
          /\ stage = "record" => a = "none"
          /\ at' = [at EXCEPT ![q] = stage] /\ answer' = [answer EXCEPT ![q] = a]
          /\ obeyed' = [obeyed EXCEPT ![q] = {}]
  BY <1>1, Unanswered DEF AskResolver, Answer, Goto
<1>6. stage \in Stages
  BY DEF Stages
<1>7. Goes(q, stage, a, {})
  BY <1>1, <1>2, <1>3, <1>4, <1>5, <1>6 DEF Goes
<1> QED
  BY <1>7, RequestGoes

LEMMA Record404Keeps == ASSUME RedirectInv, NEW q \in Requests, Record404(q) PROVE RedirectInv'
<1> USE DEF RedirectInv
<1>1. /\ at[q] = "record" /\ cached' = cached /\ failed' = failed /\ faults' = faults
      /\ missing' = missing /\ list' = list
      /\ UNCHANGED <<table, overdue, path, todo, edits, kept, slow, late>>
  BY DEF Record404, history
<1>2. /\ cached' \in Entry \cup {Nothing} /\ Aging' /\ faults' \in 0..MaxFaults
      /\ late' \in BOOLEAN
      /\ missing' \in [Requests -> BOOLEAN] /\ list' \in [Requests -> SUBSET Rules]
  BY <1>1 DEF TypeOK, Aging
<1>3. q \notin failed => \A s \in kept[q] : ~(s.pattern = path[q] /\ s.gone = missing'[q])
  BY <1>1 DEF RequestInv, Heeded, Fits
<1>4. PICK a \in {"counted", "missing"} :
          /\ at' = [at EXCEPT ![q] = "done"] /\ answer' = [answer EXCEPT ![q] = a]
          /\ obeyed' = [obeyed EXCEPT ![q] = {}]
  BY DEF Record404, Answer, Goto
<1>5. "done" \in Stages
  BY DEF Stages
<1>6. Goes(q, "done", a, {})
  BY <1>1, <1>2, <1>3, <1>4, <1>5 DEF Goes
<1> QED
  BY <1>6, RequestGoes

-----------------------------------------------------------------------------
(* Writers and the clock *)

\* Steps that leave rules and requests alone.
LEMMA RulesAlone ==
    ASSUME RedirectInv, UNCHANGED <<table, overdue, requestVars, kept, failed, slow>>, TypeOK', Aging'
    PROVE  RedirectInv'
<1> USE DEF RedirectInv, requestVars
<1>1. Exact(Effective)' = Exact(Effective)
  BY DEF Effective, Exact
<1>2. ASSUME NEW q \in Requests PROVE RequestInv(q)'
  <2>1. Orderly(q)' /\ Answered(q)' /\ Dated(q)'
    BY DEF RequestInv, Orderly, Answered, Dated
  <2>2. Heeded(q)'
    BY <1>1 DEF RequestInv, Heeded, Fits
  <2> QED
    BY <2>1, <2>2 DEF RequestInv
<1>3. ExactUnique(table)'
  BY DEF ExactUnique
<1> QED
  BY <1>2, <1>3

\* Steps that change rules, or let them expire.
LEMMA RulesChange ==
    ASSUME RedirectInv, TypeOK', Aging', ExactUnique(table)', UNCHANGED <<requestVars, failed>>,
           slow \subseteq slow',
           kept' = [q \in Requests |-> IF at[q] = "done" THEN kept[q] ELSE kept[q] \cap Effective'],
           \A q \in Requests : at[q] = "store" /\ q \notin slow' => \A r \in list[q] : overdue'[r] = 0
    PROVE  RedirectInv'
<1> USE DEF RedirectInv, requestVars
<1>1. ASSUME NEW q \in Requests PROVE RequestInv(q)'
  <2>1. Orderly(q)' /\ Answered(q)' /\ Dated(q)'
    BY DEF RequestInv, Orderly, Answered, Dated
  <2>2. /\ at[q] = "done" => kept'[q] = kept[q]
        /\ at[q] # "done" => kept'[q] = kept[q] \cap Effective'
    OBVIOUS
  <2>3. at[q] \notin {"new", "done"} => kept'[q] \subseteq Exact(Effective)'
    BY <2>2 DEF RequestInv, Heeded, Exact
  <2>4. kept'[q] \subseteq kept[q]
    BY <2>2
  <2>5. /\ at[q] \in {"list", "query", "store", "view", "resolver", "record"} /\ q \notin failed =>
               \A r \in kept'[q] : ~Fits(q, r)
        /\ at[q] = "done" /\ q \notin failed => \A r \in kept'[q] : Fits(q, r) => obeyed[q] = {r}
    BY <2>4 DEF RequestInv, Heeded
  <2>6. \A r : Fits(q, r)' <=> Fits(q, r)
    BY DEF Fits
  <2>7. Heeded(q)'
    BY <2>3, <2>5, <2>6 DEF Heeded
  <2> QED
    BY <2>1, <2>7 DEF RequestInv
<1> QED
  BY <1>1

\* The changes that may be sent are changes.
LEMMA SendKeeps ==
    ASSUME RedirectInv, NEW w \in Writers, NEW steps \in Seq(Change \cup {Invalidate}), Send(w, steps)
    PROVE  RedirectInv'
<1> USE DEF RedirectInv
<1>1. edits' \in 0..MaxEdits
  BY RedirectAssumption DEF Send, TypeOK
<1>2. TypeOK'
  BY <1>1 DEF Send, requestVars, history, TypeOK
<1>3. Aging'
  BY DEF Send, history, Aging
<1> QED
  BY <1>2, <1>3, RulesAlone DEF Send, history

LEMMA ChangeTyped ==
    ASSUME NEW rules \in SUBSET Rules
    PROVE  /\ Put(rules) \in Change /\ Drop(rules) \in Change
           /\ [Put(rules) EXCEPT !.skip = TRUE] \in Change
           /\ \A others \in SUBSET Rules : [Put(rules) EXCEPT !.drop = others] \in Change
  BY DEF Put, Drop, Change

LEMMA SendsKeep ==
    ASSUME RedirectInv, NEW w \in Writers,
           \/ \E r \in Rules : AddRedirect(w, r) \/ AdminAdd(w, r) \/ AdminDelete(w, r)
           \/ \E rules \in SUBSET Rules : BulkCreate(w, rules)
           \/ \E q, r \in Rules : BulkImport(w, q, r) \/ AdminSave(w, q, r)
           \/ CleanupExpired(w)
    PROVE  RedirectInv'
<1>1. ASSUME NEW r \in Rules, AddRedirect(w, r) PROVE RedirectInv'
  <2>1. <<Put({r}), Invalidate, Invalidate>> \in Seq(Change \cup {Invalidate})
    <3>1. Put({r}) \in Change
      BY ChangeTyped
    <3> QED
      BY <3>1
  <2> QED
    BY <1>1, <2>1, SendKeeps DEF AddRedirect
<1>2. ASSUME NEW r \in Rules, AdminDelete(w, r) PROVE RedirectInv'
  <2>1. <<Invalidate, Drop({r})>> \in Seq(Change \cup {Invalidate})
    <3>1. Drop({r}) \in Change
      BY ChangeTyped
    <3> QED
      BY <3>1
  <2> QED
    BY <1>2, <2>1, SendKeeps DEF AdminDelete
<1>3. ASSUME NEW rules \in SUBSET Rules, BulkCreate(w, rules) PROVE RedirectInv'
  <2>1. <<[Put(rules) EXCEPT !.skip = TRUE], Invalidate>> \in Seq(Change \cup {Invalidate})
    BY ChangeTyped
  <2> QED
    BY <1>3, <2>1, SendKeeps DEF BulkCreate
<1>4. ASSUME NEW q \in Rules, NEW r \in Rules, BulkImport(w, q, r) PROVE RedirectInv'
  <2> DEFINE row(s) == [Put({s}) EXCEPT !.drop = Same(s, Rules) \ {s}]
  <2>1. \A s \in Rules : row(s) \in Change
    BY ChangeTyped DEF Same
  <2>2. Send(w, <<Invalidate, row(q), Invalidate, row(r), Invalidate>>)
    BY <1>4 DEF BulkImport
  <2> HIDE DEF row
  <2>3. <<Invalidate, row(q), Invalidate, row(r), Invalidate>> \in Seq(Change \cup {Invalidate})
    BY <2>1
  <2> QED
    BY <2>2, <2>3, SendKeeps
<1>5. ASSUME NEW q \in Rules, NEW r \in Rules, AdminSave(w, q, r) PROVE RedirectInv'
  <2>1. [Put({r}) EXCEPT !.drop = {q}] \in Change
    BY ChangeTyped
  <2>2. <<Invalidate, [Put({r}) EXCEPT !.drop = {q}]>> \in Seq(Change \cup {Invalidate})
    BY <2>1
  <2> QED
    BY <1>5, <2>2, SendKeeps DEF AdminSave
<1>6. CASE CleanupExpired(w)
  <2>1. table \ Effective \in SUBSET Rules
    BY DEF RedirectInv, TypeOK
  <2>2. <<Invalidate, Drop(table \ Effective)>> \in Seq(Change \cup {Invalidate})
    <3>1. Drop(table \ Effective) \in Change
      BY <2>1, ChangeTyped
    <3> QED
      BY <3>1
  <2> QED
    BY <1>6, <2>2, SendKeeps DEF CleanupExpired
<1>7. ASSUME NEW r \in Rules, AdminAdd(w, r) PROVE RedirectInv'
  <2>1. <<Invalidate, Put({r})>> \in Seq(Change \cup {Invalidate})
    <3>1. Put({r}) \in Change
      BY ChangeTyped
    <3> QED
      BY <3>1
  <2> QED
    BY <1>7, <2>1, SendKeeps DEF AdminAdd
<1> QED
  BY <1>1, <1>2, <1>3, <1>4, <1>5, <1>6, <1>7

LEMMA RestTyped ==
    ASSUME TypeOK, NEW w \in Writers, todo[w] # <<>>
    PROVE  /\ Head(todo[w]) \in Change \cup {Invalidate}
           /\ Rest(w) => todo' \in [Writers -> Seq(Change \cup {Invalidate})]
           /\ [todo EXCEPT ![w] = <<>>] \in [Writers -> Seq(Change \cup {Invalidate})]
<1>1. todo[w] \in Seq(Change \cup {Invalidate}) /\ todo \in [Writers -> Seq(Change \cup {Invalidate})]
  BY DEF TypeOK
<1>2. Head(todo[w]) \in Change \cup {Invalidate} /\ Tail(todo[w]) \in Seq(Change \cup {Invalidate})
  BY <1>1
<1>3. <<>> \in Seq(Change \cup {Invalidate})
  OBVIOUS
<1> QED
  BY <1>1, <1>2, <1>3 DEF Rest

LEMMA CommitKeeps ==
    ASSUME RedirectInv, NEW w \in Writers, Commit(w) PROVE RedirectInv'
<1> USE DEF RedirectInv
<1> DEFINE c    == Head(todo[w])
           left == table \ c.drop
           put  == IF c.skip THEN {r \in c.add : Exact(Same(r, left)) = {}} ELSE c.add
           new  == left \cup put
<1>1. /\ todo[w] # <<>> /\ c # Invalidate
      /\ cached' = cached /\ edits' = edits /\ faults' = faults
      /\ UNCHANGED <<requestVars, failed, slow, late>>
  BY DEF Commit
<1>2. c \in Change
  BY <1>1, RestTyped
<1>3. CASE ~ExactUnique(new)
  <2>1. todo' = [todo EXCEPT ![w] = <<>>] /\ UNCHANGED <<table, overdue, kept>>
    BY <1>3 DEF Commit
  <2>2. TypeOK'
    BY <1>1, <2>1, RestTyped DEF TypeOK, requestVars
  <2>3. Aging'
    BY <1>1, <2>1 DEF Aging
  <2> QED
    BY <1>1, <2>1, <2>2, <2>3, RulesAlone
<1>4. CASE ExactUnique(new)
  <2>1. /\ table' = new
        /\ overdue' = [r \in Rules |-> IF r \in put \ left THEN 0 ELSE overdue[r]]
        /\ kept' = [q \in Requests |-> IF at[q] = "done" THEN kept[q] ELSE kept[q] \cap Effective']
        /\ Rest(w)
    BY <1>4 DEF Commit
  <2>2. put \subseteq Rules /\ new \subseteq Rules
    BY <1>2 DEF Change, TypeOK
  <2> HIDE DEF put, left, new
  <2>3. \A r \in Rules : overdue'[r] = 0 \/ overdue'[r] = overdue[r]
    BY <2>1
  <2>4. overdue' \in [Rules -> 0..Timeout]
    BY <2>1, RedirectAssumption DEF TypeOK
  <2>5. kept' \in [Requests -> SUBSET Rules]
    BY <2>1 DEF TypeOK
  <2>6. TypeOK'
    BY <1>1, <2>1, <2>2, <2>4, <2>5, RestTyped DEF TypeOK, requestVars
  <2>7. Aging'
    <3> SUFFICES ASSUME cached # Nothing, ~late, NEW r \in cached.list
                 PROVE  overdue'[r] + cached.left <= Timeout
      BY <1>1 DEF Aging
    <3>1. r \in Rules /\ cached.left \in 1..Timeout
      BY DEF TypeOK, Entry
    <3>2. overdue[r] + cached.left <= Timeout /\ overdue[r] \in 0..Timeout
      BY <3>1 DEF Aging, TypeOK
    <3> QED
      BY <3>1, <3>2, <2>3, RedirectAssumption
  <2>8. ExactUnique(table)'
    BY <1>4, <2>1 DEF ExactUnique
  <2>9. \A q \in Requests : at[q] = "store" /\ q \notin slow' => \A r \in list[q] : overdue'[r] = 0
    BY <1>1, <2>3 DEF RequestInv, Dated, TypeOK
  <2> QED
    BY <1>1, <2>1, <2>6, <2>7, <2>8, <2>9, RulesChange
<1> QED
  BY <1>3, <1>4

LEMMA InvalidateKeeps ==
    ASSUME RedirectInv, NEW w \in Writers, InvalidateList(w) \/ Crash(w) PROVE RedirectInv'
<1> USE DEF RedirectInv
<1>1. /\ UNCHANGED <<table, overdue, requestVars, kept, failed, slow>> /\ edits' = edits
      /\ todo[w] # <<>>
      /\ cached' = Nothing \/ (cached' = cached /\ late' = late)
      /\ late' \in {late, FALSE}
      /\ Rest(w) \/ todo' = [todo EXCEPT ![w] = <<>>]
  BY DEF InvalidateList, Crash, history
<1>2. faults' \in 0..MaxFaults
  BY FaultTyped DEF InvalidateList, Crash, TypeOK
<1>3. todo' \in [Writers -> Seq(Change \cup {Invalidate})]
  BY <1>1, RestTyped
<1>4. TypeOK'
  BY <1>1, <1>2, <1>3 DEF TypeOK, requestVars
<1>5. Aging'
  BY <1>1 DEF Aging
<1> QED
  BY <1>1, <1>4, <1>5, RulesAlone

LEMMA TickKeeps == ASSUME RedirectInv, Tick PROVE RedirectInv'
<1> USE DEF RedirectInv
<1>1. /\ UNCHANGED <<requestVars, failed>> /\ table' = table /\ todo' = todo
      /\ edits' = edits /\ faults' = faults /\ cached' = Aged(cached)
      /\ late' = (late /\ cached' # Nothing)
      /\ kept' = [q \in Requests |-> IF at[q] = "done" THEN kept[q] ELSE kept[q] \cap Effective']
  BY DEF Tick
<1>2. PICK lapsed \in SUBSET {r \in Expiring : overdue[r] = 0} :
          /\ overdue' = [r \in Rules |->
                 IF r \in lapsed THEN 1
                 ELSE IF overdue[r] \in 1..Timeout-1 THEN overdue[r] + 1 ELSE overdue[r]]
          /\ slow' = slow \cup {q \in Requests : at[q] = "store" /\ list[q] \cap lapsed # {}}
  BY DEF Tick
<1>3. ASSUME NEW r \in Rules
      PROVE  overdue'[r] \in 0..Timeout /\ overdue'[r] <= overdue[r] + 1
  <2>1. overdue[r] \in 0..Timeout /\ Timeout \in Nat \ {0}
    BY RedirectAssumption DEF TypeOK
  <2>2. r \in lapsed => overdue[r] = 0
    OBVIOUS
  <2>3. overdue'[r] = IF r \in lapsed THEN 1
                      ELSE IF overdue[r] \in 1..Timeout-1 THEN overdue[r] + 1 ELSE overdue[r]
    BY <1>2
  <2> QED
    BY <2>1, <2>2, <2>3
<1>4. overdue' \in [Rules -> 0..Timeout]
  BY <1>2, <1>3
<1>5. cached # Nothing =>
          \/ Aged(cached) = Nothing
          \/ /\ Aged(cached) \in Entry /\ Aged(cached).list = cached.list
             /\ Aged(cached).left = cached.left - 1
  <2> SUFFICES ASSUME cached # Nothing, cached.left # 1
               PROVE  /\ Aged(cached) \in Entry /\ Aged(cached).list = cached.list
                      /\ Aged(cached).left = cached.left - 1
    BY DEF Aged
  <2>1. cached \in Entry /\ cached.left \in 1..Timeout /\ Timeout \in Nat
    BY RedirectAssumption DEF TypeOK, Entry
  <2>2. cached.left - 1 \in 1..Timeout
    BY <2>1
  <2>3. Aged(cached) = [cached EXCEPT !.left = cached.left - 1]
    BY DEF Aged
  <2> QED
    BY <2>1, <2>2, <2>3 DEF Entry
<1>6. cached' \in Entry \cup {Nothing}
  BY <1>1, <1>5 DEF Aged
<1>7. kept' \in [Requests -> SUBSET Rules]
  BY <1>1 DEF TypeOK
<1>8. TypeOK'
  BY <1>1, <1>2, <1>4, <1>6, <1>7 DEF TypeOK, requestVars
<1>9. Aging'
  <2> SUFFICES ASSUME cached' # Nothing, ~late', NEW r \in cached'.list
               PROVE  overdue'[r] + cached'.left <= Timeout
    BY DEF Aging
  <2>1. cached # Nothing /\ ~late /\ cached'.list = cached.list /\ cached'.left = cached.left - 1
    BY <1>1, <1>5 DEF Aged
  <2>2. r \in Rules /\ cached.left \in 1..Timeout /\ Timeout \in Nat
    BY <2>1, RedirectAssumption DEF TypeOK, Entry
  <2>3. overdue[r] + cached.left <= Timeout /\ overdue[r] \in 0..Timeout
    BY <2>1, <2>2 DEF Aging, TypeOK
  <2> QED
    BY <2>1, <2>2, <2>3, <1>3
<1>10. ExactUnique(table)'
  BY <1>1 DEF ExactUnique
<1>11. ASSUME NEW q \in Requests, at[q] = "store", q \notin slow', NEW r \in list[q]
       PROVE  overdue'[r] = 0
  <2>1. q \notin slow /\ r \notin lapsed /\ r \in Rules
    BY <1>2, <1>11 DEF TypeOK
  <2>2. overdue[r] = 0
    BY <1>11, <2>1 DEF RequestInv, Dated
  <2> QED
    BY <1>2, <2>1, <2>2
<1> QED
  BY <1>1, <1>2, <1>8, <1>9, <1>10, <1>11, RulesChange

-----------------------------------------------------------------------------
LEMMA StepKeeps == RedirectInv /\ [Next]_vars => RedirectInv'
<1> SUFFICES ASSUME RedirectInv, [Next]_vars PROVE RedirectInv'
  OBVIOUS
<1>1. ASSUME NEW q \in Requests, Serve(q) PROVE RedirectInv'
  BY <1>1, ArriveKeeps, LookupFailsKeeps, LookUpExactKeeps, ReadListKeeps, QueryListKeeps,
     StoreListKeeps, ViewKeeps, AskResolverKeeps, Record404Keeps DEF Serve
<1>2. ASSUME NEW w \in Writers, Write(w) PROVE RedirectInv'
  BY <1>2, SendsKeep, CommitKeeps, InvalidateKeeps DEF Write
<1>3. CASE Tick
  BY <1>3, TickKeeps
<1>4. CASE UNCHANGED vars
  <2>1. UNCHANGED <<table, overdue, requestVars, kept, failed, slow>>
    BY <1>4 DEF vars, history
  <2>2. TypeOK' /\ Aging'
    BY <1>4 DEF vars, requestVars, history, RedirectInv, TypeOK, Aging
  <2> QED
    BY <2>1, <2>2, RulesAlone
<1> QED
  BY <1>1, <1>2, <1>3, <1>4 DEF Next

\* Rules, cache, requests and changes are always what the model says they may be.
THEOREM RedirectTypeCorrect == Spec => []TypeOK
<1>1. RedirectInv => TypeOK
  BY DEF RedirectInv
<1> QED
  BY <1>1, InitInv, StepKeeps, PTL DEF Spec

\* Whatever the rules, the cache, the failures and the changes under way, a 410
\* answers only what the view did not, and a redirect never a 404.
THEOREM GoneOnlyWhenUnresolvedHolds == Spec => []GoneOnlyWhenUnresolved
<1>1. RedirectInv => GoneOnlyWhenUnresolved
  BY DEF RedirectInv, RequestInv, Answered, GoneOnlyWhenUnresolved
<1> QED
  BY <1>1, InitInv, StepKeeps, PTL DEF Spec

\* A request obeys the exact rule that was in force all the while, whatever any
\* list says, unless a lookup of its own failed.
THEOREM ExactObeyedHolds == Spec => []ExactObeyed
<1>1. RedirectInv => ExactObeyed
  BY DEF RedirectInv, RequestInv, Heeded, Fits, ExactObeyed
<1> QED
  BY <1>1, InitInv, StepKeeps, PTL DEF Spec

\* No rule is obeyed from the list when a whole timeout has gone by since it
\* expired, whatever refills, failures and crashes there were, unless it expired
\* while that list was being fetched.
THEOREM ExpiredBrieflyHolds == Spec => []ExpiredBriefly
<1>1. RedirectInv => ExpiredBriefly
  <2> SUFFICES ASSUME RedirectInv, cached # Nothing, ~late, NEW r \in cached.list
               PROVE  overdue[r] < Timeout
    BY DEF ExpiredBriefly
  <2>1. r \in Rules /\ cached.left \in 1..Timeout /\ Timeout \in Nat
    BY RedirectAssumption DEF RedirectInv, TypeOK, Entry
  <2>2. overdue[r] + cached.left <= Timeout /\ overdue[r] \in 0..Timeout
    BY <2>1 DEF RedirectInv, Aging, TypeOK
  <2> QED
    BY <2>1, <2>2
<1> QED
  BY <1>1, InitInv, StepKeeps, PTL DEF Spec

-----------------------------------------------------------------------------
(* Lists *)

Fitting(q) == {r \in list[q] : r.gone = missing[q] /\ path[q] \in Covers[r.pattern]}

Inexact(rules) == \A r \in rules : r.type # "exact"

\* What a request has read, it has obeyed.
ListRead(q) ==
    /\ Inexact(list[q])
    /\ at[q] \in {"view", "resolver"} => Fitting(q) = {}
    /\ at[q] # "done" => obeyed[q] = {}
    /\ \A o \in obeyed[q] \cap list[q], r \in Fitting(q) : o.type = "regex" => r.type = "regex"

ListInv ==
    /\ cached # Nothing => Inexact(cached.list)
    /\ \A q \in Requests : ListRead(q)

\* Rules of one type have a first one, by priority and then by id.
LEMMA FirstOfType ==
    ASSUME NEW S \in SUBSET Rules, S # {}, NEW type, \A r \in S : r.type = type
    PROVE  \E r \in S : \A q \in S \ {r} : Precedes(r, q)
<1>1. \A r \in S : r.priority \in Nat /\ r.id \in Nat
  BY RedirectAssumption
<1>2. PICK m \in {r.priority : r \in S} : \A j \in {r.priority : r \in S} : m <= j
  <2>1. {r.priority : r \in S} \in SUBSET Nat /\ {r.priority : r \in S} # {}
    BY <1>1
  <2> QED
    BY <2>1, LeastNatural
<1> DEFINE U == {r \in S : r.priority = m}
<1>3. PICK i \in {r.id : r \in U} : \A j \in {r.id : r \in U} : i <= j
  <2>1. {r.id : r \in U} \in SUBSET Nat /\ {r.id : r \in U} # {}
    BY <1>1, <1>2
  <2> QED
    BY <2>1, LeastNatural
<1>4. PICK r \in U : r.id = i
  BY <1>3
<1>5. ASSUME NEW q \in S \ {r} PROVE Precedes(r, q)
  <2>1. q.priority \in Nat /\ q.id \in Nat /\ r.priority = m /\ m \in Nat /\ r.id \in Nat
    BY <1>1
  <2>2. m <= q.priority
    BY <1>2
  <2>3. q.id # r.id
    BY RedirectAssumption
  <2>4. q.priority = m => r.id <= q.id
    BY <1>3, <1>4
  <2>5. r.priority < q.priority \/ (r.priority = q.priority /\ r.id < q.id)
    BY <2>1, <2>2, <2>3, <2>4
  <2>6. r.type = q.type
    OBVIOUS
  <2> QED
    BY <2>5, <2>6 DEF Precedes
<1> QED
  BY <1>5

\* Where a prefix or regex rule fits there is a first one.
LEMMA FirstExists ==
    ASSUME NEW S \in SUBSET Rules, S # {}, Inexact(S) PROVE First(S) # {}
<1> DEFINE P == {r \in S : r.type = "prefix"}
<1>1. \A r \in S : r.type \in {"prefix", "regex"}
  BY RedirectAssumption DEF Inexact
<1>2. CASE P = {}
  <2>1. \A r \in S : r.type = "regex"
    BY <1>1, <1>2
  <2>2. PICK r \in S : \A q \in S \ {r} : Precedes(r, q)
    BY <2>1, FirstOfType
  <2> QED
    BY <2>2 DEF First
<1>3. CASE P # {}
  <2>1. PICK r \in P : \A q \in P \ {r} : Precedes(r, q)
    <3>1. P \in SUBSET Rules /\ \A r \in P : r.type = "prefix"
      OBVIOUS
    <3> HIDE DEF P
    <3> QED
      BY <1>3, <3>1, FirstOfType
  <2>2. \A q \in S \ P : Precedes(r, q)
    BY <1>1 DEF Precedes
  <2> QED
    BY <2>1, <2>2 DEF First
<1> QED
  BY <1>2, <1>3

\* The decision taken on a list.
LEMMA Decided ==
    ASSUME TypeOK, NEW q \in Requests, NEW rules \in SUBSET Rules, Inexact(rules), Decide(q, rules),
           obeyed[q] = {}, list'[q] = rules, missing' = missing, path' = path
    PROVE  ListRead(q)'
<1> DEFINE fit == {r \in rules : r.gone = missing[q] /\ path[q] \in Covers[r.pattern]}
<1>1. Fitting(q)' = fit /\ Found(q, rules) = First(fit)
  BY DEF Fitting, Found
<1>2. ASSUME NEW o \in Found(q, rules), Answer(q, "rule", {o}) PROVE ListRead(q)'
  <2>1. at'[q] = "done" /\ obeyed'[q] = {o}
    BY <1>2 DEF Answer, Goto, TypeOK
  <2>2. \A r \in fit : o.type = "regex" => r.type = "regex"
    BY <1>1 DEF First, Precedes
  <2> QED
    BY <1>1, <2>1, <2>2 DEF ListRead, Inexact
<1>3. CASE Found(q, rules) = {} /\ PassOn(q)
  <2>1. fit = {}
    BY <1>1, <1>3, FirstExists DEF Inexact
  <2>2. at'[q] \in {"view", "resolver"} /\ obeyed'[q] = {}
    BY <1>3 DEF PassOn, Goto, TypeOK
  <2> QED
    BY <1>1, <2>1, <2>2 DEF ListRead, Inexact
<1> QED
  BY <1>2, <1>3 DEF Decide

\* A step of one request leaves what the others have read.
LEMMA ReadAlone ==
    ASSUME TypeOK, ListInv, NEW q \in Requests, Serve(q), NEW p \in Requests, p # q
    PROVE  ListRead(p)'
<1>1. /\ at'[p] = at[p] /\ path'[p] = path[p] /\ missing'[p] = missing[p]
      /\ list'[p] = list[p] /\ obeyed'[p] = obeyed[p]
  <2>1. CASE Arrive(q)
    BY <2>1 DEF Arrive, Goto, TypeOK
  <2>2. CASE LookUpExact(q)
    BY <2>2 DEF LookUpExact, Answer, Goto, TypeOK
  <2>3. CASE ReadList(q)
    BY <2>3 DEF ReadList, Decide, PassOn, Answer, Goto, TypeOK
  <2>4. CASE QueryList(q)
    BY <2>4 DEF QueryList, Goto, TypeOK
  <2>5. CASE StoreList(q)
    BY <2>5 DEF StoreList, Decide, PassOn, Answer, Goto, TypeOK
  <2>6. CASE LookupFails(q)
    BY <2>6 DEF LookupFails, PassOn, Answer, Goto, TypeOK
  <2>7. CASE View(q)
    BY <2>7 DEF View, Answer, Goto, TypeOK
  <2>8. CASE AskResolver(q)
    BY <2>8 DEF AskResolver, Answer, Goto, TypeOK
  <2>9. CASE Record404(q)
    BY <2>9 DEF Record404, Answer, Goto, TypeOK
  <2> QED
    BY <2>1, <2>2, <2>3, <2>4, <2>5, <2>6, <2>7, <2>8, <2>9 DEF Serve
<1> QED
  BY <1>1 DEF ListInv, ListRead, Fitting

LEMMA ServeReads ==
    ASSUME TypeOK, TypeOK', ListInv, NEW q \in Requests, Serve(q)
    PROVE  ListRead(q)' /\ (cached' # Nothing => Inexact(cached'.list))
<1> USE DEF ListInv
<1> DEFINE Kept == cached' # Nothing => Inexact(cached'.list)
<1>1. CASE Arrive(q)
  BY <1>1 DEF Arrive, Goto, TypeOK, ListRead, Inexact, Fitting
<1>2. CASE LookUpExact(q)
  <2>1. cached' = cached /\ list' = list /\ missing' = missing /\ path' = path /\ at[q] = "exact"
    BY <1>2 DEF LookUpExact
  <2>2. ASSUME NEW r \in ExactFor(q), Answer(q, "rule", {r}) PROVE ListRead(q)'
    <3>1. at'[q] = "done" /\ obeyed'[q] = {r} /\ r.type = "exact"
      BY <2>2 DEF Answer, Goto, TypeOK, ExactFor, Exact
    <3> QED
      BY <2>1, <3>1 DEF ListRead, Inexact
  <2>3. CASE Goto(q, "list") /\ UNCHANGED <<answer, obeyed>>
    BY <2>1, <2>3 DEF Goto, TypeOK, ListRead, Inexact
  <2> QED
    BY <1>2, <2>1, <2>2, <2>3 DEF LookUpExact
<1>3. CASE ReadList(q)
  <2>1. cached' = cached /\ missing' = missing /\ path' = path /\ at[q] = "list"
    BY <1>3 DEF ReadList
  <2>2. CASE cached # Nothing /\ Decide(q, cached.list) /\ list' = [list EXCEPT ![q] = cached.list]
    <3>1. cached.list \in SUBSET Rules /\ list'[q] = cached.list /\ obeyed[q] = {}
      BY <2>1, <2>2 DEF TypeOK, Entry, ListRead
    <3> QED
      BY <2>1, <2>2, <3>1, Decided
  <2>3. CASE Goto(q, "query") /\ UNCHANGED <<obeyed, list>>
    BY <2>1, <2>3 DEF Goto, TypeOK, ListRead, Inexact
  <2> QED
    BY <1>3, <2>1, <2>2, <2>3 DEF ReadList
<1>4. CASE QueryList(q)
  <2>1. /\ at'[q] = "store" /\ list'[q] = Listed /\ obeyed'[q] = {} /\ cached' = cached
    BY <1>4 DEF QueryList, Goto, TypeOK, ListRead
  <2>2. Inexact(Listed)
    BY DEF Listed, Exact, Inexact
  <2> QED
    BY <2>1, <2>2 DEF ListRead, Inexact
<1>5. CASE StoreList(q)
  <2>1. /\ list[q] \in SUBSET Rules /\ Inexact(list[q]) /\ obeyed[q] = {}
        /\ list' = list /\ missing' = missing /\ path' = path
    BY <1>5 DEF StoreList, TypeOK, ListRead
  <2>2. Kept
    BY <1>5, <2>1 DEF StoreList
  <2> QED
    BY <1>5, <2>1, <2>2, Decided DEF StoreList
<1>6. CASE LookupFails(q)
  <2>1. list'[q] = {} /\ obeyed'[q] = {} /\ cached' = cached
    BY <1>6 DEF LookupFails, Answer, PassOn, TypeOK, ListRead
  <2> QED
    BY <2>1 DEF ListRead, Inexact, Fitting
<1>7. CASE View(q) \/ AskResolver(q)
  <2>1. list'[q] = {} /\ obeyed'[q] = {} /\ cached' = cached
    BY <1>7 DEF View, AskResolver, Answer, TypeOK, ListRead
  <2> QED
    BY <2>1 DEF ListRead, Inexact, Fitting
<1>8. CASE Record404(q)
  <2>1. list' = list /\ obeyed'[q] = {} /\ cached' = cached /\ at'[q] = "done"
    BY <1>8 DEF Record404, Answer, Goto, TypeOK, ListRead
  <2> QED
    BY <2>1 DEF ListRead, Inexact
<1> QED
  BY <1>1, <1>2, <1>3, <1>4, <1>5, <1>6, <1>7, <1>8 DEF Serve

LEMMA ListKeeps == TypeOK /\ TypeOK' /\ ListInv /\ [Next]_vars => ListInv'
<1> SUFFICES ASSUME TypeOK, TypeOK', ListInv, [Next]_vars PROVE ListInv'
  OBVIOUS
<1>1. ASSUME NEW q \in Requests, Serve(q) PROVE ListInv'
  BY <1>1, ReadAlone, ServeReads DEF ListInv
<1>2. ASSUME UNCHANGED requestVars, cached' # Nothing => cached # Nothing /\ cached'.list = cached.list
      PROVE  ListInv'
  BY <1>2 DEF ListInv, ListRead, Fitting, requestVars
<1>3. ASSUME NEW w \in Writers, Write(w) PROVE ListInv'
  <2>1. UNCHANGED requestVars /\ cached' \in {cached, Nothing}
    BY <1>3 DEF Write, AddRedirect, AdminAdd, AdminDelete, BulkCreate, BulkImport, AdminSave,
       CleanupExpired, Send, Commit, InvalidateList, Crash
  <2> QED
    BY <1>2, <2>1
<1>4. CASE Tick
  <2>1. UNCHANGED requestVars /\ cached' = Aged(cached)
    BY <1>4 DEF Tick
  <2>2. Aged(cached) # Nothing => cached # Nothing /\ Aged(cached).list = cached.list
    BY DEF Aged, TypeOK, Entry
  <2> QED
    BY <1>2, <2>1, <2>2
<1>5. CASE UNCHANGED vars
  BY <1>2, <1>5 DEF vars
<1> QED
  BY <1>1, <1>3, <1>4, <1>5 DEF Next

\* Whatever lists are cached when, a request that goes on past its list had no rule in
\* it to obey, and a regex rule answers only where no prefix rule does.
THEOREM ListObeyedHolds == Spec => []ListObeyed
<1>1. Init => ListInv
  BY DEF Init, ListInv, ListRead, Inexact, Fitting
<1>2. ListInv => ListObeyed
  BY DEF ListInv, ListRead, Fitting, ListObeyed
<1> QED
  BY <1>1, <1>2, RedirectTypeCorrect, ListKeeps, PTL DEF Spec
=============================================================================
