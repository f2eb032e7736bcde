------------------------- MODULE DiscoverySiteProofs -------------------------
(***************************************************************************)
(* For any files, rows, readers, writers and timeout: what is cached is    *)
(* outdated only where a race, a failure or a move left it so; and for any *)
(* rules and paths, every crawler reads the same in robots.txt.            *)
(***************************************************************************)
EXTENDS DiscoverySite, NaturalLemmas, FiniteSetTheorems

\* What may remain of a change.
Plans ==
    {<<>>, <<"commit">>, <<"invalidate">>, <<"commit", "invalidate">>, <<"invalidate", "commit">>,
     <<"invalidate", "invalidate">>, <<"commit", "invalidate", "invalidate">>,
     <<"invalidate", "commit", "invalidate">>}

HasCommit(s) == \E i \in DOMAIN s : s[i] = "commit"

\* A change that is not committed holds its row, whose key it touches.
Changes ==
    /\ \A w \in Writers : todo[w] \in Plans
    /\ \A w \in Writers : Busy(w) => Target(w) \in touched[w]
    /\ \A w \in Writers : Uncommitted(w) => KeyOf(rows[row[w]]) \subseteq touched[w]
    /\ \A v, w \in Writers : v # w /\ Uncommitted(v) /\ Uncommitted(w) => row[v] # row[w]

\* A fill that no change overlaps has what the rows say.
Fills == \A r \in Readers : step[r] = "store" /\ r \notin raced =>
    Quiet(file[r]) /\ got[r] = Content(file[r])

\* Some committed change is still to drop k.
Awaited(k) == \E w \in Writers : Busy(w) /\ ~Uncommitted(w) /\ k = Target(w)

\* What is cached is right, or about to be dropped, or suspect; and there is
\* nothing to outdate when a change commits that invalidates no more.
Trusted == \A k \in Keys \ suspect :
    /\ Fresh(k) \/ Awaited(k)
    /\ \A w \in Writers : todo[w] = <<"commit">> /\ k = Target(w) => cache[k] = Nothing

CacheInv == TypeOK /\ Changes /\ Fills /\ Trusted

-----------------------------------------------------------------------------
\* What a step leaves of a plan.
LEMMA PlanSteps ==
    ASSUME NEW s \in Plans, s # <<>>
    PROVE  /\ Tail(s) \in Plans
           /\ Head(s) = "commit" =>
                HasCommit(s) /\ ~HasCommit(Tail(s)) /\ (Tail(s) = <<>> => s = <<"commit">>)
           /\ Head(s) = "invalidate" => (HasCommit(s) <=> HasCommit(Tail(s)))
           /\ Head(s) \in {"commit", "invalidate"}
<1>1. CASE s = <<"commit">>
  BY <1>1 DEF Plans, HasCommit
<1>2. CASE s = <<"invalidate">>
  BY <1>2 DEF Plans, HasCommit
<1>3. CASE s = <<"commit", "invalidate">>
  <2>1. Tail(s) = <<"invalidate">> /\ Head(s) = "commit"
    BY <1>3
  <2>2. HasCommit(s) /\ ~HasCommit(Tail(s)) /\ Tail(s) # <<>>
    BY <1>3, <2>1 DEF HasCommit
  <2>3. Tail(s) \in Plans
    BY <2>1 DEF Plans
  <2> QED
    BY <2>1, <2>2, <2>3
<1>4. CASE s = <<"invalidate", "commit">>
  <2>1. Tail(s) = <<"commit">> /\ Head(s) = "invalidate"
    BY <1>4
  <2>2. HasCommit(s) /\ HasCommit(Tail(s)) /\ Tail(s) # <<>>
    BY <1>4, <2>1 DEF HasCommit
  <2>3. Tail(s) \in Plans
    BY <2>1 DEF Plans
  <2> QED
    BY <2>1, <2>2, <2>3
<1>5. CASE s = <<"invalidate", "invalidate">>
  <2>1. Tail(s) = <<"invalidate">> /\ Head(s) = "invalidate"
    BY <1>5
  <2>2. ~HasCommit(s) /\ ~HasCommit(Tail(s)) /\ Tail(s) # <<>>
    BY <1>5, <2>1 DEF HasCommit
  <2>3. Tail(s) \in Plans
    BY <2>1 DEF Plans
  <2> QED
    BY <2>1, <2>2, <2>3
<1>6. CASE s = <<"commit", "invalidate", "invalidate">>
  <2>1. Tail(s) = <<"invalidate", "invalidate">> /\ Head(s) = "commit"
    BY <1>6
  <2>2. HasCommit(s) /\ ~HasCommit(Tail(s)) /\ Tail(s) # <<>>
    BY <1>6, <2>1 DEF HasCommit
  <2>3. Tail(s) \in Plans
    BY <2>1 DEF Plans
  <2> QED
    BY <2>1, <2>2, <2>3
<1>7. CASE s = <<"invalidate", "commit", "invalidate">>
  <2>1. Tail(s) = <<"commit", "invalidate">> /\ Head(s) = "invalidate"
    BY <1>7
  <2>2. HasCommit(s) /\ HasCommit(Tail(s)) /\ Tail(s) # <<>>
    BY <1>7, <2>1 DEF HasCommit
  <2>3. Tail(s) \in Plans
    BY <2>1 DEF Plans
  <2> QED
    BY <2>1, <2>2, <2>3
<1> QED
  BY <1>1, <1>2, <1>3, <1>4, <1>5, <1>6, <1>7 DEF Plans

\* Plans as the other lemmas use them.
LEMMA PlanFacts ==
    /\ Plans \subseteq Seq({"commit", "invalidate"})
    /\ <<>> \in Plans /\ ~HasCommit(<<>>)
    /\ AddSteps \in Plans /\ HasCommit(AddSteps)
    /\ SetSteps \in Plans /\ HasCommit(SetSteps)
    /\ SaveSteps \in Plans /\ HasCommit(SaveSteps)
    /\ AdminSteps \in Plans /\ HasCommit(AdminSteps)
    /\ HasCommit(<<"commit">>)
    /\ <<"commit">> \notin {AddSteps, SetSteps, SaveSteps, AdminSteps}
    /\ <<>> \notin {AddSteps, SetSteps, SaveSteps, AdminSteps}
<1>1. Plans \subseteq Seq({"commit", "invalidate"})
  BY DEF Plans
<1>2. ~HasCommit(<<>>)
  BY DEF HasCommit
<1>3. HasCommit(<<"commit">>) /\ HasCommit(AddSteps) /\ HasCommit(SetSteps)
  BY DEF HasCommit, AddSteps, SetSteps
<1>4. HasCommit(SaveSteps) /\ HasCommit(AdminSteps)
  BY DEF HasCommit, SaveSteps, AdminSteps
<1>5. {<<>>, AddSteps, SetSteps, SaveSteps, AdminSteps} \subseteq Plans
  BY DEF Plans, AddSteps, SetSteps, SaveSteps, AdminSteps
<1>6. <<>> \notin {AddSteps, SetSteps, SaveSteps, AdminSteps}
  BY DEF AddSteps, SetSteps, SaveSteps, AdminSteps
<1>7. <<"commit">> \notin {AddSteps, SetSteps, SaveSteps, AdminSteps}
  BY DEF AddSteps, SetSteps, SaveSteps, AdminSteps
<1> QED
  BY <1>1, <1>2, <1>3, <1>4, <1>5, <1>6, <1>7

LEMMA UncommittedIsHasCommit == \A w \in Writers : Uncommitted(w) <=> HasCommit(todo[w])
  BY DEF Uncommitted, HasCommit

\* A change goes on, or is over; the others are not concerned.
LEMMA ContinueFacts ==
    ASSUME TypeOK, NEW w \in Writers, NEW s \in Plans, Continue(w, s)
    PROVE  /\ todo' = [todo EXCEPT ![w] = s]
           /\ row' \in [Writers -> Rows \cup {Nothing}]
           /\ new' \in [Writers -> Row \cup {Nothing}]
           /\ touched' \in [Writers -> SUBSET Keys]
           /\ todo'[w] = s
           /\ \A v \in Writers : todo'[v] # <<>> =>
                  row'[v] = row[v] /\ new'[v] = new[v] /\ touched'[v] = touched[v]
           /\ \A v \in Writers \ {w} : todo'[v] = todo[v]
  BY DEF Continue, TypeOK

\* What a handler drops is a key of the change.
LEMMA TargetKept ==
    ASSUME TypeOK, NEW w \in Writers, new'[w] = new[w], touched'[w] = touched[w]
    PROVE  Target(w)' = Target(w)
  BY DEF Target

\* Steps that leave rows and writers alone change nothing a key depends on.
LEMMA SameChanges ==
    ASSUME rows' = rows, todo' = todo, row' = row, new' = new, touched' = touched
    PROVE  /\ Changes => Changes'
           /\ \A k : (Quiet(k) <=> Quiet(k)') /\ Content(k)' = Content(k) /\ (Awaited(k) <=> Awaited(k)')
           /\ \A w : Target(w)' = Target(w)
<1>1. \A w : Target(w)' = Target(w)
  BY DEF Target
<1>2. \A w : (Uncommitted(w) <=> Uncommitted(w)') /\ (Busy(w) <=> Busy(w)')
  BY DEF Uncommitted, Busy
<1>3. \A k : (Quiet(k) <=> Quiet(k)') /\ (Awaited(k) <=> Awaited(k)')
  BY <1>1, <1>2 DEF Quiet, Awaited
<1>4. \A k : Content(k)' = Content(k)
  BY DEF Content
<1>5. Changes => Changes'
  BY <1>1, <1>2 DEF Changes, KeyOf
<1> QED
  BY <1>1, <1>3, <1>4, <1>5

LEMMA ContentsTyped == ASSUME TypeOK, NEW k PROVE Content(k) \in Contents
  BY DEF Content, Contents, TypeOK, Row

LEMMA FaultTyped == ASSUME TypeOK, Fault PROVE faults' \in 0..MaxFaults
  BY CacheAssumption DEF Fault, TypeOK

LEMMA InitInv == Init => CacheInv
<1> SUFFICES ASSUME Init PROVE CacheInv
  OBVIOUS
<1>1. \A w \in Writers : todo[w] = <<>> /\ ~Busy(w) /\ ~Uncommitted(w)
  BY PlanFacts, UncommittedIsHasCommit DEF Init, Busy
<1>2. TypeOK
  <2>1. todo \in [Writers -> Seq({"commit", "invalidate"})]
    BY PlanFacts DEF Init
  <2>2. \A w \in Writers : Busy(w) => row[w] # Nothing /\ Target(w) \in Keys
    BY <1>1
  <2>3. edits \in 0..MaxEdits /\ faults \in 0..MaxFaults
    BY CacheAssumption DEF Init
  <2> QED
    BY <2>1, <2>2, <2>3 DEF Init, TypeOK, Contents
<1>3. Changes
  BY <1>1, PlanFacts DEF Changes
<1>4. Fills
  BY DEF Init, Fills
<1>5. Trusted
  BY <1>1, PlanFacts DEF Init, Trusted, Fresh
<1> QED
  BY <1>2, <1>3, <1>4, <1>5 DEF CacheInv

-----------------------------------------------------------------------------
(* Readers *)

LEMMA RequestKeeps ==
    ASSUME CacheInv, NEW r \in Readers, NEW k \in Keys, Request(r, k)
    PROVE  CacheInv'
<1> USE DEF CacheInv, Request, writerVars
<1>1. TypeOK'
  <2>1. faults' \in 0..MaxFaults
    BY FaultTyped DEF TypeOK
  <2>2. k # Nothing
    BY CacheAssumption
  <2>3. \A w \in Writers : Busy(w)' => row'[w] # Nothing /\ Target(w)' \in Keys
    BY DEF TypeOK, Busy, Target
  <2> QED
    BY <2>1, <2>2, <2>3 DEF TypeOK
<1>2. Changes'
  BY SameChanges
<1>3. Fills'
  BY SameChanges DEF Fills, TypeOK
<1>4. Trusted'
  BY SameChanges DEF Trusted, Fresh
<1> QED
  BY <1>1, <1>2, <1>3, <1>4

LEMMA RenderKeeps ==
    ASSUME CacheInv, NEW r \in Readers, Render(r)
    PROVE  CacheInv'
<1> USE DEF CacheInv, writerVars
<1>0. rows' = rows /\ cache' = cache /\ todo' = todo /\ row' = row /\ new' = new
      /\ touched' = touched /\ edits' = edits /\ suspect' = suspect
  BY DEF Render
<1>1. TypeOK'
  <2>1. faults' \in 0..MaxFaults
    BY FaultTyped DEF TypeOK, Render
  <2>2. got' \in [Readers -> Contents]
    <3>1. got' = got \/ got' = [got EXCEPT ![r] = Content(file[r])]
      BY DEF Render
    <3>2. Content(file[r]) \in Contents /\ got \in [Readers -> Contents]
      BY ContentsTyped DEF TypeOK
    <3> QED
      BY <3>1, <3>2
  <2>3. /\ step' \in [Readers -> {"idle", "query", "store"}]
        /\ file' \in [Readers -> Keys \cup {Nothing}]
        /\ \A q \in Readers : step'[q] # "idle" => file'[q] # Nothing
        /\ raced' \subseteq Readers
    BY DEF TypeOK, Render, Answered
  <2>4. \A w \in Writers : Busy(w)' => row'[w] # Nothing /\ Target(w)' \in Keys
    BY <1>0 DEF TypeOK, Busy, Target
  <2> QED
    BY <1>0, <2>1, <2>2, <2>3, <2>4 DEF TypeOK
<1>2. Changes'
  BY <1>0, SameChanges
<1>3. Fills'
  <2> SUFFICES ASSUME NEW q \in Readers, step'[q] = "store", q \notin raced'
               PROVE  Quiet(file[q])' /\ got'[q] = Content(file[q])' /\ file'[q] = file[q]
    BY <1>0, SameChanges DEF Fills
  <2>1. CASE q # r
    <3>1. step[q] = "store" /\ q \notin raced /\ got'[q] = got[q] /\ file'[q] = file[q]
      BY <2>1 DEF Render, Answered, TypeOK
    <3> QED
      BY <3>1, <1>0, SameChanges DEF Fills
  <2>2. CASE q = r
    <3>1. got'[r] = Content(file[r]) /\ Quiet(file[r]) /\ file'[r] = file[r]
      BY <2>2 DEF Render, Answered, TypeOK
    <3> QED
      BY <3>1, <2>2, <1>0, SameChanges
  <2> QED
    BY <2>1, <2>2
<1>4. Trusted'
  BY <1>0, SameChanges DEF Trusted, Fresh
<1> QED
  BY <1>1, <1>2, <1>3, <1>4

LEMMA StoreKeeps ==
    ASSUME CacheInv, NEW r \in Readers, Store(r)
    PROVE  CacheInv'
<1> USE DEF CacheInv, writerVars
<1>0. /\ rows' = rows /\ todo' = todo /\ row' = row /\ new' = new
      /\ touched' = touched /\ edits' = edits
      /\ file[r] \in Keys /\ step[r] = "store"
  BY DEF Store, TypeOK
<1>1. TypeOK'
  <2>1. faults' \in 0..MaxFaults
    BY FaultTyped DEF TypeOK, Store
  <2>2. cache' \in [Keys -> Entry \cup {Nothing}]
    <3>1. [content |-> got[r], left |-> Timeout] \in Entry
      BY CacheAssumption DEF Entry, TypeOK
    <3> QED
      BY <3>1, <1>0 DEF TypeOK, Store
  <2>3. /\ step' \in [Readers -> {"idle", "query", "store"}]
        /\ file' \in [Readers -> Keys \cup {Nothing}]
        /\ \A q \in Readers : step'[q] # "idle" => file'[q] # Nothing
        /\ raced' \subseteq Readers
        /\ suspect' \subseteq Keys
    BY <1>0 DEF TypeOK, Store, Answered
  <2>4. \A w \in Writers : Busy(w)' => row'[w] # Nothing /\ Target(w)' \in Keys
    BY <1>0 DEF TypeOK, Busy, Target
  <2>5. got' \in [Readers -> Contents]
    BY DEF TypeOK, Store, Contents
  <2> QED
    BY <1>0, <2>1, <2>2, <2>3, <2>4, <2>5 DEF TypeOK
<1>2. Changes'
  BY <1>0, SameChanges
<1>3. Fills'
  <2> SUFFICES ASSUME NEW q \in Readers, step'[q] = "store", q \notin raced'
               PROVE  Quiet(file[q])' /\ got'[q] = Content(file[q])' /\ file'[q] = file[q]
    BY <1>0, SameChanges DEF Fills
  <2>1. q # r /\ step[q] = "store" /\ q \notin raced /\ got'[q] = got[q] /\ file'[q] = file[q]
    BY DEF Store, Answered, TypeOK
  <2> QED
    BY <2>1, <1>0, SameChanges DEF Fills
<1>4. Trusted'
  <2> SUFFICES ASSUME NEW k \in Keys \ suspect'
               PROVE  /\ Fresh(k)' \/ Awaited(k)'
                      /\ \A w \in Writers : todo[w] = <<"commit">> /\ k = Target(w) => cache'[k] = Nothing
    BY <1>0, SameChanges DEF Trusted
  <2>1. CASE cache' = cache /\ suspect' = suspect
    BY <2>1, <1>0, SameChanges DEF Trusted, Fresh
  <2>2. CASE k = file[r] /\ r \notin raced /\ cache'[k] = [content |-> got[r], left |-> Timeout]
    <3>1. Quiet(k) /\ got[r] = Content(k)
      BY <2>2, <1>0 DEF Fills
    <3>2. Fresh(k)'
      BY <3>1, <2>2, <1>0, SameChanges DEF Fresh
    <3>3. \A w \in Writers : todo[w] = <<"commit">> => k # Target(w)
      BY <3>1, PlanFacts, UncommittedIsHasCommit DEF Quiet, Changes, Busy
    <3> QED
      BY <3>2, <3>3
  <2>3. CASE k # file[r] /\ k \notin suspect /\ cache'[k] = cache[k]
    BY <2>3, <1>0, SameChanges DEF Trusted, Fresh
  <2> QED
    BY <2>1, <2>2, <2>3, <1>0 DEF Store, TypeOK
<1> QED
  BY <1>1, <1>2, <1>3, <1>4

-----------------------------------------------------------------------------
(* Writers *)

\* A key's rows are the same when no row leaves or enters it.
LEMMA SameContent ==
    ASSUME TypeOK, NEW i \in Rows, NEW n, rows' = [rows EXCEPT ![i] = n],
           NEW k, k \notin KeyOf(rows[i]), k \notin KeyOf(n)
    PROVE  Content(k)' = Content(k)
<1>1. \A j \in Rows : j # i => rows'[j] = rows[j]
  BY DEF TypeOK
<1>2. rows'[i] = n
  BY DEF TypeOK
<1>3. \A j \in Rows : (rows'[j] # Nothing /\ rows'[j].key = k) <=> (rows[j] # Nothing /\ rows[j].key = k)
  BY <1>1, <1>2 DEF KeyOf
<1>4. \A j \in Rows : rows[j] # Nothing /\ rows[j].key = k => rows'[j] = rows[j]
  BY <1>1, <1>2 DEF KeyOf
<1> QED
  BY <1>3, <1>4 DEF Content

LEMMA BeginKeeps ==
    ASSUME CacheInv, NEW w \in Writers, NEW i \in Rows, NEW n \in Row \cup {Nothing},
           NEW steps \in Plans, HasCommit(steps), steps # <<>>, steps # <<"commit">>,
           Begin(w, i, n, steps)
    PROVE  CacheInv'
<1> USE DEF CacheInv, readerVars
<1>0. /\ todo[w] = <<>> /\ todo' = [todo EXCEPT ![w] = steps] /\ todo'[w] = steps
      /\ row'[w] = i /\ new'[w] = n /\ touched'[w] = KeyOf(rows[i]) \cup KeyOf(n)
      /\ \A v \in Writers : v # w =>
             todo'[v] = todo[v] /\ row'[v] = row[v] /\ new'[v] = new[v] /\ touched'[v] = touched[v]
      /\ rows' = rows /\ cache' = cache /\ step' = step /\ file' = file /\ got' = got
      /\ faults' = faults /\ suspect' = suspect
  BY DEF Begin, Busy, TypeOK
<1>1. rows[i] \in Row \cup {Nothing} /\ n # rows[i] /\ touched'[w] \subseteq Keys
  BY <1>0 DEF TypeOK, KeyOf, Row, Begin
<1>2. Target(w)' \in touched'[w]
  <2>1. CASE n = Nothing
    <3>1. touched'[w] # {}
      BY <1>0, <1>1, <2>1 DEF KeyOf
    <3> QED
      BY <3>1, <2>1, <1>0 DEF Target
  <2>2. CASE n # Nothing
    BY <2>2, <1>0 DEF Target, KeyOf
  <2> QED
    BY <2>1, <2>2
<1>3. \A v \in Writers : v # w =>
          /\ Target(v)' = Target(v)
          /\ (Uncommitted(v)' <=> Uncommitted(v)) /\ (Busy(v)' <=> Busy(v))
  <2> SUFFICES ASSUME NEW v \in Writers, v # w
               PROVE  /\ Target(v)' = Target(v)
                      /\ (Uncommitted(v)' <=> Uncommitted(v)) /\ (Busy(v)' <=> Busy(v))
    OBVIOUS
  <2>1. Target(v)' = Target(v)
    BY <1>0, TargetKept
  <2>2. todo'[v] = todo[v]
    BY <1>0
  <2> QED
    BY <2>1, <2>2 DEF Uncommitted, Busy
<1>4. Busy(w)' /\ Uncommitted(w)' /\ ~Busy(w) /\ ~Uncommitted(w)
  <2>1. Busy(w)' /\ ~Busy(w)
    BY <1>0 DEF Busy
  <2>2. Uncommitted(w)'
    BY <1>0 DEF Uncommitted, HasCommit
  <2>3. ~Uncommitted(w)
    BY <1>0, PlanFacts, UncommittedIsHasCommit
  <2> QED
    BY <2>1, <2>2, <2>3
<1>5. TypeOK'
  <2>1. edits' \in 0..MaxEdits
    BY CacheAssumption DEF Begin, TypeOK
  <2>2. todo' \in [Writers -> Seq({"commit", "invalidate"})]
    BY <1>0, PlanFacts DEF TypeOK
  <2>3. /\ row' \in [Writers -> Rows \cup {Nothing}]
        /\ new' \in [Writers -> Row \cup {Nothing}]
    BY DEF Begin, TypeOK
  <2>4. touched' \in [Writers -> SUBSET Keys]
    BY <1>0, <1>1 DEF Begin, TypeOK
  <2>5. raced' \subseteq Readers
    BY DEF Begin, TypeOK
  <2>6. \A v \in Writers : Busy(v)' => row'[v] # Nothing /\ Target(v)' \in Keys
    <3>1. row'[w] # Nothing /\ Target(w)' \in Keys
      BY <1>0, <1>1, <1>2, CacheAssumption
    <3>2. \A v \in Writers \ {w} : Busy(v)' => row'[v] # Nothing /\ Target(v)' \in Keys
      BY <1>0, <1>3 DEF TypeOK
    <3> QED
      BY <3>1, <3>2
  <2> QED
    BY <1>0, <2>1, <2>2, <2>3, <2>4, <2>5, <2>6 DEF TypeOK
<1>6. Changes'
  <2>1. \A v \in Writers : todo'[v] \in Plans
    BY <1>0 DEF Changes
  <2>2. \A v \in Writers : Busy(v)' => Target(v)' \in touched'[v]
    BY <1>0, <1>2, <1>3 DEF Changes
  <2>3. \A v \in Writers : Uncommitted(v)' => KeyOf(rows'[row'[v]]) \subseteq touched'[v]
    BY <1>0, <1>3 DEF Changes
  <2>4. \A v \in Writers : Uncommitted(v) => row[v] # i
    BY DEF Begin, Locked
  <2>5. \A v, u \in Writers : v # u /\ Uncommitted(v)' /\ Uncommitted(u)' => row'[v] # row'[u]
    BY <2>4, <1>0, <1>3 DEF Changes
  <2>6. \A v \in Writers : (Uncommitted(v) => KeyOf(rows[row[v]]) \subseteq touched[v])'
    BY <2>3, <1>0 DEF KeyOf
  <2> QED
    BY <2>1, <2>2, <2>5, <2>6 DEF Changes
<1>7. \A k : Content(k)' = Content(k)
  BY <1>0 DEF Content
<1>8. \A k : k \notin touched'[w] => (Quiet(k)' <=> Quiet(k))
  BY <1>0, <1>3, <1>4 DEF Quiet
<1>9. Fills'
  <2> SUFFICES ASSUME NEW r \in Readers, step[r] = "store", r \notin raced'
               PROVE  Quiet(file[r])' /\ got[r] = Content(file[r])
    BY <1>0, <1>7 DEF Fills
  <2>1. r \notin raced /\ file[r] \notin touched'[w]
    BY DEF Begin
  <2>2. Quiet(file[r]) /\ got[r] = Content(file[r])
    BY <2>1 DEF Fills
  <2>3. file'[r] = file[r]
    BY <1>0
  <2> QED
    BY <2>1, <2>2, <2>3, <1>8
<1>10. Trusted'
  <2>1. \A k : Fresh(k)' <=> Fresh(k)
    BY <1>0, <1>7 DEF Fresh
  <2>2. \A k : Awaited(k) => Awaited(k)'
    BY <1>3, <1>4 DEF Awaited
  <2>3. \A k \in Keys, v \in Writers :
            todo'[v] = <<"commit">> /\ k = Target(v)' => v # w /\ todo[v] = <<"commit">> /\ k = Target(v)
    BY <1>0, <1>3
  <2> QED
    BY <2>1, <2>2, <2>3, <1>0 DEF Trusted
<1> QED
  BY <1>5, <1>6, <1>9, <1>10

\* What holds of a change after one of its steps, and of the others.
LEMMA ContinueKeeps ==
    ASSUME TypeOK, Changes, NEW w \in Writers, NEW s \in Plans, Busy(w), Continue(w, s),
           HasCommit(s) => Uncommitted(w),
           \A v \in Writers : Uncommitted(v) /\ (v = w => HasCommit(s)) => rows'[row[v]] = rows[row[v]]
    PROVE  /\ Changes'
           /\ \A v \in Writers : Busy(v)' =>
                  /\ Busy(v) /\ Target(v)' = Target(v) /\ touched'[v] = touched[v]
                  /\ row'[v] = row[v] /\ row[v] # Nothing /\ Target(v) \in Keys
           /\ \A k : Quiet(k) => Quiet(k)'
           /\ \A v \in Writers \ {w} :
                  /\ todo'[v] = todo[v]
                  /\ Busy(v) => Busy(v)'
                  /\ Uncommitted(v)' <=> Uncommitted(v)
           /\ Uncommitted(w)' <=> HasCommit(s)
           /\ todo'[w] = s /\ (Busy(w)' <=> s # <<>>)
           /\ todo' \in [Writers -> Seq({"commit", "invalidate"})]
<1>0. /\ todo'[w] = s
      /\ \A v \in Writers : todo'[v] # <<>> =>
             row'[v] = row[v] /\ new'[v] = new[v] /\ touched'[v] = touched[v]
      /\ \A v \in Writers \ {w} : todo'[v] = todo[v]
  BY ContinueFacts
<1>1. \A v \in Writers \ {w} :
          (Busy(v) <=> Busy(v)') /\ (Uncommitted(v)' <=> Uncommitted(v))
  <2> SUFFICES ASSUME NEW v \in Writers, v # w
               PROVE  (Busy(v) <=> Busy(v)') /\ (Uncommitted(v)' <=> Uncommitted(v))
    OBVIOUS
  <2>1. todo'[v] = todo[v]
    BY <1>0
  <2> QED
    BY <2>1 DEF Busy, Uncommitted
<1>2. (Uncommitted(w)' <=> HasCommit(s)) /\ (Busy(w)' <=> s # <<>>)
  BY <1>0 DEF Uncommitted, HasCommit, Busy
<1>3. \A v \in Writers : Busy(v)' =>
          /\ Busy(v) /\ Target(v)' = Target(v) /\ touched'[v] = touched[v]
          /\ row'[v] = row[v] /\ row[v] # Nothing /\ Target(v) \in Keys
  <2> SUFFICES ASSUME NEW v \in Writers, Busy(v)'
               PROVE  /\ Busy(v) /\ Target(v)' = Target(v) /\ touched'[v] = touched[v]
                      /\ row'[v] = row[v] /\ row[v] # Nothing /\ Target(v) \in Keys
    OBVIOUS
  <2>1. Busy(v)
    BY <1>1
  <2>2. row'[v] = row[v] /\ new'[v] = new[v] /\ touched'[v] = touched[v]
    BY <1>0 DEF Busy
  <2>3. Target(v)' = Target(v)
    BY <2>2, TargetKept
  <2> QED
    BY <2>1, <2>2, <2>3 DEF TypeOK
<1>4. \A k : Quiet(k) => Quiet(k)'
  BY <1>3 DEF Quiet
<1>5. \A v \in Writers : Uncommitted(v)' =>
          Busy(v)' /\ Uncommitted(v) /\ (v = w => HasCommit(s))
  <2>1. \A v \in Writers : Uncommitted(v)' => Uncommitted(v) /\ (v = w => HasCommit(s))
    BY <1>1, <1>2
  <2>2. ASSUME NEW v \in Writers, Uncommitted(v)' PROVE Busy(v)'
    <3>1. CASE v = w
      BY <3>1, <2>2, <1>2, PlanFacts
    <3>2. CASE v # w
      <4>1. Busy(v)
        BY <2>1, <2>2, PlanFacts, UncommittedIsHasCommit DEF Busy
      <4> QED
        BY <4>1, <3>2, <1>1
    <3> QED
      BY <3>1, <3>2
  <2> QED
    BY <2>1, <2>2
<1>6. Changes'
  <2>1. \A v \in Writers : todo'[v] \in Plans
    BY <1>0 DEF Changes
  <2>2. \A v \in Writers : Busy(v)' => Target(v)' \in touched'[v]
    BY <1>3 DEF Changes
  <2>3. \A v \in Writers : Uncommitted(v)' => row'[v] = row[v] /\ touched'[v] = touched[v]
    BY <1>3, <1>5
  <2>4. \A v \in Writers : Uncommitted(v)' => rows'[row'[v]] = rows[row[v]]
    BY <1>5, <2>3
  <2>5. \A v \in Writers : (Uncommitted(v) => KeyOf(rows[row[v]]) \subseteq touched[v])'
    BY <1>5, <2>3, <2>4 DEF Changes, KeyOf
  <2>6. \A u, v \in Writers : u # v /\ Uncommitted(u)' /\ Uncommitted(v)' => row'[u] # row'[v]
    BY <1>5, <2>3 DEF Changes
  <2> QED
    BY <2>1, <2>2, <2>5, <2>6 DEF Changes
<1>7. todo' \in [Writers -> Seq({"commit", "invalidate"})]
  <2>1. s \in Seq({"commit", "invalidate"}) /\ todo' = [todo EXCEPT ![w] = s]
    BY PlanFacts, ContinueFacts
  <2>2. todo \in [Writers -> Seq({"commit", "invalidate"})]
    BY DEF TypeOK
  <2> QED
    BY <2>1, <2>2
<1> QED
  BY <1>0, <1>1, <1>2, <1>3, <1>4, <1>6, <1>7

LEMMA CommitKeeps ==
    ASSUME CacheInv, NEW w \in Writers, Commit(w)
    PROVE  CacheInv'
<1> USE DEF CacheInv, readerVars
<1> DEFINE s == Tail(todo[w])
<1>0. /\ Busy(w) /\ Head(todo[w]) = "commit" /\ Continue(w, s)
      /\ rows' = [rows EXCEPT ![row[w]] = new[w]]
      /\ suspect' = suspect \cup (touched[w] \ {Target(w)})
      /\ cache' = cache /\ step' = step /\ file' = file /\ got' = got
      /\ edits' = edits /\ faults' = faults /\ raced' = raced
      /\ row[w] \in Rows /\ Target(w) \in touched[w] /\ Target(w) \in Keys
  BY DEF Commit, TypeOK, Changes
<1>1. /\ s \in Plans /\ Uncommitted(w) /\ ~HasCommit(s)
      /\ s = <<>> => todo[w] = <<"commit">>
  BY <1>0, PlanSteps, UncommittedIsHasCommit DEF Busy, Changes
<1>2. \A v \in Writers : Uncommitted(v) /\ (v = w => HasCommit(s)) => rows'[row[v]] = rows[row[v]]
  BY <1>0, <1>1 DEF Changes, TypeOK
<1>3. /\ Changes'
      /\ \A v \in Writers : Busy(v)' =>
             /\ Busy(v) /\ Target(v)' = Target(v) /\ touched'[v] = touched[v]
             /\ row'[v] = row[v] /\ row[v] # Nothing /\ Target(v) \in Keys
      /\ \A k : Quiet(k) => Quiet(k)'
      /\ \A v \in Writers \ {w} :
             /\ todo'[v] = todo[v]
             /\ Busy(v) => Busy(v)'
             /\ Uncommitted(v)' <=> Uncommitted(v)
      /\ Uncommitted(w)' <=> HasCommit(s)
      /\ todo'[w] = s /\ (Busy(w)' <=> s # <<>>)
      /\ todo' \in [Writers -> Seq({"commit", "invalidate"})]
  BY <1>0, <1>1, <1>2, ContinueKeeps
<1>4. TypeOK'
  <2>1. rows' \in [Rows -> Row \cup {Nothing}]
    BY <1>0 DEF TypeOK
  <2>2. /\ row' \in [Writers -> Rows \cup {Nothing}]
        /\ new' \in [Writers -> Row \cup {Nothing}]
        /\ touched' \in [Writers -> SUBSET Keys]
    BY <1>0, <1>1, ContinueFacts
  <2>3. suspect' \subseteq Keys
    BY <1>0 DEF TypeOK
  <2>4. \A v \in Writers : Busy(v)' => row'[v] # Nothing /\ Target(v)' \in Keys
    BY <1>3
  <2> QED
    BY <1>0, <1>3, <2>1, <2>2, <2>3, <2>4 DEF TypeOK
<1>5. \A k : k \notin touched[w] => Content(k)' = Content(k)
  <2>1. KeyOf(rows[row[w]]) \subseteq touched[w] /\ KeyOf(new[w]) \subseteq touched[w]
    BY <1>0, <1>1 DEF Changes, KeyOf, Target
  <2> QED
    BY <2>1, <1>0, SameContent
<1>6. Fills'
  <2> SUFFICES ASSUME NEW r \in Readers, step[r] = "store", r \notin raced
               PROVE  Quiet(file[r])' /\ got[r] = Content(file[r])'
    BY <1>0 DEF Fills
  <2>1. Quiet(file[r]) /\ got[r] = Content(file[r]) /\ file'[r] = file[r]
    BY <1>0 DEF Fills
  <2>2. file[r] \notin touched[w]
    BY <2>1, <1>0 DEF Quiet
  <2> QED
    BY <2>1, <2>2, <1>3, <1>5
<1>7. Trusted'
  <2> SUFFICES ASSUME NEW k \in Keys \ suspect'
               PROVE  /\ Fresh(k)' \/ Awaited(k)'
                      /\ \A v \in Writers : todo'[v] = <<"commit">> /\ k = Target(v)' => cache'[k] = Nothing
    BY DEF Trusted
  <2>1. k \notin suspect /\ (k \notin touched[w] \/ k = Target(w))
    BY <1>0
  <2>2. \A v \in Writers : todo'[v] = <<"commit">> /\ k = Target(v)' => cache'[k] = Nothing
    <3> SUFFICES ASSUME NEW v \in Writers, todo'[v] = <<"commit">>, k = Target(v)'
                 PROVE  cache[k] = Nothing
      BY <1>0
    <3>1. v # w
      BY <1>1, <1>3, PlanFacts
    <3>2. todo[v] = <<"commit">> /\ Busy(v)
      <4>1. todo[v] = <<"commit">>
        BY <3>1, <1>3
      <4> QED
        BY <4>1, PlanFacts DEF Busy
    <3>3. Target(v) = k
      BY <3>1, <3>2, <1>3
    <3> QED
      BY <3>2, <3>3, <2>1 DEF Trusted
  <2>3. CASE k = Target(w) /\ s = <<>>
    <3>1. cache[k] = Nothing
      BY <2>1, <2>3, <1>1 DEF Trusted
    <3> QED
      BY <3>1, <2>2, <1>0 DEF Fresh
  <2>4. CASE k = Target(w) /\ s # <<>>
    <3>1. Awaited(k)'
      BY <2>4, <1>1, <1>3 DEF Awaited
    <3> QED
      BY <3>1, <2>2
  <2>5. CASE k \notin touched[w] /\ Fresh(k)
    <3>1. Fresh(k)'
      BY <2>5, <1>0, <1>5 DEF Fresh
    <3> QED
      BY <3>1, <2>2
  <2>6. CASE Awaited(k)
    <3>1. PICK v \in Writers : Busy(v) /\ ~Uncommitted(v) /\ k = Target(v)
      BY <2>6 DEF Awaited
    <3>2. v # w
      BY <3>1, <1>1
    <3>3. Busy(v)' /\ ~Uncommitted(v)' /\ k = Target(v)'
      BY <3>1, <3>2, <1>3
    <3>4. Awaited(k)'
      BY <3>3 DEF Awaited
    <3> QED
      BY <3>4, <2>2
  <2> QED
    BY <2>1, <2>3, <2>4, <2>5, <2>6 DEF Trusted
<1> QED
  BY <1>3, <1>4, <1>6, <1>7

LEMMA InvalidateKeeps ==
    ASSUME CacheInv, NEW w \in Writers, Invalidate(w)
    PROVE  CacheInv'
<1> USE DEF CacheInv, readerVars
<1> DEFINE s == Tail(todo[w])
<1>0. /\ Busy(w) /\ Head(todo[w]) = "invalidate" /\ Continue(w, s)
      /\ rows' = rows /\ step' = step /\ file' = file /\ got' = got
      /\ edits' = edits /\ raced' = raced
      /\ Target(w) \in touched[w] /\ Target(w) \in Keys
  BY DEF Invalidate, TypeOK, Changes
<1>1. s \in Plans /\ (HasCommit(s) <=> Uncommitted(w))
  BY <1>0, PlanSteps, UncommittedIsHasCommit DEF Busy, Changes
<1>2. \A v \in Writers : Uncommitted(v) /\ (v = w => HasCommit(s)) => rows'[row[v]] = rows[row[v]]
  BY <1>0
<1>3. /\ Changes'
      /\ \A v \in Writers : Busy(v)' =>
             /\ Busy(v) /\ Target(v)' = Target(v) /\ touched'[v] = touched[v]
             /\ row'[v] = row[v] /\ row[v] # Nothing /\ Target(v) \in Keys
      /\ \A k : Quiet(k) => Quiet(k)'
      /\ \A v \in Writers \ {w} :
             /\ todo'[v] = todo[v]
             /\ Busy(v) => Busy(v)'
             /\ Uncommitted(v)' <=> Uncommitted(v)
      /\ Uncommitted(w)' <=> HasCommit(s)
      /\ todo'[w] = s /\ (Busy(w)' <=> s # <<>>)
      /\ todo' \in [Writers -> Seq({"commit", "invalidate"})]
  BY <1>0, <1>1, <1>2, ContinueKeeps
<1>4. TypeOK'
  <2>1. cache' \in [Keys -> Entry \cup {Nothing}]
    BY DEF TypeOK, Invalidate
  <2>2. /\ row' \in [Writers -> Rows \cup {Nothing}]
        /\ new' \in [Writers -> Row \cup {Nothing}]
        /\ touched' \in [Writers -> SUBSET Keys]
    BY <1>0, <1>1, ContinueFacts
  <2>3. suspect' \subseteq Keys
    BY <1>0 DEF TypeOK, Invalidate
  <2>4. \A v \in Writers : Busy(v)' => row'[v] # Nothing /\ Target(v)' \in Keys
    BY <1>3
  <2>5. faults' \in 0..MaxFaults
    BY FaultTyped DEF TypeOK, Invalidate
  <2> QED
    BY <1>0, <1>3, <2>1, <2>2, <2>3, <2>4, <2>5 DEF TypeOK
<1>5. \A k : Content(k)' = Content(k)
  BY <1>0 DEF Content
<1>6. Fills'
  <2> SUFFICES ASSUME NEW r \in Readers, step[r] = "store", r \notin raced
               PROVE  Quiet(file[r])' /\ got[r] = Content(file[r])
    BY <1>0, <1>5 DEF Fills
  <2>1. Quiet(file[r]) /\ got[r] = Content(file[r]) /\ file'[r] = file[r]
    BY <1>0 DEF Fills
  <2> QED
    BY <2>1, <1>3
<1>7. Trusted'
  <2> SUFFICES ASSUME NEW k \in Keys \ suspect'
               PROVE  /\ Fresh(k)' \/ Awaited(k)'
                      /\ \A v \in Writers : todo'[v] = <<"commit">> /\ k = Target(v)' => cache'[k] = Nothing
    BY DEF Trusted
  <2>1. \/ cache'[k] = Nothing
        \/ k # Target(w) /\ k \notin suspect /\ cache'[k] = cache[k]
    BY <1>0 DEF Invalidate, TypeOK
  <2>2. CASE cache'[k] = Nothing
    BY <2>2 DEF Fresh
  <2>3. CASE k # Target(w) /\ k \notin suspect /\ cache'[k] = cache[k]
    <3>1. Fresh(k) => Fresh(k)'
      BY <2>3, <1>5 DEF Fresh
    <3>2. ASSUME Awaited(k) PROVE Awaited(k)'
      <4>1. PICK v \in Writers : Busy(v) /\ ~Uncommitted(v) /\ k = Target(v)
        BY <3>2 DEF Awaited
      <4>2. Busy(v)' /\ ~Uncommitted(v)' /\ k = Target(v)'
        BY <4>1, <2>3, <1>3
      <4> QED
        BY <4>2 DEF Awaited
    <3>3. ASSUME NEW v \in Writers, todo'[v] = <<"commit">>, k = Target(v)'
          PROVE  todo[v] = <<"commit">> /\ k = Target(v)
      <4>1. Busy(v)'
        BY <3>3, PlanFacts DEF Busy
      <4>2. v # w
        BY <4>1, <3>3, <2>3, <1>3
      <4> QED
        BY <4>1, <4>2, <3>3, <1>3
    <3> QED
      BY <3>1, <3>2, <3>3, <2>3 DEF Trusted
  <2> QED
    BY <2>1, <2>2, <2>3
<1> QED
  BY <1>3, <1>4, <1>6, <1>7

LEMMA CrashKeeps ==
    ASSUME CacheInv, NEW w \in Writers, Crash(w)
    PROVE  CacheInv'
<1> USE DEF CacheInv, readerVars
<1>0. /\ Busy(w) /\ Continue(w, <<>>) /\ faults' \in 0..MaxFaults
      /\ rows' = rows /\ cache' = cache /\ step' = step /\ file' = file /\ got' = got
      /\ edits' = edits /\ raced' = raced
      /\ suspect' = IF Uncommitted(w) THEN suspect ELSE suspect \cup touched[w]
      /\ Target(w) \in touched[w]
  BY FaultTyped DEF Crash, Changes
<1>3. /\ Changes'
      /\ \A v \in Writers : Busy(v)' =>
             /\ Busy(v) /\ Target(v)' = Target(v) /\ touched'[v] = touched[v]
             /\ row'[v] = row[v] /\ row[v] # Nothing /\ Target(v) \in Keys
      /\ \A k : Quiet(k) => Quiet(k)'
      /\ \A v \in Writers \ {w} :
             /\ todo'[v] = todo[v]
             /\ Busy(v) => Busy(v)'
             /\ Uncommitted(v)' <=> Uncommitted(v)
      /\ ~Busy(w)' /\ todo'[w] = <<>>
      /\ todo' \in [Writers -> Seq({"commit", "invalidate"})]
  BY <1>0, PlanFacts, ContinueKeeps
<1>4. TypeOK'
  <2>1. /\ row' \in [Writers -> Rows \cup {Nothing}]
        /\ new' \in [Writers -> Row \cup {Nothing}]
        /\ touched' \in [Writers -> SUBSET Keys]
    BY <1>0, PlanFacts, ContinueFacts
  <2>2. suspect' \subseteq Keys
    BY <1>0 DEF TypeOK
  <2>3. \A v \in Writers : Busy(v)' => row'[v] # Nothing /\ Target(v)' \in Keys
    BY <1>3
  <2> QED
    BY <1>0, <1>3, <2>1, <2>2, <2>3 DEF TypeOK
<1>5. \A k : Content(k)' = Content(k)
  BY <1>0 DEF Content
<1>6. Fills'
  <2> SUFFICES ASSUME NEW r \in Readers, step[r] = "store", r \notin raced
               PROVE  Quiet(file[r])' /\ got[r] = Content(file[r])
    BY <1>0, <1>5 DEF Fills
  <2>1. Quiet(file[r]) /\ got[r] = Content(file[r]) /\ file'[r] = file[r]
    BY <1>0 DEF Fills
  <2> QED
    BY <2>1, <1>3
<1>7. Trusted'
  <2> SUFFICES ASSUME NEW k \in Keys \ suspect'
               PROVE  /\ Fresh(k)' \/ Awaited(k)'
                      /\ \A v \in Writers : todo'[v] = <<"commit">> /\ k = Target(v)' => cache'[k] = Nothing
    BY DEF Trusted
  <2>1. k \notin suspect /\ (Uncommitted(w) \/ k # Target(w))
    BY <1>0
  <2>2. Fresh(k) => Fresh(k)'
    BY <1>0, <1>5 DEF Fresh
  <2>3. ASSUME Awaited(k) PROVE Awaited(k)'
    <3>1. PICK v \in Writers : Busy(v) /\ ~Uncommitted(v) /\ k = Target(v)
      BY <2>3 DEF Awaited
    <3>2. Busy(v)' /\ ~Uncommitted(v)' /\ k = Target(v)'
      BY <3>1, <2>1, <1>3
    <3> QED
      BY <3>2 DEF Awaited
  <2>4. ASSUME NEW v \in Writers, todo'[v] = <<"commit">>, k = Target(v)'
        PROVE  todo[v] = <<"commit">> /\ k = Target(v)
    <3>1. Busy(v)'
      BY <2>4, PlanFacts DEF Busy
    <3> QED
      BY <3>1, <2>4, <1>3
  <2> QED
    BY <2>1, <2>2, <2>3, <2>4, <1>0 DEF Trusted
<1> QED
  BY <1>3, <1>4, <1>6, <1>7

-----------------------------------------------------------------------------
(* The backend *)

\* Entries that only grow old or go away outdate nothing.
LEMMA CacheShrinks ==
    ASSUME CacheInv, UNCHANGED <<rows, readerVars, writerVars, edits, faults, raced, suspect>>,
           cache' \in [Keys -> Entry \cup {Nothing}],
           \A k \in Keys : cache'[k] = Nothing \/ (cache[k] # Nothing /\ cache'[k].content = cache[k].content)
    PROVE  CacheInv'
<1> USE DEF CacheInv, readerVars, writerVars
<1>1. TypeOK'
  <2>1. \A v \in Writers : Busy(v)' => row'[v] # Nothing /\ Target(v)' \in Keys
    BY DEF TypeOK, Busy, Target
  <2> QED
    BY <2>1 DEF TypeOK
<1>2. Changes'
  BY SameChanges
<1>3. Fills'
  BY SameChanges DEF Fills
<1>4. Trusted'
  <2>1. \A k \in Keys : Fresh(k) => Fresh(k)'
    BY SameChanges DEF Fresh
  <2> QED
    BY <2>1, SameChanges DEF Trusted
<1> QED
  BY <1>1, <1>2, <1>3, <1>4

LEMMA TickKeeps == ASSUME CacheInv, Tick PROVE CacheInv'
<1>1. ASSUME NEW k \in Keys
      PROVE  /\ Aged(cache[k]) \in Entry \cup {Nothing}
             /\ Aged(cache[k]) = Nothing \/ (cache[k] # Nothing /\ Aged(cache[k]).content = cache[k].content)
  <2>1. CASE cache[k] = Nothing
    BY <2>1 DEF Aged
  <2>2. CASE cache[k] # Nothing
    <3>1. cache[k] \in Entry
      BY <2>2 DEF CacheInv, TypeOK
    <3>2. Timeout \in Nat
      BY CacheAssumption
    <3>3. CASE cache[k].left = 1
      BY <3>3 DEF Aged
    <3>4. CASE cache[k].left # 1
      <4>1. [cache[k] EXCEPT !.left = @ - 1] \in Entry
        BY <3>1, <3>2, <3>4 DEF Entry
      <4>2. [cache[k] EXCEPT !.left = @ - 1].content = cache[k].content
        BY <3>1 DEF Entry
      <4> QED
        BY <2>2, <3>4, <4>1, <4>2 DEF Aged
    <3> QED
      BY <3>3, <3>4
  <2> QED
    BY <2>1, <2>2
<1>2. cache' = [k \in Keys |-> Aged(cache[k])]
  BY DEF Tick
<1>3. /\ cache' \in [Keys -> Entry \cup {Nothing}]
      /\ \A k \in Keys : cache'[k] = Nothing \/ (cache[k] # Nothing /\ cache'[k].content = cache[k].content)
  BY <1>1, <1>2
<1> QED
  BY <1>3, CacheShrinks DEF Tick

LEMMA EvictKeeps == ASSUME CacheInv, NEW k \in Keys, Evict(k) PROVE CacheInv'
<1>1. cache' = [cache EXCEPT ![k] = Nothing] /\ cache \in [Keys -> Entry \cup {Nothing}]
  BY DEF Evict, CacheInv, TypeOK
<1>2. /\ cache' \in [Keys -> Entry \cup {Nothing}]
      /\ \A j \in Keys : cache'[j] = Nothing \/ (cache[j] # Nothing /\ cache'[j].content = cache[j].content)
  BY <1>1
<1> QED
  BY <1>2, CacheShrinks DEF Evict

-----------------------------------------------------------------------------
LEMMA StepKeeps == CacheInv /\ [Next]_vars => CacheInv'
<1> SUFFICES ASSUME CacheInv, [Next]_vars PROVE CacheInv'
  OBVIOUS
<1>1. ASSUME NEW r \in Readers, NEW k \in Keys, Request(r, k) PROVE CacheInv'
  BY <1>1, RequestKeeps
<1>2. ASSUME NEW r \in Readers, Render(r) \/ Store(r) PROVE CacheInv'
  BY <1>2, RenderKeeps, StoreKeeps
<1>3. ASSUME NEW w \in Writers, NEW i \in Rows, NEW n \in Row \cup {Nothing},
             Add(w, i, n) \/ Set(w, i, n) \/ Save(w, i, n) \/ Admin(w, i, n)
      PROVE  CacheInv'
  <2>1. PICK steps \in {AddSteps, SetSteps, SaveSteps, AdminSteps} : Begin(w, i, n, steps)
    BY <1>3 DEF Add, Set, Save, Admin
  <2>2. steps \in Plans /\ HasCommit(steps) /\ steps # <<>> /\ steps # <<"commit">>
    BY PlanFacts
  <2> QED
    BY <2>1, <2>2, BeginKeeps
<1>4. ASSUME NEW w \in Writers, Commit(w) \/ Invalidate(w) \/ Crash(w) PROVE CacheInv'
  BY <1>4, CommitKeeps, InvalidateKeeps, CrashKeeps
<1>5. CASE Tick
  BY <1>5, TickKeeps
<1>6. ASSUME NEW k \in Keys, Evict(k) PROVE CacheInv'
  BY <1>6, EvictKeeps
<1>7. CASE UNCHANGED vars
  <2>1. UNCHANGED <<rows, readerVars, writerVars, edits, faults, raced, suspect>> /\ cache' = cache
    BY <1>7 DEF vars
  <2>2. cache' \in [Keys -> Entry \cup {Nothing}]
    BY <2>1 DEF CacheInv, TypeOK
  <2> QED
    BY <2>1, <2>2, CacheShrinks
<1> QED
  BY <1>1, <1>2, <1>3, <1>4, <1>5, <1>6, <1>7 DEF Next, Change

\* What is cached and who does what is always what the model says it may be.
THEOREM CacheTypeCorrect == Spec => []TypeOK
<1>1. CacheInv => TypeOK
  BY DEF CacheInv
<1> QED
  BY <1>1, InitInv, StepKeeps, PTL DEF Spec

\* However many requests and changes interleave, and whatever fails: of a file
\* no change is under way for, an outdated copy is cached only where a fill
\* overlapped a change, an invalidation was lost, or the row moved away.
THEOREM OnlyRacesLeaveStaleHolds == Spec => []OnlyRacesLeaveStale
<1>1. CacheInv => OnlyRacesLeaveStale
  <2> SUFFICES ASSUME CacheInv, NEW k \in Keys \ suspect, Quiet(k) PROVE Fresh(k)
    BY DEF OnlyRacesLeaveStale
  <2>1. ~Awaited(k)
    BY DEF Quiet, Awaited, CacheInv, Changes
  <2> QED
    BY <2>1 DEF CacheInv, Trusted
<1> QED
  BY <1>1, InitInv, StepKeeps, PTL DEF Spec

-----------------------------------------------------------------------------
(* Blocks *)

\* A block has every rule of its group.
LEMMA BlockComplete ==
    ASSUME NEW group, IsFiniteSet(group), NEW block \in Orderings(group)
    PROVE  /\ block \in [1..Cardinality(group) -> group] /\ Cardinality(group) \in Nat
           /\ \A r \in group : \E i \in DOMAIN block : block[i] = r
<1> DEFINE n == Cardinality(group)
           seen == {block[i] : i \in 1..n}
<1>1. n \in Nat /\ block \in [1..n -> group]
  BY FS_CardinalityType DEF Orderings
<1>2. \A i, j \in 1..n : i # j => block[i] # block[j]
  <2> SUFFICES ASSUME NEW i \in 1..n, NEW j \in 1..n, i # j PROVE block[i] # block[j]
    OBVIOUS
  <2>1. i < j \/ j < i
    OBVIOUS
  <2> QED
    BY <1>1, <2>1 DEF Orderings
<1>3. IsFiniteSet(1..n) /\ Cardinality(1..n) = n
  BY <1>1, FS_Interval
<1>4. block \in Bijection(1..n, seen)
  BY <1>1, <1>2 DEF Bijection, Injection, Surjection, IsInjective
<1>5. IsFiniteSet(seen) /\ Cardinality(seen) = n
  <2>1. ExistsBijection(1..n, seen)
    BY <1>4 DEF ExistsBijection
  <2> QED
    BY <1>3, <2>1, FS_Bijection
<1>6. seen \subseteq group
  BY <1>1
<1>7. seen = group
  BY <1>5, <1>6, FS_Subset
<1> QED
  BY <1>1, <1>7

\* The first rule of a block to match, if any does.
LEMMA FirstMatch ==
    ASSUME NEW n \in Nat, NEW block, NEW url, NEW i \in 1..n, Matches(block[i], url)
    PROVE  \E m \in 1..n : m <= i /\ Matches(block[m], url) /\ \A j \in 1..m-1 : ~Matches(block[j], url)
<1> DEFINE S == {m \in 1..n : Matches(block[m], url)}
<1>1. S \in SUBSET Nat /\ S # {}
  OBVIOUS
<1>2. PICK m \in S : \A j \in S : m <= j
  BY <1>1, LeastNatural
<1> QED
  BY <1>2

\* In a block as render_robots_txt orders it, the first match is the longest,
\* and allows if any as long does.
LEMMA OrderDecides ==
    ASSUME NEW group \in SUBSET RobotsRules, IsFiniteSet(group),
           NEW block \in Orderings(group), NEW url
    PROVE  FirstMatchAllows(block, url) <=> LongestMatchAllows(group, url)
<1> DEFINE n == Cardinality(group)
           matching == {r \in group : Matches(r, url)}
           longest == {r \in matching : \A q \in matching : Len(q.path) <= Len(r.path)}
           First(m) == Matches(block[m], url) /\ \A j \in 1..m-1 : ~Matches(block[j], url)
<1>1. /\ n \in Nat /\ block \in [1..n -> group] /\ DOMAIN block = 1..n
      /\ \A r \in group : \E i \in 1..n : block[i] = r
  BY BlockComplete
<1>2. \A r \in group : Len(r.path) \in Nat /\ r.allow \in BOOLEAN
  BY RobotsAssumption DEF RobotsRules
<1>3. \A i, j \in 1..n : i < j => ~SortsBefore(block[j], block[i])
  BY <1>1 DEF Orderings
<1>4. ASSUME NEW m \in 1..n, First(m), NEW q \in matching
      PROVE  \E j \in 1..n : m <= j /\ q = block[j]
  <2>1. PICK j \in 1..n : q = block[j]
    BY <1>1
  <2>2. ~(j < m)
    BY <1>4, <2>1
  <2> QED
    BY <2>1, <2>2
<1>5. ASSUME NEW m \in 1..n, First(m), NEW q \in matching
      PROVE  /\ Len(q.path) <= Len(block[m].path)
             /\ Len(q.path) = Len(block[m].path) /\ q.allow => block[m].allow
  <2>1. PICK j \in 1..n : m <= j /\ q = block[j]
    BY <1>4, <1>5
  <2>2. block[m] \in group /\ q \in group
    BY <1>1
  <2>3. CASE m = j
    BY <2>1, <2>2, <2>3, <1>2
  <2>4. CASE m < j
    <3>1. ~SortsBefore(q, block[m])
      BY <2>1, <2>4, <1>3
    <3>2. Len(q.path) \in Nat /\ Len(block[m].path) \in Nat
      BY <2>2, <1>2
    <3>3. ~(Len(q.path) > Len(block[m].path))
      BY <3>1 DEF SortsBefore
    <3>4. ASSUME Len(q.path) = Len(block[m].path), q.allow PROVE block[m].allow
      <4>1. ~(Precedence(q) < Precedence(block[m]))
        BY <3>1, <3>4 DEF SortsBefore
      <4> QED
        BY <4>1, <3>4 DEF Precedence
    <3> QED
      BY <3>2, <3>3, <3>4
  <2> QED
    BY <2>1, <2>3, <2>4
<1>6. ASSUME FirstMatchAllows(block, url), matching # {}
      PROVE  \E r \in longest : r.allow
  <2>1. PICK i \in 1..n : Matches(block[i], url)
    BY <1>1, <1>6
  <2>2. PICK m \in 1..n : First(m)
    BY <2>1, <1>1, FirstMatch
  <2>3. block[m] \in longest
    BY <2>2, <1>1, <1>5
  <2>4. block[m].allow
    BY <2>2, <1>1, <1>6 DEF FirstMatchAllows
  <2> QED
    BY <2>3, <2>4
<1>7. ASSUME LongestMatchAllows(group, url), NEW m \in 1..n, First(m)
      PROVE  block[m].allow
  <2>1. block[m] \in matching
    BY <1>1, <1>7
  <2>2. PICK r \in longest : r.allow
    BY <2>1, <1>7 DEF LongestMatchAllows
  <2>3. Len(r.path) <= Len(block[m].path) /\ Len(block[m].path) <= Len(r.path)
    BY <2>1, <2>2, <1>5, <1>7
  <2>4. Len(r.path) \in Nat /\ Len(block[m].path) \in Nat
    BY <2>1, <2>2, <1>2
  <2>5. Len(r.path) = Len(block[m].path)
    BY <2>3, <2>4
  <2> QED
    BY <2>2, <2>5, <1>5, <1>7
<1> QED
  BY <1>1, <1>6, <1>7 DEF FirstMatchAllows, LongestMatchAllows

LEMMA RulesAgree ==
    ASSUME NEW rules \in SUBSET RobotsRules, IsFiniteSet(rules)
    PROVE  AllAgree(rules, Urls)
<1> SUFFICES ASSUME NEW agent \in Agents, NEW url \in Urls,
                    NEW block \in Orderings(GroupOf(rules, agent))
             PROVE  FirstMatchAllows(block, url)
                        <=> LongestMatchAllows({r \in rules : Folded[r.agent] = Folded[agent]}, url)
  BY DEF AllAgree
<1>1. GroupOf(rules, agent) = {r \in rules : Folded[r.agent] = Folded[agent]}
  BY DEF GroupOf
<1>2. GroupOf(rules, agent) \in SUBSET RobotsRules /\ IsFiniteSet(GroupOf(rules, agent))
  BY FS_Subset DEF GroupOf
<1> QED
  BY <1>1, <1>2, OrderDecides

\* Whatever the rules, their order and the spelling of their agents, and whatever
\* changes while requests render them: every robots.txt that is cached or about
\* to be says the same to every crawler.
THEOREM CrawlersAgreeHolds == Spec => []CrawlersAgree
<1>1. TypeOK => CrawlersAgree
  <2> SUFFICES ASSUME TypeOK PROVE CrawlersAgree
    OBVIOUS
  <2>1. ASSUME NEW content \in Contents PROVE AllAgree(RulesIn(content), Urls)
    <3>1. RulesIn(content) \subseteq Bodies
      BY <2>1 DEF RulesIn, Contents
    <3>2. IsFiniteSet(RulesIn(content)) /\ RulesIn(content) \in SUBSET RobotsRules
      BY <3>1, SiteAssumption, FS_Subset
    <3> QED
      BY <3>2, RulesAgree
  <2>2. \A k \in Keys : cache[k] # Nothing => cache[k].content \in Contents
    BY DEF TypeOK, Entry, Contents
  <2>3. \A r \in Readers : got[r] \in Contents
    BY DEF TypeOK
  <2> QED
    BY <2>1, <2>2, <2>3, SiteAssumption DEF CrawlersAgree
<1> QED
  BY <1>1, CacheTypeCorrect, PTL
=============================================================================
