------------------------ MODULE SitemapPublishingProofs ------------------------
(***************************************************************************)
(* What one worker publishes, for any sections, keys and limits.  Its      *)
(* progress through a run is the same whatever it is asked to generate.    *)
(* From that follow, without failures, that the index, the records and     *)
(* the files agree; and, when sections are created, deleted, marked and    *)
(* edited through forms under any edits, failures and crashes, what a flag *)
(* that goes down means, and, of stale-only regeneration, one that is down:*)
(* FlagTrustworthy.  The flag a form lowers is excepted.  Two workers break*)
(* it, and so do a forced regeneration that fails on a section that is not *)
(* stale, and the orphan cleanup, which may delete what was recorded after *)
(* it began.                                                               *)
(***************************************************************************)
EXTENDS SitemapMaintenance, SitemapGenerationProofs

OneWorker == \A v, w \in Workers : v = w
StaleOnly == Modes \subseteq {FALSE}

Record(w, k) == [section |-> section[w], seq |-> k - 1, checksum |-> made[w][k]]

\* The progress of a run: the shards made are in storage, and from the delete of
\* the old records on, the section has the records of the first created of them.
RunProgress(w) ==
    /\ \A k \in DOMAIN made[w] : Stored(<<section[w], k - 1>>, made[w][k])
    /\ pc[w] \in {"read", "flush"} => created[w] = 0
    /\ pc[w] \in {"rows", "save"} =>
         /\ made[w] # <<>> /\ created[w] <= Len(made[w])
         /\ RowsOf(section[w]) = {Record(w, k) : k \in 1..created[w]}
    /\ pc[w] = "save" => created[w] = Len(made[w])

\* A section that is deleted under a run takes the records with it.
Progress == \A w \in Workers : Generating(w) /\ Exists(section[w]) => RunProgress(w)

\* No run is of a section that is yet to be created.
Begun == \A w \in Workers : Generating(w) => status[section[w]] # "future"

\* A run deletes no file but those of its section.
OwnPaths == \A w \in Workers : Generating(w) => oldPaths[w] \subseteq {section[w]} \X Nat

RunInv == OwnPaths /\ Begun /\ Progress

-----------------------------------------------------------------------------
(* The progress of a run, whatever the flags say *)

\* Steps outside generate_section: no file or record changes.
LEMMA OutsideRun ==
    ASSUME TypeOK, RunInv,
           UNCHANGED <<status, rows, store, section, oldPaths, made, created>>,
           \A w \in Workers : Generating(w)' => pc'[w] = pc[w]
    PROVE  RunInv'
<1>1. \A w \in Workers : Generating(w)' => Generating(w)
  BY DEF Generating
<1>2. Progress'
  BY <1>1 DEF RunInv, Progress, RunProgress, Generating, Exists, Stored, RowsOf, Record
<1> QED BY <1>1, <1>2 DEF RunInv, OwnPaths, Begun

\* The records and files of the sections w does not generate are left alone.
OthersKept(w) == \A s \in Sections \ {section[w]} :
    /\ RowsOf(s)' = RowsOf(s)
    /\ \A n \in Nat : \A c \in Contents : Stored(<<s, n>>, c) => Stored(<<s, n>>, c)'

\* What a step inside generate_section does to the run it is part of.
RunGoesOn(w) ==
    /\ Generating(w)
    /\ UNCHANGED <<status, stale, queue, section, oldPaths>>
    /\ OthersKept(w)
    /\ Exists(section[w]) => RunProgress(w)'

LEMMA PublishShardRun ==
    ASSUME TypeOK, RunInv, NEW w \in Workers, PublishShard(w)
    PROVE  RunGoesOn(w)
<1> DEFINE n == Len(made[w])
<1>1. /\ Generating(w) /\ pc[w] \in {"read", "flush"}
      /\ n \in Nat /\ section[w] \in Sections
  BY DEF PublishShard, ShardReady, Generating, TypeOK
<1>2. /\ DOMAIN made'[w] = 1..(n + 1) /\ DOMAIN made[w] = 1..n
      /\ \A k \in 1..n : made'[w][k] = made[w][k]
      /\ made'[w][n + 1] = buf[w]
  <2>1. made[w] \in Seq(Contents) /\ buf[w] \in Contents
    BY DEF TypeOK
  <2>2. made'[w] = Append(made[w], buf[w])
    BY DEF PublishShard, TypeOK
  <2> QED BY <2>1, <2>2, AppendFacts
<1>3. \A path, c : path # <<section[w], n>> /\ Stored(path, c) => Stored(path, c)'
  BY DEF PublishShard, Put, Stored, ShardPath
<1>4. [path |-> <<section[w], n>>, content |-> buf[w]] \in store'
  BY DEF PublishShard, Put, ShardPath
<1>5. ASSUME Exists(section[w]) PROVE RunProgress(w)'
  <2>0. RunProgress(w)
    BY <1>1, <1>5 DEF RunInv, Progress
  <2>1. ASSUME NEW k \in 1..(n + 1)
        PROVE  [path |-> <<section[w], k - 1>>, content |-> made'[w][k]] \in store'
    <3>1. CASE k = n + 1
      BY <1>1, <1>2, <1>4, <3>1
    <3>2. CASE k # n + 1
      <4>1. k \in 1..n /\ k - 1 # n
        BY <1>1, <3>2
      <4>2. Stored(<<section[w], k - 1>>, made[w][k])
        BY <1>2, <2>0, <4>1 DEF RunProgress
      <4> QED BY <1>2, <1>3, <4>1, <4>2 DEF Stored
    <3> QED BY <3>1, <3>2
  <2>2. UNCHANGED <<pc, section, created>>
    BY DEF PublishShard
  <2> QED BY <1>1, <1>2, <2>0, <2>1, <2>2 DEF RunProgress, Stored
<1> QED
  BY <1>1, <1>3, <1>5 DEF RunGoesOn, OthersKept, PublishShard, dbVars, RowsOf

LEMMA DeleteRowsRun ==
    ASSUME TypeOK, RunInv, NEW w \in Workers, DeleteRows(w)
    PROVE  RunGoesOn(w)
<1>1. Generating(w) /\ pc[w] = "flush" /\ made[w] # <<>> /\ pc'[w] = "rows"
  BY DEF DeleteRows, ShardReady, Goto, Generating, TypeOK
<1>2. RowsOf(section[w])' = {} /\ \A s \in Sections \ {section[w]} : RowsOf(s)' = RowsOf(s)
  BY DEF DeleteRows, RowsOf, runVars
<1>3. ASSUME Exists(section[w]) PROVE RunProgress(w)'
  <2>0. RunProgress(w) /\ created[w] = 0
    BY <1>1, <1>3 DEF RunInv, Progress, RunProgress
  <2>1. Len(made[w]) \in Nat
    BY DEF TypeOK
  <2>2. {Record(w, k) : k \in 1..created[w]} = {}
    BY <2>0
  <2> QED
    BY <1>1, <1>2, <2>0, <2>1, <2>2 DEF DeleteRows, RunProgress, Stored, Record, storageVars, runVars
<1> QED
  BY <1>1, <1>2, <1>3 DEF RunGoesOn, OthersKept, DeleteRows, Stored, storageVars, runVars

LEMMA CreateRowRun ==
    ASSUME TypeOK, RunInv, NEW w \in Workers, CreateRow(w)
    PROVE  RunGoesOn(w)
<1>1. /\ Generating(w) /\ RunProgress(w) /\ pc'[w] = "rows" /\ pc[w] = "rows"
      /\ created[w] \in Nat /\ Len(made[w]) \in Nat /\ created'[w] = created[w] + 1
      /\ created[w] < Len(made[w])
  BY DEF CreateRow, RowAccepted, Generating, RunInv, Progress, TypeOK
<1>2. rows' = rows \cup {Record(w, created[w] + 1)}
  BY <1>1 DEF CreateRow, Record
<1>3. /\ RowsOf(section[w])' = RowsOf(section[w]) \cup {Record(w, created[w] + 1)}
      /\ \A s \in Sections \ {section[w]} : RowsOf(s)' = RowsOf(s)
  BY <1>2 DEF CreateRow, RowsOf, Record
<1>4. {Record(w, k) : k \in 1..(created[w] + 1)}
        = {Record(w, k) : k \in 1..created[w]} \cup {Record(w, created[w] + 1)}
  <2>1. 1..(created[w] + 1) = 1..created[w] \cup {created[w] + 1}
    BY <1>1
  <2> QED BY <2>1
<1>5. RunProgress(w)'
  BY <1>1, <1>3, <1>4 DEF CreateRow, RunProgress, Stored, Record, storageVars
<1> QED
  BY <1>1, <1>3, <1>5 DEF RunGoesOn, OthersKept, CreateRow, Stored, storageVars

LEMMA TidyRun ==
    ASSUME TypeOK, RunInv, NEW w \in Workers, Tidy(w)
    PROVE  RunGoesOn(w)
<1>1. /\ Generating(w) /\ pc'[w] = "save" /\ pc[w] = "rows"
      /\ created[w] = Len(made[w])
  BY DEF Tidy, Goto, Generating, TypeOK
<1>2. PICK dropped \in SUBSET (oldPaths[w] \ NewPaths(w)) : store' = Drop(dropped)
  BY DEF Tidy
<1>3. \A path, c : path \notin dropped /\ Stored(path, c) => Stored(path, c)'
  BY <1>2 DEF Drop, Stored
<1>4. ASSUME Exists(section[w]) PROVE RunProgress(w)'
  <2>0. RunProgress(w)
    BY <1>1, <1>4 DEF RunInv, Progress
  <2>1. ASSUME NEW k \in DOMAIN made[w]
        PROVE  Stored(<<section[w], k - 1>>, made[w][k])'
    <3>1. <<section[w], k - 1>> \in NewPaths(w)
      BY DEF NewPaths
    <3> QED BY <1>2, <1>3, <2>0, <3>1 DEF RunProgress, Tidy, runVars, Stored
  <2> QED
    BY <1>1, <2>0, <2>1 DEF Tidy, RunProgress, Stored, RowsOf, Record, dbVars, runVars
<1>5. \A s \in Sections \ {section[w]}, n \in Nat : <<s, n>> \notin dropped
  <2>1. oldPaths[w] \subseteq {section[w]} \X Nat
    BY <1>1 DEF RunInv, OwnPaths
  <2> QED BY <1>2, <2>1
<1> QED
  BY <1>1, <1>3, <1>4, <1>5 DEF RunGoesOn, OthersKept, Tidy, RowsOf, dbVars, runVars

LEMMA ReadingRun ==
    ASSUME TypeOK, RunInv, NEW w \in Workers, ReadChunk(w) \/ TakeEntry(w)
    PROVE  RunGoesOn(w)
<1>1. /\ Generating(w) /\ pc[w] = "read" /\ pc'[w] \in {"read", "flush"}
      /\ UNCHANGED <<status, stale, rows, store, queue, section, oldPaths, made, created>>
  BY DEF ReadChunk, TakeEntry, Goto, Generating, dbVars, storageVars, TypeOK
<1>2. Exists(section[w]) => RunProgress(w)'
  BY <1>1 DEF RunInv, Progress, RunProgress, Stored
<1> QED BY <1>1, <1>2 DEF RunGoesOn, OthersKept, RowsOf, Stored

LEMMA InsideRun ==
    ASSUME TypeOK, OneWorker, RunInv, NEW w \in Workers, InsideStep(w)
    PROVE  RunGoesOn(w) /\ RunInv'
<1>1. RunGoesOn(w)
  BY PublishShardRun, DeleteRowsRun, CreateRowRun, TidyRun, ReadingRun DEF InsideStep
<1>2. OwnPaths' /\ Begun' /\ Progress'
  BY <1>1 DEF RunGoesOn, RunInv, OwnPaths, Begun, Progress, OneWorker, Exists
<1> QED BY <1>1, <1>2 DEF RunInv

\* A run starts with nothing made.
LEMMA StartSectionRun ==
    ASSUME TypeOK, OneWorker, RunInv, NEW w \in Workers, NEW s \in Sections,
           StartSection(w, s)
    PROVE  /\ RunInv'
           /\ section'[w] = s /\ s \in queue[w] /\ s \notin queue'[w] /\ queue'[w] \subseteq queue[w]
           /\ pc[w] = "pick" /\ pc'[w] \in {"read", "pick"} /\ (Generating(w)' => Exists(s))
           /\ UNCHANGED <<status, stale, rows, storageVars, faults, listing>>
<1>1. /\ section'[w] = s /\ made'[w] = <<>> /\ created'[w] = 0
      /\ s \notin queue'[w] /\ queue'[w] \subseteq queue[w] /\ s \in queue[w]
      /\ pc[w] = "pick" /\ pc'[w] \in {"read", "pick"} /\ oldPaths'[w] = PathsOf(s)
  BY DEF StartSection, Goto, TypeOK
<1>2. UNCHANGED <<status, stale, rows, storageVars, faults, listing>>
  BY DEF StartSection, dbVars
<1>3. PathsOf(s) \subseteq {s} \X Nat
  BY DEF PathsOf, RowsOf, RowPath, TypeOK
<1>4. OwnPaths'
  BY <1>1, <1>3 DEF OwnPaths, OneWorker
<1>5. Generating(w)' => Exists(s)
  BY <1>1 DEF StartSection, Goto, Generating, TypeOK
<1>6. Progress' /\ Begun'
  BY <1>1, <1>2, <1>5 DEF Progress, RunProgress, Begun, Exists, OneWorker
<1> QED BY <1>1, <1>2, <1>4, <1>5, <1>6 DEF RunInv

\* The end of a run, whichever way it ends, leaves nothing to promise.
LEMMA EndedRun ==
    ASSUME OneWorker, NEW w \in Workers, ~Generating(w)'
    PROVE  RunInv'
BY DEF RunInv, OwnPaths, Begun, Progress, OneWorker

LEMMA QuietRun ==
    ASSUME TypeOK, OneWorker, RunInv, QuietStep
    PROVE  /\ RunInv'
           /\ UNCHANGED <<status, rows, store, section, oldPaths, made, created>>
           /\ \A w \in Workers : Generating(w)' => pc'[w] = pc[w]
<1> USE DEF siteVars, dbVars, storageVars, runVars
<1>1. ASSUME NEW s \in Sections,
             (\E pk \in Pks, v \in 0..MaxEdits : Edit(s, pk, v)) \/ MarkStale(s) \/ MarkLost(s)
      PROVE  UNCHANGED <<status, rows, store, section, oldPaths, made, created, pc>>
  BY <1>1 DEF Edit, MarkStale, MarkLost
<1>2. ASSUME NEW w \in Workers,
             \/ Begin(w) \/ EndTask(w) \/ ListFiles(w) \/ WriteIndex(w) \/ IndexRefused(w)
             \/ IndexFails(w)
      PROVE  /\ UNCHANGED <<status, rows, store, section, oldPaths, made, created>>
             /\ pc'[w] \in {"pick", "index", "idle", "write"}
  BY <1>2 DEF Begin, BeginAll, BeginOne, RequestIndex, BeginIndex, EndTask, ListFiles, WriteIndex,
              IndexRefused, IndexFails, Goto, TypeOK
<1>3. ASSUME NEW w \in Workers, NEW s \in Sections, StartFails(w, s)
      PROVE  UNCHANGED <<status, rows, store, section, oldPaths, made, created, pc>>
  BY <1>3 DEF StartFails
<1>4. /\ UNCHANGED <<status, rows, store, section, oldPaths, made, created>>
      /\ \A w \in Workers : Generating(w)' => pc'[w] = pc[w]
  BY <1>1, <1>2, <1>3 DEF QuietStep, Generating, OneWorker
<1> QED BY <1>4, OutsideRun

LEMMA RunStep ==
    ASSUME OneWorker, TypeOK, RunInv, [Next]_vars
    PROVE  RunInv'
<1>1. CASE UNCHANGED vars
  <2>1. UNCHANGED <<status, rows, store, section, oldPaths, made, created, pc>>
    BY <1>1 DEF vars, dbVars, storageVars, runVars
  <2> QED BY <2>1, OutsideRun
<1> QED
  BY <1>1, NextSteps, QuietRun, InsideRun, StartSectionRun, EndStep, EndedRun

LEMMA RunInit == Init => RunInv
BY DEF Init, RunInv, OwnPaths, Begun, Progress, Generating

LEMMA RunInvariant == OneWorker => (Spec => []RunInv)
<1> SUFFICES ASSUME OneWorker PROVE Spec => []RunInv
  OBVIOUS
<1>1. TypeOK /\ RunInv /\ [Next]_vars => RunInv'
  BY RunStep
<1> QED
  BY <1>1, RunInit, TypeCorrect, PTL DEF Spec

-----------------------------------------------------------------------------
(* Stale-only regeneration keeps the flags honest *)

\* Nobody should trust the section to be published.
Flagged(s) == stale[s] \/ s \in byHand

\* What a task is about to do, or is doing, is flagged.
TasksAreFlagged == \A w \in Workers :
    /\ \A s \in queue[w] : Flagged(s)
    /\ Generating(w) => Flagged(section[w]) /\ section[w] \notin queue[w]

FreshIsPublished == \A s \in Sections : Exists(s) /\ ~Flagged(s) => Published(s)

FlagInv == RunInv /\ TasksAreFlagged /\ FreshIsPublished

\* A section stays published while its records and files are left alone.
LEMMA PublishedKept ==
    ASSUME NEW s \in Sections, TypeOK, Published(s), RowsOf(s)' = RowsOf(s),
           \A n \in Nat : \A c \in Contents : Stored(<<s, n>>, c) => Stored(<<s, n>>, c)'
    PROVE  Published(s)'
<1>1. PathsOf(s)' = PathsOf(s)
  BY DEF PathsOf, RowPath
<1>2. \A r \in RowsOf(s) : r.section = s /\ r.seq \in Nat /\ r.checksum \in Contents
  BY DEF RowsOf, TypeOK
<1> QED
  BY <1>1, <1>2 DEF Published, RowPath, PathsOf

\* The shards and records of a finished run make its section published.
LEMMA SavedIsPublished ==
    ASSUME NEW w \in Workers, TypeOK, RunProgress(w), pc[w] = "save"
    PROVE  Published(section[w])
<1> DEFINE n == Len(made[w])
<1>1. /\ n \in Nat /\ n >= 1 /\ DOMAIN made[w] = 1..n
      /\ RowsOf(section[w]) = {Record(w, k) : k \in 1..n}
  BY DEF RunProgress, TypeOK
<1>2. RowsOf(section[w]) # {}
  BY <1>1
<1>3. ASSUME NEW r \in RowsOf(section[w])
      PROVE  /\ Stored(RowPath(r), r.checksum)
             /\ r.seq > 0 => <<section[w], r.seq - 1>> \in PathsOf(section[w])
  <2>1. PICK k \in 1..n : r = Record(w, k)
    BY <1>1, <1>3
  <2>2. Stored(RowPath(r), r.checksum)
    BY <1>1, <2>1 DEF Record, RowPath, RunProgress
  <2>3. ASSUME r.seq > 0 PROVE <<section[w], r.seq - 1>> \in PathsOf(section[w])
    <3>1. r.seq = k - 1 /\ k - 1 \in 1..n
      BY <1>1, <2>1, <2>3 DEF Record
    <3>2. Record(w, k - 1) \in RowsOf(section[w])
      BY <1>1, <3>1
    <3>3. RowPath(Record(w, k - 1)) = <<section[w], r.seq - 1>>
      BY <3>1 DEF Record, RowPath
    <3> QED BY <3>2, <3>3 DEF PathsOf
  <2> QED BY <2>2, <2>3
<1> QED BY <1>2, <1>3 DEF Published

\* Without a form a flag stays up but where a run ends.
LEMMA FlagsKept ==
    ASSUME NoForm, NEW s \in Sections, stale[s] => stale'[s], ~RunEnds(s)
    PROVE  Flagged(s) => Flagged(s)'
BY DEF NoForm, Flagged

LEMMA QuietFlags ==
    ASSUME TypeOK, OneWorker, StaleOnly, FlagInv, QuietStep, NoForm
    PROVE  FlagInv'
<1> USE DEF siteVars, dbVars, storageVars, runVars
<1>1. \A w \in Workers : section[w] \in Sections /\ \A s \in queue[w] : s \in Sections
  BY DEF TypeOK
<1>2. /\ RunInv' /\ UNCHANGED <<status, rows, store, section>>
      /\ \A w \in Workers : Generating(w)' => pc'[w] = pc[w]
  BY QuietRun DEF FlagInv
<1>3. /\ \A s \in Sections : stale[s] => stale'[s]
      /\ \A w \in Workers :
           /\ \A s \in queue'[w] : s \in Sections /\ (s \in queue[w] \/ stale[s])
           /\ Generating(w)' => queue'[w] \subseteq queue[w]
           /\ pc[w] = "save" => pc'[w] # "index"
  <2>1. ASSUME NEW s \in Sections,
               (\E pk \in Pks, v \in 0..MaxEdits : Edit(s, pk, v)) \/ MarkStale(s) \/ MarkLost(s)
        PROVE  UNCHANGED <<queue, pc>> /\ \A t \in Sections : stale[t] => stale'[t]
    BY <2>1 DEF Edit, MarkStale, MarkLost, TypeOK
  <2>2. ASSUME NEW w \in Workers, NEW force \in Modes, BeginAll(w, force)
        PROVE  UNCHANGED stale /\ \A s \in queue'[w] : s \in Sections /\ stale[s]
    <3>1. queue'[w] = {s \in Sections : status[s] = "active" /\ (force \/ stale[s])}
      BY <2>2 DEF BeginAll, TypeOK
    <3>2. force = FALSE
      BY DEF StaleOnly
    <3> QED BY <2>2, <3>1, <3>2 DEF BeginAll
  <2>3. ASSUME NEW w \in Workers, NEW force \in Modes, NEW s \in Sections, BeginOne(w, s, force)
        PROVE  UNCHANGED stale /\ queue'[w] = {s} /\ stale[s]
    <3>1. force = FALSE
      BY DEF StaleOnly
    <3> QED BY <2>3, <3>1 DEF BeginOne, TypeOK
  <2>4. ASSUME NEW w \in Workers, Begin(w)
        PROVE  /\ UNCHANGED stale /\ ~Generating(w)' /\ pc[w] = "idle"
               /\ \A s \in queue'[w] : s \in Sections /\ (s \in queue[w] \/ stale[s])
    <3>1. pc'[w] \in {"pick", "index"} /\ pc[w] = "idle"
      BY <2>4 DEF Begin, BeginAll, BeginOne, RequestIndex, BeginIndex, Goto, TypeOK
    <3>2. CASE BeginIndex(w) \/ RequestIndex(w)
      BY <1>1, <3>1, <3>2 DEF RequestIndex, BeginIndex, Generating
    <3> QED BY <2>2, <2>3, <2>4, <3>1, <3>2 DEF Begin, Generating
  <2>5. ASSUME NEW w \in Workers,
               \/ EndTask(w) \/ ListFiles(w) \/ WriteIndex(w) \/ IndexRefused(w) \/ IndexFails(w)
        PROVE  UNCHANGED <<stale, queue>> /\ pc[w] # "save"
    BY <2>5 DEF EndTask, ListFiles, WriteIndex, IndexRefused, IndexFails
  <2>6. ASSUME NEW w \in Workers, NEW s \in Sections, StartFails(w, s)
        PROVE  UNCHANGED stale /\ queue'[w] \subseteq queue[w] /\ pc[w] # "save"
    BY <2>6 DEF StartFails, TypeOK
  <2> QED BY <1>1, <2>1, <2>4, <2>5, <2>6 DEF QuietStep, OneWorker
<1>4. \A s \in Sections : Flagged(s) => Flagged(s)'
  BY <1>3, FlagsKept DEF RunEnds
<1>5. TasksAreFlagged'
  <2> SUFFICES ASSUME NEW w \in Workers
               PROVE  /\ \A s \in queue'[w] : Flagged(s)'
                      /\ Generating(w)' => Flagged(section[w])' /\ section[w] \notin queue'[w]
    BY <1>2 DEF TasksAreFlagged, Flagged
  <2>1. \A s \in queue'[w] : Flagged(s)'
    BY <1>3, <1>4 DEF FlagInv, TasksAreFlagged, Flagged
  <2>2. Generating(w)' => Generating(w)
    BY <1>2 DEF Generating
  <2>3. Generating(w)' => Flagged(section[w]) /\ section[w] \notin queue'[w]
    BY <1>3, <2>2 DEF FlagInv, TasksAreFlagged
  <2>4. Flagged(section[w]) => Flagged(section[w])'
    BY <1>1, <1>2, <1>4 DEF Flagged
  <2> QED BY <2>1, <2>3, <2>4
<1>6. FreshIsPublished'
  BY <1>2, <1>4 DEF FlagInv, FreshIsPublished, Exists, Published, RowsOf, PathsOf, RowPath, Stored
<1> QED BY <1>2, <1>5, <1>6 DEF FlagInv

LEMMA InsideFlags ==
    ASSUME TypeOK, OneWorker, FlagInv, NEW w \in Workers, InsideStep(w), NoForm
    PROVE  FlagInv'
<1>1. RunGoesOn(w) /\ RunInv'
  BY InsideRun DEF FlagInv
<1>2. pc'[w] # "index" /\ section[w] \in Sections /\ queue[w] \subseteq Sections
  BY DEF InsideStep, ReadChunk, TakeEntry, PublishShard, ShardReady, DeleteRows, CreateRow, Tidy,
         Goto, TypeOK
<1>3. \A s \in Sections : Flagged(s) => Flagged(s)'
  BY <1>1, <1>2, FlagsKept DEF RunGoesOn, RunEnds, OneWorker
<1>4. TasksAreFlagged'
  <2>1. \A s \in queue[w] : Flagged(s)'
    BY <1>2, <1>3 DEF FlagInv, TasksAreFlagged
  <2>2. Flagged(section[w])' /\ section[w] \notin queue[w]
    <3>1. Flagged(section[w]) /\ section[w] \notin queue[w]
      BY <1>1 DEF RunGoesOn, FlagInv, TasksAreFlagged
    <3>2. Flagged(section[w]) => (stale'[section[w]] \/ section[w] \in byHand')
      BY <1>2, <1>3 DEF Flagged
    <3> QED BY <1>1, <3>1, <3>2 DEF RunGoesOn, Flagged
  <2> QED BY <1>1, <2>1, <2>2 DEF RunGoesOn, TasksAreFlagged, OneWorker, Flagged
<1>5. FreshIsPublished'
  <2> SUFFICES ASSUME NEW s \in Sections, Exists(s)', ~Flagged(s)'
               PROVE  Published(s)'
    BY DEF FreshIsPublished
  <2>1. s # section[w] /\ Published(s)
    BY <1>1, <1>3 DEF RunGoesOn, FlagInv, TasksAreFlagged, FreshIsPublished, Exists
  <2> QED BY <1>1, <2>1, PublishedKept DEF RunGoesOn, OthersKept
<1> QED BY <1>1, <1>4, <1>5 DEF FlagInv

LEMMA SaveSectionFlags ==
    ASSUME TypeOK, OneWorker, FlagInv, NEW w \in Workers, SaveSection(w), NoForm
    PROVE  FlagInv'
<1>1. /\ RunProgress(w) /\ Published(section[w]) /\ Generating(w) /\ ~Generating(w)'
  BY SavedIsPublished, EndStep DEF SaveSection, Generating, FlagInv, RunInv, Progress
<1>2. ASSUME NEW s \in Sections, s # section[w] PROVE Flagged(s) => Flagged(s)'
  <2>1. stale'[s] = stale[s] /\ ~RunEnds(s)
    BY <1>2 DEF SaveSection, RunEnds, OneWorker, TypeOK
  <2> QED BY <2>1, FlagsKept
<1>3. TasksAreFlagged'
  <2>1. section[w] \notin queue[w] /\ \A s \in queue[w] : s \in Sections /\ Flagged(s)
    BY <1>1 DEF FlagInv, TasksAreFlagged, TypeOK
  <2>2. \A s \in queue'[w] : Flagged(s)'
    BY <1>2, <2>1 DEF SaveSection
  <2> QED BY <1>1, <2>2 DEF TasksAreFlagged, OneWorker
<1>4. \A s \in Sections : Published(s) => Published(s)'
  BY DEF SaveSection, Published, RowsOf, PathsOf, RowPath, Stored, storageVars
<1>5. FreshIsPublished'
  BY <1>1, <1>2, <1>4 DEF FlagInv, FreshIsPublished, SaveSection, Exists
<1> QED BY <1>1, <1>3, <1>5, EndedRun DEF FlagInv

LEMMA FailureFlags ==
    ASSUME TypeOK, OneWorker, FlagInv, NEW w \in Workers, FailureStep(w), NoForm
    PROVE  FlagInv'
<1>1. /\ UNCHANGED <<status, stale, rows, section>>
      /\ queue'[w] \subseteq queue[w] /\ ~Generating(w)' /\ pc'[w] # "index"
      /\ queue[w] \subseteq Sections
  BY EndStep DEF FailureStep, RowRefused, GenerationFails, Crash, Raised, Forget, Goto, dbVars, TypeOK
<1>2. \A s \in Sections : Flagged(s) => Flagged(s)'
  BY <1>1, FlagsKept DEF RunEnds, OneWorker
<1>3. TasksAreFlagged'
  BY <1>1, <1>2 DEF FlagInv, TasksAreFlagged, OneWorker
<1>4. \A s \in Sections \ {section[w]}, n \in Nat :
        \A c \in Contents : Stored(<<s, n>>, c) => Stored(<<s, n>>, c)'
  BY DEF FailureStep, RowRefused, GenerationFails, Crash, Drop, ShardPath, Stored, storageVars
<1>5. ASSUME NEW s \in Sections, Exists(s)', ~Flagged(s)' PROVE Published(s)'
  <2>1. Published(s) /\ RowsOf(s)' = RowsOf(s) /\ ~Flagged(s)
    BY <1>1, <1>2, <1>5 DEF FlagInv, FreshIsPublished, Exists, RowsOf
  <2>2. CASE UNCHANGED store
    BY <2>1, <2>2, PublishedKept DEF Stored
  <2>3. CASE ~UNCHANGED store
    <3>1. s # section[w]
      BY <2>1, <2>3
         DEF FailureStep, RowRefused, GenerationFails, Crash, storageVars, Generating, FlagInv,
             TasksAreFlagged
    <3> QED BY <1>4, <2>1, <3>1, PublishedKept
  <2> QED BY <2>2, <2>3
<1> QED BY <1>1, <1>3, <1>5, EndedRun DEF FlagInv, FreshIsPublished

\* A run starts on a flagged section of its task.
LEMMA StartSectionFlags ==
    ASSUME TypeOK, OneWorker, FlagInv, NEW w \in Workers, NEW s \in Sections,
           StartSection(w, s), NoForm
    PROVE  FlagInv'
<1>1. /\ RunInv' /\ section'[w] = s /\ s \in queue[w] /\ s \notin queue'[w]
      /\ queue'[w] \subseteq queue[w] /\ pc[w] = "pick" /\ UNCHANGED <<status, stale, rows, store>>
  BY StartSectionRun DEF FlagInv, storageVars
<1>2. \A t \in Sections : Flagged(t) => Flagged(t)'
  BY <1>1, FlagsKept DEF RunEnds, OneWorker
<1>3. TasksAreFlagged'
  <2>1. queue[w] \subseteq Sections /\ \A t \in queue[w] : Flagged(t)
    BY DEF FlagInv, TasksAreFlagged, TypeOK
  <2>2. Flagged(s)' /\ \A t \in queue'[w] : Flagged(t)'
    BY <1>1, <1>2, <2>1
  <2> QED BY <1>1, <2>2 DEF TasksAreFlagged, OneWorker, Flagged
<1>4. FreshIsPublished'
  BY <1>1, <1>2 DEF FlagInv, FreshIsPublished, Exists, Published, RowsOf, PathsOf, RowPath, Stored
<1> QED BY <1>1, <1>3, <1>4 DEF FlagInv

LEMMA FlagStep ==
    ASSUME OneWorker, StaleOnly, TypeOK, FlagInv, Next, NoForm
    PROVE  FlagInv'
BY NextSteps, QuietFlags, InsideFlags, SaveSectionFlags, FailureFlags, StartSectionFlags

LEMMA FlagInit == MaintenanceInit => FlagInv
BY RunInit DEF MaintenanceInit, Init, FlagInv, TasksAreFlagged, FreshIsPublished, Flagged, Generating

-----------------------------------------------------------------------------
(* Without failures the index and the checksums agree with the files *)

Reading(w) == pc[w] \in {"read", "flush"}

IndexAgrees ==
    /\ (\A w \in Workers : Calm(w)) /\ index # NoIndex /\ Cardinality(Listable) <= MaxIndex
           => index = Listable
    /\ \A w \in Workers : pc[w] = "write" => listing[w] = Listable

\* The files of a section are replaced, while a run reads, before their records.
RecordsAgree == \A r \in rows :
    Stored(RowPath(r), r.checksum) \/ \E w \in Workers : Replaced(w, r)

\* No section is deleted in Spec: the row of a run's section stays.
RunsExist == \A w \in Workers : Generating(w) => Exists(section[w])

IndexInv == faults = 0 => IndexAgrees /\ RecordsAgree /\ RunsExist

LEMMA ListableKept ==
    ASSUME UNCHANGED <<status, rows>>
    PROVE  Listable' = Listable
BY DEF Listable, PathsOf, RowsOf, RowPath

\* A step that leaves the records, the files and the index alone, and no run begun,
\* may go from one place where the index is in order to another.
LEMMA IndexKept ==
    ASSUME IndexAgrees, RecordsAgree, RunsExist,
           UNCHANGED <<status, rows, store, index, listing, section>>,
           \A w \in Workers : /\ Reading(w) => UNCHANGED made
                              /\ Calm(w)' => Calm(w)
                              /\ pc'[w] = "write" => pc[w] = "write"
                              /\ Generating(w)' => Generating(w)
                              /\ Reading(w) => Reading(w)'
    PROVE  IndexAgrees' /\ RecordsAgree' /\ RunsExist'
<1>1. Listable' = Listable
  BY ListableKept
<1>2. IndexAgrees'
  BY <1>1 DEF IndexAgrees
<1>3. RecordsAgree'
  <2>1. \A w \in Workers, r \in rows : Replaced(w, r) => Replaced(w, r)'
    BY DEF Replaced, Reading
  <2> QED BY <2>1 DEF RecordsAgree, Stored, RowPath
<1>4. RunsExist'
  BY DEF RunsExist, Exists
<1> QED BY <1>2, <1>3, <1>4

LEMMA QuietIndex ==
    ASSUME TypeOK, OneWorker, RunInv, IndexAgrees, RecordsAgree, RunsExist, faults' = 0, QuietStep
    PROVE  IndexAgrees' /\ RecordsAgree' /\ RunsExist'
<1> USE DEF siteVars, dbVars, storageVars, runVars, Calm, Reading, Generating
<1>0. ~Fault
  BY DEF Fault, TypeOK
<1>1. ASSUME NEW s \in Sections,
             (\E pk \in Pks, v \in 0..MaxEdits : Edit(s, pk, v)) \/ MarkStale(s)
      PROVE  IndexAgrees' /\ RecordsAgree' /\ RunsExist'
  <2>1. UNCHANGED <<status, rows, store, index, listing, section, made, pc>>
    BY <1>1 DEF Edit, MarkStale
  <2> QED BY <2>1, IndexKept
<1>2. ASSUME NEW w \in Workers, Begin(w) \/ EndTask(w)
      PROVE  IndexAgrees' /\ RecordsAgree' /\ RunsExist'
  <2>1. /\ UNCHANGED <<status, rows, store, index, listing, section>>
        /\ pc[w] \in {"idle", "pick"} /\ pc'[w] \in {"pick", "index", "idle"}
    BY <1>2 DEF Begin, BeginAll, BeginOne, RequestIndex, BeginIndex, EndTask, Goto, TypeOK
  <2>2. \A v \in Workers : v = w
    BY DEF OneWorker
  <2> QED BY <2>1, <2>2, IndexKept
<1>3. ASSUME NEW w \in Workers, ListFiles(w)
      PROVE  IndexAgrees' /\ RecordsAgree' /\ RunsExist'
  <2>1. /\ UNCHANGED <<status, rows, store, index, section>>
        /\ pc[w] = "index" /\ pc'[w] = "write" /\ listing'[w] = Listable
    BY <1>3 DEF ListFiles, Goto, Listable, TypeOK
  <2>2. \A v \in Workers : v = w
    BY DEF OneWorker
  <2>3. IndexAgrees'
    BY <2>1, <2>2, ListableKept DEF IndexAgrees
  <2>4. RecordsAgree' /\ RunsExist'
    BY <2>1, <2>2 DEF RecordsAgree, Replaced, RunsExist, Stored, RowPath
  <2> QED BY <2>3, <2>4
<1>4. ASSUME NEW w \in Workers, WriteIndex(w)
      PROVE  IndexAgrees' /\ RecordsAgree' /\ RunsExist'
  <2>1. /\ UNCHANGED <<status, rows, store, section>>
        /\ pc[w] = "write" /\ pc'[w] = "pick" /\ index' = listing[w]
    BY <1>4 DEF WriteIndex, Goto, TypeOK
  <2>2. \A v \in Workers : v = w
    BY DEF OneWorker
  <2>3. IndexAgrees'
    BY <2>1, <2>2, ListableKept DEF IndexAgrees
  <2>4. RecordsAgree' /\ RunsExist'
    BY <2>1, <2>2 DEF RecordsAgree, Replaced, RunsExist, Stored, RowPath
  <2> QED BY <2>3, <2>4
<1>4a. ASSUME NEW w \in Workers, IndexRefused(w)
      PROVE  IndexAgrees' /\ RecordsAgree' /\ RunsExist'
  <2>1. /\ UNCHANGED <<status, rows, store, index, section>>
        /\ pc[w] = "write" /\ pc'[w] = "pick" /\ ~(Cardinality(listing[w]) <= MaxIndex)
    BY <1>4a DEF IndexRefused, IndexFits, Goto, TypeOK
  <2>2. \A v \in Workers : v = w
    BY DEF OneWorker
  <2>3. listing[w] = Listable /\ Listable' = Listable
    BY <2>1, ListableKept DEF IndexAgrees
  <2>4. IndexAgrees'
    BY <2>1, <2>2, <2>3 DEF IndexAgrees
  <2>5. RecordsAgree' /\ RunsExist'
    BY <2>1, <2>2 DEF RecordsAgree, Replaced, RunsExist, Stored, RowPath
  <2> QED BY <2>4, <2>5
<1>5. \A s \in Sections : ~MarkLost(s)
  BY <1>0 DEF MarkLost
<1>6. \A w \in Workers : ~IndexFails(w) /\ \A s \in Sections : ~StartFails(w, s)
  BY <1>0 DEF IndexFails, StartFails
<1> QED BY <1>1, <1>2, <1>3, <1>4, <1>4a, <1>5, <1>6 DEF QuietStep

\* While a run reads, a file of its section that it has not replaced stays.
LEMMA ReadingKeeps ==
    ASSUME TypeOK, NEW w \in Workers, InsideStep(w), Reading(w)',
           NEW r \in rows, r.section = section[w], ~Replaced(w, r)', Stored(RowPath(r), r.checksum)
    PROVE  Stored(RowPath(r), r.checksum)'
<1>1. ReadChunk(w) \/ TakeEntry(w) \/ PublishShard(w)
  BY DEF InsideStep, DeleteRows, CreateRow, Tidy, Goto, Reading, TypeOK
<1>2. CASE ReadChunk(w) \/ TakeEntry(w)
  BY <1>2 DEF ReadChunk, TakeEntry, Stored, storageVars
<1>3. CASE PublishShard(w)
  <2>1. made[w] \in Seq(Contents) /\ r.seq \in Nat /\ made'[w] = Append(made[w], buf[w])
    BY <1>3 DEF PublishShard, TypeOK
  <2>2. Len(made'[w]) = Len(made[w]) + 1 /\ Len(made[w]) \in Nat
    BY <2>1
  <2>3. ~(r.seq < Len(made'[w]))
    BY <1>3 DEF PublishShard, Replaced, Reading
  <2>4. RowPath(r) # ShardPath(w)
    BY <2>1, <2>2, <2>3 DEF RowPath, ShardPath
  <2> QED BY <1>3, <2>4 DEF PublishShard, Put, Stored
<1> QED BY <1>1, <1>2, <1>3

LEMMA InsideIndex ==
    ASSUME TypeOK, TypeOK', OneWorker, RunInv, IndexAgrees, RecordsAgree, RunsExist,
           NEW w \in Workers, InsideStep(w)
    PROVE  IndexAgrees' /\ RecordsAgree' /\ RunsExist'
<1>1. RunGoesOn(w) /\ RunInv'
  BY InsideRun
<1>2. \A v \in Workers : v = w
  BY DEF OneWorker
<1>3. /\ UNCHANGED <<index, listing>>
      /\ pc'[w] \in {"read", "flush", "rows", "save"}
      /\ Reading(w)' => Reading(w) /\ UNCHANGED rows
      /\ Reading(w) /\ ~Reading(w)' => RowsOf(section[w])' = {}
  BY DEF InsideStep, ReadChunk, TakeEntry, PublishShard, ShardReady, DeleteRows, CreateRow, Tidy,
         Goto, Reading, RowsOf, dbVars, storageVars, runVars, TypeOK
<1>4. RunsExist' /\ RunProgress(w)'
  BY <1>1, <1>2, <1>3 DEF RunGoesOn, RunsExist, Exists, Generating
<1>5. IndexAgrees'
  BY <1>1, <1>2, <1>3, ListableKept DEF IndexAgrees, RunGoesOn, Calm, Reading
<1>6. ASSUME NEW r \in rows', ~Replaced(w, r)'
      PROVE  Stored(RowPath(r), r.checksum)'
  <2>1. r.section \in Sections /\ r.seq \in Nat /\ r.checksum \in Contents
    BY DEF TypeOK
  <2>0. CASE r.section = section[w] /\ Reading(w)'
    <3>1. r \in rows /\ ~Replaced(w, r)
      <4>1. r \in rows /\ Reading(w)
        BY <1>3, <2>0
      <4>2. ~Replaced(w, r)
        <5>1. r.seq \in Nat /\ made[w] \in Seq(Contents) /\ made'[w] \in Seq(Contents)
          BY <2>1 DEF TypeOK
        <5>2. Len(made[w]) <= Len(made'[w])
          <6>1. made'[w] = made[w] \/ (made'[w] = Append(made[w], buf[w]))
            BY DEF InsideStep, ReadChunk, TakeEntry, PublishShard, DeleteRows, CreateRow, Tidy,
                   runVars, TypeOK
          <6> QED BY <5>1, <6>1
        <5> QED BY <1>1, <1>6, <2>0, <5>1, <5>2 DEF Replaced, Reading, RunGoesOn
      <4> QED BY <4>1, <4>2
    <3>2. Stored(RowPath(r), r.checksum)
      BY <1>2, <3>1 DEF RecordsAgree
    <3> QED BY <1>6, <2>0, <3>1, <3>2, ReadingKeeps
  <2>2. CASE r.section = section[w] /\ ~Reading(w)'
    <3>1. r \in RowsOf(section[w])' /\ pc'[w] \in {"rows", "save"}
      BY <1>1, <1>3, <1>6, <2>2 DEF RunGoesOn, Reading, RowsOf
    <3>2. PICK k \in 1..created'[w] : r = Record(w, k)'
      BY <1>4, <3>1 DEF RunProgress
    <3>3. k \in DOMAIN made'[w]
      <4>1. made'[w] \in Seq(Contents) /\ created'[w] \in Nat /\ created'[w] <= Len(made'[w])
        BY <1>4, <3>1 DEF RunProgress, TypeOK
      <4> QED BY <4>1
    <3> QED BY <1>4, <3>2, <3>3 DEF RunProgress, Record, RowPath
  <2>3. CASE r.section # section[w]
    <3>1. r \in RowsOf(r.section)' /\ RowsOf(r.section)' = RowsOf(r.section)
      BY <1>1, <2>1, <2>3 DEF RunGoesOn, OthersKept, RowsOf
    <3>2. r \in rows /\ Stored(<<r.section, r.seq>>, r.checksum)
      BY <1>2, <2>3, <3>1 DEF RecordsAgree, Replaced, RowsOf, RowPath
    <3> QED BY <1>1, <2>1, <2>3, <3>2 DEF RunGoesOn, OthersKept, RowPath
  <2> QED BY <2>0, <2>2, <2>3
<1>7. RecordsAgree'
  BY <1>6 DEF RecordsAgree
<1> QED BY <1>4, <1>5, <1>7

\* The only run there is saves its section and creates its records unopposed.
LEMMA NothingRefused ==
    ASSUME TypeOK, RunInv, RunsExist, NEW w \in Workers
    PROVE  ~RowRefused(w)
<1> SUFFICES ASSUME RowRefused(w) PROVE FALSE
  OBVIOUS
<1>1. Exists(section[w]) /\ RunProgress(w)
  BY DEF RowRefused, RunsExist, Generating, RunInv, Progress
<1>2. /\ pc[w] = "rows" /\ <<section[w], created[w]>> \in PathsOf(section[w])
      /\ created[w] \in Nat
  BY <1>1 DEF RowRefused, RowAccepted, TypeOK
<1>3. PICK r \in RowsOf(section[w]) : RowPath(r) = <<section[w], created[w]>>
  BY <1>2 DEF PathsOf
<1>4. PICK k \in 1..created[w] : r = Record(w, k)
  BY <1>1, <1>2, <1>3 DEF RunProgress
<1> QED BY <1>2, <1>3, <1>4 DEF Record, RowPath

LEMMA IndexStep ==
    ASSUME OneWorker, TypeOK, RunInv, IndexInv, [Next]_vars
    PROVE  IndexInv'
<1> SUFFICES ASSUME faults' = 0 PROVE IndexAgrees' /\ RecordsAgree' /\ RunsExist'
  BY DEF IndexInv
<1>0. ~Fault /\ TypeOK'
  BY TypeStep DEF Fault, TypeOK
<1>1. CASE UNCHANGED vars
  <2>1. UNCHANGED <<status, rows, store, index, listing, section, made, pc, faults>>
    BY <1>1 DEF vars, dbVars, storageVars, runVars
  <2> QED BY <2>1, IndexKept DEF IndexInv, Calm, Generating, Reading
<1>2. CASE Next
  <2>1. faults = 0
    <3>1. CASE \E s \in Sections : MarkStale(s) \/ MarkLost(s)
                                    \/ \E pk \in Pks, version \in 0..MaxEdits : Edit(s, pk, version)
      BY <1>0, <3>1 DEF Edit, MarkStale, MarkLost
    <3>2. ASSUME NEW w \in Workers, Begin(w) PROVE faults = 0
      BY <1>0, <3>2 DEF Begin, BeginAll, BeginOne, BeginIndex, RequestIndex
    <3>3. ASSUME NEW w \in Workers, Step(w) PROVE faults = 0
      <4>1. CASE \E s \in Sections : StartSection(w, s)
        BY <1>0, <4>1 DEF StartSection
      <4>2. CASE EndTask(w) \/ ReadChunk(w) \/ TakeEntry(w) \/ PublishShard(w)
        BY <1>0, <4>2 DEF EndTask, ReadChunk, TakeEntry, PublishShard
      <4>3. CASE DeleteRows(w) \/ CreateRow(w) \/ Tidy(w) \/ SaveSection(w) \/ RowRefused(w)
        BY <1>0, <4>3 DEF DeleteRows, CreateRow, Tidy, SaveSection, RowRefused
      <4>4. CASE ListFiles(w) \/ WriteIndex(w) \/ IndexRefused(w)
        BY <1>0, <4>4 DEF ListFiles, WriteIndex, IndexRefused
      <4> QED BY <3>3, <4>1, <4>2, <4>3, <4>4 DEF Step
    <3>4. ~\E w \in Workers : (\E s \in Sections : StartFails(w, s))
                              \/ GenerationFails(w) \/ IndexFails(w) \/ Crash(w)
      BY <1>0 DEF StartFails, GenerationFails, IndexFails, Crash
    <3> QED BY <1>2, <3>1, <3>2, <3>3, <3>4 DEF Next
  <2>2. IndexAgrees /\ RecordsAgree /\ RunsExist
    BY <2>1 DEF IndexInv
  <2>3. CASE QuietStep
    BY <2>2, <2>3, QuietIndex
  <2>4. ASSUME NEW w \in Workers, InsideStep(w) PROVE IndexAgrees' /\ RecordsAgree' /\ RunsExist'
    BY <1>0, <2>2, <2>4, InsideIndex
  <2>5. ASSUME NEW w \in Workers, SaveSection(w) PROVE IndexAgrees' /\ RecordsAgree' /\ RunsExist'
    <3>1. /\ UNCHANGED <<status, rows, store, index, listing, section>>
          /\ pc[w] = "save" /\ pc'[w] = "index"
      BY <2>5 DEF SaveSection, Forget, Goto, storageVars, TypeOK
    <3> QED BY <2>2, <3>1, IndexKept DEF OneWorker, Calm, Generating, Reading
  <2>6. \A w \in Workers : ~FailureStep(w)
    BY <1>0, <2>2, NothingRefused DEF FailureStep, GenerationFails, Crash
  <2>7. ASSUME NEW w \in Workers, NEW s \in Sections, StartSection(w, s)
        PROVE  IndexAgrees' /\ RecordsAgree' /\ RunsExist'
    <3>1. /\ UNCHANGED <<status, rows, store, index, listing>>
          /\ section'[w] = s /\ pc[w] = "pick" /\ pc'[w] \in {"read", "pick"}
          /\ Generating(w)' => Exists(s)
      BY <2>7, StartSectionRun DEF storageVars
    <3>2. \A v \in Workers : v = w
      BY DEF OneWorker
    <3>3. IndexAgrees'
      BY <2>2, <3>1, <3>2, ListableKept DEF IndexAgrees, Calm
    <3>4. RecordsAgree' /\ RunsExist'
      BY <2>2, <3>1, <3>2 DEF RecordsAgree, Replaced, RunsExist, Stored, RowPath, Exists
    <3> QED BY <3>3, <3>4
  <2> QED BY <1>2, <2>3, <2>4, <2>5, <2>6, <2>7, NextSteps
<1> QED BY <1>1, <1>2

LEMMA IndexInit == Init => IndexInv
BY DEF Init, IndexInv, IndexAgrees, RecordsAgree, RunsExist, Generating

LEMMA IndexInvariant == OneWorker => (Spec => []IndexInv)
<1> SUFFICES ASSUME OneWorker PROVE Spec => []IndexInv
  OBVIOUS
<1>1. TypeOK /\ RunInv /\ IndexInv /\ [Next]_vars => IndexInv'
  BY IndexStep
<1> QED
  BY <1>1, IndexInit, RunInvariant, TypeCorrect, PTL DEF Spec

\* With one worker that nothing has failed, and as long as they fit in one, the index
\* is of exactly the files of the active sections, but between a run's change of the
\* records and the index that follows.
THEOREM IndexIsComplete == OneWorker => (Spec => []IndexComplete)
<1>1. IndexInv => IndexComplete
  BY DEF IndexInv, IndexAgrees, IndexComplete, IndexDue
<1> QED
  BY <1>1, IndexInvariant, PTL

\* ... and every record has the checksum of the file in storage, but for the shards a
\* run has replaced and not yet recorded.
THEOREM ChecksumsAgree == OneWorker => (Spec => []ChecksumOfContents)
<1>1. IndexInv => ChecksumOfContents
  BY DEF IndexInv, RecordsAgree, ChecksumOfContents
<1> QED
  BY <1>1, IndexInvariant, PTL

\* ... so that no link of the index is dead.
THEOREM NoLinkDead == OneWorker => (Spec => []NoDeadLinks)
<1>1. ASSUME TypeOK, RunInv, IndexInv PROVE NoDeadLinks
  <2> SUFFICES ASSUME IndexDue, NEW path \in index
               PROVE  \E f \in store : f.path = path
    BY DEF NoDeadLinks
  <2>1. PICK r \in rows : RowPath(r) = path
    BY <1>1 DEF IndexInv, IndexAgrees, IndexDue, Listable, PathsOf, RowsOf
  <2>2. CASE Stored(RowPath(r), r.checksum)
    BY <2>1, <2>2 DEF Stored
  <2>3. ASSUME NEW w \in Workers, Replaced(w, r) PROVE \E f \in store : f.path = path
    <3>1. Exists(section[w]) /\ RunProgress(w)
      BY <1>1, <2>3 DEF IndexInv, IndexDue, RunsExist, RunInv, Progress, Replaced, Generating
    <3>2. r.seq + 1 \in DOMAIN made[w] /\ (r.seq + 1) - 1 = r.seq
      BY <1>1, <2>3 DEF Replaced, TypeOK
    <3>3. Stored(<<section[w], (r.seq + 1) - 1>>, made[w][r.seq + 1])
      BY <3>1, <3>2 DEF RunProgress
    <3> QED BY <2>1, <2>3, <3>2, <3>3 DEF Stored, Replaced, RowPath
  <2> QED BY <1>1, <2>2, <2>3 DEF IndexInv, IndexDue, RecordsAgree
<1> QED
  BY <1>1, IndexInvariant, RunInvariant, TypeCorrect, PTL

-----------------------------------------------------------------------------
(* What a flag that goes down means *)

\* What the run collected is in its shards, and these are in the records.
LEMMA SavedIsComplete ==
    ASSUME NEW w \in Workers, TypeOK, RunProgress(w), CoverInv, pc[w] = "save"
    PROVE  LeftAlone(w) \subseteq Recorded(section[w])
<1> SUFFICES ASSUME NEW pk \in Pks, urls[section[w]][pk] \in 1..since[w]
             PROVE  <<pk, urls[section[w]][pk]>> \in Recorded(section[w])
  BY DEF LeftAlone
<1> DEFINE e == <<pk, urls[section[w]][pk]>>
<1>1. Generating(w) /\ chunk[w] = <<>> /\ buf[w] = <<>>
  BY DEF CoverInv, ShardInv, ShardsWhileReading, NothingLeft, Generating
<1>2. Collected(w, e)
  <2>1. MissesNone(w)
    BY <1>1 DEF CoverInv, MissInv, NothingMissed
  <2>2. urls[section[w]][pk] # 0 /\ urls[section[w]][pk] <= since[w]
    OBVIOUS
  <2> QED BY <2>1, <2>2 DEF MissesNone
<1>3. PICK k \in DOMAIN made[w] : \E i \in DOMAIN made[w][k] : made[w][k][i] = e
  BY <1>1, <1>2 DEF Collected
<1>4. k \in 1..created[w]
  BY DEF RunProgress, TypeOK
<1>5. Record(w, k) \in RowsOf(section[w])
  BY <1>4 DEF RunProgress
<1>6. e \in EntriesOf(Record(w, k).checksum)
  BY <1>3 DEF EntriesOf, Record
<1> QED BY <1>5, <1>6 DEF Recorded

LEMMA FlagsStayUp ==
    ASSUME TypeOK, OneWorker, RunInv, [Next]_vars, NEW s \in Sections, stale[s], ~stale'[s]
    PROVE  \E w \in Workers : SaveSection(w) /\ section[w] = s
<1> USE DEF siteVars, dbVars, storageVars, runVars
<1>1. CASE UNCHANGED vars
  BY <1>1 DEF vars
<1>2. CASE QuietStep
  <2>1. UNCHANGED stale \/ \E t \in Sections : MarkStale(t)
    BY <1>2 DEF QuietStep, Edit, MarkLost, Begin, BeginAll, BeginOne, RequestIndex,
                BeginIndex, EndTask, ListFiles, WriteIndex, IndexRefused, IndexFails, StartFails
  <2> QED BY <2>1 DEF MarkStale, TypeOK
<1>3. ASSUME NEW w \in Workers, InsideStep(w) PROVE FALSE
  BY <1>3, InsideRun DEF RunGoesOn
<1>4. ASSUME NEW w \in Workers, FailureStep(w) PROVE FALSE
  BY <1>4 DEF FailureStep, RowRefused, GenerationFails, Crash
<1>5. ASSUME NEW w \in Workers, NEW t \in Sections, StartSection(w, t) PROVE FALSE
  BY <1>5, StartSectionRun
<1>6. PICK w \in Workers : SaveSection(w)
  BY <1>1, <1>2, <1>3, <1>4, <1>5, NextSteps
<1> QED BY <1>6 DEF SaveSection, TypeOK

LEMMA DownStep ==
    ASSUME TypeOK, OneWorker, RunInv, CoverInv, [Next]_vars, NEW s \in Sections
    PROVE  LoweredWhenComplete(s)
<1> SUFFICES ASSUME stale[s], ~stale'[s]
             PROVE  /\ Published(s)'
                    /\ \E w \in Workers : /\ Generating(w) /\ section[w] = s
                                          /\ LeftAlone(w) \subseteq Recorded(s)'
  BY DEF LoweredWhenComplete
<1>1. PICK w \in Workers : SaveSection(w) /\ section[w] = s
  BY FlagsStayUp
<1>2. pc[w] = "save" /\ Generating(w) /\ RunProgress(w) /\ UNCHANGED <<rows, store>>
  BY <1>1 DEF SaveSection, Generating, RunInv, Progress, storageVars
<1>3. Published(s) /\ LeftAlone(w) \subseteq Recorded(s)
  BY <1>1, <1>2, SavedIsPublished, SavedIsComplete
<1>4. Published(s)' /\ Recorded(s)' = Recorded(s)
  BY <1>2, <1>3 DEF Published, Recorded, RowsOf, PathsOf, RowPath, Stored
<1> QED BY <1>1, <1>2, <1>3, <1>4

-----------------------------------------------------------------------------
(* Sections come and go, and the admin acts *)

NoCleanup == ~Cleanups /\ cleanStep = "idle"

\* Files are deleted once the row is gone, and only those of that section.
DeletedFirst ==
    /\ delPaths \subseteq {delSection} \X Nat
    /\ delStep = "files" => status[delSection] = "gone"

\* A section that is yet to be created is flagged from the start.
FlaggedFirst == \A s \in Sections : status[s] = "future" => stale[s]

MaintenanceInv == RunInv /\ DeletedFirst /\ FlaggedFirst
FlagsRight == TasksAreFlagged /\ FreshIsPublished

-----------------------------------------------------------------------------
LEMMA SectionPaths ==
    ASSUME TypeOK, NEW s \in Sections
    PROVE  PathsOf(s) \subseteq {s} \X Nat /\ PathsOf(s) \subseteq Paths
BY DEF PathsOf, RowsOf, RowPath, Paths, TypeOK

LEMMA MaintenanceTypeStep ==
    ASSUME MaintenanceTypeOK, [MaintenanceNext]_allVars
    PROVE  MaintenanceTypeOK'
<1> USE GenerationAssumption DEF MaintenanceTypeOK
<1> USE DEF siteVars, dbVars, storageVars, runVars, workerVars, deleteVars, cleanupVars
<1>0. CASE UNCHANGED allVars
  <2>1. UNCHANGED <<vars, formVars, deleteVars, cleanupVars>>
    BY <1>0 DEF allVars
  <2>2. TypeOK'
    BY <2>1, TypeStep
  <2> QED BY <2>1, <2>2 DEF formVars
<1>f. ASSUME TypeOK', Shown, byHand' \subseteq Sections
      PROVE  shown' \in [Sections -> SUBSET BOOLEAN] /\ byHand' \subseteq Sections
  BY <1>f DEF Shown, TypeOK
<1>n. ASSUME TypeOK', NoForm
      PROVE  shown' \in [Sections -> SUBSET BOOLEAN] /\ byHand' \subseteq Sections
  <2>1. Shown /\ byHand' \subseteq Sections
    BY <1>n DEF NoForm
  <2> QED BY <1>f, <1>n, <2>1
<1>1. CASE Next /\ UNCHANGED <<deleteVars, cleanupVars>> /\ NoForm
  <2>1. TypeOK'
    BY <1>1, TypeStep
  <2> QED BY <1>1, <1>n, <2>1
<1>2. ASSUME NEW s \in Sections, CreateSection(s) \/ MarkSelected(s)
      PROVE  MaintenanceTypeOK'
  <2>1. /\ status' \in [Sections -> {"future", "active", "inactive", "gone"}]
        /\ stale' \in [Sections -> BOOLEAN]
    BY <1>2 DEF CreateSection, MarkSelected, TypeOK
  <2>2. TypeOK'
    BY <1>2, <2>1 DEF CreateSection, MarkSelected, TypeOK
  <2> QED BY <1>2, <1>n, <2>2 DEF CreateSection, MarkSelected
<1>2a. ASSUME NEW s \in Sections, NEW active \in BOOLEAN, NEW flag \in BOOLEAN,
              AddForm(s, active, flag) \/ ChangeForm(s, active, flag)
       PROVE  MaintenanceTypeOK'
  <2>1. Posted(s, active, flag)
    BY <1>2a DEF AddForm, ChangeForm
  <2>2. /\ status' \in [Sections -> {"future", "active", "inactive", "gone"}]
        /\ stale' \in [Sections -> BOOLEAN]
    BY <2>1 DEF Posted, TypeOK
  <2>3. TypeOK'
    BY <2>1, <2>2 DEF Posted, TypeOK
  <2>4. Shown /\ byHand' \subseteq Sections
    BY <2>1 DEF Posted
  <2> QED BY <1>f, <2>1, <2>3, <2>4 DEF Posted
<1>3. ASSUME NEW s \in Sections, NEW w \in Workers, RegenerateSelected(w, s)
      PROVE  MaintenanceTypeOK'
  <2>1. TypeOK'
    BY <1>3 DEF RegenerateSelected, Goto, TypeOK, PCs
  <2> QED BY <1>3, <1>n, <2>1 DEF RegenerateSelected
<1>4. ASSUME NEW s \in Sections, CollectPaths(s) PROVE MaintenanceTypeOK'
  <2>1. TypeOK'
    BY <1>4, TypeStep DEF CollectPaths
  <2> QED BY <1>4, <1>n, <2>1, SectionPaths DEF CollectPaths
<1>5. CASE DeleteRow
  <2>1. /\ status' \in [Sections -> {"future", "active", "inactive", "gone"}]
        /\ rows' \subseteq rows
        /\ log' \in [Workers -> {"none", "running", "success", "failed"}]
    BY <1>5 DEF DeleteRow, TypeOK
  <2>2. TypeOK'
    BY <1>5, <2>1 DEF DeleteRow, TypeOK
  <2> QED BY <1>5, <1>n, <2>2 DEF DeleteRow
<1>6. CASE DeleteFiles \/ DeleteCrashes
  <2>1. store' \subseteq store /\ faults' \in 0..MaxFaults
    BY <1>6 DEF DeleteFiles, DeleteCrashes, Drop, Fault, TypeOK
  <2>2. TypeOK'
    BY <1>6, <2>1 DEF DeleteFiles, DeleteCrashes, TypeOK
  <2> QED BY <1>6, <1>n, <2>2 DEF DeleteFiles, DeleteCrashes
<1>7. CASE KnownPaths
  <2>1. TypeOK'
    BY <1>7, TypeStep DEF KnownPaths
  <2>2. {RowPath(r) : r \in rows} \subseteq Paths
    BY DEF RowPath, Paths, TypeOK
  <2> QED BY <1>7, <1>n, <2>1, <2>2 DEF KnownPaths
<1>8. CASE ListDirectory
  <2>1. TypeOK'
    BY <1>8, TypeStep DEF ListDirectory
  <2>2. {f.path : f \in store} \subseteq Paths
    BY DEF TypeOK
  <2> QED BY <1>8, <1>n, <2>1, <2>2 DEF ListDirectory
<1>9. CASE CleanupEnds
  <2>1. TypeOK'
    BY <1>9 DEF CleanupEnds, Fault, TypeOK
  <2> QED BY <1>9, <1>n, <2>1 DEF CleanupEnds
<1>10. ASSUME NEW path \in found, LookAt(path) \/ DeleteFails(path)
       PROVE  MaintenanceTypeOK'
  <2>1. /\ store' \subseteq store /\ faults' \in 0..MaxFaults
        /\ index' = NoIndex \/ index' \subseteq Paths
    BY <1>10 DEF LookAt, DeleteFails, Remove, Drop, Fault, TypeOK
  <2>2. TypeOK'
    BY <1>10, <2>1 DEF LookAt, DeleteFails, TypeOK
  <2> QED BY <1>10, <1>n, <2>2 DEF LookAt, DeleteFails
<1> QED
  BY <1>0, <1>1, <1>2, <1>2a, <1>3, <1>4, <1>5, <1>6, <1>7, <1>8, <1>9, <1>10
     DEF MaintenanceNext, CleanupStep

\* The type invariant of a site with all its maintenance.
THEOREM MaintenanceTypeCorrect == MaintenanceSpec => []MaintenanceTypeOK
<1>1. MaintenanceInit => MaintenanceTypeOK
  BY TypeInit, GenerationAssumption DEF MaintenanceInit, MaintenanceTypeOK
<1>2. MaintenanceTypeOK /\ [MaintenanceNext]_allVars => MaintenanceTypeOK'
  BY MaintenanceTypeStep
<1> QED
  BY <1>1, <1>2, PTL DEF MaintenanceSpec

-----------------------------------------------------------------------------
LEMMA StepOfGeneration ==
    ASSUME OneWorker, MaintenanceTypeOK, MaintenanceInv, Next, UNCHANGED deleteVars, NoForm
    PROVE  MaintenanceInv' /\ (StaleOnly /\ FlagsRight => FlagsRight')
<1>1. RunInv' /\ (StaleOnly /\ FlagsRight => FlagsRight')
  BY RunStep, FlagStep DEF MaintenanceInv, MaintenanceTypeOK, FlagInv, FlagsRight
<1>2. UNCHANGED status
  <2>2. ASSUME NEW t \in Sections,
               (\E pk \in Pks, v \in 0..MaxEdits : Edit(t, pk, v)) \/ MarkStale(t) \/ MarkLost(t)
        PROVE  UNCHANGED status
    BY <2>2 DEF Edit, MarkStale, MarkLost, dbVars
  <2>3. ASSUME NEW w \in Workers, Begin(w) PROVE UNCHANGED status
    BY <2>3 DEF Begin, BeginAll, BeginOne, RequestIndex, BeginIndex, dbVars
  <2>4. ASSUME NEW w \in Workers, Step(w) PROVE UNCHANGED status
    BY <2>4 DEF Step, StartSection, EndTask, ReadChunk, TakeEntry, PublishShard, DeleteRows,
                CreateRow, Tidy, SaveSection, RowRefused, ListFiles, WriteIndex, IndexRefused,
                dbVars
  <2>5. ASSUME NEW w \in Workers,
               \/ \E t \in Sections : StartFails(w, t)
               \/ GenerationFails(w) \/ IndexFails(w) \/ Crash(w)
        PROVE  UNCHANGED status
    BY <2>5 DEF StartFails, GenerationFails, IndexFails, Crash, dbVars
  <2> QED BY <2>2, <2>3, <2>4, <2>5 DEF Next
<1>3. FlaggedFirst'
  <2> SUFFICES ASSUME NEW s \in Sections, status[s] = "future", stale[s] PROVE stale'[s]
    BY <1>2 DEF MaintenanceInv, FlaggedFirst
  <2>1. SUFFICES ASSUME ~stale'[s] PROVE FALSE
    OBVIOUS
  <2>2. PICK w \in Workers : SaveSection(w) /\ section[w] = s
    BY <2>1, FlagsStayUp DEF MaintenanceInv, MaintenanceTypeOK
  <2> QED BY <2>2 DEF SaveSection, Exists
<1> QED
  BY <1>1, <1>2, <1>3 DEF MaintenanceInv, DeletedFirst, deleteVars, MaintenanceTypeOK

\* Steps outside the generation that raise flags at most, or lower them by hand.
LEMMA FlagsBeside ==
    ASSUME MaintenanceTypeOK, TasksAreFlagged, UNCHANGED section,
           \A s \in Sections : Flagged(s) => Flagged(s)',
           \A w \in Workers : /\ Generating(w)' => Generating(w) /\ queue'[w] = queue[w]
                              /\ \A s \in queue'[w] : s \in queue[w] \/ Flagged(s)'
    PROVE  TasksAreFlagged'
<1> SUFFICES ASSUME NEW w \in Workers
             PROVE  /\ \A s \in queue'[w] : Flagged(s)'
                    /\ Generating(w)' => Flagged(section[w])' /\ section[w] \notin queue'[w]
  BY DEF TasksAreFlagged, Flagged
<1>1. section[w] \in Sections /\ queue[w] \subseteq Sections
  BY DEF MaintenanceTypeOK, TypeOK
<1>2. \A s \in queue'[w] : Flagged(s)'
  BY <1>1 DEF TasksAreFlagged
<1>3. Generating(w)' => Flagged(section[w]) /\ section[w] \notin queue'[w]
  BY DEF TasksAreFlagged
<1>4. Flagged(section[w]) => Flagged(section[w])'
  BY <1>1 DEF Flagged
<1> QED BY <1>2, <1>3, <1>4

\* A section is created flagged, or its form unticks the flag, and no run was of it
\* before.
LEMMA CreateSectionStep ==
    ASSUME MaintenanceTypeOK, MaintenanceInv, NEW s \in Sections,
           \/ CreateSection(s)
           \/ \E active, flag \in BOOLEAN : AddForm(s, active, flag)
    PROVE  MaintenanceInv' /\ (FlagsRight => FlagsRight')
<1> USE DEF MaintenanceInv, MaintenanceTypeOK
<1>1. /\ UNCHANGED <<rows, store, pc, queue, section, oldPaths, made, created, deleteVars>>
      /\ status[s] = "future" /\ status'[s] \in {"active", "inactive"}
      /\ \A t \in Sections : t # s => status'[t] = status[t] /\ stale'[t] = stale[t]
  BY DEF CreateSection, AddForm, Posted, storageVars, workerVars, runVars, TypeOK
<1>2. Flagged(s)'
  <2>1. stale[s]
    BY <1>1 DEF FlaggedFirst
  <2> QED BY <2>1 DEF CreateSection, AddForm, Posted, Flagged, TypeOK
<1>3. \A t \in Sections : Flagged(t) => Flagged(t)'
  <2> SUFFICES ASSUME NEW t \in Sections, t # s, t \in byHand, ~stale[t] PROVE t \in byHand'
    BY <1>1, <1>2 DEF Flagged
  <2>1. CASE CreateSection(s)
    <3>1. UNCHANGED pc /\ NoForm
      BY <2>1 DEF CreateSection, workerVars
    <3> QED BY <1>1, <3>1 DEF NoForm, RunEnds
  <2>2. ASSUME NEW active \in BOOLEAN, NEW flag \in BOOLEAN, AddForm(s, active, flag)
        PROVE  t \in byHand'
    BY <2>2 DEF AddForm, Posted
  <2> QED BY <2>1, <2>2
<1>4. \A w \in Workers : section[w] \in Sections /\ queue[w] \subseteq Sections
  BY DEF TypeOK
<1>5. \A w \in Workers : Generating(w) => section[w] # s
  BY <1>1 DEF RunInv, Begun
<1>6. TasksAreFlagged => TasksAreFlagged'
  BY <1>1, <1>3, FlagsBeside DEF Generating
<1>7. OwnPaths' /\ Begun' /\ Progress'
  BY <1>1, <1>4, <1>5
     DEF RunInv, OwnPaths, Begun, Progress, Generating, Exists, RunProgress, Stored, RowsOf, Record
<1>8. FreshIsPublished => FreshIsPublished'
  <2> SUFFICES ASSUME FreshIsPublished, NEW t \in Sections, Exists(t)', ~Flagged(t)'
               PROVE  Published(t)'
    BY DEF FreshIsPublished
  <2>1. Published(t)
    BY <1>1, <1>2, <1>3 DEF FreshIsPublished, Exists
  <2> QED BY <1>1, <2>1 DEF Published, RowsOf, PathsOf, RowPath, Stored
<1>9. DeletedFirst' /\ FlaggedFirst'
  <2>1. status'[s] \notin {"future", "gone"} /\ status[s] # "gone"
    BY <1>1
  <2> QED BY <1>1, <2>1 DEF DeletedFirst, FlaggedFirst, deleteVars
<1> QED BY <1>6, <1>7, <1>8, <1>9 DEF RunInv, FlagsRight

\* The change form, mark_stale and regenerate_selected, and the paths noted for a
\* delete: a section exists as before and no flag goes down but by the form.
LEMMA AdminStep ==
    ASSUME OneWorker, MaintenanceTypeOK, MaintenanceInv, NEW s \in Sections,
           \/ \E active, flag \in BOOLEAN : ChangeForm(s, active, flag)
           \/ MarkSelected(s) \/ CollectPaths(s)
           \/ \E w \in Workers : RegenerateSelected(w, s)
    PROVE  MaintenanceInv' /\ (FlagsRight => FlagsRight')
<1> USE DEF MaintenanceInv, MaintenanceTypeOK
<1> USE DEF ChangeForm, Posted, MarkSelected, CollectPaths, RegenerateSelected
<1>1. UNCHANGED <<rows, store, section, oldPaths, made, created>>
  BY DEF dbVars, storageVars, workerVars, runVars, vars
<1>2. \A t \in Sections : /\ Exists(t) <=> Exists(t)'
                          /\ status[t] \in {"future", "gone"} => status'[t] = status[t]
                          /\ status'[t] = "future" => status[t] = "future"
                          /\ status[t] = "future" /\ stale[t] => stale'[t]
  BY DEF Exists, dbVars, vars, TypeOK
<1>3. \A t \in Sections : Flagged(t) => Flagged(t)'
  <2>1. CASE \E active, flag \in BOOLEAN : ChangeForm(s, active, flag)
    BY <2>1 DEF Flagged, TypeOK
  <2>2. CASE MarkSelected(s) \/ CollectPaths(s) \/ \E w \in Workers : RegenerateSelected(w, s)
    <3>1. NoForm /\ \A t \in Sections : stale[t] => stale'[t]
      BY <2>2 DEF dbVars, vars, TypeOK
    <3>2. \A w \in Workers : pc[w] = "save" => pc'[w] # "index"
      BY <2>2 DEF Goto, workerVars, vars, TypeOK
    <3> QED BY <3>1, <3>2, FlagsKept DEF RunEnds
  <2> QED BY <2>1, <2>2
<1>4. \A w \in Workers : /\ Generating(w)' => Generating(w) /\ pc'[w] = pc[w]
                         /\ \A t \in queue'[w] : t \in queue[w] \/ Flagged(t)'
                         /\ Generating(w)' => queue'[w] = queue[w]
  <2>1. CASE \E w \in Workers : RegenerateSelected(w, s)
    <3>1. PICK w \in Workers : RegenerateSelected(w, s)
      BY <2>1
    <3>2. stale'[s] /\ queue'[w] = {s} /\ ~Generating(w)' /\ \A v \in Workers : v = w
      BY <3>1 DEF Generating, Goto, TypeOK, OneWorker
    <3> QED BY <3>2 DEF Flagged
  <2>2. CASE ~\E w \in Workers : RegenerateSelected(w, s)
    <3>1. UNCHANGED <<pc, queue>>
      BY <2>2 DEF workerVars, vars
    <3> QED BY <3>1 DEF Generating
  <2> QED BY <2>1, <2>2
<1>5. \A w \in Workers : section[w] \in Sections /\ queue[w] \subseteq Sections
  BY DEF TypeOK
<1>6. OwnPaths' /\ (TasksAreFlagged => TasksAreFlagged')
  BY <1>1, <1>3, <1>4, FlagsBeside DEF RunInv, OwnPaths
<1>7. Begun' /\ Progress'
  BY <1>1, <1>2, <1>4, <1>5
     DEF RunInv, Begun, Progress, RunProgress, Stored, RowsOf, Record
<1>8. FreshIsPublished => FreshIsPublished'
  <2> SUFFICES ASSUME FreshIsPublished, NEW t \in Sections, Exists(t)', ~Flagged(t)'
               PROVE  Published(t)'
    BY DEF FreshIsPublished
  <2>1. Published(t)
    BY <1>2, <1>3 DEF FreshIsPublished
  <2> QED BY <1>1, <2>1 DEF Published, RowsOf, PathsOf, RowPath, Stored
<1>9. DeletedFirst' /\ FlaggedFirst'
  BY <1>2, SectionPaths DEF DeletedFirst, FlaggedFirst, deleteVars, vars
<1> QED BY <1>6, <1>7, <1>8, <1>9 DEF RunInv, FlagsRight

\* A run of the deleted section has nothing left to promise.
LEMMA DeleteRowStep ==
    ASSUME MaintenanceTypeOK, MaintenanceInv, DeleteRow
    PROVE  MaintenanceInv' /\ (FlagsRight => FlagsRight')
<1> USE DEF MaintenanceInv, MaintenanceTypeOK
<1>1. /\ UNCHANGED <<stale, store, pc, queue, section, oldPaths, made, created, delSection, delPaths>>
      /\ status' = [status EXCEPT ![delSection] = "gone"]
      /\ rows' = rows \ RowsOf(delSection)
  BY DEF DeleteRow, storageVars, workerVars, runVars
<1>2. /\ status'[delSection] = "gone"
      /\ \A t \in Sections : t # delSection => status'[t] = status[t] /\ RowsOf(t)' = RowsOf(t)
  BY <1>1 DEF TypeOK, RowsOf
<1>3. \A w \in Workers : section[w] \in Sections
  BY DEF TypeOK
<1>f. \A t \in Sections : Flagged(t) => Flagged(t)'
  BY <1>1, FlagsKept DEF DeleteRow, RunEnds
<1>4. OwnPaths' /\ (TasksAreFlagged => TasksAreFlagged')
  BY <1>1, <1>f, FlagsBeside DEF RunInv, OwnPaths, Generating
<1>5. ASSUME NEW w \in Workers, Generating(w)'
      PROVE  /\ status'[section[w]] # "future"
             /\ Exists(section[w])' => RunProgress(w)'
  <2>1. Generating(w) /\ status[section[w]] # "future"
    BY <1>1, <1>5 DEF RunInv, Begun, Generating
  <2>2. CASE section[w] = delSection
    BY <1>1, <1>2, <2>2 DEF Exists
  <2>3. CASE section[w] # delSection
    <3>1. status'[section[w]] = status[section[w]] /\ RowsOf(section[w])' = RowsOf(section[w])
      <4>1. \A t \in Sections : t # delSection => {r \in rows' : r.section = t} = RowsOf(t)
        BY <1>2 DEF RowsOf
      <4> QED BY <1>1, <1>2, <1>3, <2>3, <4>1 DEF RowsOf
    <3>2. Exists(section[w]) => RunProgress(w)
      BY <2>1 DEF RunInv, Progress
    <3> QED BY <1>1, <2>1, <3>1, <3>2 DEF Exists, RunProgress, Stored, Record
  <2> QED BY <2>2, <2>3
<1>6. ASSUME FreshIsPublished, NEW t \in Sections, Exists(t)', ~Flagged(t)' PROVE Published(t)'
  <2>1. t # delSection /\ Published(t)
    BY <1>1, <1>2, <1>f, <1>6 DEF FreshIsPublished, Exists
  <2> QED BY <1>1, <1>2, <2>1, PublishedKept DEF Stored
<1>7. DeletedFirst' /\ FlaggedFirst'
  BY <1>1, <1>2 DEF DeletedFirst, FlaggedFirst
<1> QED
  BY <1>1, <1>4, <1>5, <1>6, <1>7 DEF RunInv, Begun, Progress, FlagsRight, FreshIsPublished

\* The files deleted are of a section that is gone.
LEMMA DeleteFilesStep ==
    ASSUME MaintenanceTypeOK, MaintenanceInv, DeleteFiles \/ DeleteCrashes
    PROVE  MaintenanceInv' /\ (FlagsRight => FlagsRight')
<1> USE DEF MaintenanceInv, MaintenanceTypeOK
<1>1. /\ UNCHANGED <<status, stale, rows, pc, queue, section, oldPaths, made, created>>
      /\ UNCHANGED <<delSection, delPaths>> /\ delStep' = "idle"
  BY DEF DeleteFiles, DeleteCrashes, dbVars, workerVars, runVars
<1>2. ASSUME NEW t \in Sections, Exists(t), NEW n \in Nat, NEW c, Stored(<<t, n>>, c)
      PROVE  Stored(<<t, n>>, c)'
  <2>1. CASE DeleteFiles
    <3>1. <<t, n>> \notin delPaths
      BY <1>2, <2>1 DEF DeleteFiles, DeletedFirst, Exists
    <3> QED BY <1>2, <2>1, <3>1 DEF DeleteFiles, Drop, Stored
  <2>2. CASE DeleteCrashes
    BY <1>2, <2>2 DEF DeleteCrashes, storageVars, Stored
  <2> QED BY <2>1, <2>2
<1>3. \A w \in Workers : section[w] \in Sections /\ made[w] \in Seq(Contents)
  BY DEF TypeOK
<1>f. \A t \in Sections : Flagged(t) => Flagged(t)'
  BY <1>1, FlagsKept DEF DeleteFiles, DeleteCrashes, RunEnds
<1>4. Begun' /\ OwnPaths' /\ (TasksAreFlagged => TasksAreFlagged')
  BY <1>1, <1>f, FlagsBeside DEF RunInv, Begun, OwnPaths, Generating
<1>5. ASSUME NEW w \in Workers, Generating(w)', Exists(section[w])' PROVE RunProgress(w)'
  <2>1. RunProgress(w) /\ Exists(section[w])
    BY <1>1, <1>5 DEF RunInv, Progress, Generating, Exists
  <2>2. ASSUME NEW k \in DOMAIN made[w] PROVE Stored(<<section[w], k - 1>>, made[w][k])'
    <3>1. k - 1 \in Nat
      BY <1>3
    <3>2. Stored(<<section[w], k - 1>>, made[w][k])
      BY <2>1 DEF RunProgress
    <3>3. Stored(<<section[w], k - 1>>, made[w][k])'
              <=> [path |-> <<section[w], k - 1>>, content |-> made[w][k]] \in store'
      BY <1>1 DEF Stored
    <3> QED BY <1>2, <1>3, <2>1, <3>1, <3>2, <3>3 DEF Stored
  <2> QED BY <1>1, <2>1, <2>2 DEF RunProgress, RowsOf, Record
<1>6. ASSUME FreshIsPublished, NEW t \in Sections, Exists(t)', ~Flagged(t)' PROVE Published(t)'
  <2>1. Published(t) /\ RowsOf(t)' = RowsOf(t) /\ Exists(t)
    BY <1>1, <1>f, <1>6 DEF FreshIsPublished, Exists, RowsOf
  <2> QED BY <1>2, <2>1, PublishedKept
<1>7. DeletedFirst' /\ FlaggedFirst'
  BY <1>1 DEF DeletedFirst, FlaggedFirst
<1> QED BY <1>4, <1>5, <1>6, <1>7 DEF RunInv, Progress, FlagsRight, FreshIsPublished

LEMMA MaintenanceStuttering ==
    ASSUME MaintenanceInv, UNCHANGED allVars
    PROVE  MaintenanceInv' /\ (FlagsRight => FlagsRight')
<1>1. UNCHANGED <<status, stale, rows, store, pc, queue, section, oldPaths, made, created, byHand,
                  delStep, delSection, delPaths>>
  BY DEF allVars, vars, dbVars, storageVars, runVars, formVars, deleteVars
<1>2. RunInv'
  BY <1>1 DEF MaintenanceInv, RunInv, OwnPaths, Begun, Progress, RunProgress, Generating, Exists,
              Stored, RowsOf, Record
<1>3. FlagsRight => FlagsRight'
  BY <1>1 DEF FlagsRight, TasksAreFlagged, FreshIsPublished, Flagged, Generating, Exists, Published,
              RowsOf, PathsOf, RowPath, Stored
<1> QED BY <1>1, <1>2, <1>3 DEF MaintenanceInv, DeletedFirst, FlaggedFirst

LEMMA MaintenanceStep ==
    ASSUME OneWorker, MaintenanceTypeOK, NoCleanup, MaintenanceInv, [MaintenanceNext]_allVars
    PROVE  MaintenanceInv' /\ NoCleanup' /\ (StaleOnly /\ FlagsRight => FlagsRight')
<1>1. NoCleanup'
  BY DEF NoCleanup, MaintenanceNext, allVars, cleanupVars, CreateSection, AddForm, ChangeForm, Posted,
         CollectPaths, MarkSelected, RegenerateSelected, DeleteRow, DeleteFiles, DeleteCrashes,
         KnownPaths, CleanupStep, ListDirectory, CleanupEnds, LookAt, DeleteFails
<1>2. CASE UNCHANGED allVars
  BY <1>1, <1>2, MaintenanceStuttering
<1>3. CASE Next /\ UNCHANGED <<deleteVars, cleanupVars>> /\ NoForm
  BY <1>1, <1>3, StepOfGeneration
<1>4. ~(KnownPaths \/ CleanupStep \/ \E path \in found : DeleteFails(path))
  BY DEF NoCleanup, KnownPaths, CleanupStep, ListDirectory, CleanupEnds, LookAt, DeleteFails
<1> QED
  BY <1>1, <1>2, <1>3, <1>4, CreateSectionStep, AdminStep, DeleteRowStep, DeleteFilesStep
     DEF MaintenanceNext

LEMMA MaintenanceInvariant ==
    OneWorker /\ ~Cleanups => (MaintenanceSpec => [](MaintenanceInv /\ NoCleanup))
<1> SUFFICES ASSUME OneWorker, ~Cleanups
             PROVE  MaintenanceSpec => [](MaintenanceInv /\ NoCleanup)
  OBVIOUS
<1>1. MaintenanceInit => MaintenanceInv /\ NoCleanup
  BY RunInit DEF MaintenanceInit, Init, MaintenanceInv, DeletedFirst, FlaggedFirst, NoCleanup
<1>2. MaintenanceTypeOK /\ MaintenanceInv /\ NoCleanup /\ [MaintenanceNext]_allVars
          => MaintenanceInv' /\ NoCleanup'
  BY MaintenanceStep
<1> QED
  BY <1>1, <1>2, MaintenanceTypeCorrect, PTL DEF MaintenanceSpec

\* With one worker that regenerates stale sections only, or the admin's selection, and
\* as long as no orphan cleanup runs, a section whose flag is down and that is not being
\* generated is published in full, unless a form lowered the flag: however sections are
\* created, posted and deleted meanwhile, and whatever fails.
THEOREM MaintenanceIsHonest ==
    OneWorker /\ StaleOnly /\ ~Cleanups => (MaintenanceSpec => []FlagTrustworthy)
<1> SUFFICES ASSUME OneWorker, StaleOnly, ~Cleanups PROVE MaintenanceSpec => []FlagTrustworthy
  OBVIOUS
<1>1. MaintenanceInit => FlagsRight
  BY FlagInit DEF FlagsRight, FlagInv
<1>2. MaintenanceTypeOK /\ MaintenanceInv /\ NoCleanup /\ FlagsRight /\ [MaintenanceNext]_allVars
          => FlagsRight'
  BY MaintenanceStep
<1>3. FlagsRight => FlagTrustworthy
  BY DEF FlagsRight, FreshIsPublished, FlagTrustworthy, Flagged
<1> QED
  BY <1>1, <1>2, <1>3, MaintenanceTypeCorrect, MaintenanceInvariant, PTL DEF MaintenanceSpec

-----------------------------------------------------------------------------
(* The runs of a site with all its maintenance *)

\* What is not a step of Next touches neither the data nor the locals of a run, and
\* lowers no flag but by a form.
LEMMA BesideRuns ==
    ASSUME MaintenanceTypeOK, MaintenanceNext, ~(Next /\ UNCHANGED <<deleteVars, cleanupVars>> /\ NoForm)
    PROVE  /\ UNCHANGED <<urls, edits, runVars>>
           /\ \A s \in Sections : stale[s] => stale'[s] \/ s \in byHand'
           /\ \A w \in Workers : pc'[w] = pc[w] \/ pc'[w] = "pick"
<1> USE DEF siteVars, dbVars, storageVars, workerVars, vars, MaintenanceTypeOK
<1>1. ASSUME NEW s \in Sections,
             \/ CreateSection(s) \/ CollectPaths(s) \/ MarkSelected(s)
             \/ \E w \in Workers : RegenerateSelected(w, s)
      PROVE  /\ UNCHANGED <<urls, edits, runVars>>
             /\ \A t \in Sections : stale[t] => stale'[t]
             /\ \A w \in Workers : pc'[w] = pc[w] \/ pc'[w] = "pick"
  BY <1>1 DEF CreateSection, CollectPaths, MarkSelected, RegenerateSelected, Goto, TypeOK
<1>2. ASSUME NEW s \in Sections, NEW active \in BOOLEAN, NEW flag \in BOOLEAN,
             AddForm(s, active, flag) \/ ChangeForm(s, active, flag)
      PROVE  /\ UNCHANGED <<urls, edits, runVars, pc>>
             /\ \A t \in Sections : stale[t] => stale'[t] \/ t \in byHand'
  BY <1>2 DEF AddForm, ChangeForm, Posted, TypeOK
<1>3. ASSUME DeleteRow \/ DeleteFiles \/ DeleteCrashes \/ KnownPaths \/ CleanupStep
             \/ \E path \in found : DeleteFails(path)
      PROVE  UNCHANGED <<urls, edits, runVars, stale, pc>>
  BY <1>3 DEF DeleteRow, DeleteFiles, DeleteCrashes, KnownPaths, CleanupStep, ListDirectory,
              CleanupEnds, LookAt, DeleteFails
<1> QED BY <1>1, <1>2, <1>3 DEF MaintenanceNext

LEMMA CoverKept ==
    ASSUME CoverInv, UNCHANGED <<urls, edits, runVars>>,
           \A w \in Workers : pc'[w] = pc[w] \/ pc'[w] = "pick"
    PROVE  CoverInv'
<1> USE DEF runVars, CoverInv
<1>1. \A w \in Workers : Generating(w)' => Generating(w) /\ pc'[w] = pc[w]
  BY DEF Generating
<1>2. MissInv'
  BY <1>1 DEF MissInv, NothingMissed, MissesNone, Collected, SinceInPast
<1>3. ShardInv' /\ NothingLeft'
  BY <1>1 DEF ShardInv, ShardsFilled, ShardsWhileReading, NothingLeft
<1> QED BY <1>2, <1>3

LEMMA MaintenanceCoverStep ==
    ASSUME MaintenanceTypeOK, CoverInv, [MaintenanceNext]_allVars
    PROVE  CoverInv'
<1>1. CASE [Next]_vars
  BY <1>1, CoverStep DEF MaintenanceTypeOK
<1>2. CASE ~[Next]_vars
  <2>1. MaintenanceNext /\ ~(Next /\ UNCHANGED <<deleteVars, cleanupVars>> /\ NoForm)
    BY <1>2 DEF allVars
  <2> QED BY <2>1, BesideRuns, CoverKept
<1> QED BY <1>1, <1>2

LEMMA MaintenanceCover == MaintenanceSpec => []CoverInv
<1>1. MaintenanceInit => CoverInv
  BY CoverInit DEF MaintenanceInit
<1>2. MaintenanceTypeOK /\ CoverInv /\ [MaintenanceNext]_allVars => CoverInv'
  BY MaintenanceCoverStep
<1> QED
  BY <1>1, <1>2, MaintenanceTypeCorrect, PTL DEF MaintenanceSpec

\* Whatever is edited, fails or dies, stale-only or forced, and however sections are
\* created, posted and deleted meanwhile: where no form lowers it, a flag goes down only
\* on a section that is published in full and misses no instance that was there all
\* along.
THEOREM FlagDownIsHonest ==
    OneWorker /\ ~Cleanups => (MaintenanceSpec => FlagDownWhenComplete)
<1> DEFINE Lowered == \A s \in Sections : LoweredWhenComplete(s)
<1> SUFFICES ASSUME OneWorker, ~Cleanups PROVE MaintenanceSpec => FlagDownWhenComplete
  OBVIOUS
<1>1. ASSUME MaintenanceTypeOK, MaintenanceInv, CoverInv, [MaintenanceNext]_allVars
      PROVE  [Lowered]_allVars
  <2>1. CASE [Next]_vars
    BY <1>1, <2>1, DownStep DEF MaintenanceTypeOK, MaintenanceInv
  <2>2. CASE ~[Next]_vars
    <3>1. MaintenanceNext /\ ~(Next /\ UNCHANGED <<deleteVars, cleanupVars>> /\ NoForm)
      BY <1>1, <2>2 DEF allVars
    <3> QED BY <1>1, <3>1, BesideRuns DEF LoweredWhenComplete
  <2> QED BY <2>1, <2>2
<1>2. MaintenanceSpec => [][Lowered]_allVars
  BY <1>1, MaintenanceTypeCorrect, MaintenanceInvariant, MaintenanceCover, PTL DEF MaintenanceSpec
<1> QED
  BY <1>2 DEF FlagDownWhenComplete
=============================================================================
