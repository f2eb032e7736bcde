---------------------- MODULE SitemapGenerationProofs ----------------------
(***************************************************************************)
(* Proofs about SitemapGeneration, for any number of workers and any sets  *)
(* of sections and keys.                                                   *)
(***************************************************************************)
EXTENDS SitemapGeneration, TLAPS

\* A page read by a worker is a sequence of entries and ends in its last_pk.
LEMMA PageType ==
    ASSUME NEW w \in Workers, TypeOK, NEW n \in 1..BatchSize, NEW page \in [1..n -> Pks]
    PROVE  /\ [i \in 1..n |-> <<page[i], urls[section[w]][page[i]]>>] \in Seq(Entries)
           /\ page[n] \in Pks
<1>1. n \in Nat /\ n >= 1
  BY GenerationAssumption
<1>2. page[n] \in Pks
  BY <1>1
<1>3. section[w] \in Sections /\ \A pk \in Pks : urls[section[w]][pk] \in Nat
  BY GenerationAssumption DEF TypeOK
<1>4. \A i \in 1..n : <<page[i], urls[section[w]][page[i]]>> \in Entries
  BY <1>1, <1>3 DEF Entries
<1>5. [i \in 1..n |-> <<page[i], urls[section[w]][page[i]]>>] \in [1..n -> Entries]
  BY <1>4
<1> QED BY <1>1, <1>2, <1>5

\* The locals keep their types when generate_section ends.
LEMMA ForgetType ==
    ASSUME NEW w \in Workers, TypeOK, Forget(w)
    PROVE  /\ section' \in [Workers -> Sections]
           /\ oldPaths' \in [Workers -> SUBSET Paths]
           /\ chunk' \in [Workers -> Seq(Entries)]
           /\ last' \in [Workers -> Pks \cup {0}]
           /\ buf' \in [Workers -> Contents]
           /\ made' \in [Workers -> Seq(Contents)]
           /\ created' \in [Workers -> Nat]
           /\ since' \in [Workers -> 0..MaxEdits]
<1>1. <<>> \in Seq(Entries) /\ <<>> \in Contents /\ <<>> \in Seq(Contents)
  BY DEF Contents
<1> QED
  BY <1>1, GenerationAssumption DEF TypeOK, Forget

LEMMA TypeInit == Init => TypeOK
<1> USE GenerationAssumption
<1> SUFFICES ASSUME Init PROVE TypeOK
  OBVIOUS
<1>1. (CHOOSE s \in Sections : TRUE) \in Sections
  OBVIOUS
<1>2. <<>> \in Seq(Entries) /\ <<>> \in Seq(Contents)
  OBVIOUS
<1>3. \A s \in Sections : urls[s] \in [Pks -> 0..MaxEdits]
  <2>1. 0 \in 0..MaxEdits /\ 1 \in 0..MaxEdits
    OBVIOUS
  <2> QED BY <2>1 DEF Init
<1>4. urls \in [Sections -> [Pks -> 0..MaxEdits]]
  BY <1>3 DEF Init
<1> QED
  BY <1>1, <1>2, <1>4 DEF Init, TypeOK, PCs, Contents

LEMMA TypeStep == ASSUME TypeOK, [Next]_vars PROVE TypeOK'
<1> USE GenerationAssumption DEF PCs
<1>0. CASE UNCHANGED vars
  BY <1>0 DEF TypeOK, vars, siteVars, dbVars, storageVars, runVars
<1>1. ASSUME NEW s \in Sections, NEW pk \in Pks, NEW v \in 0..MaxEdits, Edit(s, pk, v)
      PROVE  TypeOK'
  BY <1>1 DEF TypeOK, Edit, dbVars, storageVars, runVars
<1>2. ASSUME NEW s \in Sections, MarkStale(s) PROVE TypeOK'
  <2>1. stale' \in [Sections -> BOOLEAN]
    BY <1>2 DEF TypeOK, MarkStale, Exists
  <2> QED BY <1>2, <2>1 DEF TypeOK, MarkStale, storageVars, runVars
<1>3. ASSUME NEW s \in Sections, MarkLost(s) PROVE TypeOK'
  BY <1>3 DEF TypeOK, MarkLost, Fault, dbVars, storageVars, runVars
<1>4. ASSUME NEW w \in Workers, NEW force \in Modes, BeginAll(w, force) PROVE TypeOK'
  BY <1>4 DEF TypeOK, BeginAll, Goto, siteVars, dbVars, storageVars, runVars
<1>5. ASSUME NEW w \in Workers, NEW s \in Sections, NEW force \in Modes,
             BeginOne(w, s, force)
      PROVE  TypeOK'
  BY <1>5 DEF TypeOK, BeginOne, Goto, siteVars, dbVars, storageVars, runVars
<1>6. ASSUME NEW w \in Workers, BeginIndex(w) PROVE TypeOK'
  BY <1>6 DEF TypeOK, BeginIndex, Goto, siteVars, dbVars, storageVars, runVars
<1>7. ASSUME NEW w \in Workers, EndTask(w) PROVE TypeOK'
  BY <1>7 DEF TypeOK, EndTask, Goto, siteVars, dbVars, storageVars, runVars
<1>8. ASSUME NEW w \in Workers, NEW s \in Sections, StartSection(w, s) PROVE TypeOK'
  <2>1. PathsOf(s) \subseteq Paths
    BY DEF TypeOK, PathsOf, RowsOf, RowPath, Paths
  <2>2. pc' \in [Workers -> PCs] /\ log' \in [Workers -> {"none", "running", "success", "failed"}]
    BY <1>8 DEF TypeOK, StartSection, Goto
  <2> QED
    BY <1>8, <2>1, <2>2 DEF TypeOK, StartSection, siteVars, dbVars, storageVars, Contents
<1>9. ASSUME NEW w \in Workers, ReadChunk(w) PROVE TypeOK'
  <2>1. CASE UNCHANGED <<chunk, last>>
    BY <1>9, <2>1 DEF TypeOK, ReadChunk, Goto, siteVars, dbVars, storageVars
  <2>2. ASSUME NEW n \in 1..BatchSize, NEW page \in [1..n -> Pks],
               chunk' = [chunk EXCEPT ![w] =
                           [i \in 1..n |-> <<page[i], urls[section[w]][page[i]]>>]],
               last' = [last EXCEPT ![w] = page[n]]
        PROVE  TypeOK'
    <3>1. chunk' \in [Workers -> Seq(Entries)]
      BY <2>2, PageType DEF TypeOK
    <3>2. last' \in [Workers -> Pks \cup {0}]
      BY <2>2, PageType DEF TypeOK
    <3>3. pc' \in [Workers -> PCs]
      <4>1. pc' = pc \/ pc' = [pc EXCEPT ![w] = "flush"]
        BY <1>9 DEF ReadChunk, Goto
      <4> QED BY <4>1 DEF TypeOK
    <3> QED
      BY <1>9, <3>1, <3>2, <3>3 DEF TypeOK, ReadChunk, siteVars, dbVars, storageVars
  <2> QED
    BY <1>9, <2>1, <2>2 DEF ReadChunk
<1>10. ASSUME NEW w \in Workers, TakeEntry(w) PROVE TypeOK'
  <2>1. Head(chunk[w]) \in Entries /\ Tail(chunk[w]) \in Seq(Entries)
    BY <1>10 DEF TypeOK, TakeEntry
  <2>2. Append(buf[w], Head(chunk[w])) \in Contents
    BY <2>1 DEF TypeOK, Contents
  <2> QED
    BY <1>10, <2>1, <2>2 DEF TypeOK, TakeEntry, siteVars, dbVars, storageVars
<1>11. ASSUME NEW w \in Workers, PublishShard(w) PROVE TypeOK'
  <2>1. Append(made[w], buf[w]) \in Seq(Contents) /\ Len(made[w]) \in Nat /\ <<>> \in Contents
    BY DEF TypeOK, Contents
  <2>2. store' \subseteq [path: Paths, content: Contents]
    BY <1>11, <2>1 DEF TypeOK, PublishShard, Put, ShardPath, Paths
  <2> QED
    BY <1>11, <2>1, <2>2 DEF TypeOK, PublishShard, siteVars, dbVars
<1>12. ASSUME NEW w \in Workers, DeleteRows(w) PROVE TypeOK'
  BY <1>12 DEF TypeOK, DeleteRows, RowsOf, Goto, siteVars, storageVars, runVars
<1>13. ASSUME NEW w \in Workers, CreateRow(w) PROVE TypeOK'
  <2>1. made[w][created[w] + 1] \in Contents
    BY <1>13 DEF TypeOK, CreateRow
  <2>2. rows' \subseteq [section: Sections, seq: Nat, checksum: Contents]
    BY <1>13, <2>1 DEF TypeOK, CreateRow
  <2> QED
    BY <1>13, <2>2 DEF TypeOK, CreateRow, siteVars, storageVars
<1>14. ASSUME NEW w \in Workers, Tidy(w) PROVE TypeOK'
  BY <1>14 DEF TypeOK, Tidy, Drop, Fault, Goto, siteVars, dbVars, runVars
<1>15. ASSUME NEW w \in Workers, SaveSection(w) PROVE TypeOK'
  BY <1>15, ForgetType DEF TypeOK, SaveSection, Goto, siteVars, storageVars
<1>16. ASSUME NEW w \in Workers, ListFiles(w) PROVE TypeOK'
  <2>1. UNION {PathsOf(s) : s \in {t \in Sections : status[t] = "active"}} \subseteq Paths
    BY DEF TypeOK, PathsOf, RowsOf, RowPath, Paths
  <2> QED
    BY <1>16, <2>1 DEF TypeOK, ListFiles, Goto, siteVars, dbVars, storageVars, runVars
<1>17. ASSUME NEW w \in Workers, WriteIndex(w) \/ IndexRefused(w) PROVE TypeOK'
  BY <1>17 DEF TypeOK, WriteIndex, IndexRefused, Goto, siteVars, dbVars, storageVars, runVars
<1>18. ASSUME NEW w \in Workers, RowRefused(w) PROVE TypeOK'
  <2>1. Forget(w)
    BY <1>18 DEF RowRefused, Raised
  <2>2. pc' \in [Workers -> PCs] /\ log' \in [Workers -> {"none", "running", "success", "failed"}]
    BY <1>18 DEF TypeOK, RowRefused, Raised, Goto
  <2> QED
    BY <1>18, <2>1, <2>2, ForgetType DEF TypeOK, RowRefused, siteVars, dbVars, storageVars
<1>19. ASSUME NEW w \in Workers, NEW s \in Sections, StartFails(w, s) PROVE TypeOK'
  BY <1>19 DEF TypeOK, StartFails, Fault, siteVars, dbVars, storageVars, runVars
<1>20. ASSUME NEW w \in Workers, GenerationFails(w) PROVE TypeOK'
  <2>1. Forget(w)
    BY <1>20 DEF GenerationFails, Raised
  <2>2. pc' \in [Workers -> PCs] /\ log' \in [Workers -> {"none", "running", "success", "failed"}]
    BY <1>20 DEF TypeOK, GenerationFails, Raised, Goto
  <2>3. store' \subseteq store /\ faults' \in 0..MaxFaults
    BY <1>20 DEF TypeOK, GenerationFails, Fault, Drop
  <2>4. UNCHANGED <<siteVars, dbVars, index, queue, listing>>
    BY <1>20 DEF GenerationFails
  <2> QED
    BY <2>1, <2>2, <2>3, <2>4, ForgetType DEF TypeOK, siteVars, dbVars
<1>21. ASSUME NEW w \in Workers, IndexFails(w) PROVE TypeOK'
  BY <1>21 DEF TypeOK, IndexFails, Fault, Goto, siteVars, dbVars, runVars
<1>22. ASSUME NEW w \in Workers, Crash(w) PROVE TypeOK'
  <2>1. Forget(w) /\ UNCHANGED <<siteVars, dbVars, storageVars, log>>
    BY <1>22 DEF Crash
  <2>2. /\ pc' \in [Workers -> PCs] /\ faults' \in 0..MaxFaults
        /\ queue' \in [Workers -> SUBSET Sections]
        /\ listing' \in [Workers -> SUBSET Paths]
    BY <1>22 DEF TypeOK, Crash, Fault, Goto
  <2> QED
    BY <2>1, <2>2, ForgetType DEF TypeOK, siteVars, dbVars, storageVars
<1> QED
  BY <1>0, <1>1, <1>2, <1>3, <1>4, <1>5, <1>6, <1>7, <1>8, <1>9, <1>10, <1>11, <1>12,
     <1>13, <1>14, <1>15, <1>16, <1>17, <1>18, <1>19, <1>20, <1>21, <1>22
     DEF Next, Begin, Step, RequestIndex

\* The type invariant: in every state reached by workers, editors and failures the
\* records, files and local variables have their types.
THEOREM TypeCorrect == Spec => []TypeOK
<1>1. TypeOK /\ [Next]_vars => TypeOK'
  BY TypeStep
<1> QED
  BY <1>1, TypeInit, PTL DEF Spec

-----------------------------------------------------------------------------
(* What one step of anybody means for the run of worker w *)

Locals(w) == <<section[w], chunk[w], last[w], buf[w], made[w], since[w]>>

\* The run of w goes on and has neither read nor written an entry.
Same(w) ==
    /\ Generating(w) /\ (pc'[w] = "read" <=> pc[w] = "read")
    /\ UNCHANGED Locals(w)

\* A run that is generating after a step began with it, read, took an entry or
\* stored a shard in it, or was untouched: no other worker reaches its locals.
LEMMA WorkerStep ==
    ASSUME TypeOK, [Next]_vars, NEW w \in Workers, Generating(w)'
    PROVE  \/ Same(w)
           \/ \E s \in Sections : StartSection(w, s)
           \/ ReadChunk(w) \/ TakeEntry(w) \/ PublishShard(w)
<1> USE DEF Generating, Same, Locals
<1>1. ASSUME UNCHANGED <<pc, runVars>>
      PROVE  Same(w)
  BY <1>1 DEF runVars
<1>2. ASSUME NEW v \in Workers,
             \/ \E force \in Modes : BeginAll(v, force) \/ \E s \in Sections : BeginOne(v, s, force)
             \/ BeginIndex(v) \/ EndTask(v) \/ ListFiles(v) \/ WriteIndex(v) \/ IndexRefused(v)
             \/ IndexFails(v)
      PROVE  Same(w)
  <2>1. UNCHANGED runVars /\ \E step \in {"pick", "index", "idle", "write"} : Goto(v, step)
    BY <1>2 DEF BeginAll, BeginOne, BeginIndex, EndTask, ListFiles, WriteIndex,
                  IndexRefused, IndexFails
  <2> QED BY <2>1 DEF Goto, runVars, TypeOK
<1>3. ASSUME NEW v \in Workers,
             SaveSection(v) \/ RowRefused(v) \/ GenerationFails(v) \/ Crash(v)
      PROVE  Same(w)
  <2>1. Forget(v) /\ \E step \in {"pick", "index", "idle"} : Goto(v, step)
    BY <1>3 DEF SaveSection, RowRefused, GenerationFails, Crash, Raised
  <2>2. v # w
    BY <2>1 DEF Goto, TypeOK
  <2> QED BY <2>1, <2>2 DEF Forget, Goto, TypeOK
<1>4. ASSUME NEW v \in Workers, DeleteRows(v) \/ Tidy(v)
      PROVE  Same(w)
  <2>1. /\ UNCHANGED runVars /\ pc[v] \in {"flush", "rows"}
        /\ \E step \in {"rows", "save"} : Goto(v, step)
    BY <1>4 DEF DeleteRows, Tidy
  <2> QED BY <2>1 DEF Goto, runVars, TypeOK
<1>5. ASSUME NEW v \in Workers, CreateRow(v)
      PROVE  Same(w)
  BY <1>5 DEF CreateRow
<1>6. ASSUME NEW v \in Workers, NEW s \in Sections, StartSection(v, s), v # w
      PROVE  Same(w)
  BY <1>6 DEF StartSection, Goto, TypeOK
<1>7. ASSUME NEW v \in Workers, ReadChunk(v), v # w
      PROVE  Same(w)
  BY <1>7 DEF ReadChunk, Goto, TypeOK
<1>8. ASSUME NEW v \in Workers, TakeEntry(v) \/ PublishShard(v), v # w
      PROVE  Same(w)
  BY <1>8 DEF TakeEntry, PublishShard, TypeOK
<1>9. CASE UNCHANGED vars
  BY <1>1, <1>9 DEF vars
<1>10. ASSUME NEW s \in Sections,
              \/ \E pk \in Pks, v \in 0..MaxEdits : Edit(s, pk, v)
              \/ MarkStale(s) \/ MarkLost(s)
       PROVE  Same(w)
  BY <1>1, <1>10 DEF Edit, MarkStale, MarkLost
<1>11. ASSUME NEW v \in Workers, NEW s \in Sections, StartFails(v, s)
       PROVE  Same(w)
  BY <1>1, <1>11 DEF StartFails
<1> QED
  BY <1>2, <1>3, <1>4, <1>5, <1>6, <1>7, <1>8, <1>9, <1>10, <1>11
     DEF Next, Begin, Step, RequestIndex

-----------------------------------------------------------------------------
(* Shards *)

LEMMA AppendFacts ==
    ASSUME NEW S, NEW q \in Seq(S), NEW e \in S
    PROVE  /\ Append(q, e) \in Seq(S)
           /\ DOMAIN q = 1..Len(q) /\ Len(q) \in Nat
           /\ Len(Append(q, e)) = Len(q) + 1
           /\ DOMAIN Append(q, e) = 1..(Len(q) + 1)
           /\ \A i \in 1..Len(q) : Append(q, e)[i] = q[i]
           /\ Append(q, e)[Len(q) + 1] = e
OBVIOUS

\* While a run reads, all its shards are full; afterwards no page is at hand.
ShardsWhileReading == \A w \in Workers : Generating(w) =>
    /\ pc[w] = "read" => \A k \in DOMAIN made[w] : Len(made[w][k]) = MaxUrls
    /\ pc[w] # "read" => chunk[w] = <<>>

ShardInv == ShardsFilled /\ ShardsWhileReading

LEMMA ShardStep ==
    ASSUME TypeOK, ShardInv, [Next]_vars
    PROVE  ShardInv'
<1> USE GenerationAssumption DEF ShardInv, ShardsFilled, ShardsWhileReading, Generating
<1> SUFFICES ASSUME NEW w \in Workers, Generating(w)'
    PROVE  /\ Len(buf'[w]) <= MaxUrls
           /\ \A k \in DOMAIN made'[w] : Len(made'[w][k]) <= MaxUrls
           /\ \A k \in DOMAIN made'[w] :
                k < Len(made'[w]) \/ buf'[w] # <<>> \/ chunk'[w] # <<>>
                  => Len(made'[w][k]) = MaxUrls
           /\ \A k \in DOMAIN made'[w] : made'[w][k] = <<>> => Len(made'[w]) = 1
           /\ pc'[w] = "read" => \A k \in DOMAIN made'[w] : Len(made'[w][k]) = MaxUrls
           /\ pc'[w] # "read" => chunk'[w] = <<>>
  OBVIOUS
<1>1. CASE Same(w)
  BY <1>1 DEF Same, Locals
<1>2. ASSUME NEW s \in Sections, StartSection(w, s)
      PROVE  buf'[w] = <<>> /\ chunk'[w] = <<>> /\ made'[w] = <<>>
  BY <1>2 DEF StartSection, TypeOK
<1>3. CASE ReadChunk(w)
  <2>1. buf' = buf /\ made' = made /\ pc[w] = "read" /\ chunk[w] = <<>>
    BY <1>3 DEF ReadChunk
  <2>2. pc'[w] # "read" => chunk'[w] = <<>>
    BY <1>3 DEF ReadChunk, Goto, TypeOK
  <2> QED BY <2>1, <2>2
<1>4. CASE TakeEntry(w)
  <2>1. made' = made /\ pc' = pc /\ pc[w] = "read"
    BY <1>4 DEF TakeEntry
  <2>2. Len(buf[w]) < MaxUrls /\ Len(buf'[w]) = Len(buf[w]) + 1
    <3>1. Head(chunk[w]) \in Entries /\ buf[w] \in Seq(Entries)
      BY <1>4 DEF TakeEntry, TypeOK, Contents
    <3>2. buf'[w] = Append(buf[w], Head(chunk[w]))
      BY <1>4 DEF TakeEntry, TypeOK
    <3>3. Len(buf[w]) \in Nat /\ Len(buf[w]) < MaxUrls
      BY <1>4, <3>1 DEF TakeEntry, Full
    <3> QED BY <3>1, <3>2, <3>3, AppendFacts
  <2> QED BY <2>1, <2>2
<1>5. CASE PublishShard(w)
  <2> DEFINE n == Len(made[w])
  <2>1. made[w] \in Seq(Contents) /\ buf[w] \in Contents /\ buf[w] \in Seq(Entries)
    BY DEF TypeOK, Contents
  <2>2. /\ made'[w] = Append(made[w], buf[w]) /\ buf'[w] = <<>>
        /\ UNCHANGED <<pc, chunk>> /\ ShardReady(w)
    BY <1>5 DEF PublishShard, TypeOK
  <2>3. /\ n \in Nat /\ DOMAIN made[w] = 1..n
        /\ Len(made'[w]) = n + 1 /\ DOMAIN made'[w] = 1..(n + 1)
        /\ \A k \in 1..n : made'[w][k] = made[w][k]
        /\ made'[w][n + 1] = buf[w]
    BY <2>1, <2>2, AppendFacts
  <2>4. Len(buf[w]) \in Nat /\ Len(buf[w]) <= MaxUrls
    BY <2>1, <2>2
  <2>5. \A k \in 1..n : Len(made[w][k]) = MaxUrls
    BY <2>2, <2>3 DEF ShardReady
  <2>6. pc[w] = "read" => Len(buf[w]) = MaxUrls
    BY <2>2, <2>4 DEF ShardReady, Full
  <2>7. pc[w] # "read" => chunk'[w] = <<>>
    BY <2>2
  <2>8. buf[w] = <<>> => n = 0
    <3>1. CASE pc[w] = "read"
      BY <2>6, <3>1
    <3>2. CASE pc[w] # "read"
      BY <2>2, <3>2 DEF ShardReady
    <3> QED BY <3>1, <3>2
  <2>9. \A k \in 1..n : made[w][k] # <<>>
    BY <2>5
  <2> QED BY <2>2, <2>3, <2>4, <2>5, <2>6, <2>7, <2>8, <2>9
<1> QED
  BY <1>1, <1>2, <1>3, <1>4, <1>5, WorkerStep

\* However instances come and go while it reads, a run's shards are all full but
\* the last, and the last is empty only for a section without URLs.
THEOREM ShardsAreFilled == Spec => []ShardsFilled
<1>1. Init => ShardInv
  BY DEF Init, ShardInv, ShardsFilled, ShardsWhileReading, Generating
<1>2. TypeOK /\ ShardInv /\ [Next]_vars => ShardInv'
  BY ShardStep
<1>3. ShardInv => ShardsFilled
  BY DEF ShardInv
<1> QED
  BY <1>1, <1>2, <1>3, TypeCorrect, PTL DEF Spec

-----------------------------------------------------------------------------
(* Keyset pagination *)

LEMMA PksAreNat ==
    ASSUME NEW p \in Pks \cup {0}
    PROVE  p \in Nat
BY GenerationAssumption

LEMMA EntryFacts ==
    ASSUME NEW q \in Seq(Entries)
    PROVE  \A i \in DOMAIN q : q[i] \in Entries /\ q[i][1] \in Pks /\ q[i][1] \in Nat
<1>1. \A i \in DOMAIN q : q[i] \in Entries
  OBVIOUS
<1>2. \A e \in Entries : e[1] \in Pks /\ e[1] \in Nat
  BY GenerationAssumption DEF Entries
<1> QED BY <1>1, <1>2

LEMMA HeadTailFacts ==
    ASSUME NEW q \in Seq(Entries), q # <<>>
    PROVE  /\ Head(q) = q[1] /\ 1 \in DOMAIN q
           /\ \A i \in DOMAIN Tail(q) : i + 1 \in DOMAIN q /\ Tail(q)[i] = q[i + 1] /\ i >= 1
           /\ \A i \in DOMAIN q : i # 1 => i - 1 \in DOMAIN Tail(q) /\ Tail(q)[i - 1] = q[i]
OBVIOUS

\* What a page brings: entries in order, each behind the previous last_pk, up to
\* the new one.
LEMMA PageOrder ==
    ASSUME TypeOK, NEW w \in Workers, NEW n \in 1..BatchSize, NEW page \in [1..n -> Pks],
           IsPage(page, w),
           NEW c, c = [i \in 1..n |-> <<page[i], urls[section[w]][page[i]]>>]
    PROVE  /\ Ascending(c) /\ UpTo(c, page[n])
           /\ \A i \in DOMAIN c : last[w] < c[i][1]
           /\ last[w] < page[n]
<1> USE GenerationAssumption
<1>1. n \in Nat /\ n >= 1 /\ n \in 1..n /\ DOMAIN page = 1..n /\ DOMAIN c = 1..n
  OBVIOUS
<1>2. \A i \in 1..n : c[i][1] = page[i] /\ page[i] \in Nat /\ last[w] < page[i]
  BY <1>1 DEF IsPage, Remaining
<1>3. \A i, j \in 1..n : i < j => page[i] < page[j]
  BY <1>1 DEF IsPage
<1>4. \A i \in 1..n : page[i] <= page[n]
  <2> SUFFICES ASSUME NEW i \in 1..n PROVE page[i] <= page[n]
    OBVIOUS
  <2>1. i = n \/ i < n
    BY <1>1
  <2> QED BY <2>1, <1>1, <1>2, <1>3
<1> QED
  BY <1>1, <1>2, <1>3, <1>4 DEF Ascending, UpTo

LEMMA OrderStep ==
    ASSUME TypeOK, NoDuplicateUrls, [Next]_vars
    PROVE  NoDuplicateUrls'
<1> USE GenerationAssumption
<1> SUFFICES ASSUME NEW w \in Workers, Generating(w)'
             PROVE  InOrder(w)'
  BY DEF NoDuplicateUrls
<1> DEFINE n == Len(made[w])
<1>0. /\ buf[w] \in Seq(Entries) /\ chunk[w] \in Seq(Entries) /\ made[w] \in Seq(Contents)
      /\ last[w] \in Nat
      /\ \A k \in DOMAIN made[w] : made[w][k] \in Seq(Entries)
  <2>1. last[w] \in Pks \cup {0} /\ made[w] \in Seq(Contents)
    BY DEF TypeOK
  <2>2. \A k \in DOMAIN made[w] : made[w][k] \in Contents
    BY <2>1
  <2>3. last[w] \in Nat
    BY <2>1, PksAreNat
  <2>4. \A k \in DOMAIN made[w] : made[w][k] \in Seq(Entries)
    BY <2>2 DEF Contents
  <2>5. buf[w] \in Seq(Entries) /\ chunk[w] \in Seq(Entries)
    BY DEF TypeOK, Contents
  <2> QED BY <2>1, <2>3, <2>4, <2>5
<1>1. CASE Same(w)
  <2>1. InOrder(w)
    BY <1>1 DEF Same, NoDuplicateUrls
  <2> QED BY <1>1, <2>1 DEF Same, Locals, InOrder
<1>2. ASSUME NEW s \in Sections, StartSection(w, s)
      PROVE  InOrder(w)'
  <2>1. buf'[w] = <<>> /\ chunk'[w] = <<>> /\ made'[w] = <<>>
    BY <1>2 DEF StartSection, TypeOK
  <2> QED BY <2>1 DEF InOrder, Ascending, Before, UpTo
<1>3. CASE ReadChunk(w)
  <2>1. InOrder(w) /\ buf' = buf /\ made' = made /\ chunk[w] = <<>>
    BY <1>3 DEF ReadChunk, NoDuplicateUrls, Generating
  <2>2. CASE UNCHANGED <<chunk, last>>
    BY <2>1, <2>2 DEF InOrder
  <2>3. ASSUME NEW m \in 1..BatchSize, NEW page \in [1..m -> Pks], IsPage(page, w),
               chunk' = [chunk EXCEPT ![w] =
                           [i \in 1..m |-> <<page[i], urls[section[w]][page[i]]>>]],
               last' = [last EXCEPT ![w] = page[m]]
        PROVE  InOrder(w)'
    <3>1. /\ chunk'[w] = [i \in 1..m |-> <<page[i], urls[section[w]][page[i]]>>]
          /\ last'[w] = page[m] /\ page[m] \in Nat
      <4>1. m \in Nat /\ m \in 1..m
        OBVIOUS
      <4>2. page[m] \in Pks
        BY <4>1
      <4> QED BY <2>3, <4>2 DEF TypeOK
    <3>2. /\ Ascending(chunk'[w]) /\ UpTo(chunk'[w], last'[w])
          /\ \A i \in DOMAIN chunk'[w] : last[w] < chunk'[w][i][1] /\ chunk'[w][i][1] \in Nat
          /\ last[w] < last'[w]
      <4>1. \A i \in DOMAIN chunk'[w] : chunk'[w][i][1] \in Nat
        <5>1. m \in Nat /\ DOMAIN chunk'[w] = 1..m
          BY <3>1
        <5>2. \A i \in 1..m : chunk'[w][i][1] = page[i]
          BY <3>1
        <5>3. ASSUME NEW i \in 1..m PROVE page[i] \in Nat
          <6>1. page[i] \in Pks
            OBVIOUS
          <6> QED BY <6>1, PksAreNat
        <5> QED BY <5>1, <5>2, <5>3
      <4>2. /\ Ascending(chunk'[w]) /\ UpTo(chunk'[w], page[m])
            /\ \A i \in DOMAIN chunk'[w] : last[w] < chunk'[w][i][1]
            /\ last[w] < page[m]
        BY <2>3, <3>1, PageOrder
      <4> QED BY <3>1, <4>1, <4>2
    <3>3. ASSUME NEW q \in Seq(Entries), UpTo(q, last[w])
          PROVE  UpTo(q, last'[w]) /\ Before(q, chunk'[w])
      BY <1>0, <3>1, <3>2, <3>3, EntryFacts DEF UpTo, Before
    <3> QED BY <1>0, <2>1, <3>2, <3>3 DEF InOrder
  <2> QED BY <1>3, <2>2, <2>3 DEF ReadChunk
<1>4. CASE TakeEntry(w)
  <2> DEFINE e == Head(chunk[w])
  <2>1. /\ InOrder(w) /\ chunk[w] # <<>> /\ made' = made /\ last' = last
        /\ buf'[w] = Append(buf[w], e) /\ chunk'[w] = Tail(chunk[w])
    BY <1>4 DEF TakeEntry, NoDuplicateUrls, Generating, TypeOK
  <2>2. /\ e = chunk[w][1] /\ 1 \in DOMAIN chunk[w] /\ e \in Entries
        /\ \A i \in DOMAIN chunk'[w] :
             i + 1 \in DOMAIN chunk[w] /\ chunk'[w][i] = chunk[w][i + 1] /\ i >= 1
    BY <1>0, <2>1, HeadTailFacts, EntryFacts
  <2>3. /\ DOMAIN buf[w] = 1..Len(buf[w]) /\ Len(buf[w]) \in Nat
        /\ DOMAIN buf'[w] = 1..(Len(buf[w]) + 1)
        /\ \A i \in 1..Len(buf[w]) : buf'[w][i] = buf[w][i]
        /\ buf'[w][Len(buf[w]) + 1] = e
    BY <1>0, <2>1, <2>2, AppendFacts
  <2>4. Ascending(buf'[w]) /\ UpTo(buf'[w], last[w])
    BY <2>1, <2>2, <2>3 DEF InOrder, Ascending, Before, UpTo
  <2>5. DOMAIN chunk'[w] \subseteq Nat
    BY <1>0, <2>1
  <2>6. Ascending(chunk'[w]) /\ UpTo(chunk'[w], last[w])
    <3>1. \A i, j \in DOMAIN chunk'[w] : i < j => i + 1 < j + 1
      BY <2>5
    <3>2. Ascending(chunk[w]) /\ UpTo(chunk[w], last[w])
      BY <2>1 DEF InOrder
    <3> QED BY <2>2, <3>1, <3>2 DEF Ascending, UpTo
  <2>7. Before(buf'[w], chunk'[w])
    BY <2>1, <2>2, <2>3, <2>5 DEF InOrder, Ascending, Before
  <2>8. \A k \in DOMAIN made[w] : Before(made[w][k], buf'[w]) /\ Before(made[w][k], chunk'[w])
    BY <2>1, <2>2, <2>3 DEF InOrder, Before
  <2> QED BY <2>1, <2>4, <2>6, <2>7, <2>8 DEF InOrder
<1>5. CASE PublishShard(w)
  <2>1. /\ InOrder(w) /\ UNCHANGED <<chunk, last>>
        /\ made'[w] = Append(made[w], buf[w]) /\ buf'[w] = <<>>
    BY <1>5 DEF PublishShard, NoDuplicateUrls, ShardReady, Generating, TypeOK
  <2>2. /\ n \in Nat /\ DOMAIN made[w] = 1..n
        /\ DOMAIN made'[w] = 1..(n + 1)
        /\ \A k \in 1..n : made'[w][k] = made[w][k]
        /\ made'[w][n + 1] = buf[w]
    BY <1>0, <2>1, AppendFacts DEF Contents
  <2>3. /\ Ascending(buf'[w]) /\ UpTo(buf'[w], last[w]) /\ Before(buf'[w], chunk[w])
        /\ \A q \in Seq(Entries) : Before(q, buf'[w])
    BY <2>1 DEF Ascending, UpTo, Before
  <2>4. \A k \in 1..(n + 1) :
          /\ Ascending(made'[w][k]) /\ UpTo(made'[w][k], last[w])
          /\ Before(made'[w][k], chunk[w]) /\ made'[w][k] \in Seq(Entries)
    BY <1>0, <2>1, <2>2 DEF InOrder
  <2>5. \A k, m \in 1..(n + 1) : k < m => Before(made'[w][k], made'[w][m])
    BY <2>1, <2>2 DEF InOrder
  <2> QED BY <2>1, <2>2, <2>3, <2>4, <2>5 DEF InOrder
<1> QED
  BY <1>1, <1>2, <1>3, <1>4, <1>5, WorkerStep

\* However instances come and go between two pages, a run lists none twice.
THEOREM NothingTwice == Spec => []NoDuplicateUrls
<1>1. Init => NoDuplicateUrls
  BY DEF Init, NoDuplicateUrls, Generating
<1>2. TypeOK /\ NoDuplicateUrls /\ [Next]_vars => NoDuplicateUrls'
  BY OrderStep
<1> QED
  BY <1>1, <1>2, TypeCorrect, PTL DEF Spec

-----------------------------------------------------------------------------
(* No instance is skipped *)

\* Whatever a step does to the data is newer than every run under way.
LEMMA EditStep ==
    ASSUME TypeOK, [Next]_vars
    PROVE  /\ edits' \in Nat /\ edits <= edits'
           /\ \A s \in Sections, pk \in Pks : urls'[s][pk] \in {urls[s][pk], 0, edits + 1}
<1> USE GenerationAssumption
<1>0. edits \in Nat
  BY DEF TypeOK
<1>1. ASSUME UNCHANGED <<urls, edits>>
      PROVE  /\ edits' \in Nat /\ edits <= edits'
             /\ \A s \in Sections, pk \in Pks : urls'[s][pk] \in {urls[s][pk], 0, edits + 1}
  BY <1>0, <1>1
<1>2. ASSUME NEW t \in Sections, NEW k \in Pks, NEW v \in 0..MaxEdits, Edit(t, k, v)
      PROVE  /\ edits' \in Nat /\ edits <= edits'
             /\ \A s \in Sections, pk \in Pks : urls'[s][pk] \in {urls[s][pk], 0, edits + 1}
  <2>1. edits' = edits + 1 /\ urls' = [urls EXCEPT ![t][k] = v] /\ v \in {0, edits + 1}
    BY <1>2 DEF Edit
  <2>2. urls \in [Sections -> [Pks -> 0..MaxEdits]]
    BY DEF TypeOK
  <2> QED BY <1>0, <2>1, <2>2
<1>3. CASE UNCHANGED vars
  BY <1>1, <1>3 DEF vars, siteVars
<1>4. ASSUME NEW s \in Sections, MarkStale(s) \/ MarkLost(s)
      PROVE  UNCHANGED <<urls, edits>>
  BY <1>4 DEF MarkStale, MarkLost
<1>5. ASSUME NEW w \in Workers,
             \/ Begin(w) \/ Step(w) \/ (\E s \in Sections : StartFails(w, s))
             \/ GenerationFails(w) \/ IndexFails(w) \/ Crash(w)
      PROVE  UNCHANGED <<urls, edits>>
  BY <1>5 DEF Begin, BeginAll, BeginOne, BeginIndex, RequestIndex, Step, StartSection, EndTask,
              ReadChunk, TakeEntry, PublishShard, DeleteRows, CreateRow, Tidy, SaveSection,
              RowRefused, ListFiles, WriteIndex, IndexRefused, StartFails, GenerationFails, IndexFails,
              Crash, siteVars
<1> QED BY <1>1, <1>2, <1>3, <1>4, <1>5 DEF Next

\* The data is at least as new as every run under way.
SinceInPast == \A w \in Workers : Generating(w) => since[w] <= edits

MissInv == NothingMissed /\ SinceInPast

\* What TakeEntry and PublishShard move stays collected.
LEMMA CollectedStays ==
    ASSUME TypeOK, NEW w \in Workers, NEW e, Collected(w, e),
           TakeEntry(w) \/ PublishShard(w)
    PROVE  Collected(w, e)'
<1>1. /\ buf[w] \in Seq(Entries) /\ chunk[w] \in Seq(Entries) /\ made[w] \in Seq(Contents)
      /\ buf[w] \in Contents
  BY DEF TypeOK, Contents
<1>2. CASE TakeEntry(w)
  <2> DEFINE h == Head(chunk[w])
  <2>1. /\ chunk[w] # <<>> /\ made' = made
        /\ buf'[w] = Append(buf[w], h) /\ chunk'[w] = Tail(chunk[w])
    BY <1>2 DEF TakeEntry, TypeOK
  <2>2. /\ h = chunk[w][1] /\ h \in Entries
        /\ \A i \in DOMAIN chunk[w] : i # 1 =>
             i - 1 \in DOMAIN chunk'[w] /\ chunk'[w][i - 1] = chunk[w][i]
    BY <1>1, <2>1, HeadTailFacts, EntryFacts
  <2>3. /\ Len(buf[w]) \in Nat /\ DOMAIN buf[w] = 1..Len(buf[w])
        /\ DOMAIN buf'[w] = 1..(Len(buf[w]) + 1)
        /\ \A i \in 1..Len(buf[w]) : buf'[w][i] = buf[w][i]
        /\ buf'[w][Len(buf[w]) + 1] = h
    BY <1>1, <2>1, <2>2, AppendFacts
  <2>4. ASSUME NEW i \in DOMAIN chunk[w], chunk[w][i] = e
        PROVE  Collected(w, e)'
    <3>1. CASE i = 1
      <4>1. Len(buf[w]) + 1 \in DOMAIN buf'[w] /\ buf'[w][Len(buf[w]) + 1] = e
        BY <2>2, <2>3, <2>4, <3>1
      <4> QED BY <4>1 DEF Collected
    <3>2. CASE i # 1
      BY <2>2, <2>4, <3>2 DEF Collected
    <3> QED BY <3>1, <3>2
  <2>5. ASSUME NEW i \in DOMAIN buf[w], buf[w][i] = e
        PROVE  Collected(w, e)'
    <3>1. i \in DOMAIN buf'[w] /\ buf'[w][i] = e
      BY <2>3, <2>5
    <3> QED BY <3>1 DEF Collected
  <2> QED BY <2>1, <2>4, <2>5 DEF Collected
<1>3. CASE PublishShard(w)
  <2> DEFINE n == Len(made[w])
  <2>1. chunk' = chunk /\ made'[w] = Append(made[w], buf[w])
    BY <1>3 DEF PublishShard, TypeOK
  <2>2. /\ n \in Nat /\ DOMAIN made[w] = 1..n /\ DOMAIN made'[w] = 1..(n + 1)
        /\ \A k \in 1..n : made'[w][k] = made[w][k]
        /\ made'[w][n + 1] = buf[w]
    BY <1>1, <2>1, AppendFacts
  <2>3. ASSUME NEW i \in DOMAIN buf[w], buf[w][i] = e
        PROVE  Collected(w, e)'
    <3>1. n + 1 \in DOMAIN made'[w] /\ i \in DOMAIN made'[w][n + 1] /\ made'[w][n + 1][i] = e
      BY <2>2, <2>3
    <3> QED BY <3>1 DEF Collected
  <2>4. ASSUME NEW k \in DOMAIN made[w], NEW i \in DOMAIN made[w][k], made[w][k][i] = e
        PROVE  Collected(w, e)'
    <3>1. k \in DOMAIN made'[w] /\ i \in DOMAIN made'[w][k] /\ made'[w][k][i] = e
      BY <2>2, <2>4
    <3> QED BY <3>1 DEF Collected
  <2> QED BY <2>1, <2>3, <2>4 DEF Collected
<1> QED BY <1>2, <1>3

LEMMA MissStep ==
    ASSUME TypeOK, MissInv, [Next]_vars
    PROVE  MissInv'
<1> SUFFICES ASSUME NEW w \in Workers, Generating(w)'
             PROVE  MissesNone(w)' /\ since'[w] <= edits'
  BY DEF MissInv, NothingMissed, SinceInPast
<1>0. /\ edits \in Nat /\ since[w] \in Nat /\ section[w] \in Sections /\ last[w] \in Nat
      /\ \A s \in Sections, pk \in Pks : urls[s][pk] \in Nat
      /\ Pks \subseteq Nat \ {0} /\ BatchSize \in Nat
  <2>1. last[w] \in Nat
    BY PksAreNat DEF TypeOK
  <2>2. \A s \in Sections : urls[s] \in [Pks -> 0..MaxEdits]
    BY DEF TypeOK
  <2>3. MaxEdits \in Nat /\ Pks \subseteq Nat \ {0} /\ BatchSize \in Nat
    BY GenerationAssumption
  <2>4. \A s \in Sections, pk \in Pks : urls[s][pk] \in Nat
    BY <2>2, <2>3
  <2> QED BY <2>1, <2>3, <2>4 DEF TypeOK
<1>1. CASE Same(w)
  <2>1. MissesNone(w) /\ since[w] <= edits
    BY <1>1 DEF Same, MissInv, NothingMissed, SinceInPast
  <2>2. since'[w] <= edits'
    BY <1>0, <1>1, <2>1, EditStep DEF Same, Locals
  <2>3. ASSUME NEW pk \in Pks, NEW v, v = urls'[section[w]][pk], v # 0, v <= since[w],
               pk <= last[w] \/ pc[w] # "read"
        PROVE  Collected(w, <<pk, v>>)'
    <3>1. v = urls[section[w]][pk]
      BY <1>0, <2>1, <2>3, EditStep
    <3>2. Collected(w, <<pk, v>>)
      BY <2>1, <2>3, <3>1 DEF MissesNone
    <3> QED BY <1>1, <3>2 DEF Same, Locals, Collected
  <2> QED BY <1>1, <2>2, <2>3 DEF Same, Locals, MissesNone, Collected
<1>2. ASSUME NEW s \in Sections, StartSection(w, s)
      PROVE  MissesNone(w)' /\ since'[w] <= edits'
  <2>1. last'[w] = 0 /\ pc'[w] = "read" /\ since'[w] = edits /\ edits' = edits
    BY <1>2 DEF StartSection, Goto, Generating, TypeOK, siteVars
  <2>2. \A pk \in Pks : ~(pk <= 0)
    BY <1>0
  <2> QED BY <1>0, <2>1, <2>2 DEF MissesNone
<1>3. CASE ReadChunk(w)
  <2>1. /\ MissesNone(w) /\ since[w] <= edits /\ pc[w] = "read" /\ chunk[w] = <<>>
        /\ UNCHANGED <<urls, edits, section, buf, made, since>>
    BY <1>3 DEF ReadChunk, Generating, MissInv, NothingMissed, SinceInPast, siteVars
  <2>2. ASSUME NEW pk \in Pks, urls[section[w]][pk] # 0, urls[section[w]][pk] <= since[w],
               pk <= last[w]
        PROVE  Collected(w, <<pk, urls[section[w]][pk]>>)'
    <3>1. Collected(w, <<pk, urls[section[w]][pk]>>)
      BY <2>1, <2>2 DEF MissesNone
    <3>2. \A i \in DOMAIN chunk[w] : FALSE
      BY <2>1
    <3> QED BY <2>1, <3>1, <3>2 DEF Collected
  <2>3. CASE Remaining(w) = {} /\ UNCHANGED <<chunk, last>>
    <3>1. ASSUME NEW pk \in Pks, urls[section[w]][pk] # 0 PROVE pk <= last[w]
      <4>1. ~(pk > last[w])
        BY <2>3, <3>1 DEF Remaining
      <4>2. pk \in Nat /\ last[w] \in Nat
        BY <1>0, PksAreNat
      <4> QED BY <4>1, <4>2
    <3> QED BY <2>1, <2>2, <3>1 DEF MissesNone, Collected
  <2>4. ASSUME NEW n \in 1..BatchSize, NEW page \in [1..n -> Pks], IsPage(page, w),
               chunk' = [chunk EXCEPT ![w] =
                           [i \in 1..n |-> <<page[i], urls[section[w]][page[i]]>>]],
               last' = [last EXCEPT ![w] = page[n]], UNCHANGED pc
        PROVE  MissesNone(w)'
    <3>1. /\ chunk'[w] = [i \in 1..n |-> <<page[i], urls[section[w]][page[i]]>>]
          /\ last'[w] = page[n] /\ pc'[w] = "read"
      BY <2>1, <2>4 DEF TypeOK
    <3>2. n \in Nat /\ Len(page) = n /\ page[n] \in Pks
      BY <1>0
    <3>3. ASSUME NEW pk \in Pks, NEW v, v = urls[section[w]][pk], v # 0, pk <= page[n],
                 ~(pk <= last[w])
          PROVE  \E i \in DOMAIN chunk'[w] : chunk'[w][i] = <<pk, v>>
      <4>1. pk \in Nat /\ last[w] \in Nat /\ page[n] \in Nat
        BY <1>0, <3>2, PksAreNat
      <4>2. pk \in Remaining(w)
        BY <3>3, <4>1 DEF Remaining
      <4>3. \/ \E i \in DOMAIN page : page[i] = pk
            \/ Len(page) = BatchSize /\ pk > page[BatchSize]
        BY <2>4, <4>2 DEF IsPage
      <4>4. PICK i \in DOMAIN page : page[i] = pk
        BY <3>2, <3>3, <4>1, <4>3
      <4> QED BY <3>1, <3>3, <4>4
    <3> QED BY <2>1, <2>2, <3>1, <3>3 DEF MissesNone, Collected
  <2>5. MissesNone(w)'
    BY <1>3, <2>3, <2>4 DEF ReadChunk
  <2> QED BY <2>1, <2>5
<1>4. CASE TakeEntry(w) \/ PublishShard(w)
  <2>1. /\ MissesNone(w) /\ since[w] <= edits
        /\ UNCHANGED <<urls, edits, section, pc, last, since>>
    BY <1>4 DEF TakeEntry, PublishShard, ShardReady, Generating, MissInv, NothingMissed,
                SinceInPast, siteVars
  <2>2. \A e : Collected(w, e) => Collected(w, e)'
    BY <1>4, CollectedStays
  <2> QED BY <2>1, <2>2 DEF MissesNone, Collected
<1> QED
  BY <1>1, <1>2, <1>3, <1>4, WorkerStep

\* However its neighbours come and go, an instance that was there when the run
\* began and has not changed is in the shards once the run has passed it.
THEOREM NothingSkipped == Spec => []NothingMissed
<1>1. Init => MissInv
  BY DEF Init, MissInv, NothingMissed, SinceInPast, Generating
<1>2. TypeOK /\ MissInv /\ [Next]_vars => MissInv'
  BY MissStep
<1>3. MissInv => NothingMissed
  BY DEF MissInv
<1> QED
  BY <1>1, <1>2, <1>3, TypeCorrect, PTL DEF Spec

-----------------------------------------------------------------------------
(* The last shard *)

\* The steps of the data, of the tasks and of the index.
QuietStep ==
    \/ \E s \in Sections :
         (\E pk \in Pks, v \in 0..MaxEdits : Edit(s, pk, v)) \/ MarkStale(s) \/ MarkLost(s)
    \/ \E w \in Workers :
         \/ Begin(w) \/ EndTask(w) \/ ListFiles(w) \/ WriteIndex(w) \/ IndexRefused(w)
         \/ IndexFails(w)
         \/ \E s \in Sections : StartFails(w, s)

\* The steps of a run between its start and its end.
InsideStep(w) ==
    \/ ReadChunk(w) \/ TakeEntry(w) \/ PublishShard(w)
    \/ DeleteRows(w) \/ CreateRow(w) \/ Tidy(w)

\* An exception or a crash ends the run; at most the file of the shard being
\* stored is lost.
FailureStep(w) == RowRefused(w) \/ GenerationFails(w) \/ Crash(w)

LEMMA NextSteps ==
    Next <=> \/ QuietStep
             \/ \E w \in Workers :
                  \/ InsideStep(w) \/ SaveSection(w) \/ FailureStep(w)
                  \/ \E s \in Sections : StartSection(w, s)
BY DEF Next, Step, QuietStep, InsideStep, FailureStep

LEMMA EndStep ==
    ASSUME TypeOK, NEW w \in Workers, SaveSection(w) \/ FailureStep(w)
    PROVE  ~Generating(w)' /\ pc'[w] \in {"index", "pick", "idle"}
BY DEF SaveSection, FailureStep, RowRefused, GenerationFails, Crash, Raised, Goto, Generating, TypeOK

\* After the last shard nothing is at hand that is not in one.
NothingLeft == \A w \in Workers : pc[w] \in {"rows", "save"} => buf[w] = <<>> /\ made[w] # <<>>

\* Together: what a run has collected by its last steps is all in full shards.
CoverInv == MissInv /\ ShardInv /\ NothingLeft

LEMMA NothingLeftStep ==
    ASSUME TypeOK, NothingLeft, [Next]_vars
    PROVE  NothingLeft'
<1> SUFFICES ASSUME NEW w \in Workers, pc'[w] \in {"rows", "save"}
             PROVE  buf'[w] = <<>> /\ made'[w] # <<>>
  BY DEF NothingLeft
<1> USE DEF siteVars, dbVars, storageVars, runVars, NothingLeft
<1>1. CASE UNCHANGED vars
  BY <1>1 DEF vars
<1>2. CASE QuietStep
  <2>1. UNCHANGED <<buf, made>> /\ (pc'[w] = pc[w] \/ pc'[w] \in {"pick", "index", "idle", "write"})
    BY <1>2 DEF QuietStep, Edit, MarkStale, MarkLost, Begin, BeginAll, BeginOne, RequestIndex,
                BeginIndex, EndTask, ListFiles, WriteIndex, IndexRefused, IndexFails, StartFails,
                Goto, TypeOK
  <2> QED BY <2>1
<1>3. ASSUME NEW v \in Workers, InsideStep(v) PROVE buf'[w] = <<>> /\ made'[w] # <<>>
  <2>1. CASE ReadChunk(v) \/ TakeEntry(v) \/ PublishShard(v)
    <3>1. v # w /\ pc'[w] = pc[w]
      BY <2>1 DEF ReadChunk, TakeEntry, PublishShard, ShardReady, Goto, TypeOK
    <3>2. buf'[w] = buf[w] /\ made'[w] = made[w]
      BY <2>1, <3>1 DEF ReadChunk, TakeEntry, PublishShard, TypeOK
    <3> QED BY <3>1, <3>2
  <2>2. CASE DeleteRows(v)
    BY <2>2 DEF DeleteRows, ShardReady, Goto, TypeOK
  <2>3. CASE CreateRow(v) \/ Tidy(v)
    BY <2>3 DEF CreateRow, Tidy, Goto, TypeOK
  <2> QED BY <1>3, <2>1, <2>2, <2>3 DEF InsideStep
<1>4. ASSUME NEW v \in Workers, SaveSection(v) \/ FailureStep(v)
      PROVE  buf'[w] = <<>> /\ made'[w] # <<>>
  <2>1. Forget(v) /\ v # w /\ pc'[w] = pc[w]
    BY <1>4 DEF SaveSection, FailureStep, RowRefused, GenerationFails, Crash, Raised, Goto, TypeOK
  <2> QED BY <2>1 DEF Forget, TypeOK
<1>5. ASSUME NEW v \in Workers, NEW s \in Sections, StartSection(v, s)
      PROVE  buf'[w] = <<>> /\ made'[w] # <<>>
  BY <1>5 DEF StartSection, Goto, TypeOK
<1> QED BY <1>1, <1>2, <1>3, <1>4, <1>5, NextSteps

LEMMA CoverStep ==
    ASSUME TypeOK, CoverInv, [Next]_vars
    PROVE  CoverInv'
BY MissStep, ShardStep, NothingLeftStep DEF CoverInv

LEMMA CoverInit == Init => CoverInv
BY DEF Init, CoverInv, MissInv, NothingMissed, SinceInPast, ShardInv, ShardsFilled,
       ShardsWhileReading, NothingLeft, Generating

LEMMA CoverInvariant == Spec => []CoverInv
<1>1. TypeOK /\ CoverInv /\ [Next]_vars => CoverInv'
  BY CoverStep
<1> QED
  BY <1>1, CoverInit, TypeCorrect, PTL DEF Spec
=============================================================================
