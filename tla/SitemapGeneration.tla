-------------------------- MODULE SitemapGeneration --------------------------
(***************************************************************************)
(* services/generation.py: worker processes regenerate sitemap sections    *)
(* while the site's data changes.  Between the database, the storage and   *)
(* the model instances nothing is transactional, so every query and every  *)
(* published file is a step of its own, other workers and editors act      *)
(* between any two of them, and a worker may fail or die at each.          *)
(*                                                                         *)
(* A published file is one atomic step here; StoragePublish opens it up.   *)
(* A URL entry is <<pk, version>>: rendering is a function of the          *)
(* instance, and the SHA-256 of a shard is taken to be its content.        *)
(***************************************************************************)
EXTENDS Naturals, Sequences, FiniteSets

CONSTANTS
    Sections,       \* the names of one tenant's sections
    Misconfigured,  \* those whose settings or model path cannot be resolved
    Pks,            \* primary keys of model instances
    Workers,        \* processes that run tasks, commands or admin actions
    Modes,          \* SUBSET BOOLEAN: the values of force that are scheduled
    MaxUrls,        \* max_urls_per_file
    BatchSize,      \* ICV_SITEMAPS_BATCH_SIZE
    MaxIndex,       \* _INDEX_MAX_ENTRIES; the limit on its bytes is not told apart
    MaxEdits,       \* bound on versions: saves and deletes of instances
    MaxFaults,      \* bound on failures and crashes
    NoIndex         \* there is no sitemap.xml in storage

ASSUME GenerationAssumption ==
    /\ Misconfigured \subseteq Sections
    /\ Pks \subseteq Nat \ {0} /\ IsFiniteSet(Pks)
    /\ Modes \subseteq BOOLEAN
    /\ MaxUrls \in Nat \ {0} /\ BatchSize \in Nat \ {0} /\ MaxIndex \in Nat
    /\ MaxEdits \in Nat \ {0} /\ MaxFaults \in Nat
    /\ Sections # {}

VARIABLES
    urls,       \* urls[s][pk]: version of the instance, 0 when there is none
    edits,      \* versions handed out so far
    pending,    \* sections whose post_save/post_delete receiver is yet to run
    status,     \* status[s]: its row is "active", "inactive" or "gone", or not
                \*   created yet ("future"); a name is not used again
    stale,      \* SitemapSection.is_stale
    rows,       \* the SitemapFile records
    store,      \* the shard files in storage
    index,      \* the paths sitemap.xml lists, or NoIndex
    faults,     \* failures and crashes so far
    pc,         \* pc[w]: what worker w does next
    queue,      \* queue[w]: sections of its task it has yet to do
    section,    \* section[w]: the section it generates
    oldPaths,   \* old_paths: the files the section had when it began
    chunk,      \* instances read and not yet written
    last,       \* last_pk of the keyset pagination
    buf,        \* entries of the shard being filled
    made,       \* new_files: shards published, in order of sequence
    created,    \* how many of them have a record by now
    since,      \* history: edits when the run began; versions up to it are older
    listing,    \* the paths generate_index has read
    log         \* log[w]: status of its last SitemapGenerationLog

siteVars    == <<urls, edits, pending>>
dbVars      == <<status, stale, rows>>
storageVars == <<store, index>>
runVars     == <<section, oldPaths, chunk, last, buf, made, created, since>>
vars == <<siteVars, dbVars, storageVars, faults, pc, queue, runVars, listing, log>>

Entries  == Pks \X Nat
Contents == Seq(Entries)
Paths    == Sections \X Nat

PCs == {"idle", "pick", "read", "flush", "rows", "save", "index", "write"}

TypeOK ==
    /\ urls \in [Sections -> [Pks -> 0..MaxEdits]]
    /\ edits \in 0..MaxEdits
    /\ pending \subseteq Sections
    /\ status \in [Sections -> {"future", "active", "inactive", "gone"}]
    /\ stale \in [Sections -> BOOLEAN]
    /\ rows \subseteq [section: Sections, seq: Nat, checksum: Contents]
    /\ store \subseteq [path: Paths, content: Contents]
    /\ index = NoIndex \/ index \subseteq Paths
    /\ faults \in 0..MaxFaults
    /\ pc \in [Workers -> PCs]
    /\ queue \in [Workers -> SUBSET Sections]
    /\ section \in [Workers -> Sections]
    /\ oldPaths \in [Workers -> SUBSET Paths]
    /\ chunk \in [Workers -> Seq(Entries)]
    /\ last \in [Workers -> Pks \cup {0}]
    /\ buf \in [Workers -> Contents]
    /\ made \in [Workers -> Seq(Contents)]
    /\ created \in [Workers -> Nat]
    /\ since \in [Workers -> 0..MaxEdits]
    /\ listing \in [Workers -> SUBSET Paths]
    /\ log \in [Workers -> {"none", "running", "success", "failed"}]

Init ==
    /\ urls \in [Sections -> [Pks -> {0, 1}]]
    /\ edits = 1
    /\ pending = {}
    /\ status \in [Sections -> {"active", "inactive", "future"}]
    /\ stale = [s \in Sections |-> TRUE]
    /\ rows = {} /\ store = {} /\ index = NoIndex
    /\ faults = 0
    /\ pc = [w \in Workers |-> "idle"]
    /\ queue = [w \in Workers |-> {}]
    /\ section = [w \in Workers |-> CHOOSE s \in Sections : TRUE]
    /\ oldPaths = [w \in Workers |-> {}]
    /\ chunk = [w \in Workers |-> <<>>]
    /\ last = [w \in Workers |-> 0]
    /\ buf = [w \in Workers |-> <<>>]
    /\ made = [w \in Workers |-> <<>>]
    /\ created = [w \in Workers |-> 0]
    /\ since = [w \in Workers |-> 0]
    /\ listing = [w \in Workers |-> {}]
    /\ log = [w \in Workers |-> "none"]

-----------------------------------------------------------------------------
(* Helpers *)

Exists(s)   == status[s] \in {"active", "inactive"}
RowPath(r)  == <<r.section, r.seq>>
RowsOf(s)   == {r \in rows : r.section = s}
PathsOf(s)  == {RowPath(r) : r \in RowsOf(s)}
NewPaths(w) == {<<section[w], i - 1>> : i \in DOMAIN made[w]}

Put(path, content) ==
    {f \in store : f.path # path} \cup {[path |-> path, content |-> content]}
Drop(paths) == {f \in store : f.path \notin paths}

Goto(w, step) == pc' = [pc EXCEPT ![w] = step]

Fault == faults < MaxFaults /\ faults' = faults + 1

\* The locals of generate_section end with it.
Forget(w) ==
    /\ oldPaths' = [oldPaths EXCEPT ![w] = {}]
    /\ chunk' = [chunk EXCEPT ![w] = <<>>]
    /\ last' = [last EXCEPT ![w] = 0]
    /\ buf' = [buf EXCEPT ![w] = <<>>]
    /\ made' = [made EXCEPT ![w] = <<>>]
    /\ created' = [created EXCEPT ![w] = 0]
    /\ since' = [since EXCEPT ![w] = 0]
    /\ UNCHANGED section

\* The path of the shard being filled: "{name}-{sequence}.xml".
ShardPath(w) == <<section[w], Len(made[w])>>

-----------------------------------------------------------------------------
(* The site's data, and the receivers that mark sections stale *)

\* Model.save() or delete() commits; its receiver runs after the commit.
Edit(s, pk, version) ==
    /\ edits < MaxEdits
    /\ version \in {0, edits + 1} /\ version # urls[s][pk]
    /\ urls' = [urls EXCEPT ![s][pk] = version]
    /\ edits' = edits + 1
    /\ pending' = pending \cup {s}
    /\ UNCHANGED <<dbVars, storageVars, faults, pc, queue, runVars, listing, log>>

\* mark_section_stale: one conditional UPDATE, no lock held before or after.
MarkStale(s) ==
    /\ s \in pending
    /\ pending' = pending \ {s}
    /\ stale' = [stale EXCEPT ![s] = Exists(s) \/ @]
    /\ UNCHANGED <<urls, edits, status, rows, storageVars, faults, pc, queue,
                   runVars, listing, log>>

\* The receiver's error is swallowed, or the process dies before it runs.
MarkLost(s) ==
    /\ s \in pending
    /\ Fault
    /\ pending' = pending \ {s}
    /\ UNCHANGED <<urls, edits, dbVars, storageVars, pc, queue, runVars, listing, log>>

-----------------------------------------------------------------------------
(* Tasks *)

\* Mutant: force is not passed on.
BeginAll_StaleOnly(w, force) ==
    /\ pc[w] = "idle"
    /\ queue' = [queue EXCEPT ![w] = {s \in Sections : status[s] = "active" /\ stale[s]}]
    /\ queue'[w] # {}
    /\ Goto(w, "pick")
    /\ UNCHANGED <<siteVars, dbVars, storageVars, faults, runVars, listing, log>>

\* generate_all_sections evaluates its queryset once: the sections and the
\* is_stale it will act on are those of this moment.
BeginAll(w, force) ==
    /\ pc[w] = "idle"
    /\ queue' = [queue EXCEPT ![w] =
                   {s \in Sections : status[s] = "active" /\ (force \/ stale[s])}]
    /\ queue'[w] # {}
    /\ Goto(w, "pick")
    /\ UNCHANGED <<siteVars, dbVars, storageVars, faults, runVars, listing, log>>

\* generate_section for one section, active or not.
BeginOne(w, s, force) ==
    /\ pc[w] = "idle"
    /\ Exists(s) /\ (force \/ stale[s])
    /\ queue' = [queue EXCEPT ![w] = {s}]
    /\ Goto(w, "pick")
    /\ UNCHANGED <<siteVars, dbVars, storageVars, faults, runVars, listing, log>>

\* Mutant: nothing is generated for a site without active sections.
BeginIndex_NeedsSection(w) ==
    /\ pc[w] = "idle"
    /\ \E s \in Sections : status[s] = "active"
    /\ Goto(w, "index")
    /\ UNCHANGED <<siteVars, dbVars, storageVars, faults, queue, runVars, listing, log>>

\* generate_index alone: the command's --index-only.
BeginIndex(w) ==
    /\ pc[w] = "idle"
    /\ Goto(w, "index")
    /\ UNCHANGED <<siteVars, dbVars, storageVars, faults, queue, runVars, listing, log>>

\* A request for /sitemap.xml that finds none in storage.
RequestIndex(w) == index = NoIndex /\ BeginIndex(w)

EndTask(w) ==
    /\ pc[w] = "pick" /\ queue[w] = {}
    /\ Goto(w, "idle")
    /\ UNCHANGED <<siteVars, dbVars, storageVars, faults, queue, runVars, listing, log>>

-----------------------------------------------------------------------------
(* generate_section *)

\* The log row is created, the limits and the model are resolved and the
\* section's present files are noted.  The log row of a deleted section breaks
\* its foreign key; limits or a model that cannot be resolved end the run.
StartSection(w, s) ==
    /\ pc[w] = "pick" /\ s \in queue[w]
    /\ queue' = [queue EXCEPT ![w] = @ \ {s}]
    /\ section' = [section EXCEPT ![w] = s]
    /\ oldPaths' = [oldPaths EXCEPT ![w] = PathsOf(s)]
    /\ chunk' = [chunk EXCEPT ![w] = <<>>]
    /\ last' = [last EXCEPT ![w] = 0]
    /\ buf' = [buf EXCEPT ![w] = <<>>]
    /\ made' = [made EXCEPT ![w] = <<>>]
    /\ created' = [created EXCEPT ![w] = 0]
    /\ since' = [since EXCEPT ![w] = edits]
    /\ \/ /\ Exists(s) /\ s \notin Misconfigured
          /\ log' = [log EXCEPT ![w] = "running"] /\ Goto(w, "read")
       \/ /\ Exists(s) /\ s \in Misconfigured
          /\ log' = [log EXCEPT ![w] = "failed"] /\ UNCHANGED pc
       \/ /\ ~Exists(s)
          /\ log' = [log EXCEPT ![w] = "none"] /\ UNCHANGED pc
    /\ UNCHANGED <<siteVars, dbVars, storageVars, faults, listing>>

\* Mutant: pages overlap in the last key.
Remaining_Inclusive(w) ==
    {pk \in Pks : pk >= last[w] /\ urls[section[w]][pk] # 0}

\* One page of _iter_section_entries: the next BatchSize instances in pk order.
Remaining(w) == {pk \in Pks : pk > last[w] /\ urls[section[w]][pk] # 0}

IsPage(page, w) ==
    /\ \A i \in DOMAIN page : page[i] \in Remaining(w)
    /\ \A i, j \in DOMAIN page : i < j => page[i] < page[j]
    /\ \A pk \in Remaining(w) :
         \/ \E i \in DOMAIN page : page[i] = pk
         \/ Len(page) = BatchSize /\ pk > page[BatchSize]

ReadChunk(w) ==
    /\ pc[w] = "read" /\ chunk[w] = <<>>
    /\ \/ /\ Remaining(w) = {}
          /\ Goto(w, "flush") /\ UNCHANGED <<chunk, last>>
       \/ \E n \in 1..BatchSize : \E page \in [1..n -> Pks] :
            /\ IsPage(page, w)
            /\ chunk' = [chunk EXCEPT ![w] =
                           [i \in 1..n |-> <<page[i], urls[section[w]][page[i]]>>]]
            /\ last' = [last EXCEPT ![w] = page[n]]
            /\ UNCHANGED pc
    /\ UNCHANGED <<siteVars, dbVars, storageVars, faults, queue, section, oldPaths,
                   buf, made, created, since, listing, log>>

\* Mutant: off by one.
Full_OffByOne(w) == Len(buf[w]) > MaxUrls

Full(w) == Len(buf[w]) >= MaxUrls

TakeEntry(w) ==
    /\ pc[w] = "read" /\ chunk[w] # <<>> /\ ~Full(w)
    /\ buf' = [buf EXCEPT ![w] = Append(@, Head(chunk[w]))]
    /\ chunk' = [chunk EXCEPT ![w] = Tail(@)]
    /\ UNCHANGED <<siteVars, dbVars, storageVars, faults, pc, queue, section, oldPaths,
                   last, made, created, since, listing, log>>

\* A shard is stored as soon as the next entry does not fit, or none is left; a
\* section without URLs gets one empty shard.  Its record is not written yet.
ShardReady(w) ==
    \/ pc[w] = "read" /\ chunk[w] # <<>> /\ Full(w)
    \/ pc[w] = "flush" /\ (buf[w] # <<>> \/ made[w] = <<>>)

\* Mutant: the entry that did not fit is dropped.
PublishShard_DropsEntry(w) ==
    /\ ShardReady(w)
    /\ store' = Put(ShardPath(w), buf[w])
    /\ made' = [made EXCEPT ![w] = Append(@, buf[w])]
    /\ buf' = [buf EXCEPT ![w] = <<>>]
    /\ chunk' = [chunk EXCEPT ![w] = IF @ = <<>> THEN @ ELSE Tail(@)]
    /\ UNCHANGED <<siteVars, dbVars, index, faults, pc, queue, section, oldPaths,
                   last, created, since, listing, log>>

PublishShard(w) ==
    /\ ShardReady(w)
    /\ store' = Put(ShardPath(w), buf[w])
    /\ made' = [made EXCEPT ![w] = Append(@, buf[w])]
    /\ buf' = [buf EXCEPT ![w] = <<>>]
    /\ UNCHANGED <<siteVars, dbVars, index, faults, pc, queue, section, oldPaths, chunk,
                   last, created, since, listing, log>>

\* Mutant: the flag is cleared before the records are there.
DeleteRows_ClearsFlag(w) ==
    /\ pc[w] = "flush" /\ ~ShardReady(w)
    /\ rows' = rows \ RowsOf(section[w])
    /\ stale' = [stale EXCEPT ![section[w]] = FALSE]
    /\ Goto(w, "rows")
    /\ UNCHANGED <<siteVars, status, storageVars, faults, queue, runVars, listing, log>>

DeleteRows(w) ==
    /\ pc[w] = "flush" /\ ~ShardReady(w)
    /\ rows' = rows \ RowsOf(section[w])
    /\ Goto(w, "rows")
    /\ UNCHANGED <<siteVars, status, stale, storageVars, faults, queue, runVars, listing, log>>

\* One INSERT per shard, under the unique constraint on (section, sequence) and
\* the foreign key to the section.
RowAccepted(w) ==
    /\ Exists(section[w])
    /\ <<section[w], created[w]>> \notin PathsOf(section[w])

\* Mutant: every record gets the first shard's checksum.
CreateRow_FirstChecksum(w) ==
    /\ pc[w] = "rows" /\ created[w] < Len(made[w]) /\ RowAccepted(w)
    /\ rows' = rows \cup {[section  |-> section[w], seq |-> created[w],
                           checksum |-> made[w][1]]}
    /\ created' = [created EXCEPT ![w] = @ + 1]
    /\ UNCHANGED <<siteVars, status, stale, storageVars, faults, pc, queue, section,
                   oldPaths, chunk, last, buf, made, since, listing, log>>

CreateRow(w) ==
    /\ pc[w] = "rows" /\ created[w] < Len(made[w]) /\ RowAccepted(w)
    /\ rows' = rows \cup {[section  |-> section[w], seq |-> created[w],
                           checksum |-> made[w][created[w] + 1]]}
    /\ created' = [created EXCEPT ![w] = @ + 1]
    /\ UNCHANGED <<siteVars, status, stale, storageVars, faults, pc, queue, section,
                   oldPaths, chunk, last, buf, made, since, listing, log>>

\* Mutant: files written again by this generation are deleted too.
Tidy_DropsNew(w) ==
    /\ pc[w] = "rows" /\ created[w] = Len(made[w])
    /\ store' = Drop(oldPaths[w])
    /\ Goto(w, "save")
    /\ UNCHANGED <<siteVars, dbVars, index, faults, queue, runVars, listing, log>>

\* Files of the previous generation that this one did not write are deleted;
\* a delete that fails is logged and forgotten.
Tidy(w) ==
    /\ pc[w] = "rows" /\ created[w] = Len(made[w])
    /\ \/ store' = Drop(oldPaths[w] \ NewPaths(w)) /\ UNCHANGED faults
       \/ \E kept \in SUBSET (oldPaths[w] \ NewPaths(w)) \ {{}} :
            store' = Drop((oldPaths[w] \ NewPaths(w)) \ kept) /\ Fault
    /\ Goto(w, "save")
    /\ UNCHANGED <<siteVars, dbVars, index, queue, runVars, listing, log>>

\* section.save(update_fields=[..., "is_stale"]) writes FALSE whatever the row
\* says by now, and the log succeeds.
SaveSection(w) ==
    /\ pc[w] = "save" /\ Exists(section[w])
    /\ stale' = [stale EXCEPT ![section[w]] = FALSE]
    /\ log' = [log EXCEPT ![w] = "success"]
    /\ Goto(w, "index") /\ Forget(w)
    /\ UNCHANGED <<siteVars, status, rows, storageVars, faults, queue, listing>>

-----------------------------------------------------------------------------
(* generate_index *)

\* Mutant: inactive sections are listed.
ListFiles_AllSections(w) ==
    /\ pc[w] = "index"
    /\ listing' = [listing EXCEPT ![w] = {RowPath(r) : r \in rows}]
    /\ Goto(w, "write")
    /\ UNCHANGED <<siteVars, dbVars, storageVars, faults, queue, runVars, log>>

ListFiles(w) ==
    /\ pc[w] = "index"
    /\ listing' = [listing EXCEPT ![w] =
                     UNION {PathsOf(s) : s \in {t \in Sections : status[t] = "active"}}]
    /\ Goto(w, "write")
    /\ UNCHANGED <<siteVars, dbVars, storageVars, faults, queue, runVars, log>>

\* An index that would list too much is refused, and the old one stays.
IndexFits(w) == Cardinality(listing[w]) <= MaxIndex

WriteIndex(w) ==
    /\ pc[w] = "write" /\ IndexFits(w)
    /\ index' = listing[w]
    /\ listing' = [listing EXCEPT ![w] = {}]
    /\ Goto(w, "pick")
    /\ UNCHANGED <<siteVars, dbVars, store, faults, queue, runVars, log>>

IndexRefused(w) ==
    /\ pc[w] = "write" /\ ~IndexFits(w)
    /\ listing' = [listing EXCEPT ![w] = {}]
    /\ Goto(w, "pick")
    /\ UNCHANGED <<siteVars, dbVars, storageVars, faults, queue, runVars, log>>

-----------------------------------------------------------------------------
(* Failures *)

\* Mutant: a status outside GENERATION_STATUS_CHOICES.
Raised_UnknownStatus(w) ==
    /\ log' = [log EXCEPT ![w] = "error"]
    /\ Goto(w, "pick") /\ Forget(w)

\* The handler of generate_section: the log fails, the exception goes up to
\* generate_all_sections, which takes the next section.
Raised(w) ==
    /\ log' = [log EXCEPT ![w] = IF Exists(section[w]) THEN "failed" ELSE "none"]
    /\ Goto(w, "pick") /\ Forget(w)

\* A constraint of the database refuses a row.
RowRefused(w) ==
    /\ \/ pc[w] = "rows" /\ created[w] < Len(made[w]) /\ ~RowAccepted(w)
       \/ pc[w] = "save" /\ ~Exists(section[w])
    /\ Raised(w)
    /\ UNCHANGED <<siteVars, dbVars, storageVars, faults, queue, listing>>

\* An exception between the creation of the log and the try block reaches the
\* task, which goes on, but not the log, which stays "running".
StartFails(w, s) ==
    /\ pc[w] = "pick" /\ s \in queue[w]
    /\ Fault
    /\ queue' = [queue EXCEPT ![w] = @ \ {s}]
    /\ log' = [log EXCEPT ![w] = "running"]
    /\ UNCHANGED <<siteVars, dbVars, storageVars, pc, runVars, listing>>

\* A query, a model method or the storage raises.  A shard that fails to publish
\* may have lost its previous file (see StoragePublish).
GenerationFails(w) ==
    /\ pc[w] \in {"read", "flush", "rows", "save"}
    /\ Fault /\ Raised(w)
    /\ store' \in {store} \cup (IF ShardReady(w) THEN {Drop({ShardPath(w)})} ELSE {})
    /\ UNCHANGED <<siteVars, dbVars, index, queue, listing>>

\* generate_index raises outside that handler: the log keeps its "success".
IndexFails(w) ==
    /\ pc[w] \in {"index", "write"}
    /\ Fault /\ Goto(w, "pick")
    /\ index' \in {index} \cup (IF pc[w] = "write" THEN {NoIndex} ELSE {})
    /\ listing' = [listing EXCEPT ![w] = {}]
    /\ UNCHANGED <<siteVars, dbVars, store, queue, runVars, log>>

Crash(w) ==
    /\ pc[w] # "idle"
    /\ Fault /\ Goto(w, "idle")
    /\ queue' = [queue EXCEPT ![w] = {}]
    /\ listing' = [listing EXCEPT ![w] = {}]
    /\ Forget(w)
    /\ UNCHANGED <<siteVars, dbVars, storageVars, log>>

-----------------------------------------------------------------------------
Step(w) ==
    \/ \E s \in Sections : StartSection(w, s)
    \/ EndTask(w) \/ ReadChunk(w) \/ TakeEntry(w) \/ PublishShard(w) \/ DeleteRows(w)
    \/ CreateRow(w) \/ Tidy(w) \/ SaveSection(w) \/ RowRefused(w)
    \/ ListFiles(w) \/ WriteIndex(w) \/ IndexRefused(w)

Begin(w) ==
    \/ \E force \in Modes : BeginAll(w, force) \/ \E s \in Sections : BeginOne(w, s, force)
    \/ BeginIndex(w) \/ RequestIndex(w)

Next ==
    \/ \E s \in Sections :
         (\E pk \in Pks, v \in 0..MaxEdits : Edit(s, pk, v)) \/ MarkStale(s) \/ MarkLost(s)
    \/ \E w \in Workers :
         \/ Begin(w) \/ Step(w)
         \/ (\E s \in Sections : StartFails(w, s))
         \/ GenerationFails(w) \/ IndexFails(w) \/ Crash(w)

Spec == Init /\ [][Next]_vars

\* Workers and receivers keep running, and beat starts the forced regeneration
\* daily: with one queue it is never passed over for good.
Fairness ==
    /\ \A s \in Sections : WF_vars(MarkStale(s))
    /\ \A w \in Workers : WF_vars(Step(w)) /\ SF_vars(BeginAll(w, TRUE))

FairSpec == Spec /\ Fairness

-----------------------------------------------------------------------------
(* Properties of a run's reading and sharding *)

Generating(w) == pc[w] \in {"read", "flush", "rows", "save"}

Ascending(q) == \A i, j \in DOMAIN q : i < j => q[i][1] < q[j][1]
Before(q, r) == \A i \in DOMAIN q, j \in DOMAIN r : q[i][1] < r[j][1]
UpTo(q, pk)  == \A i \in DOMAIN q : q[i][1] <= pk

InOrder(w) ==
    /\ Ascending(buf[w]) /\ Ascending(chunk[w]) /\ Before(buf[w], chunk[w])
    /\ UpTo(buf[w], last[w]) /\ UpTo(chunk[w], last[w])
    /\ \A k \in DOMAIN made[w] :
         /\ Ascending(made[w][k]) /\ UpTo(made[w][k], last[w])
         /\ Before(made[w][k], buf[w]) /\ Before(made[w][k], chunk[w])
         /\ \A m \in DOMAIN made[w] : k < m => Before(made[w][k], made[w][m])

\* The entries of a run, in the order read: the shards made, the one being filled
\* and the page at hand are ascending and disjoint in pk, up to last_pk.  So no
\* instance is listed twice, whatever is saved or deleted between two pages.
\* (Keyset pagination in _iter_section_entries.)
NoDuplicateUrls == \A w \in Workers : Generating(w) => InOrder(w)

\* No shard exceeds max_urls_per_file, none but the last is less than full, and
\* only a section without URLs has an empty one.
ShardsFilled == \A w \in Workers : Generating(w) =>
    /\ Len(buf[w]) <= MaxUrls
    /\ \A k \in DOMAIN made[w] : Len(made[w][k]) <= MaxUrls
    /\ \A k \in DOMAIN made[w] :
         k < Len(made[w]) \/ buf[w] # <<>> \/ chunk[w] # <<>> => Len(made[w][k]) = MaxUrls
    /\ \A k \in DOMAIN made[w] : made[w][k] = <<>> => Len(made[w]) = 1

Collected(w, entry) ==
    \/ \E i \in DOMAIN chunk[w] : chunk[w][i] = entry
    \/ \E i \in DOMAIN buf[w] : buf[w][i] = entry
    \/ \E k \in DOMAIN made[w] : \E i \in DOMAIN made[w][k] : made[w][k][i] = entry

MissesNone(w) == \A pk \in Pks :
    LET version == urls[section[w]][pk] IN
    /\ version # 0 /\ version <= since[w]
    /\ pk <= last[w] \/ pc[w] # "read"
    => Collected(w, <<pk, version>>)

\* An instance that was there unchanged since the run began is in the run's
\* shards once the run has read past it, whatever happened to its neighbours.
NothingMissed == \A w \in Workers : Generating(w) => MissesNone(w)

-----------------------------------------------------------------------------
(* Properties of what is published *)

Stored(path, content) == [path |-> path, content |-> content] \in store

Busy(s) == \E w \in Workers : Generating(w) /\ section[w] = s

\* The section's records are numbered from 0 and each one's file is in storage
\* with the recorded content.
Published(s) ==
    /\ RowsOf(s) # {}
    /\ \A r \in RowsOf(s) :
         /\ Stored(RowPath(r), r.checksum)
         /\ r.seq > 0 => <<s, r.seq - 1>> \in PathsOf(s)

Current(s) == {<<pk, urls[s][pk]>> : pk \in {k \in Pks : urls[s][k] # 0}}
EntriesOf(content) == {content[i] : i \in DOMAIN content}
Recorded(s) == UNION {EntriesOf(r.checksum) : r \in RowsOf(s)}

\* A section that needs regeneration is marked so: when its flag is down and no
\* receiver or run is under way, its shards list exactly its present instances.
FlagCoversEdits == \A s \in Sections :
    Exists(s) /\ ~stale[s] /\ ~Busy(s) /\ s \notin pending => Recorded(s) = Current(s)

Listable == UNION {PathsOf(s) : s \in {t \in Sections : status[t] = "active"}}

\* No worker is between its delete of a section's records and the end of the index
\* that follows it.
Calm(w) == pc[w] \in {"idle", "pick", "read", "flush"}

IndexDue == (\A w \in Workers : Calm(w)) /\ faults = 0 /\ index # NoIndex
                /\ Cardinality(Listable) <= MaxIndex

\* Unless something failed, and as long as they fit in one index, it lists the
\* files of every active section and nothing else, except between a run's change
\* of the records and the index it writes.
IndexComplete == IndexDue => index = Listable

\* A file the index lists is in storage, except while a run has replaced the
\* section's files and not yet the index.
NoDeadLinks == IndexDue => \A path \in index : \E f \in store : f.path = path

Replaced(w, r) == pc[w] \in {"read", "flush"} /\ section[w] = r.section /\ r.seq < Len(made[w])

\* Unless something failed, a recorded checksum is that of the file's content, so
\* the next run's comparison with it (and generated_at) is about what is really
\* published: except for the shards a run has replaced and not yet recorded.
ChecksumOfContents == faults = 0 => \A r \in rows :
    Stored(RowPath(r), r.checksum) \/ \E w \in Workers : Replaced(w, r)

\* What a crawler that follows the index finds of a section.
Reachable(s) == UNION {EntriesOf(f.content) : f \in {g \in store :
                    index # NoIndex /\ g.path \in index /\ g.path[1] = s}}

\* Once edits and failures cease, the daily regeneration brings what crawlers find
\* in line with the data, whatever was lost before: marks, crashes, files; as long
\* as there are no more files than one index may list.
EventuallyServed ==
    <>[](Cardinality(Listable) <= MaxIndex) =>
        <>[] \A s \in Sections \ Misconfigured :
            status[s] = "active" => index # NoIndex /\ Reachable(s) = Current(s)
=============================================================================
