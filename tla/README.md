# Verification of django-icv-sitemaps

TLA+ specifications of `icv_sitemaps`, a Django app that generates XML sitemaps
from model instances and serves them together with `robots.txt`, `llms.txt`,
`ads.txt`, redirects and a log of 404s.  Paths below are relative to the
repository; `generation.py` is `src/icv_sitemaps/services/generation.py`.

The interesting part of this program is not any single function.  Celery workers,
management commands, admin actions and web requests all write the same three
stores (the database rows, the sitemap files in a Django storage, a cache), no two
of those stores share a transaction, and almost no step excludes another.  The
specifications therefore cut each handler at every database statement and every
storage call, and let everybody else act in between.

## 1. The system

| component | state | operations | talks to |
|---|---|---|---|
| storage publishing (`generation.py:562-725`) | the file at a storage path, its `.tmp` sibling | `_storage_overwrites_in_place`, `_replace_in_storage`, `_write_buffered_to_storage` | the storage backend; called for every shard and for the index |
| section generation (`generation.py:953-1592`) | `SitemapSection.is_stale`, `SitemapFile` rows, shard files, `sitemap.xml`, `SitemapGenerationLog` | `generate_section`, `generate_all_sections`, `generate_index`, `mark_section_stale` | the project's models, publishing |
| section services (`services/sections.py`) | section rows, files | `create_section`, `delete_section` | rows and files of a running generation |
| tasks (`tasks.py`) | none of their own | stale and full regeneration, orphan cleanup, retention | all of the above |
| receivers (`auto_sections.py`) | none | `post_save`/`post_delete` mark the model's section stale | `mark_section_stale` |
| admin (`admin.py`) | none | mark stale, regenerate, delete with files; the forms of sections, rules and files | services |
| sitemap views (`views.py:1-277`) | none | serve shards and index (generating a missing index) | publishing, services |
| discovery files (`views.py:278-512`, `services/robots.py`, `ads.py`, `discovery.py`), cache (`cache.py`), invalidation (`handlers.py`) | `RobotsRule`, `AdsEntry`, `DiscoveryFileConfig` rows, cached renderings | render and cache on a miss, invalidate when a row changes | the cache, the admin's transactions |
| redirects (`services/redirects.py`, `middleware.py`) | `RedirectRule` rows, the cached list of prefix and regex rules | look up before and after the view, add, import, edit, expire | cache, requests |
| 404 log (`services/redirects.py:471-513`) | `RedirectLog` rows | `record_404`, turn an entry into a 410 rule, prune | middleware, admin, tasks |
| tenancy (`tenancy.py`, `models/base.py`) | none | storage path and query filter per tenant | everything |

What makes it hard, with the lines, is the `hazards` list of `PROJECT.json`.  In short:

* a run writes shards first, then the rows, then deletes what the previous
  run left, then saves the flag, then the index: five effects, any of which may
  be the last one before an exception or a killed worker;
* the flag `is_stale` is written `FALSE` at the end from an instance read at the
  beginning;
* the admin's change form writes `is_stale` back as it was when it was opened;
* instances change between the pages of one run;
* two runs, a run and a delete, a run and the cleanup may overlap on one section,
  and every run ends by rewriting the one `sitemap.xml`;
* a path is replaced by up to seven storage calls, of which each may fail, and
  Django storages rename a save aside when its name is taken;
* a fill of the cache is a miss, a query and a set, a change is a commit and an
  invalidation, in either order, and nothing keeps the two apart: cached renderings
  and rule lists outlive what they were computed from;
* a request meets the redirect rules twice, before and after the view, and any of its
  lookups may fail;
* several requests record one 404 at a time, while administrators resolve it and a
  task prunes it.

The properties that make the parts correct: a publish is atomic and loses nothing;
a run lists each instance once, skips none, and cuts shards to the limit;
a section whose flag is down, and was not lowered by hand, is published in full; an edit is eventually served;
the index lists what is there and nothing else; files without a record are
collected; a cached file is what its rows say unless a race or a failure came in
between, and then for no longer than the timeout; a live page is never answered
410 and an exact rule is never overlooked; no recorded hit on a missing path is lost or
counted twice.

## 2. The modules

| module | what it is |
|---|---|
| `AtomicFile` | the promise of publishing: one register, replaced in one step |
| `StoragePublish` | `_replace_in_storage`, one storage call per step, by several publishers |
| `StoragePublishProofs` | theorems about it, the refinement of `AtomicFile` among them |
| `SitemapGeneration` | workers generating sections and the index while the data is edited |
| `SitemapGenerationProofs` | theorems about it: types, reading and sharding, for any number of workers |
| `SitemapMaintenance` | extends it with create, delete, the admin's forms and actions and the orphan cleanup |
| `SitemapPublishingProofs` | theorems about both with one worker: the stale flag, the index, the checksums |
| `Sharding` | the byte and URL limits of the two writers, as functions of the sizes of the entries |
| `SitemapSharding` | composes `SitemapGeneration` and `Sharding`: the shards of a run against the files of the writers |
| `ShardingProofs` | theorems about it: the writers cut any entries as they should, and runs as the writers do |
| `DiscoveryCache` | the discovery files' cache: requests that fill it, changes that empty it |
| `RobotsTxt` | grouping and ordering of robots rules, and two kinds of crawlers that read the result |
| `DiscoverySite` | composes the two: the rows behind a `robots.txt` are rules |
| `DiscoverySiteProofs` | theorems about it: the cache and the crawlers |
| `RedirectMiddleware` | requests through the middleware, the rule list's cache, changes of rules |
| `RedirectMiddlewareProofs` | theorems about it |
| `NotFoundLog` | `record_404` under concurrent requests, the admin's action, retention |
| `NotFoundLogProofs` | theorems about it |
| `NaturalLemmas` | least numbers, induction and recursion over the naturals, for the proofs |
| `MC...` | the model values of TLC's instances |

`SitemapGeneration` uses publishing through its promise: storing a shard or the
index is one step that either happens, or fails with the previous file kept or
lost.  `StoragePublish` shows when that promise is kept and when it is not.
Likewise it counts entries against the URL limit only; `Sharding` has the bytes.
The three web modules share no state with the generation or with each other
except the cache *backend*, whose keys are disjoint, and the rules a 410 action adds,
which `NotFoundLog` keeps as a set of paths.

### StoragePublish

`dest` and `staged` are what is stored at `dest_path` and at `dest_path + ".tmp"`;
`aside` holds the documents that a save put under a name Django invented because
the requested one was taken.  A publisher's `pc` names the storage call it is
about to make; each action is one call together with the `if` around it.
`backend` is `in_place` for a storage whose `save` overwrites and `generic` for one
that renames.  Document contents are compared only by identity and by size (the
code verifies a staged upload by existence and size), so documents are model
values with a `Size`.  `TornSaves` says that a save may leave the beginning of the
file, noticed or not: a backend that writes the final name chunk by chunk does so,
the default `FileSystemStorage` included.  `Interrupted` is an exception or the
death of the process before any call.  `met` is a history variable: the publishers
whose current (or last) run overlaps another.

### SitemapGeneration

State: the instances of each section (`urls`, a version per key), receivers yet
to run (`pending`), the rows (`status`, `stale`, `rows`), the files (`store`,
`index`), and per worker the locals of `generate_section`.  One action per
query or file:

    BeginAll, BeginOne, BeginIndex, RequestIndex   tasks, commands, requests
    StartSection     log row, settings, old_paths                973-1038
    ReadChunk        one keyset page                             1229-1245
    TakeEntry        an entry into the shard being filled        467-528
    PublishShard     a full (or last, or empty) shard is stored  1282-1443
    DeleteRows, CreateRow   the records, one INSERT per shard    1079-1101
    Tidy             old files that were not rewritten           1103-1110
    SaveSection      flag down, log "success"                    1112-1134
    ListFiles, WriteIndex   generate_index                       1516-1592
    IndexRefused     more than an index may list                 1541-1549
    RowRefused, StartFails, GenerationFails, IndexFails, Crash   error paths
    Edit, MarkStale, MarkLost   a model is saved or deleted; its receiver

The streaming and the buffered path cut shards at the same places as far as
the URL limit goes, and are one sequence of actions here.

Abstractions: an entry is `<<pk, version>>`, since rendering is a function of the
instance; the checksum of a shard is its content; the log row and the snapshots at
the start are one step, the section's and the log's save at the end are one step,
and the deletes of `Tidy` are one step (any subset may fail).  A receiver runs
after its save has committed (autocommit).  A deleted section's name is not used
again.  `MaxIndex` is `_INDEX_MAX_ENTRIES`: an index of more files is refused, for good
as long as there are so many; the limit on its bytes refuses in the same way and is not told
apart.  `urls` versions count the edits, bounded by `MaxEdits`; failures and
crashes are bounded by `MaxFaults`; those are the only bounds on behaviours.

### SitemapMaintenance

`delete_section` in its three statements (collect paths, delete the row with its
records and logs, delete the files), `cleanup_orphan_files` in its (known paths,
directory listing, then file by file), `create_section`, the admin's `mark_stale`,
`regenerate_selected`, and its add and change forms.  No `SitemapFile` names
`sitemap.xml`, so the cleanup deletes the index too, as the code does.

`SitemapSectionAdmin` (`admin.py:112-162`) has no `list_editable` field: `is_active` changes
only through the change form, whose fields include `is_stale` (143), which is not among the
read-only ones (127).  `ChangeForm` therefore writes both: `is_active` as posted, `is_stale`
as any form may have it, that is, as the flag was at any time since the section was created
(`shown`; forms stay open for as long as one likes) or as it was set by hand (`Ticks`).
`AddForm` creates a section with its box ticked, unless unticked by hand.  `byHand` is a
history variable: the sections whose flag went down by a form and has not gone up, nor been
written by a run, since.

### Sharding

`StreamedFiles` and `BufferedFiles` are `_generate_streaming` and
`_generate_buffered` as recursive functions over the sizes of the rendered entries:
`WouldExceed` and `StreamCuts` are the two tests of the first, `BufferCuts` the one
of the second, which counts the header and footer from the start.  The reference
definition is `WellCut`: same files from both, everything in one, within the limits
(but for one entry that alone is over the bytes), no file ended early.
`EntriesWellCut` (in `SitemapSharding`) checks it and ties it to the steps `TakeEntry`
and `PublishShard`: a run that has read everything has made the files these functions make.

### DiscoveryCache, RobotsTxt, DiscoverySite

    Request   cache miss, or a failing get          views.py:282-512, cache.py:30
    Render    query and rendering; 404 or failure
    Store     safe_set with the timeout             cache.py:43
    Add       the INSERT, its signal, a call of its own   robots.py, ads.py
    Set       a signal inside the transaction, a call after it   discovery.py:118
    Save      a save(), or a bulk write and the named invalidate_*
    Admin     the signal inside the transaction, then the commit
    Commit, Invalidate, Crash     the next step of a change
    Tick, Evict                   the cache backend

A change is a plan (`todo`), a sequence of `"commit"` and `"invalidate"`, because that
order is the whole difference between the services, a plain `save()` and the
admin: Django's admin wraps its views in a transaction and `Model.delete` opens one,
so there `post_save` and `post_delete` run before anybody else can see the change.  A row that
is deactivated (`n = Nothing`) is one no file is rendered from, whoever saves it.
A row lock and the unique index make a second change of a row wait (`Locked`).  A key
is a kind of file and a tenant; the keys in `FileKeys` have at most one row and are a
404 without it.  What is cached is modelled by the set of rows it was rendered from,
as rendering is a function of these.  `raced` and `suspect` are history variables:
which fills overlap a change, and which keys a race, a failed or crashed invalidation,
or a row that moved elsewhere may have left outdated.

`RobotsTxt` has no state.  `GroupOf` collects the rules of an agent whatever its
spelling, `SortsBefore` is the key of `_longest_match_order`, `Orderings` every order
a stable sort by it may produce.  A path is the sequence of its segments and a pattern
matches what it is a prefix of; `*`, `$`, the spelling that heads a block and directives other than allow and
disallow are left out.  `DiscoverySite` makes the bodies of rows rules.

### RedirectMiddleware

One action per query and cache call of a request, which goes through the lookup
twice, `missing` telling the passes apart:

    Arrive         a request                                middleware.py:41-47
    LookUpExact    _get_exact_redirect_rule                 redirects.py:86-135
    ReadList, QueryList, StoreList   get_cached_redirect_rules, the match    24-83, 138-196
    LookupFails    the except branches                      middleware.py:48-66
    View           the rest of the stack                    57-69
    AskResolver, Record404                                  middleware.py:165-238
    AddRedirect, BulkCreate, BulkImport, AdminAdd, AdminSave, AdminDelete, CleanupExpired
    Commit, InvalidateList, Crash    the next step of a change
    Tick           the clock: rules expire, the cached list ages

A rule is a constant record; the table is a set of them and a change removes some and adds
others.  `Covers` says what a pattern matches as a prefix or regex.  `overdue`
counts ticks since a rule expired.  Time may pass between a request's query of the list and
its set, for which the code has no bound: `slow` are the requests in whose list a rule expired
meanwhile, `late` says that the cached list was set by one, and `ExpiredBriefly` excepts those.
Both only record.  Hit counters and the `redirect_matched` signal change
nothing a request reads and are left out, and so is the validation of what is saved.
A tenant that cannot be told is one of the ways a lookup fails.

### NotFoundLog

`record_404` statement by statement: `Find` (get), `Update` (one UPDATE with `F()`),
`Refresh` (refresh_from_db and the trimmed referrers), `Save` (`update_fields`),
`Create`, and `Fail` before any of them; a row that is pruned between two is made
again, a second INSERT raises and loses its hit.  `tally` is a history variable: the hits on a
path since its row was made, the recorded, the refused and the failed ones; those of calls
still under way are added when they end.  `MakeRule` and `Resolve` are
the two halves of `create_gone_from_404`, `Delete` the admin's delete, `Age` and `Prune`
the retention task.  A row carries a `pk` so that one that was deleted and made again is
not taken for itself.  The rule that `MakeRule` makes is not deleted again.

## 3. The runs

TLC, a few seconds to three minutes each with two workers.  Deadlock is not checked
in the generation, maintenance and 404 runs: once the bounds on edits, calls and faults
are spent and nothing is due, a site may rest.  Publishing, the cache and the
middleware never rest.

| run | instance | shows |
|---|---|---|
| `publish_one` | one publisher, 3 documents (two of equal size), whole saves | replacing a path is atomic: `AtomicReplacement`, `CompleteCopySurvives`, `ReturnedMeansPublished` |
| `publish_torn` | two publishers, torn saves | a run that overlaps no other knows the state of its path (`PublisherKnows`, `ReplacedOnlyWhenStaged`) whatever collisions and torn saves came before |
| `gen_section` | 2 workers, 1 section, 4 keys, pages of 2, shards of 3, 1 edit | reading and sharding, whoever else runs: `NoDuplicateUrls`, `ShardsFilled`, `NothingMissed`; the two writers cut all inputs of up to five entries alike and within the limits, and runs cut their shards as the writers do: `EntriesWellCut` |
| `gen_published` | 1 worker, 2 sections of up to two URLs, shards of 1, an index of at most 3, both modes, 1 edit, 1 fault, fair | as long as nothing fails the index lists the files of the active sections and no other, and no link is dead, at every moment but between a run's change of the records and its index (`IndexComplete`, `NoDeadLinks`); a checksum is that of its file at every moment but for the shards a run has replaced and not recorded (`ChecksumOfContents`); and whatever was lost, `EventuallyServed` |
| `mnt_lifecycle` | 1 worker, 1 section, 2 keys, 1 edit, 1 fault, stale-only tasks, with create, delete and the admin, forms included | a flag that is down and was not lowered by a form means a section published in full (`FlagTrustworthy`), and but for forms none goes down on a section that is not published with all that was there throughout the run (`FlagDownWhenComplete`) |
| `mnt_healing` | 1 worker, 1 section of at most one URL, no edit, 1 fault, forced runs, the admin and the weekly cleanup, fair | `OrphansCollected`, `IndexRestored`, `DeadLinksHealed` |
| `web_cache` | `DiscoverySite`: `robots.txt` and one file of a single row, 2 rows, 1 reader, 2 writers, 2 changes, 1 fault | a cached file is right unless something named came in between (`OnlyRacesLeaveStale`), and right in the end (`EventuallyFresh`); every `robots.txt` served means one thing to all crawlers (`CrawlersAgree`) |
| `web_redirect` | one path; an exact tombstone and an exact redirect for it, a gone prefix and a live regex rule that cover it; 1 request after another, 1 writer, 2 changes, 1 fault, a timeout of 2 ticks | `GoneOnlyWhenUnresolved`, `ExactObeyed`, `ListObeyed`, `ExpiredBriefly`, `EventuallyInForce` |
| `web_notfound` | one path, 2 overlapping callers, 4 calls, 2 referrers of which 1 is kept, 1 fault | the count of a row is behind the hits by those refused their row, failed or under way and no more (`HitsAccounted`), `ReferrersWithinHits`, `ResolvedForGood` |

The bounds: four keys with pages of two and shards of three give a page boundary
inside a shard, a shard boundary inside a page, a full last shard, a partial one and
an empty section, and an edit can hit before, at and behind the cursor; the two
workers are interchangeable, so `gen_section` uses them as a symmetry set.  The
initial data is any set of instances, so one edit (`MaxEdits = 2`, the initial data
being version 1) makes a section grow, shrink or change at any moment, and one fault
falls at any step; the recovery that follows is then complete.  `gen_published` starts with
`a` active and with `b` active or not, and of at most one URL (`SmallInit`): the second
section is there to be listed or not, to fill the index up and to push it over its limit of
three when both have two URLs, which the one edit can bring about and undo.  In `mnt_healing`
files become orphans through crashes, failed deletes and deleted sections; a section that shrinks
(`Tidy` deletes a shard the index still lists) is in `gen_published` only.  What holds with two workers is checked
with two; what needs a single worker (one queue consumed by one process) is checked
with one, and the next table shows why.

The web runs: a stale fill takes a reader and a writer, and the second writer is there for
the invalidation of one change to hit the other half-way; two changes are one to go wrong
and one to mend it.  `web_cache` starts from one of the tables that differ only by which row is which or
by what the row of `llms.txt` says (`SmallInit`).  Only rules for one path can
hide each other, and the four rules are one of each kind and phase, of which the unique
constraint lets one exact rule exist at a time; a timeout of two ticks is the shortest in which
a rule can expire while it is cached and the list then age.  Races of `record_404` are
between two callers, and the third and fourth call find the row pruned or deleted by
then; one referrer kept of two is the limit of ten at its boundary.  `EntriesWellCut` takes
entries of one to three bytes, one to three URLs and two to nine bytes a file, so that each
limit is met exactly, missed by one, and exceeded by a single entry.

Each property also has a mutant, a plausible slip in one of the modelled
definitions that falsifies it under the same configuration; mutants sit just
before the definition they stand in for.

### Where the code and its words part

| run | property | what happens |
|---|---|---|
| `gen_lost_edit` | `FlagCoversEdits` | an edit behind the cursor marks the section stale, the run's last save clears the mark: neither published nor due |
| `mnt_form` | `FlagHonest` | a change form is opened while its section is fresh; the section is marked stale, its run fails half-way, the form is saved and `is_stale` goes down over what the run left |
| `web_top_referrers` | `TopReferrers` | the sort is stable and the newest referrer last, so with a full dict it is the one cut off on every hit: a referrer of any number of hits never displaces one that sent a single hit |

The daily forced regeneration publishes everything again, which bounds the damage of a
lost edit in practice; `EventuallyServed` shows it for one worker and any lost marks,
failures and crashes.  The same goes for a flag that a form lowered, until when no stale run
will repair the section.

`models/redirects.py:181-182` has the count of a 404 "incremented atomically on each
occurrence".  Of two
first hits at once the second is refused its row by the unique constraint
(`redirects.py:505-511`), the middleware swallows the error, and its hit is not counted.
`HitsAccounted` says how far this goes: a row misses at most one hit for every caller beside
the one that made it and one for every failure, and no hit that has reached it is lost.

Four more hold only under the hypotheses of the runs above.  Each is a few changed
lines in a `.cfg` away:

* `CompleteCopySurvives` in `publish_one` with two publishers: one deletes the published
  file, the other drops the shared `.tmp`, a failure then leaves nothing;
* `FlagTrustworthy` in `mnt_lifecycle` with `Modes = {FALSE, TRUE}`: a forced run on a fresh section
  fails after its first shard and the flag stays down over the mixture.  This concerns
  the daily task and the command's `--force`; the admin's `regenerate_selected`
  raises the flag first and is not affected.  It also fails with a second worker, and with
  `Cleanups = TRUE`, when a cleanup deletes what was recorded after it began;
* `IndexComplete` in `gen_published` with two workers (`Spec`, `Pks = {1}`, `MaxEdits = 1`): two
  runs list the records in one order and write the index in the other;
* `OnlyRacesLeaveStale` with `suspect` dropped from it, which is what `handlers.py:3-5` says
  ("views always serve fresh content after database changes"): a fill that began before
  the commit is stored after the invalidation, or the admin's signal comes before the commit.

Smaller facts learned from the model, not kept as runs of their own:

* with two publishers on a renaming backend a run can return success while its
  document lies under a renamed path: the name `save` returns is ignored
  (`generation.py:638`);
* between the delete and the last save of a renaming backend readers find no file
  (the docstring says so), and a torn direct save is served as it is;
* two workers on one section with an edit between them leave the checksums of one
  beside the files of the other; without an edit the overlap is harmless;
* a section deleted while it is generated leaves shards in storage until the next
  cleanup;
* the weekly cleanup reads the known paths before it lists the directory, so it deletes
  a shard that was stored and recorded in between; the next run restores it
  (`DeadLinksHealed`);
* when there are more files than one index may list, `generate_index` raises for good and what is
  left is the index of before: `IndexRestored` and `EventuallyServed` except that;
* a row saved under another tenant or file invalidates only its new key;
* the docstring of `RedirectRule` speaks of priority order, but a prefix rule comes before
  every regex rule, and an exact rule before both, whatever their priorities;
* an expired prefix or regex rule is obeyed until the cached list times out (`ExpiredBriefly`
  is how much longer that can be), and longer by the time its fetch took if it expired during it;
* when the first lookup of a request fails, the view's 404 is passed on as it is: no
  gone rule, no resolver, no entry in the log (`middleware.py:50-52`);
* when `create_gone_from_404` makes the rule and fails to save `resolved`, a retry is refused
  by the unique constraint and the entry stays open; entries that are not resolved are
  never pruned;
* the stronger statement that, whatever happens, the index is at some moment
  complete and free of dead links *together* is false: a cleanup that races every
  regeneration can dodge it for ever.  `IndexRestored` and `DeadLinksHealed`
  are what holds.

### Fairness

Workers, receivers and a started cleanup or delete take their next step
(weak fairness): they are running processes.  The daily forced regeneration begins
infinitely often if it can (strong fairness on `BeginAll(w, TRUE)`): beat enqueues it
every day and the queue is first in first out, so other tasks may delay but never
starve it.  The weekly cleanup starts (weak fairness on `KnownPaths`): it needs no
free worker state in the model.  Crawlers keep asking for `sitemap.xml` (strong
fairness on `RequestIndex`).  Nothing is assumed about edits, faults, the admin,
or stale-only runs.

On the web side only the clock is sure to go on: `EventuallyFresh` assumes weak fairness of
`Tick` and of nothing else, so readers and writers may stop half-way for ever.
`EventuallyInForce` also needs a list that was queried to be stored in the end (weak
fairness on `StoreList`), or it might replace the right list at any time later.

## 4. The proofs

`tlapm` proves, for every value of the constants:

*Publishing* (`StoragePublishProofs`).  `TypeCorrect`, `SoloPublisherKnows` and
`DeletedOnlyWhenStaged` hold for any number of publishers and with torn saves.  The
inductive invariant is `KnowledgeInv`: `PublisherKnows` (for each `pc`, what the
publisher has established about `dest` and `staged`) is not inductive alone, since
nothing in it says that another publisher's step cannot undo it; `Solitary` adds that a
publisher outside `met` is the only one running.  Under `Alone` (one publisher)
and `TornSaves = FALSE`, `Refinement` proves that the specification implements
`AtomicFile` with the register mapped to `Recoverable` (the file, or, while it is
deleted, its staged copy); `NothingLost` and `ReturnIsHonest` follow the same
way.  Both hypotheses are necessary: the runs above refute the claims without
them.

*Generation* (`SitemapGenerationProofs`).  For any number of workers, sections, keys,
limits and page sizes, under arbitrary edits, failures and crashes:

* `TypeCorrect`;
* `ShardsAreFilled`: shards are within the limit and all full but the last.  The
  inductive invariant `ShardInv` adds that while instances are being read every
  shard made is full;
* `NothingTwice`: `NoDuplicateUrls` is inductive as stated, because it carries the
  cursor (`UpTo(chunk, last_pk)`) along with the order of what has been read;
* `NothingSkipped`: `NothingMissed` needs only `SinceInPast` (no run began after the
  data's last version), so that an edit is always newer than every run under way.

`WorkerStep` is the lemma that does the case analysis once: of all the steps of the
system only five touch what a run has collected.

A fifth invariant, `CoverInv`, is what the flag and the shards of a finished run need: once
a run has read everything (`rows`, `save`) it holds no entry back (`NothingLeft`) and has
made at least one shard.

*Sharding* (`ShardingProofs`).  `WritersCutWell`: for any sequence of entry sizes and any limits
`WellCut` holds, of which TLC checks small inputs.  The two writers are recursive functions; the
proof takes them apart into states (`StreamedSteps`, `BufferedSteps`) and carries `WriterInv`
(files and the open one within the limits, no cut unneeded) and `SameCut` (the two hold the
same) from entry to entry (`StepWell`, `StepSame`).  `RunsCutWell` is `EntriesWellCut` for any
number of workers and any limit: a run's shards are full but for the last
(`CoverInv`, `FilledTogether`), so are the writer's files for entries that never meet the byte
limit (`OnesFilledUp`), and there is one way to fill files up with n entries (`DivisionUnique`).

*What is published* (`SitemapPublishingProofs`).  One worker (`OneWorker`: one queue consumed by one
process), any sections, keys and limits.  `RunInv` is the invariant the rest is built on, whatever
is asked, edited, fails or dies: the shards a run has made are stored and, from the delete of
the old records on, the records follow them one by one, unless the section has been deleted
(`Progress`); a run deletes only files of its section (`OwnPaths`) and is of a section that has
been created (`Begun`).  On it rest `IndexIsComplete`, `ChecksumsAgree` and `NoLinkDead`, and the
theorems on maintenance below.

As long as nothing has failed, these hold in either mode and under any edits.  `IndexInv` carries
them through a run: the index is behind only after the records have changed and before the
run ends (`IndexAgrees`, `Calm`), the files are ahead of the records only of a section
whose run is reading (`RecordsAgree`), and no record is ever refused (`NothingRefused`).

*Maintenance* (also `SitemapPublishingProofs`).  `MaintenanceTypeCorrect` for any number of workers.
With one worker, under any edits, failures and crashes, and with sections created, deleted, marked
and edited through forms at any step of a run:

* `FlagDownIsHonest`, in either mode: a flag that no form lowers goes down
  only on a section that is published in full, and the records have every instance that has
  not changed since the run began (from `NothingMissed` and `CoverInv`, `SavedIsComplete`).
  An edit during the run is what may be missing, and `gen_lost_edit` shows that it can be;
* `MaintenanceIsHonest`: `FlagTrustworthy` under the further hypothesis `StaleOnly`.
  `TasksAreFlagged` (what a task has queued or generates is flagged: what a forced run breaks)
  and `FreshIsPublished` (a section that is not flagged is published) are the invariant, where
  `Flagged` counts what a form lowered by hand as flagged.

`MaintenanceInv` adds to `RunInv` that `delete_section` deletes files only once the
row is gone, and only those of that section (`DeletedFirst`), and that a section yet to be
created is flagged (`FlaggedFirst`).  That no cleanup runs (`~Cleanups`)
is a hypothesis of both and needed: the set of known paths a cleanup has read may be older than the
records of a run that has ended since, and it then deletes their files.

*The discovery cache* (`DiscoverySiteProofs`).  `CacheTypeCorrect` and
`OnlyRacesLeaveStaleHolds`, for any files, rows, readers, writers and timeout.
`OnlyRacesLeaveStale` speaks only of keys no change is under way for; the inductive
invariant `CacheInv` says what holds meanwhile.  `Changes`: what remains of a change is
the end of one of the four plans, and uncommitted changes hold different rows, so
that the keys a commit outdates are those it had touched when it began.  `Fills`: a fill
no change overlaps has what the rows say.  `Trusted`: a cached file is right, or a
committed change is still to drop it (`Awaited`), or it is suspect; and a change whose last
step is its commit has left nothing cached that it could outdate.

*Crawlers* (also there).  `CrawlersAgreeHolds` carries types over from `CacheInv` and
rests on `OrderDecides`, a fact about any set of rules: in a block sorted by
`SortsBefore`, the first match allows exactly if the longest matches do.  Its proof takes the
first matching rule (`FirstMatch`, from the least number of a set of naturals,
`LeastNatural`) and shows that every other match is no longer than it and, at equal
length, no more permissive.

*Redirects* (`RedirectMiddlewareProofs`).  `RedirectTypeCorrect`, `GoneOnlyWhenUnresolvedHolds`,
`ExactObeyedHolds`, `ExpiredBrieflyHolds`, `ListObeyedHolds`, for any rules, requests, writers and timeout.
`RedirectInv` adds to the types: `ExactUnique` (two exact rules for a path cannot
coexist, or a request could obey the other one); `Orderly` (the resolver is reached only by way of
a 404); `Heeded` (past the exact lookup, no exact rule in force all along fits);
`Dated` and `Aging` (a list is stored without expired rules, and from then on a rule's
overdue time and the list's remaining time never add up to more than the timeout: this
is what a refill or a failed invalidation cannot break).  `ListInv`, for `ListObeyed`, says what a
request has read of its list and that no exact rule ever gets into one; `FirstExists`
shows that the order of type, priority and id has a least rule wherever one fits, so that
a request goes on only when none does.

*The 404 log* (`NotFoundLogProofs`).  `LogTypeCorrect`, `HitsAreAccounted`, `ResolvedForGoodHolds` and
`ReferrersWithinHitsHolds`, for any paths, callers and referrers.  For `HitsAccounted` one has to
count those who may still lose a hit: `HitInv` adds to a row's hits missed the callers that will
find it when they try to make it (`Stragglers`, `Accounted`); the caller that makes a row
is not one, no step makes a new one (`OthersStraggleOn`), and each is gone with the hit it loses.
It rests on the increment being one UPDATE and the save naming its field.
`RuleFirst` (what is resolved or about to be has
its rule) is what the action property `ResolvedForGood` needs.  `ReferrersWithinHits` is not inductive: the
referrers of a row are one save behind its hits, and the row a caller is about to save is one
it read before others did.  `ReferrerInv` counts the debts: a row's referrers, plus the callers
that have counted their hit and not yet their referrer (`Owing`), are within its hits
(`RowsAhead`), and so is what a caller is about to save, plus the others that owe (`SavesAhead`);
`Numbered` keeps a row made again apart from the one it replaces.  The sums it speaks of are
over a set; `SumExists` to `TotalPlus` are the facts about them.

The only assumptions are those on the constants, which TLC evaluates in every run:
keys are positive numbers (the cursor starts at 0), limits, page sizes and timeouts are
positive, there is a section (`ContentsAssumption`, `GenerationAssumption`); the model
value `Nothing` is none of the values it stands beside, rules are told apart by their ids,
and finitely many are the robots rules in one instance and the referrers and callers of the 404
log, or their counts had no sum (`CacheAssumption`, `RobotsAssumption`, `SiteAssumption`,
`RedirectAssumption`, `LogAssumption`).  `OneWorker`, `StaleOnly`, `~Cleanups`, `Alone` and
`TornSaves = FALSE` are hypotheses of the theorems that name them, and section 3 says what
happens without each of them.

Recursive functions and sums over sets are taken apart with `NaturalLemmas`: a number that
does not satisfy a claim gives a least one (`LeastNatural`, from the well-foundedness of the
naturals), hence `Induction` on a set of naturals, `RecursionExists` (a function given by its
first value and its steps exists) and `RecursionAgrees` (two such functions are equal).  The
prover cannot instantiate the library's theorems that take an operator, so these are stated
for sets and functions.

Every safety property the passing runs check, invariant or action property, is also
proved.  Only model-checked are the liveness properties (`EventuallyServed`,
`OrphansCollected`, `IndexRestored`, `DeadLinksHealed`, `EventuallyFresh`, `EventuallyInForce`),
since the prover treats neither fairness nor `ENABLED`; and what is refuted.

To come: abstract specifications of the remaining components with proofs that these implement
them (for the generation, a section's records replaced in one step by what its data was during a
run; for the cache, a register per file that is set to what the rows say; for the 404 log, a
counter), and the index theorems under failures, which need a run without failures to follow
the last one.

## 5. Not modelled

* *Parts of the generation*: the carry-forward of `generated_at` for unchanged
  shards (`generation.py:1024-1034, 1089-1101`), the log rows and their retention (a log
  that stays "running" is a hazard without a property), static sections, the news cut-off
  and gzip.  None of them decides which entries are published where.
* *Serving sitemaps*: streaming, ETags, conditional requests and size limits read state and
  change none.
* *The rest of the section's forms*: the other fields a save writes back as they were when the
  form was read, renaming a section or moving it to another tenant (its files keep their
  old names until the next run), a save that brings back a row deleted in between, and the
  admin's default delete, which goes without deleting the files (the cleanup collects them).
* *Leftover `.tmp` files* of a staged upload: `cleanup_orphan_files` looks for `*.xml` and
  `*.xml.gz` only, so none of what `OrphansCollected` says is about them.
* *Backends without the unique constraint* on exact rules (`redirects.py:96-100` says that not every
  one has it, and takes the first rule then): `ExactUnique` assumes it.
* *Validation* of rules, entries and settings, with it the rows `bulk_import_redirects` saves
  unvalidated; hit counters; the signals for other apps.
* *Tenancy*: how a tenant is told from a request or an instance.  A tenant is part of a cache
  key in `DiscoveryCache`, and failing to tell it is a failing lookup in `RedirectMiddleware`.
* *Rendering*: the XML text and its escaping, the model mixin, the text of the discovery
  files other than the order of robots rules.
* *Pings* to search engines: best effort, nothing depends on their result.
* *Other management commands* (reports and wrappers), settings checks, app wiring,
  migrations and factories.
