------------------------- MODULE SitemapMaintenance -------------------------
(***************************************************************************)
(* The rest of a section's life around SitemapGeneration: create_section,  *)
(* the admin's forms and actions, delete_section, and the weekly           *)
(* cleanup_orphan_files, all of them sharing the database and the storage  *)
(* with the generating workers and excluding none of them.                 *)
(***************************************************************************)
EXTENDS SitemapGeneration

CONSTANTS
    IndexPath,      \* where sitemap.xml is stored; no SitemapFile names it
    Cleanups,       \* BOOLEAN: whether cleanup_orphan_files is scheduled
    Ticks           \* SUBSET BOOLEAN: what administrators set is_stale to by hand

ASSUME MaintenanceAssumption == Cleanups \in BOOLEAN /\ Ticks \subseteq BOOLEAN

VARIABLES
    shown,          \* shown[s]: the values is_stale has had, which open forms show
    byHand,         \* history: sections whose flag was last lowered by a form
    delStep,        \* delete_section: "idle", "row" or "files"
    delSection,     \* the section being deleted
    delPaths,       \* the storage paths collected before its row goes
    cleanStep,      \* cleanup_orphan_files: "idle", "list" or "delete"
    known,          \* known_paths: those recorded when the task began
    found           \* the listed files it has yet to look at

formVars    == <<shown, byHand>>
deleteVars  == <<delStep, delSection, delPaths>>
cleanupVars == <<cleanStep, known, found>>
allVars     == <<vars, formVars, deleteVars, cleanupVars>>

MaintenanceTypeOK ==
    /\ TypeOK
    /\ shown \in [Sections -> SUBSET BOOLEAN] /\ byHand \subseteq Sections
    /\ delStep \in {"idle", "row", "files"}
    /\ delSection \in Sections
    /\ delPaths \subseteq Paths
    /\ cleanStep \in {"idle", "list", "delete"}
    /\ known \subseteq Paths
    /\ found \subseteq Paths \cup {IndexPath}

MaintenanceInit ==
    /\ Init
    /\ shown = [s \in Sections |-> {TRUE}] /\ byHand = {}
    /\ delStep = "idle" /\ delPaths = {}
    /\ delSection = CHOOSE s \in Sections : TRUE
    /\ cleanStep = "idle" /\ known = {} /\ found = {}

workerVars == <<pc, queue, runVars, listing>>

\* A run saves s as fresh.
RunEnds(s) == \E w \in Workers : section[w] = s /\ pc[w] = "save" /\ pc'[w] = "index"

Shown == shown' = [s \in Sections |-> shown[s] \cup {stale'[s]}]

\* What a form did to a flag lasts until the flag goes up or a run saves the section.
NoForm ==
    /\ Shown
    /\ byHand' = {s \in byHand : ~stale'[s] /\ ~RunEnds(s)}

-----------------------------------------------------------------------------
(* create_section and the admin *)

CreateSection(s) ==
    /\ status[s] = "future"
    /\ status' = [status EXCEPT ![s] = "active"]
    /\ stale' = [stale EXCEPT ![s] = TRUE]
    /\ UNCHANGED <<siteVars, rows, storageVars, faults, workerVars, log, deleteVars, cleanupVars>>
    /\ NoForm

\* A form writes the row as posted, is_active and is_stale among its fields.
Posted(s, active, flag) ==
    /\ status' = [status EXCEPT ![s] = IF active THEN "active" ELSE "inactive"]
    /\ stale' = [stale EXCEPT ![s] = flag]
    /\ UNCHANGED <<siteVars, rows, storageVars, faults, workerVars, log, deleteVars, cleanupVars>>
    /\ Shown
    /\ byHand' = IF flag THEN byHand \ {s} ELSE IF stale[s] THEN byHand \cup {s} ELSE byHand

\* The admin's add form: the box is ticked unless it is unticked by hand.
AddForm(s, active, flag) ==
    /\ status[s] = "future" /\ flag \in {TRUE} \cup Ticks
    /\ Posted(s, active, flag)

\* The change form: is_stale goes back as it was when the form was opened, at any
\* time before, or as it was set by hand.
ChangeForm(s, active, flag) ==
    /\ Exists(s) /\ flag \in shown[s] \cup Ticks
    /\ Posted(s, active, flag)

\* The admin action mark_stale.
MarkSelected(s) ==
    /\ Exists(s) /\ ~stale[s]
    /\ stale' = [stale EXCEPT ![s] = TRUE]
    /\ UNCHANGED <<siteVars, status, rows, storageVars, faults, workerVars, log, deleteVars,
                   cleanupVars>>
    /\ NoForm

\* The admin action regenerate_selected: the flag first, then a forced generation.
RegenerateSelected(w, s) ==
    /\ pc[w] = "idle" /\ Exists(s)
    /\ stale' = [stale EXCEPT ![s] = TRUE]
    /\ queue' = [queue EXCEPT ![w] = {s}]
    /\ Goto(w, "pick")
    /\ UNCHANGED <<siteVars, status, rows, storageVars, faults, runVars, listing, log,
                   deleteVars, cleanupVars>>
    /\ NoForm

-----------------------------------------------------------------------------
(* delete_section *)

CollectPaths(s) ==
    /\ delStep = "idle" /\ Exists(s)
    /\ delStep' = "row" /\ delSection' = s /\ delPaths' = PathsOf(s)
    /\ UNCHANGED <<vars, cleanupVars>>
    /\ NoForm

\* The row goes, and with it the section's file records and logs.
DeleteRow ==
    /\ delStep = "row"
    /\ delStep' = "files"
    /\ status' = [status EXCEPT ![delSection] = "gone"]
    /\ rows' = rows \ RowsOf(delSection)
    /\ log' = [w \in Workers |-> IF section[w] = delSection THEN "none" ELSE log[w]]
    /\ UNCHANGED <<siteVars, stale, storageVars, faults, workerVars, delSection, delPaths,
                   cleanupVars>>
    /\ NoForm

\* The collected files go; an error on one of them is swallowed.
DeleteFiles ==
    /\ delStep = "files"
    /\ delStep' = "idle"
    /\ \/ store' = Drop(delPaths) /\ UNCHANGED faults
       \/ \E kept \in SUBSET delPaths \ {{}} : store' = Drop(delPaths \ kept) /\ Fault
    /\ UNCHANGED <<siteVars, dbVars, index, workerVars, log, delSection, delPaths, cleanupVars>>
    /\ NoForm

\* The request is killed between two of these statements.
DeleteCrashes ==
    /\ delStep # "idle"
    /\ Fault
    /\ delStep' = "idle"
    /\ UNCHANGED <<siteVars, dbVars, storageVars, workerVars, log, delSection, delPaths,
                   cleanupVars>>
    /\ NoForm

-----------------------------------------------------------------------------
(* cleanup_orphan_files *)

KnownPaths ==
    /\ Cleanups
    /\ cleanStep = "idle"
    /\ cleanStep' = "list"
    /\ known' = {RowPath(r) : r \in rows}
    /\ UNCHANGED <<vars, deleteVars, found>>
    /\ NoForm

\* Every *.xml and *.xml.gz in the directory, the index among them.
ListDirectory ==
    /\ cleanStep = "list"
    /\ cleanStep' = "delete"
    /\ found' = {f.path : f \in store} \cup (IF index = NoIndex THEN {} ELSE {IndexPath})
    /\ UNCHANGED <<vars, deleteVars, known>>
    /\ NoForm

\* Mutant: the index is spared.
Remove_SparesIndex(path) ==
    IF path = IndexPath THEN UNCHANGED storageVars
                        ELSE store' = Drop({path}) /\ UNCHANGED index

\* One listed file: deleted unless known_paths has it.
Remove(path) ==
    IF path = IndexPath THEN index' = NoIndex /\ UNCHANGED store
                        ELSE store' = Drop({path}) /\ UNCHANGED index

\* Mutant: the test is inverted.
LookAt_Inverted(path) ==
    /\ cleanStep = "delete" /\ path \in found
    /\ found' = found \ {path}
    /\ IF path \in known THEN Remove(path) ELSE UNCHANGED storageVars
    /\ UNCHANGED <<siteVars, dbVars, faults, workerVars, log, deleteVars, cleanStep, known>>
    /\ NoForm

LookAt(path) ==
    /\ cleanStep = "delete" /\ path \in found
    /\ found' = found \ {path}
    /\ IF path \in known THEN UNCHANGED storageVars ELSE Remove(path)
    /\ UNCHANGED <<siteVars, dbVars, faults, workerVars, log, deleteVars, cleanStep, known>>
    /\ NoForm

\* A delete that raises is logged and skipped.
DeleteFails(path) ==
    /\ cleanStep = "delete" /\ path \in found \ known
    /\ Fault
    /\ found' = found \ {path}
    /\ UNCHANGED <<siteVars, dbVars, storageVars, workerVars, log, deleteVars, cleanStep, known>>
    /\ NoForm

\* The task is done, its directory listing failed, or its worker died.
CleanupEnds ==
    /\ cleanStep # "idle"
    /\ \/ cleanStep = "delete" /\ found = {} /\ UNCHANGED faults
       \/ Fault
    /\ cleanStep' = "idle" /\ known' = {} /\ found' = {}
    /\ UNCHANGED <<siteVars, dbVars, storageVars, workerVars, log, deleteVars>>
    /\ NoForm

-----------------------------------------------------------------------------
CleanupStep ==
    \/ ListDirectory \/ CleanupEnds
    \/ \E path \in found : LookAt(path)

MaintenanceNext ==
    \/ Next /\ UNCHANGED <<deleteVars, cleanupVars>> /\ NoForm
    \/ \E s \in Sections :
         \/ CreateSection(s) \/ CollectPaths(s) \/ MarkSelected(s)
         \/ \E active, flag \in BOOLEAN : AddForm(s, active, flag) \/ ChangeForm(s, active, flag)
         \/ \E w \in Workers : RegenerateSelected(w, s)
    \/ DeleteRow \/ DeleteFiles \/ DeleteCrashes
    \/ KnownPaths \/ CleanupStep \/ \E path \in found : DeleteFails(path)

MaintenanceSpec == MaintenanceInit /\ [][MaintenanceNext]_allVars

\* Beside the generation: the weekly task runs and finishes, a request that
\* began to delete a section goes on, and crawlers keep asking for the index.
MaintenanceFairness ==
    /\ Fairness
    /\ WF_allVars(KnownPaths) /\ WF_allVars(CleanupStep)
    /\ WF_allVars(DeleteRow \/ DeleteFiles)
    /\ \A w \in Workers : SF_vars(RequestIndex(w))

FairMaintenanceSpec == MaintenanceSpec /\ MaintenanceFairness

-----------------------------------------------------------------------------
(* What a section's flag can be trusted to mean *)

\* A section that is neither stale nor being generated is published in full: its
\* flag is "Whether this section needs regeneration".  A change form opened before
\* the section went stale, and saved after a run of it failed, lowers the flag over
\* whatever the run left.
FlagHonest == \A s \in Sections :
    Exists(s) /\ ~stale[s] /\ ~Busy(s) => Published(s)

\* Unless a form lowered its flag, and no run or mark has changed it since: a run
\* that fails or dies anywhere leaves the flag up for the next stale task, and no
\* other section's life touches the files of this one.
FlagTrustworthy == \A s \in Sections \ byHand :
    Exists(s) /\ ~stale[s] /\ ~Busy(s) => Published(s)

\* The instances of a run's section that have not changed since it began.
LeftAlone(w) ==
    LET now == urls[section[w]] IN {<<pk, now[pk]>> : pk \in {k \in Pks : now[k] \in 1..since[w]}}

\* A flag goes down by a form, or at the end of a run of its section, with all its
\* records and files in place, and every instance that has not changed since the run
\* began is recorded: whatever else is missing was saved while the run was under way.
LoweredWhenComplete(s) == stale[s] /\ ~stale'[s] =>
    \/ s \in byHand'
    \/ /\ Published(s)'
       /\ \E w \in Workers : Generating(w) /\ section[w] = s /\ LeftAlone(w) \subseteq Recorded(s)'

FlagDownWhenComplete == [][\A s \in Sections : LoweredWhenComplete(s)]_allVars

-----------------------------------------------------------------------------
(* What the cleanup and later runs put right *)

HasRecord(path) == \E r \in rows : RowPath(r) = path
InStorage(path) == \E f \in store : f.path = path

\* A file nobody records does not stay: it is recorded in the end, or collected.
OrphansCollected ==
    \A s \in Sections, n \in 0..Cardinality(Pks) - 1 :
        InStorage(<<s, n>>) /\ ~HasRecord(<<s, n>>)
            ~> ~InStorage(<<s, n>>) \/ HasRecord(<<s, n>>)

\* The index, which the cleanup deletes with the orphans, comes back,
\* unless it would list too much.
IndexRestored ==
    index = NoIndex ~> index # NoIndex \/ Cardinality(Listable) > MaxIndex

DeadLink(path) == index # NoIndex /\ path \in index /\ ~InStorage(path)

\* A listed file that has gone from storage is in time no longer listed, the
\* files of a deleted section included, though delete_section writes no index.
DeadLinksHealed ==
    \A s \in Sections, n \in 0..Cardinality(Pks) - 1 :
        DeadLink(<<s, n>>) ~> ~DeadLink(<<s, n>>)
=============================================================================
