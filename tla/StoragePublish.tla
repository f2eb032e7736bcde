--------------------------- MODULE StoragePublish ---------------------------
(***************************************************************************)
(* _replace_in_storage and _write_buffered_to_storage: how one storage     *)
(* path is replaced, one storage call per step.  Both functions make the   *)
(* same calls in the same order; they differ only in where the bytes come  *)
(* from (a local temporary file or memory).                                *)
(*                                                                         *)
(* Several publishers may replace the same path: the sitemap index is      *)
(* written at the end of every section's generation, and nothing keeps two *)
(* tasks from generating the same section.                                 *)
(***************************************************************************)
EXTENDS Naturals

CONSTANTS
    Publishers,     \* threads or workers running the function
    Contents,       \* complete documents
    Size,           \* Size[c]: the bytes of document c
    Absent,         \* nothing is stored under the path
    Truncated,      \* an incomplete file left behind by a save that failed
    Backends,       \* SUBSET {"in_place", "generic"}: what the storage does
                    \*   with a name that is taken, overwrite it or rename
    TornSaves       \* BOOLEAN: a save may leave only the beginning of the file
                    \*   (a backend that writes the final name chunk by chunk)

ASSUME ContentsAssumption ==
    /\ Absent \notin Contents
    /\ Truncated \notin Contents
    /\ Absent # Truncated
    /\ Size \in [Contents -> Nat]
    /\ TornSaves \in BOOLEAN
    /\ Backends \subseteq {"in_place", "generic"}

VARIABLES
    backend,    \* the storage the deployment configured
    dest,       \* what is stored at dest_path
    staged,     \* what is stored at dest_path + ".tmp"
    aside,      \* documents a save stored under a renamed, unused path
    pc,         \* pc[p]: the storage call publisher p makes next
    job,        \* job[p]: the document p is publishing
    outcome,    \* outcome[p]: how p's last run ended
    met         \* history: publishers whose run overlaps another one's

vars == <<backend, dest, staged, aside, pc, job, outcome, met>>

Stored == Contents \cup {Absent, Truncated}

Steps == {"probe", "save_direct", "clear_leftover", "stage", "verify",
          "remove", "replace", "clear_staged"}

TypeOK ==
    /\ backend \in {"in_place", "generic"}
    /\ dest \in Stored
    /\ staged \in Stored
    /\ aside \subseteq Contents
    /\ pc \in [Publishers -> Steps \cup {"idle"}]
    /\ job \in [Publishers -> Contents \cup {Absent}]
    /\ outcome \in [Publishers -> {"none", "returned", "raised"}]
    /\ met \subseteq Publishers
    /\ \A p \in Publishers : pc[p] = "idle" <=> job[p] = Absent

Init ==
    /\ backend \in Backends
    /\ dest \in Contents \cup {Absent}
    /\ staged = Absent
    /\ aside = {}
    /\ pc = [p \in Publishers |-> "idle"]
    /\ job = [p \in Publishers |-> Absent]
    /\ outcome = [p \in Publishers |-> "none"]
    /\ met = {}

Goto(p, step) == pc' = [pc EXCEPT ![p] = step] /\ UNCHANGED <<job, outcome, met>>

\* Mutant: the publisher's document outlives its run.
End_KeepsJob(p, how) ==
    /\ pc' = [pc EXCEPT ![p] = "idle"]
    /\ outcome' = [outcome EXCEPT ![p] = how]
    /\ UNCHANGED <<job, met>>

\* The function returns to its caller, or an exception leaves it.
End(p, how) ==
    /\ pc' = [pc EXCEPT ![p] = "idle"]
    /\ job' = [job EXCEPT ![p] = Absent]
    /\ outcome' = [outcome EXCEPT ![p] = how]
    /\ UNCHANGED met

-----------------------------------------------------------------------------
Running == {p \in Publishers : pc[p] # "idle"}

Start(p, c) ==
    /\ pc[p] = "idle"
    /\ pc' = [pc EXCEPT ![p] = "probe"]
    /\ job' = [job EXCEPT ![p] = c]
    /\ met' = IF Running = {} THEN met \ {p} ELSE met \cup Running \cup {p}
    /\ UNCHANGED <<backend, dest, staged, aside, outcome>>

\* Mutant: the published file is deleted before anything is staged.
Probe_DeletesFirst(p) ==
    /\ pc[p] = "probe"
    /\ Goto(p, IF dest = Absent \/ backend = "in_place" THEN "save_direct" ELSE "remove")
    /\ UNCHANGED <<backend, dest, staged, aside>>

\* _storage_overwrites_in_place
Probe(p) ==
    /\ pc[p] = "probe"
    /\ Goto(p, IF dest = Absent \/ backend = "in_place"
               THEN "save_direct" ELSE "clear_leftover")
    /\ UNCHANGED <<backend, dest, staged, aside>>

\* A save under a free name: the whole document lands, or, unnoticed, only its
\* beginning (a backend that writes the final name chunk by chunk).
Landed(c) == {c} \cup (IF TornSaves THEN {Truncated} ELSE {})

\* The single save of the in-place branch.  An overwriting backend replaces the
\* document; any other one stores it under the name if that is still free, and
\* under a renamed path if somebody took it since the probe.
SaveDirect(p) ==
    /\ pc[p] = "save_direct"
    /\ \/ /\ backend = "in_place"
          /\ dest' \in Landed(job[p]) /\ UNCHANGED aside
       \/ /\ backend = "generic" /\ dest = Absent
          /\ dest' \in Landed(job[p]) /\ UNCHANGED aside
       \/ /\ backend = "generic" /\ dest # Absent
          /\ aside' = aside \cup {job[p]} /\ UNCHANGED dest
    /\ End(p, "returned")
    /\ UNCHANGED <<backend, staged>>

\* Mutant: a leftover temporary file is not deleted.
ClearLeftover_Skipped(p) ==
    /\ pc[p] = "clear_leftover"
    /\ Goto(p, "stage")
    /\ UNCHANGED <<backend, dest, staged, aside>>

ClearLeftover(p) ==
    /\ pc[p] = "clear_leftover"
    /\ staged' = Absent
    /\ Goto(p, "stage")
    /\ UNCHANGED <<backend, dest, aside>>

\* The upload to the temporary path, renamed aside like any other when the
\* temporary path is taken.
Stage(p) ==
    /\ pc[p] = "stage"
    /\ \/ staged = Absent /\ staged' \in Landed(job[p]) /\ UNCHANGED aside
       \/ staged # Absent /\ aside' = aside \cup {job[p]} /\ UNCHANGED staged
    /\ Goto(p, "verify")
    /\ UNCHANGED <<backend, dest>>

\* Mutant: the size is not compared.
LooksRight_Exists(p) == staged # Absent

\* The staged upload is checked by existence and size alone.
LooksRight(p) == staged \in Contents /\ Size[staged] = Size[job[p]]

Verify(p) ==
    /\ pc[p] = "verify"
    /\ IF LooksRight(p) THEN Goto(p, "remove") ELSE End(p, "raised")
    /\ UNCHANGED <<backend, dest, staged, aside>>

\* Mutant: the published file is not deleted before the last save.
Remove_Skipped(p) ==
    /\ pc[p] = "remove"
    /\ Goto(p, "replace")
    /\ UNCHANGED <<backend, dest, staged, aside>>

Remove(p) ==
    /\ pc[p] = "remove"
    /\ dest' = Absent
    /\ Goto(p, "replace")
    /\ UNCHANGED <<backend, staged, aside>>

\* The final save is not verified.
Replace(p) ==
    /\ pc[p] = "replace"
    /\ \/ dest = Absent /\ dest' \in Landed(job[p]) /\ UNCHANGED aside
       \/ dest # Absent /\ aside' = aside \cup {job[p]} /\ UNCHANGED dest
    /\ Goto(p, "clear_staged")
    /\ UNCHANGED <<backend, staged>>

ClearStaged(p) ==
    /\ pc[p] = "clear_staged"
    /\ staged' = Absent
    /\ End(p, "returned")
    /\ UNCHANGED <<backend, dest, aside>>

\* Mutant: the error path deletes the published file.
Interrupted_CleansUp(p) ==
    /\ pc[p] # "idle"
    /\ dest' = Absent
    /\ End(p, "raised")
    /\ UNCHANGED <<backend, staged, aside>>

\* The next storage call raises, or the process dies before making it ...
Interrupted(p) ==
    /\ pc[p] # "idle"
    /\ End(p, "raised")
    /\ UNCHANGED <<backend, dest, staged, aside>>

\* ... or in the middle of a save, whose first chunks then stay under the name.
InterruptedSave(p) ==
    /\ TornSaves
    /\ \/ /\ pc[p] = "stage" /\ staged = Absent
          /\ staged' = Truncated /\ UNCHANGED dest
       \/ /\ pc[p] = "save_direct" /\ (dest = Absent \/ backend = "in_place")
          /\ dest' = Truncated /\ UNCHANGED staged
       \/ /\ pc[p] = "replace" /\ dest = Absent
          /\ dest' = Truncated /\ UNCHANGED staged
    /\ End(p, "raised")
    /\ UNCHANGED <<backend, aside>>

Next == \E p \in Publishers :
    \/ \E c \in Contents : Start(p, c)
    \/ Probe(p) \/ SaveDirect(p) \/ ClearLeftover(p) \/ Stage(p) \/ Verify(p)
    \/ Remove(p) \/ Replace(p) \/ ClearStaged(p)
    \/ Interrupted(p) \/ InterruptedSave(p)

Spec == Init /\ [][Next]_vars

-----------------------------------------------------------------------------
(* Properties *)

\* What a publisher may rely on at each call while nobody else writes the path.
Knows(p) ==
    /\ pc[p] \in {"clear_leftover", "stage", "verify", "remove"} => dest # Absent
    /\ pc[p] = "stage" => staged = Absent
    /\ pc[p] = "verify" => staged \in Landed(job[p])
    /\ pc[p] \in {"remove", "replace"} => staged = job[p]
    /\ pc[p] = "replace" => dest = Absent
    /\ pc[p] = "clear_staged" => dest \in Landed(job[p])
    /\ pc[p] = "save_direct" => backend = "in_place" \/ dest = Absent

\* A publisher whose run overlaps no other never acts on a state of the path it
\* has not established itself: the temporary name is free when it stages, the
\* document it verified is its own, the final name is free when it saves.  What
\* failures, torn saves and earlier collisions left behind does not disturb it.
\* (The order of the calls in _replace_in_storage.)  It is also the inductive
\* invariant of the proofs.
PublisherKnows == \A p \in Publishers \ met : Knows(p)

\* A complete document, once stored, can always be read or recovered: at
\* dest_path itself or, between the delete and the last save, at its ".tmp".
\* (_replace_in_storage never deletes the published file before a verified
\* replacement exists; the temporary file is only dropped when it is redundant.)
Recoverable == IF dest # Absent THEN dest ELSE staged

CompleteCopySurvives == [][Recoverable # Absent => Recoverable' # Absent]_vars

\* A publisher that nobody overlaps deletes the published file only while its own
\* document lies staged in full: a truncated upload never lets it.
ReplacedOnlyWhenStaged ==
    [][\A p \in Publishers \ met :
         pc[p] = "remove" /\ pc'[p] = "replace" => staged = job[p]]_vars

\* A run that returns has put its own document at dest_path.
ReturnedMeansPublished ==
    [][\A p \in Publishers :
         pc[p] # "idle" /\ outcome'[p] = "returned" /\ pc'[p] = "idle"
            => dest' = job[p]]_vars

\* The whole protocol is one atomic replacement of what can be recovered.
Atomic == INSTANCE AtomicFile WITH
    file    <- Recoverable,
    request <- job

AtomicReplacement == Atomic!Spec
=============================================================================
