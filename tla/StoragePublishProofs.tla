------------------------ MODULE StoragePublishProofs ------------------------
(***************************************************************************)
(* Proofs about StoragePublish, for every set of documents, every size     *)
(* function and both kinds of backend.  Those before Alone hold for any    *)
(* number of publishers; those after it need one that is alone on its      *)
(* path, and run publish_two_lose shows why.                               *)
(***************************************************************************)
EXTENDS StoragePublish, TLAPS

\* The type invariant, for any number of publishers: a publisher holds a document
\* exactly while it runs.
THEOREM TypeCorrect == Spec => []TypeOK
<1> USE ContentsAssumption DEF Stored, Steps, Landed
<1>1. Init => TypeOK
  BY DEF Init, TypeOK
<1>2. TypeOK /\ [Next]_vars => TypeOK'
  <2> SUFFICES ASSUME TypeOK, [Next]_vars PROVE TypeOK'
    OBVIOUS
  <2>1. CASE UNCHANGED vars
    BY <2>1 DEF TypeOK, vars
  <2>2. ASSUME NEW p \in Publishers, NEW c \in Contents, Start(p, c)
        PROVE  TypeOK'
    BY <2>2 DEF TypeOK, Start, Running
  <2>3. ASSUME NEW p \in Publishers, Probe(p) PROVE TypeOK'
    BY <2>3 DEF TypeOK, Probe, Goto
  <2>4. ASSUME NEW p \in Publishers, SaveDirect(p) PROVE TypeOK'
    <3>1. job[p] \in Contents
      BY <2>4 DEF TypeOK, SaveDirect
    <3> QED BY <2>4, <3>1 DEF TypeOK, SaveDirect, End
  <2>5. ASSUME NEW p \in Publishers, ClearLeftover(p) PROVE TypeOK'
    BY <2>5 DEF TypeOK, ClearLeftover, Goto
  <2>6. ASSUME NEW p \in Publishers, Stage(p) PROVE TypeOK'
    <3>1. job[p] \in Contents
      BY <2>6 DEF TypeOK, Stage
    <3> QED BY <2>6, <3>1 DEF TypeOK, Stage, Goto
  <2>7. ASSUME NEW p \in Publishers, Verify(p) PROVE TypeOK'
    BY <2>7 DEF TypeOK, Verify, Goto, End
  <2>8. ASSUME NEW p \in Publishers, Remove(p) PROVE TypeOK'
    BY <2>8 DEF TypeOK, Remove, Goto
  <2>9. ASSUME NEW p \in Publishers, Replace(p) PROVE TypeOK'
    <3>1. job[p] \in Contents
      BY <2>9 DEF TypeOK, Replace
    <3> QED BY <2>9, <3>1 DEF TypeOK, Replace, Goto
  <2>10. ASSUME NEW p \in Publishers, ClearStaged(p) PROVE TypeOK'
    BY <2>10 DEF TypeOK, ClearStaged, End
  <2>11. ASSUME NEW p \in Publishers, Interrupted(p) PROVE TypeOK'
    BY <2>11 DEF TypeOK, Interrupted, End
  <2>12. ASSUME NEW p \in Publishers, InterruptedSave(p) PROVE TypeOK'
    BY <2>12 DEF TypeOK, InterruptedSave, End
  <2> QED
    BY <2>1, <2>2, <2>3, <2>4, <2>5, <2>6, <2>7, <2>8, <2>9, <2>10, <2>11, <2>12
       DEF Next
<1> QED
  BY <1>1, <1>2, PTL DEF Spec

-----------------------------------------------------------------------------
\* A publisher outside met shares the path with nobody while it runs.
Solitary == \A p \in Publishers \ met, q \in Publishers :
    pc[p] # "idle" /\ pc[q] # "idle" => p = q

KnowledgeInv == Solitary /\ PublisherKnows

\* The history variable does its job: two runs that overlap are both in met.
LEMMA SolitaryStep ==
    ASSUME TypeOK, KnowledgeInv, [Next]_vars
    PROVE  Solitary'
<1> USE DEF Solitary, KnowledgeInv
<1>1. CASE UNCHANGED vars
  BY <1>1 DEF vars
<1>2. ASSUME NEW p \in Publishers, NEW c \in Contents, Start(p, c)
      PROVE  Solitary'
  BY <1>2 DEF Start, Running, TypeOK
<1>3. ASSUME NEW p \in Publishers,
             Probe(p) \/ SaveDirect(p) \/ ClearLeftover(p) \/ Stage(p) \/ Verify(p)
               \/ Remove(p) \/ Replace(p) \/ ClearStaged(p)
               \/ Interrupted(p) \/ InterruptedSave(p)
      PROVE  Solitary'
  <2>1. pc[p] # "idle" /\ met' = met
    BY <1>3 DEF Probe, SaveDirect, ClearLeftover, Stage, Verify, Remove, Replace,
           ClearStaged, Interrupted, InterruptedSave, Goto, End
  <2>2. \A q \in Publishers : q # p => pc'[q] = pc[q]
    BY <1>3 DEF TypeOK, Probe, SaveDirect, ClearLeftover, Stage, Verify, Remove, Replace,
           ClearStaged, Interrupted, InterruptedSave, Goto, End
  <2> QED BY <2>1, <2>2
<1> QED BY <1>1, <1>2, <1>3 DEF Next

\* What a publisher knows of its path is inductive: one step of its own, failed and
\* torn saves included, leads from what it knows at one call to what it knows at
\* the next, and while it runs outside met there is no step of anybody else.
LEMMA KnowledgeStep ==
    ASSUME TypeOK, KnowledgeInv, [Next]_vars
    PROVE  PublisherKnows'
<1> USE ContentsAssumption DEF Stored, Steps, Landed, Knows, KnowledgeInv
<1>1. CASE UNCHANGED vars
  BY <1>1 DEF PublisherKnows, vars
<1>2. ASSUME NEW p \in Publishers, NEW c \in Contents, Start(p, c)
      PROVE  PublisherKnows'
  <2> SUFFICES ASSUME NEW q \in Publishers \ met' PROVE Knows(q)'
    BY DEF PublisherKnows
  <2>1. q # p => q \notin met /\ pc'[q] = pc[q] /\ pc[q] = "idle"
    BY <1>2 DEF Start, Running, TypeOK
  <2>2. pc'[p] = "probe"
    BY <1>2 DEF Start, TypeOK
  <2> QED BY <2>1, <2>2
<1>3. ASSUME NEW p \in Publishers,
             Probe(p) \/ SaveDirect(p) \/ ClearLeftover(p) \/ Stage(p) \/ Verify(p)
               \/ Remove(p) \/ Replace(p) \/ ClearStaged(p)
               \/ Interrupted(p) \/ InterruptedSave(p)
      PROVE  PublisherKnows'
  <2> SUFFICES ASSUME NEW q \in Publishers \ met' PROVE Knows(q)'
    BY DEF PublisherKnows
  <2>0. pc[p] # "idle" /\ met' = met
    BY <1>3 DEF Probe, SaveDirect, ClearLeftover, Stage, Verify, Remove, Replace,
           ClearStaged, Interrupted, InterruptedSave, Goto, End
  <2>1. CASE q # p
    <3>1. pc[q] = "idle"
      BY <2>0, <2>1 DEF Solitary
    <3>2. pc'[q] = pc[q]
      BY <1>3, <2>1 DEF TypeOK, Probe, SaveDirect, ClearLeftover, Stage, Verify, Remove,
             Replace, ClearStaged, Interrupted, InterruptedSave, Goto, End
    <3> QED BY <3>1, <3>2
  <2>2. CASE q = p
    <3>1. Knows(p) /\ job[p] \in Contents
      BY <2>0, <2>2 DEF PublisherKnows, TypeOK
    <3>3. CASE Probe(p)
      BY <2>2, <3>1, <3>3 DEF Probe, Goto, TypeOK
    <3>4. CASE SaveDirect(p)
      BY <2>2, <3>1, <3>4 DEF SaveDirect, End, TypeOK
    <3>5. CASE ClearLeftover(p)
      BY <2>2, <3>1, <3>5 DEF ClearLeftover, Goto, TypeOK
    <3>6. CASE Stage(p)
      BY <2>2, <3>1, <3>6 DEF Stage, Goto, TypeOK
    <3>7. CASE Verify(p)
      BY <2>2, <3>1, <3>7 DEF Verify, LooksRight, Goto, End, TypeOK
    <3>8. CASE Remove(p)
      BY <2>2, <3>1, <3>8 DEF Remove, Goto, TypeOK
    <3>9. CASE Replace(p)
      BY <2>2, <3>1, <3>9 DEF Replace, Goto, TypeOK
    <3>10. CASE ClearStaged(p)
      BY <2>2, <3>1, <3>10 DEF ClearStaged, End, TypeOK
    <3>11. CASE Interrupted(p)
      BY <2>2, <3>1, <3>11 DEF Interrupted, End, TypeOK
    <3>12. CASE InterruptedSave(p)
      BY <2>2, <3>1, <3>12 DEF InterruptedSave, End, TypeOK
    <3> QED
      BY <1>3, <3>3, <3>4, <3>5, <3>6, <3>7, <3>8, <3>9, <3>10, <3>11, <3>12
  <2> QED BY <2>1, <2>2
<1> QED BY <1>1, <1>2, <1>3 DEF Next

\* The inductive invariant of everything below, for any number of publishers.
THEOREM KnowledgeInvariant == Spec => []KnowledgeInv
<1>1. Init => KnowledgeInv
  BY DEF Init, KnowledgeInv, Solitary, PublisherKnows, Knows
<1>2. TypeOK /\ KnowledgeInv /\ [Next]_vars => KnowledgeInv'
  BY SolitaryStep, KnowledgeStep DEF KnowledgeInv
<1> QED
  BY <1>1, <1>2, TypeCorrect, PTL DEF Spec

\* Whatever failures and collisions came before, a publisher that nobody overlaps
\* knows what it acts on.
THEOREM SoloPublisherKnows == Spec => []PublisherKnows
<1>1. KnowledgeInv => PublisherKnows
  BY DEF KnowledgeInv
<1> QED
  BY <1>1, KnowledgeInvariant, PTL

\* The published file is deleted only under the protection of the complete staged
\* replacement, even when saves are torn.
THEOREM DeletedOnlyWhenStaged == Spec => ReplacedOnlyWhenStaged
<1>1. PublisherKnows /\ [Next]_vars
        => [\A p \in Publishers \ met :
              pc[p] = "remove" /\ pc'[p] = "replace" => staged = job[p]]_vars
  BY DEF PublisherKnows, Knows
<1> QED
  BY <1>1, SoloPublisherKnows, PTL DEF Spec, ReplacedOnlyWhenStaged

-----------------------------------------------------------------------------
Alone == \A p, q \in Publishers : p = q

\* A lone publisher overlaps nobody.
LEMMA AloneMeetsNobody == Alone => (Spec => [](met = {}))
<1> SUFFICES ASSUME Alone PROVE Spec => [](met = {})
  OBVIOUS
<1>1. Init => met = {}
  BY DEF Init
<1>2. met = {} /\ [Next]_vars => (met = {})'
  <2> SUFFICES ASSUME met = {}, [Next]_vars PROVE met' = {}
    OBVIOUS
  <2>1. ASSUME NEW p \in Publishers, NEW c \in Contents, Start(p, c) PROVE met' = {}
    BY <2>1 DEF Start, Running, Alone
  <2> QED
    BY <2>1 DEF Next, vars, Probe, SaveDirect, ClearLeftover, Stage, Verify, Remove,
           Replace, ClearStaged, Interrupted, InterruptedSave, Goto, End
<1> QED
  BY <1>1, <1>2, PTL DEF Spec

\* With a lone publisher and saves that are whole or fail, every step maps to a
\* step of the atomic register, or to none.
LEMMA StepRefines ==
    ASSUME Alone, TornSaves = FALSE, TypeOK, PublisherKnows, met = {}, [Next]_vars
    PROVE  [Atomic!Next]_(Atomic!vars)
<1> USE ContentsAssumption
    DEF Landed, Recoverable, Atomic!Next, Atomic!vars
<1>1. CASE UNCHANGED vars
  BY <1>1 DEF vars
<1>2. CASE Next
  <2> PICK p \in Publishers : Publishers = {p}
    BY <1>2 DEF Next, Alone
  <2>0. Knows(p) /\ (pc[p] = "idle" <=> job[p] = Absent)
    BY DEF PublisherKnows, TypeOK
  <2>1. ASSUME NEW c \in Contents, Start(p, c)
        PROVE  Atomic!Submit(p, c)
    BY <2>0, <2>1 DEF Start, Atomic!Submit
  <2>2. CASE Probe(p)
    BY <2>2 DEF Probe, Goto
  <2>3. CASE SaveDirect(p)
    <3>1. dest' = job[p]
      BY <2>0, <2>3 DEF SaveDirect, Knows
    <3>2. job[p] # Absent
      BY <2>0, <2>3 DEF SaveDirect
    <3>3. Atomic!Finish(p)
      BY <2>3, <3>1, <3>2 DEF SaveDirect, End, Atomic!Finish
    <3> QED BY <3>3
  <2>4. CASE ClearLeftover(p)
    BY <2>0, <2>4 DEF ClearLeftover, Goto, Knows
  <2>5. CASE Stage(p)
    BY <2>0, <2>5 DEF Stage, Goto, Knows
  <2>6. CASE Verify(p)
    <3>1. LooksRight(p) => UNCHANGED <<Recoverable, job>>
      BY <2>6 DEF Verify, Goto
    <3>2. ~LooksRight(p) => Atomic!Finish(p)
      BY <2>0, <2>6 DEF Verify, End, Atomic!Finish
    <3> QED BY <3>1, <3>2
  <2>7. CASE Remove(p)
    <3>1. Atomic!Commit(p)
      BY <2>0, <2>7 DEF Remove, Goto, Knows, Atomic!Commit
    <3> QED BY <3>1
  <2>8. CASE Replace(p)
    <3>1. dest' = job[p] /\ Recoverable = job[p] /\ job[p] # Absent
      BY <2>0, <2>8 DEF Replace, Knows
    <3> QED BY <2>8, <3>1 DEF Replace, Goto
  <2>9. CASE ClearStaged(p)
    <3>1. dest # Absent /\ job[p] # Absent
      BY <2>0, <2>9 DEF ClearStaged, Knows
    <3>2. Atomic!Finish(p)
      BY <2>9, <3>1 DEF ClearStaged, End, Atomic!Finish
    <3> QED BY <3>2
  <2>10. CASE Interrupted(p)
    <3>1. Atomic!Finish(p)
      BY <2>0, <2>10 DEF Interrupted, End, Atomic!Finish
    <3> QED BY <3>1
  <2>11. CASE InterruptedSave(p)
    BY <2>11 DEF InterruptedSave
  <2> QED
    BY <1>2, <2>1, <2>2, <2>3, <2>4, <2>5, <2>6, <2>7, <2>8, <2>9, <2>10, <2>11
       DEF Next
<1> QED BY <1>1, <1>2

\* Replacing a path is atomic in what can be recovered: StoragePublish implements
\* AtomicFile.
THEOREM Refinement == Alone /\ TornSaves = FALSE => (Spec => AtomicReplacement)
<1> SUFFICES ASSUME Alone, TornSaves = FALSE PROVE Spec => AtomicReplacement
  OBVIOUS
<1>1. Init => Atomic!Init
  BY ContentsAssumption DEF Init, Recoverable, Atomic!Init
<1>2. TypeOK /\ PublisherKnows /\ met = {} /\ [Next]_vars => [Atomic!Next]_(Atomic!vars)
  BY StepRefines
<1> QED
  BY <1>1, <1>2, TypeCorrect, SoloPublisherKnows, AloneMeetsNobody, PTL
     DEF Spec, AtomicReplacement, Atomic!Spec

\* What was once complete can be recovered for ever.
THEOREM NothingLost == Alone /\ TornSaves = FALSE => (Spec => CompleteCopySurvives)
<1> SUFFICES ASSUME Alone, TornSaves = FALSE PROVE Spec => CompleteCopySurvives
  OBVIOUS
<1>1. TypeOK /\ PublisherKnows /\ met = {} /\ [Next]_vars
        => [Recoverable # Absent => Recoverable' # Absent]_vars
  <2> SUFFICES ASSUME TypeOK, PublisherKnows, met = {}, [Next]_vars, Recoverable # Absent
               PROVE  Recoverable' # Absent
    BY DEF vars
  <2>1. [Atomic!Next]_(Atomic!vars)
    BY StepRefines
  <2> QED
    BY <2>1, ContentsAssumption
       DEF Atomic!Next, Atomic!vars, Atomic!Submit, Atomic!Commit, Atomic!Finish, Recoverable
<1> QED
  BY <1>1, TypeCorrect, SoloPublisherKnows, AloneMeetsNobody, PTL DEF Spec, CompleteCopySurvives

\* A publisher that returns has published its own document.
THEOREM ReturnIsHonest == Alone /\ TornSaves = FALSE => (Spec => ReturnedMeansPublished)
<1> SUFFICES ASSUME Alone, TornSaves = FALSE PROVE Spec => ReturnedMeansPublished
  OBVIOUS
<1>1. TypeOK /\ PublisherKnows /\ met = {} /\ [Next]_vars
        => [\A p \in Publishers :
              pc[p] # "idle" /\ outcome'[p] = "returned" /\ pc'[p] = "idle"
                => dest' = job[p]]_vars
  <2> SUFFICES ASSUME TypeOK, PublisherKnows, met = {}, Next, NEW p \in Publishers,
                      pc[p] # "idle", outcome'[p] = "returned", pc'[p] = "idle"
               PROVE  dest' = job[p]
    BY DEF vars
  <2>1. Publishers = {p} /\ Knows(p)
    BY DEF Alone, PublisherKnows
  <2>2. SaveDirect(p) \/ ClearStaged(p)
    BY <2>1 DEF Next, TypeOK, Start, Probe, Goto, End, ClearLeftover, Stage, Verify,
           Remove, Replace, Interrupted, InterruptedSave
  <2> QED
    BY <2>1, <2>2 DEF Knows, SaveDirect, ClearStaged, Landed
<1> QED
  BY <1>1, TypeCorrect, SoloPublisherKnows, AloneMeetsNobody, PTL DEF Spec, ReturnedMeansPublished
=============================================================================
