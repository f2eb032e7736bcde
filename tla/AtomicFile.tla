----------------------------- MODULE AtomicFile -----------------------------
(***************************************************************************)
(* What publishing a file promises, as one register: the published content *)
(* goes from one complete content to another complete content that a       *)
(* publisher asked for, in one step, and never back to nothing.            *)
(* StoragePublish implements it while one publisher at a time writes.      *)
(***************************************************************************)
CONSTANTS
    Publishers, \* who asks for a content to be published
    Contents,   \* the complete documents a publisher may ask for
    Absent      \* no document

VARIABLES
    file,       \* the content that can be read or recovered
    request     \* request[p]: the content p is publishing, or Absent

vars == <<file, request>>

Init ==
    /\ file \in Contents \cup {Absent}
    /\ request = [p \in Publishers |-> Absent]

Submit(p, c) ==
    /\ request[p] = Absent
    /\ request' = [request EXCEPT ![p] = c]
    /\ UNCHANGED file

\* The requested content becomes the published one.
Commit(p) ==
    /\ request[p] # Absent
    /\ file' = request[p]
    /\ UNCHANGED request

\* The publisher returns, raises or dies.  A caller that sees an exception
\* does not know whether its content was published.
Finish(p) ==
    /\ request[p] # Absent
    /\ file' \in {file, request[p]}
    /\ request' = [request EXCEPT ![p] = Absent]

Next == \E p \in Publishers :
    (\E c \in Contents : Submit(p, c)) \/ Commit(p) \/ Finish(p)

Spec == Init /\ [][Next]_vars
=============================================================================
