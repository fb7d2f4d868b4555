---------------------------- MODULE OutlineProps ----------------------------
(***************************************************************************)
(* What the editing of a course's outline promises.                        *)
(***************************************************************************)
EXTENDS Outline

\* A reorder that is about to write has every row in its hand that its author has put in order
\* and that is still there; and nobody who deletes one of these rows has read the order
\* before, and is about to write it back with the numbers that close the gap
\* (admin_reorder_lessons and admin_delete_lesson, and those of modules and questions).
NoReorderIsLost ==
    \A r \in Requests :
        req[r].op = "reorder" /\ req[r].pc = "locking" /\ req[r].todo = {} =>
          /\ req[r].seen \cap Siblings \subseteq req[r].held
          /\ \A q \in Requests : req[q].op = "delete" /\ req[q].held # {} => req[q].node \notin req[r].seen

Deadlocked(S) == S # {} /\ \A r \in S : \E q \in S : WaitsFor(r, q)

\* Requests wait for each other in a circle only if two of them delete or reorder siblings,
\* or one deletes the course and another, about a lesson, is to save its duration. Authors
\* who only write never do, and a reorder never does with a deletion of the course.
OnlyTheseDeadlock ==
    \A S \in SUBSET Requests : Deadlocked(S) =>
        \/ Cardinality({r \in S : req[r].op \in {"delete", "reorder"}}) > 1
        \/ \E r, q \in S : /\ req[r].op = "deleteCourse"
                          /\ kind = "lesson" /\ req[q].op \in {"create", "update", "delete"}
=============================================================================
