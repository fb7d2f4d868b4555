--------------------------- MODULE LearningProps ---------------------------
(***************************************************************************)
(* What progress promises, on the back end and in the app.                 *)
(***************************************************************************)
EXTENDS Outbox

\* Whichever of the three writers completes a lesson, its videos have been watched
\* and its quizzes passed (sync_progress, save_watch, grade_submission).
NoUnearnedCompletion == \A l \in Lessons : row[l].done => RequiredDone(l, passed, Watched)

\* Nobody watches faster than at double speed, however many players report, in
\* whatever steps and with whatever pauses (advance_watch).
WatchedTimeIsReal == \A v \in Videos : watch[v].furthest <= 2 * (watch[v].at - watch[v].since)

\* The back end's progress only grows, although its writers do not all take the same
\* lock (sync_progress, save_watch), but for one write: grading takes the position of a
\* lesson that it completes to the lesson's duration, from wherever it was
\* (grade_submission).
ProgressOnlyGrows ==
    [][/\ \A l \in Lessons :
            /\ row[l].done => row'[l].done
            /\ \/ row'[l].pos >= row[l].pos
               \/ /\ \E r \in Requests : CommitGrade(r) /\ l \in req[r].rows
                  /\ row'[l].pos = Duration[l]
       /\ \A v \in Videos : /\ watch'[v].furthest >= watch[v].furthest
                            /\ watch'[v].at >= watch[v].at]_vars

\* A completion that was recorded is in the outbox or on record at the back end, and a
\* position too unless a later one of the lesson is: through lost answers, restarts,
\* recording during a synchronisation and a full outbox (_record, _synchronize).
NothingRecordedIsLost ==
    \A m \in made : \/ m \in pending \cup acked
                    \/ /\ m.kind = "position"
                       /\ \E n \in pending \cup acked : n.lesson = m.lesson /\ n.id > m.id

\* Requests wait for each other in a circle only if an author is linking a video that
\* is being watched (save_content, save_watch).
OnlyLinksDeadlock ==
    \A S \in SUBSET Requests : Deadlocked(S) =>
        \E r, q \in S : req[r].kind = "link" /\ req[q].kind = "watch" /\ req[q].video = req[r].video

\* What a synchronisation is about to record, nobody else has: the course's lock comes
\* before the lookup (sync_progress).
StagedMutationsAreNew ==
    \A r, q \in Requests : r # q =>
        ~(/\ req[r].kind = "sync" /\ req[r].pc = "writing"
          /\ req[q].kind = "sync" /\ req[q].pc = "writing"
          /\ NewIn(req[r]) \cap NewIn(req[q]) # {})
=============================================================================
