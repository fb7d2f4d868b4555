-------------------------- MODULE AssessmentProps --------------------------
(***************************************************************************)
(* What assessment attempts promise.                                       *)
(***************************************************************************)
EXTENDS Assessments

\* The number a start has counted under its lock is new when it commits, and
\* leaves no gap: starts in flight never meet the unique index (start_attempt).
StagedNumberIsNew ==
    \A r \in Requests : req[r].pc = "starting" =>
        LET z == req[r].id[1] IN
        \A n \in Numbers(z) : attempt[<<z, n>>].status = "none" <=> n >= req[r].id[2]

\* The response on record for a key is the attempt's one result, for whichever
\* of several submissions in flight it was graded (submit, grade_submission).
ReplayIsTheResult ==
    \A d \in idem : d.done => attempt[d.id].answers = d.answers

\* A key is left without a response only by a submission that came too late,
\* and its attempt is over: no retry of it is ever graded.
UnansweredKeyIsSpent ==
    \A d \in idem : ~d.done => attempt[d.id].status = "expired" /\ attempt[d.id].answers = NoAnswers

\* Of submissions that pass a lesson's last quizzes at the same time, one
\* completes the lesson (grade_submission's progress lock).
NoLostCompletion ==
    \A l \in Lessons : (\A z \in QuizzesOf[l] : Passed(z)) => l \in completed

\* Every start, submission and resume comes to an end.
RequestsEnd == \A r \in Requests : req[r].pc # "idle" ~> req[r].pc = "idle"

\* A submitted attempt stays submitted: row locks protect finalization
\* (backend/README.md).
SubmittedStaysSubmitted ==
    [][\A i \in Ids : attempt[i].status = "submitted" => attempt'[i].status = "submitted"]_vars
=============================================================================
