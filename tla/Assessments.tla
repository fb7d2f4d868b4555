---------------------------- MODULE Assessments ----------------------------
(***************************************************************************)
(* Assessment attempts of one learner in one course: start, resume and     *)
(* submission (the routes of app/api.py, start_attempt and                 *)
(* grade_submission of app/services.py), and the quiz lessons that grading *)
(* completes.                                                              *)
(*                                                                         *)
(* Several requests of the learner run at once, each in a database         *)
(* transaction at READ COMMITTED that is cut where it waits for a lock or  *)
(* commits. What a transaction has staged is invisible until its commit.   *)
(* A request that is refused or replayed changes no table and is no action.*)
(***************************************************************************)
EXTENDS Integers, FiniteSets

CONSTANTS
    Quizzes,        \* the course's assessments
    Lessons,        \* its quiz lessons, which only grading completes
    QuizzesOf,      \* the quizzes of each
    MaxAttempts,    \* Assessment.max_attempts, by quiz
    TimeLimit,      \* Assessment.time_limit_seconds, 0 for none
    Answers,        \* the submissions that are told apart
    NoAnswers,      \* an attempt without a result
    Passing,        \* the answers that pass each quiz
    Keys, NoKey,    \* values of the Idempotency-Key header
    Submissions,    \* the submissions that clients make
    Requests,       \* request slots: the learner's requests running at a time
    MaxTime         \* bound on the clock

Numbers(z) == 1..MaxAttempts[z]
Ids == UNION {{z} \X Numbers(z) : z \in Quizzes}    \* <<quiz, attempt_number>>
Submission == [id: Ids, key: Keys, answers: Answers]

ASSUME AssessmentAssumption ==
    /\ Quizzes # {}
    /\ QuizzesOf \in [Lessons -> (SUBSET Quizzes) \ {{}}]
    /\ MaxAttempts \in [Quizzes -> Nat \ {0}]
    /\ TimeLimit \in [Quizzes -> Nat]
    /\ NoAnswers \notin Answers
    /\ Passing \in [Quizzes -> SUBSET Answers]
    /\ NoKey \notin Keys
    /\ Submissions \subseteq Submission
    /\ MaxTime \in Nat \ {0}

VARIABLES
    clock,       \* the server's clock
    attempt,     \* assessment_attempts, by <<quiz, attempt_number>>
    idem,        \* idempotency_records; one without a response is not done
    completed,   \* lesson_progress.completed of the quiz lessons
    req          \* the requests in flight

vars == <<clock, attempt, idem, completed, req>>

Never == MaxTime + 1

AttemptStatus == {"none", "in_progress", "submitted", "expired"}

\* "graded" is past the grading, with the course's progress lock if it passed.
Phase == {"idle", "keying", "locking", "grading", "graded",
          "expiring", "numbering", "starting"}

Attempt == [status: AttemptStatus, deadline: Nat, answers: Answers \cup {NoAnswers}]
Record == [id: Ids, key: Keys, answers: Answers, done: BOOLEAN]
Request == [pc: Phase, id: Ids, key: Keys \cup {NoKey}, answers: Answers \cup {NoAnswers},
            lessons: SUBSET Lessons, deadline: Nat]

TypeOK ==
    /\ clock \in 1..MaxTime
    /\ attempt \in [Ids -> Attempt]
    /\ idem \subseteq Record
    /\ completed \subseteq Lessons
    /\ req \in [Requests -> Request]

NoAttempt == [status |-> "none", deadline |-> 0, answers |-> NoAnswers]

Idle == [pc |-> "idle", id |-> <<CHOOSE z \in Quizzes : TRUE, 1>>, key |-> NoKey,
         answers |-> NoAnswers, lessons |-> {}, deadline |-> 0]

Init ==
    /\ clock = 1
    /\ attempt = [i \in Ids |-> NoAttempt]
    /\ idem = {}
    /\ completed = {}
    /\ req = [r \in Requests |-> Idle]

----------------------------------------------------------------------------
(* Locks. Every one is held to the end of the database transaction.        *)

\* The uncommitted idempotency record of another request with the same key.
HoldsKey(q, i, k) == req[q].pc \in {"locking", "grading", "graded"} /\ req[q].id = i /\ req[q].key = k

\* The attempt's row, SELECTed FOR UPDATE.
HoldsAttempt(q, i) == req[q].pc \in {"grading", "graded"} /\ req[q].id = i

Passes(q) == req[q].answers \in Passing[req[q].id[1]]

\* Mutant: the progress lock is taken before the attempt's row.
HoldsProgressEarly(q) == req[q].pc \in {"grading", "graded"} /\ Passes(q)

\* pg_advisory_xact_lock('progress:<learner>:<course>').
HoldsProgress(q) == req[q].pc = "graded" /\ Passes(q)

\* pg_advisory_xact_lock('<learner>:<assessment>').
HoldsStart(q, z) == req[q].pc = "starting" /\ req[q].id[1] = z

KeyFree(r) == \A q \in Requests \ {r} : ~HoldsKey(q, req[r].id, req[r].key)
\* Mutant: a plain SELECT, without FOR UPDATE.
AttemptFreeAlways(r) == req[r].pc # "idle"
AttemptFree(r) == \A q \in Requests \ {r} : ~HoldsAttempt(q, req[r].id)
\* Mutant: no advisory lock.
ProgressFreeAlways(r) == req[r].pc # "idle"
ProgressFree(r) == \A q \in Requests \ {r} : ~HoldsProgress(q)
\* Mutant: no advisory lock.
StartFreeAlways(r) == req[r].pc # "idle"
StartFree(r) == \A q \in Requests \ {r} : ~HoldsStart(q, req[r].id[1])

\* The request ends, with or without a commit.
End(r) == req' = [req EXCEPT ![r] = Idle]

Goto(r, pc) == req' = [req EXCEPT ![r].pc = pc]

----------------------------------------------------------------------------
(* POST /assessments/{id}/attempts                                         *)

\* The start of a learner whom resolve_access lets in.
StartRequest(r, z) ==
    /\ req[r].pc = "idle"
    /\ req' = [req EXCEPT ![r] = [Idle EXCEPT !.pc = "numbering", !.id = <<z, 1>>]]
    /\ UNCHANGED <<clock, attempt, idem, completed>>

Total(z) == Cardinality({n \in Numbers(z) : attempt[<<z, n>>].status # "none"})

\* Mutant: one attempt too many.
MayStartOneMore(z) == Total(z) <= MaxAttempts[z]

MayStart(z) == Total(z) < MaxAttempts[z]

Deadline(z) == IF TimeLimit[z] = 0 THEN Never ELSE clock + TimeLimit[z]

\* With the lock held, every attempt counts, whatever became of it.
AssignNumber(r) ==
    LET z == req[r].id[1]
    IN  /\ req[r].pc = "numbering"
        /\ StartFree(r)
        /\ IF MayStart(z)
           THEN req' = [req EXCEPT ![r] = [@ EXCEPT !.pc = "starting", !.id = <<z, Total(z) + 1>>,
                                                    !.deadline = Deadline(z)]]
           ELSE End(r)
        /\ UNCHANGED <<clock, attempt, idem, completed>>

\* The unique index on the number would refuse the second of two.
CommitStart(r) ==
    LET q == req[r]
    IN  /\ q.pc = "starting"
        /\ attempt' = [attempt EXCEPT ![q.id] = IF @.status = "none"
                         THEN [NoAttempt EXCEPT !.status = "in_progress", !.deadline = q.deadline]
                         ELSE @]
        /\ End(r)
        /\ UNCHANGED <<clock, idem, completed>>

----------------------------------------------------------------------------
(* POST /assessments/{id}/attempts/{attempt}/submission                    *)

RecordsOf(i, k) == {d \in idem : d.id = i /\ d.key = k}

\* A key on record with a response is replayed, with another payload it is a
\* 409; on record without a response, the submission goes on.
Submit(r, s) ==
    /\ req[r].pc = "idle"
    /\ attempt[s.id].status # "none"
    /\ \A d \in RecordsOf(s.id, s.key) : d.answers = s.answers /\ ~d.done
    /\ req' = [req EXCEPT ![r] = [Idle EXCEPT
                 !.pc = IF RecordsOf(s.id, s.key) = {} THEN "keying" ELSE "locking",
                 !.id = s.id, !.key = s.key, !.answers = s.answers]]
    /\ UNCHANGED <<clock, attempt, idem, completed>>

\* The INSERT waits for the same key in flight. It is only flushed: nothing of it
\* is committed yet.
InsertKey(r) ==
    /\ req[r].pc = "keying"
    /\ RecordsOf(req[r].id, req[r].key) = {}
    /\ KeyFree(r)
    /\ Goto(r, "locking")
    /\ UNCHANGED <<clock, attempt, idem, completed>>

\* ... and is refused if that one committed (409 IDEMPOTENCY_IN_PROGRESS).
DuplicateKey(r) ==
    /\ req[r].pc = "keying"
    /\ RecordsOf(req[r].id, req[r].key) # {}
    /\ End(r)
    /\ UNCHANGED <<clock, attempt, idem, completed>>

RecordOf(q, done) == [id |-> q.id, key |-> q.key, answers |-> q.answers, done |-> done]

\* The record of the request replaces the one it found, if any.
Recorded(q, done) == (idem \ RecordsOf(q.id, q.key)) \cup {RecordOf(q, done)}

\* Mutant: an attempt that has a result is graded again.
MayGradeAgain(i) == attempt[i].status \in {"in_progress", "submitted"}

MayGrade(i) == attempt[i].status = "in_progress"

\* Mutant: the learner is told, but the status is not saved.
ExpiredUnsaved(a) == a

Expired(a) == [a EXCEPT !.status = "expired"]

Late(i) == clock > attempt[i].deadline

BeginGrading(r) ==
    /\ req[r].pc = "locking"
    /\ AttemptFree(r)
    /\ MayGrade(req[r].id) /\ ~Late(req[r].id)
    /\ Goto(r, "grading")
    /\ UNCHANGED <<clock, attempt, idem, completed>>

\* 409 ATTEMPT_FINALIZED: the key is given back.
RefuseFinalized(r) ==
    /\ req[r].pc = "locking"
    /\ AttemptFree(r)
    /\ ~MayGrade(req[r].id)
    /\ End(r)
    /\ UNCHANGED <<clock, attempt, idem, completed>>

\* 410 ATTEMPT_EXPIRED: the commit of the attempt's status keeps the key too,
\* without a response.
RefuseLate(r) ==
    /\ req[r].pc = "locking"
    /\ AttemptFree(r)
    /\ MayGrade(req[r].id) /\ Late(req[r].id)
    /\ attempt' = [attempt EXCEPT ![req[r].id] = Expired(@)]
    /\ idem' = Recorded(req[r], FALSE)
    /\ End(r)
    /\ UNCHANGED <<clock, completed>>

\* required_quizzes_passed asks for a submitted attempt that passed.
Passed(z) == \E n \in Numbers(z) : LET a == attempt[<<z, n>>] IN
                a.status = "submitted" /\ a.answers \in Passing[z]

\* Mutant: a pass completes the quiz's lessons, whatever their other quizzes.
LinkedLessons(z) == {l \in Lessons : z \in QuizzesOf[l]}

\* The lessons that a pass of z completes.
Completes(z) == {l \in Lessons : z \in QuizzesOf[l] /\ \A y \in QuizzesOf[l] \ {z} : Passed(y)}

\* The request that passes waits for the course's progress lock before it looks
\* at the other quizzes.
Grade(r) ==
    LET z == req[r].id[1]
    IN  /\ req[r].pc = "grading"
        /\ Passes(r) => ProgressFree(r)
        /\ req' = [req EXCEPT ![r] = [@ EXCEPT !.pc = "graded",
                     !.lessons = IF Passes(r) THEN Completes(z) ELSE {}]]
        /\ UNCHANGED <<clock, attempt, idem, completed>>

\* The result, the lessons and the response are one commit.
CommitResult(r) ==
    LET q == req[r]
    IN  /\ q.pc = "graded"
        /\ attempt' = [attempt EXCEPT ![q.id] = [@ EXCEPT !.status = "submitted",
                                                          !.answers = q.answers]]
        /\ completed' = completed \cup q.lessons
        /\ idem' = Recorded(q, TRUE)
        /\ End(r)
        /\ UNCHANGED clock

----------------------------------------------------------------------------
(* GET /assessments/{id}/attempts/{attempt}                                *)

\* Resuming reads the attempt without locking it; one that is at its deadline
\* is to be expired.
Resume(r, i) ==
    /\ req[r].pc = "idle"
    /\ attempt[i].status = "in_progress"
    /\ attempt[i].deadline <= clock
    /\ req' = [req EXCEPT ![r] = [Idle EXCEPT !.pc = "expiring", !.id = i]]
    /\ UNCHANGED <<clock, attempt, idem, completed>>

\* The UPDATE waits for whoever holds the row, and writes over what it wrote.
CommitExpiry(r) ==
    /\ req[r].pc = "expiring"
    /\ AttemptFree(r)
    /\ attempt' = [attempt EXCEPT ![req[r].id] = Expired(@)]
    /\ End(r)
    /\ UNCHANGED <<clock, idem, completed>>

----------------------------------------------------------------------------
\* Invalid answers (422), a dropped connection, a worker that dies: rolled back.
Fail(r) ==
    /\ req[r].pc # "idle"
    /\ End(r)
    /\ UNCHANGED <<clock, attempt, idem, completed>>

Tick ==
    /\ clock < MaxTime
    /\ clock' = clock + 1
    /\ UNCHANGED <<attempt, idem, completed, req>>

RequestStep(r) ==
    \/ AssignNumber(r) \/ CommitStart(r)
    \/ InsertKey(r) \/ DuplicateKey(r)
    \/ BeginGrading(r) \/ RefuseFinalized(r) \/ RefuseLate(r)
    \/ Grade(r) \/ CommitResult(r)
    \/ CommitExpiry(r)

Next ==
    \/ \E r \in Requests :
        \/ RequestStep(r)
        \/ Fail(r)
        \/ \E z \in Quizzes : StartRequest(r, z)
        \/ \E s \in Submissions : Submit(r, s)
        \/ \E i \in Ids : Resume(r, i)
    \/ Tick

Spec == Init /\ [][Next]_vars

\* The event loop resumes a coroutine whose query has returned, and PostgreSQL
\* grants a lock to its waiters in turn.
FairSpec == Spec /\ \A r \in Requests : SF_vars(RequestStep(r))
=============================================================================
