-------------------------- MODULE AssessmentProofs --------------------------
(***************************************************************************)
(* Proofs about assessment attempts, for any number of quizzes, lessons,   *)
(* attempts, keys and concurrent requests; and that attempts, lessons and  *)
(* certificates implement the transcript, for any number of claims.        *)
(***************************************************************************)
EXTENDS CertificateProps, AssessmentProps, FiniteSetTheorems, TLAPS

\* An attempt is a quiz and one of its numbers.
LEMMA IdsFact ==
    /\ \A z \in Quizzes : \A n \in Numbers(z) : <<z, n>> \in Ids
    /\ \A i \in Ids : i[1] \in Quizzes /\ i[2] \in Numbers(i[1]) /\ i = <<i[1], i[2]>>
<1>1. \A z \in Quizzes : \A n \in Numbers(z) : <<z, n>> \in Ids
  BY DEF Ids
<1>2. ASSUME NEW i \in Ids
      PROVE  i[1] \in Quizzes /\ i[2] \in Numbers(i[1]) /\ i = <<i[1], i[2]>>
  <2>1. PICK z \in Quizzes : i \in {z} \X Numbers(z)
    BY DEF Ids
  <2>2. QED
    BY <2>1
<1>3. QED
  BY <1>1, <1>2

\* Counting attempts gives a natural number.
LEMMA TotalIsNat ==
  ASSUME NEW z \in Quizzes
  PROVE  Total(z) \in Nat
<1>1. IsFiniteSet(Numbers(z))
  BY FS_Interval, AssessmentAssumption DEF Numbers
<1>2. IsFiniteSet({n \in Numbers(z) : attempt[<<z, n>>].status # "none"})
  BY <1>1, FS_Subset
<1>3. QED
  BY <1>2, FS_CardinalityType DEF Total

----------------------------------------------------------------------------
(* Types                                                                   *)

Submitting == {"keying", "locking", "grading", "graded"}

\* A request that submits carries a submission.
Keyed == \A r \in Requests : req[r].pc \in Submitting => req[r].key \in Keys /\ req[r].answers \in Answers

TypeInv == TypeOK /\ Keyed

\* The request slot at rest is well formed.
LEMMA IdleType == Idle \in Request /\ Idle.pc = "idle"
<1>1. (CHOOSE z \in Quizzes : TRUE) \in Quizzes
  BY AssessmentAssumption
<1>2. <<CHOOSE z \in Quizzes : TRUE, 1>> \in Ids
  BY <1>1, IdsFact, AssessmentAssumption DEF Numbers
<1>3. QED
  BY <1>2 DEF Idle, Request, Phase

\* A step that leaves the tables alone and moves one request.
LEMMA MoveType ==
  ASSUME TypeInv, NEW r \in Requests, NEW p \in Request,
         p.pc \in Submitting => p.key \in Keys /\ p.answers \in Answers,
         req' = [req EXCEPT ![r] = p], UNCHANGED <<clock, attempt, idem, completed>>
  PROVE  TypeInv'
<1>1. req' \in [Requests -> Request]
  BY DEF TypeInv, TypeOK
<1>2. Keyed'
  BY DEF TypeInv, TypeOK, Keyed
<1>3. QED
  BY <1>1, <1>2 DEF TypeInv, TypeOK

\* A request that ends.
LEMMA EndType ==
  ASSUME TypeInv, NEW r \in Requests, End(r)
  PROVE  req' \in [Requests -> Request] /\ Keyed'
BY IdleType DEF TypeInv, TypeOK, Keyed, End, Submitting

\* Recording a response keeps the records well formed.
LEMMA RecordedType ==
  ASSUME TypeInv, NEW r \in Requests, req[r].pc \in Submitting, NEW d \in BOOLEAN
  PROVE  Recorded(req[r], d) \subseteq Record
<1>1. req[r].id \in Ids /\ req[r].key \in Keys /\ req[r].answers \in Answers
  BY DEF TypeInv, TypeOK, Keyed, Request
<1>2. RecordOf(req[r], d) \in Record
  BY <1>1 DEF RecordOf, Record
<1>3. QED
  BY <1>2 DEF Recorded, TypeInv, TypeOK

\* The number that a start is given is one of the quiz's.
LEMMA AssignNumberType ==
  ASSUME TypeInv, NEW r \in Requests, AssignNumber(r)
  PROVE  TypeInv'
<1> DEFINE z == req[r].id[1]
           p == [req[r] EXCEPT !.pc = "starting", !.id = <<z, Total(z) + 1>>, !.deadline = Deadline(z)]
<1>1. req[r] \in Request /\ z \in Quizzes
  BY IdsFact DEF TypeInv, TypeOK, Request
<1>2. Total(z) \in Nat
  BY <1>1, TotalIsNat
<1>3. CASE MayStart(z)
  <2>1. Total(z) + 1 \in Numbers(z)
    BY <1>1, <1>2, <1>3, AssessmentAssumption DEF MayStart, Numbers
  <2>2. <<z, Total(z) + 1>> \in Ids
    BY <1>1, <2>1, IdsFact
  <2>3. Deadline(z) \in Nat
    BY <1>1, AssessmentAssumption DEF Deadline, Never, TypeInv, TypeOK
  <2>4. p \in Request /\ p.pc = "starting"
    BY <1>1, <2>2, <2>3 DEF Request, Phase
  <2>5. req' = [req EXCEPT ![r] = p] /\ UNCHANGED <<clock, attempt, idem, completed>>
    BY <1>3 DEF AssignNumber, TypeInv, TypeOK
  <2>6. QED
    BY <2>4, <2>5, MoveType DEF Submitting
<1>4. CASE ~MayStart(z)
  <2>1. End(r) /\ UNCHANGED <<clock, attempt, idem, completed>>
    BY <1>4 DEF AssignNumber
  <2>2. QED
    BY <2>1, EndType DEF TypeInv, TypeOK
<1>5. QED
  BY <1>3, <1>4

\* Types over the steps of a request in flight.
LEMMA StepType ==
  ASSUME TypeInv, NEW r \in Requests, RequestStep(r)
  PROVE  TypeInv'
<1> USE DEF TypeInv, TypeOK
<1>0. req[r] \in Request /\ req[r].id \in Ids /\ attempt[req[r].id] \in Attempt
  BY DEF Request
<1>1. CASE AssignNumber(r)
  BY <1>1, AssignNumberType
<1>2. CASE CommitStart(r)
  <2>1. attempt' \in [Ids -> Attempt]
    BY <1>0, <1>2 DEF CommitStart, Attempt, AttemptStatus, NoAttempt, Request
  <2>2. QED
    BY <1>2, <2>1, EndType DEF CommitStart
<1>3. CASE InsertKey(r) \/ BeginGrading(r)
  <2>0. PICK pc \in {"locking", "grading"} : Goto(r, pc)
    BY <1>3 DEF InsertKey, BeginGrading
  <2> DEFINE p == [req[r] EXCEPT !.pc = pc]
  <2>1. req' = [req EXCEPT ![r] = p] /\ UNCHANGED <<clock, attempt, idem, completed>>
    BY <1>3, <2>0 DEF InsertKey, BeginGrading, Goto
  <2>2. req[r].key \in Keys /\ req[r].answers \in Answers
    BY <1>3 DEF InsertKey, BeginGrading, Keyed, Submitting
  <2>3. p \in Request /\ p.key \in Keys /\ p.answers \in Answers
    BY <1>0, <2>2 DEF Request, Phase
  <2>4. QED
    BY <2>1, <2>3, MoveType
<1>4. CASE DuplicateKey(r) \/ RefuseFinalized(r)
  BY <1>4, EndType DEF DuplicateKey, RefuseFinalized
<1>5. CASE RefuseLate(r)
  <2>1. attempt' \in [Ids -> Attempt]
    BY <1>0, <1>5 DEF RefuseLate, Expired, Attempt, AttemptStatus
  <2>2. idem' \subseteq Record
    BY <1>5, RecordedType DEF RefuseLate, Submitting
  <2>3. QED
    BY <1>5, <2>1, <2>2, EndType DEF RefuseLate
<1>6. CASE Grade(r)
  <2> DEFINE z == req[r].id[1]
             ls == IF Passes(r) THEN Completes(z) ELSE {}
             p == [req[r] EXCEPT !.pc = "graded", !.lessons = ls]
  <2>0. ls \in SUBSET Lessons
    BY DEF Completes
  <2>1. req' = [req EXCEPT ![r] = p] /\ UNCHANGED <<clock, attempt, idem, completed>>
    BY <1>6 DEF Grade
  <2> HIDE DEF ls
  <2>2. req[r].key \in Keys /\ req[r].answers \in Answers
    BY <1>6 DEF Grade, Keyed, Submitting
  <2>3. p \in Request /\ p.key \in Keys /\ p.answers \in Answers
    BY <1>0, <2>0, <2>2 DEF Request, Phase
  <2>4. QED
    BY <2>1, <2>3, MoveType
<1>7. CASE CommitResult(r)
  <2>0. req[r].key \in Keys /\ req[r].answers \in Answers
    BY <1>7 DEF CommitResult, Keyed, Submitting
  <2>1. attempt' \in [Ids -> Attempt]
    BY <1>0, <1>7, <2>0 DEF CommitResult, Attempt, AttemptStatus
  <2>2. idem' \subseteq Record
    BY <1>7, RecordedType DEF CommitResult, Submitting
  <2>3. completed' \subseteq Lessons
    BY <1>0, <1>7 DEF CommitResult, Request
  <2>4. QED
    BY <1>7, <2>1, <2>2, <2>3, EndType DEF CommitResult
<1>8. CASE CommitExpiry(r)
  <2>1. attempt' \in [Ids -> Attempt]
    BY <1>0, <1>8 DEF CommitExpiry, Expired, Attempt, AttemptStatus
  <2>2. QED
    BY <1>8, <2>1, EndType DEF CommitExpiry
<1>9. QED
  BY <1>1, <1>2, <1>3, <1>4, <1>5, <1>6, <1>7, <1>8 DEF RequestStep

\* Types over every step.
LEMMA NextType ==
  ASSUME TypeInv, [Next]_vars
  PROVE  TypeInv'
<1>1. ASSUME NEW r \in Requests, RequestStep(r) PROVE TypeInv'
  BY <1>1, StepType
<1>2. ASSUME NEW r \in Requests, Fail(r) PROVE TypeInv'
  BY <1>2, EndType DEF Fail, TypeInv, TypeOK
<1>3. ASSUME NEW r \in Requests, NEW z \in Quizzes, StartRequest(r, z) PROVE TypeInv'
  <2> DEFINE p == [Idle EXCEPT !.pc = "numbering", !.id = <<z, 1>>]
  <2>1. <<z, 1>> \in Ids
    BY IdsFact, AssessmentAssumption DEF Numbers
  <2>2. p \in Request /\ p.pc = "numbering"
    BY <2>1, IdleType DEF Request, Phase
  <2>3. req' = [req EXCEPT ![r] = p] /\ UNCHANGED <<clock, attempt, idem, completed>>
    BY <1>3 DEF StartRequest
  <2>4. QED
    BY <2>2, <2>3, MoveType DEF Submitting
<1>4. ASSUME NEW r \in Requests, NEW s \in Submissions, Submit(r, s) PROVE TypeInv'
  <2> DEFINE p == [Idle EXCEPT !.pc = IF RecordsOf(s.id, s.key) = {} THEN "keying" ELSE "locking",
                               !.id = s.id, !.key = s.key, !.answers = s.answers]
  <2>1. s.id \in Ids /\ s.key \in Keys /\ s.answers \in Answers
    BY AssessmentAssumption DEF Submission
  <2>2. p \in Request /\ p.key \in Keys /\ p.answers \in Answers
    BY <2>1, IdleType DEF Request, Phase
  <2>3. req' = [req EXCEPT ![r] = p] /\ UNCHANGED <<clock, attempt, idem, completed>>
    BY <1>4 DEF Submit
  <2>4. QED
    BY <2>2, <2>3, MoveType
<1>5. ASSUME NEW r \in Requests, NEW i \in Ids, Resume(r, i) PROVE TypeInv'
  <2> DEFINE p == [Idle EXCEPT !.pc = "expiring", !.id = i]
  <2>1. p \in Request /\ p.pc = "expiring"
    BY IdleType DEF Request, Phase
  <2>2. req' = [req EXCEPT ![r] = p] /\ UNCHANGED <<clock, attempt, idem, completed>>
    BY <1>5 DEF Resume
  <2>3. QED
    BY <2>1, <2>2, MoveType DEF Submitting
<1>6. CASE Tick \/ UNCHANGED vars
  BY <1>6, AssessmentAssumption DEF Tick, vars, TypeInv, TypeOK, Keyed
<1>7. QED
  BY <1>1, <1>2, <1>3, <1>4, <1>5, <1>6 DEF Next

\* Types at the start.
LEMMA InitType == Init => TypeInv
<1> SUFFICES ASSUME Init PROVE TypeInv
  OBVIOUS
<1>1. NoAttempt \in Attempt
  BY DEF NoAttempt, Attempt, AttemptStatus
<1>2. QED
  BY <1>1, IdleType, AssessmentAssumption DEF Init, TypeInv, TypeOK, Keyed, Submitting

\* The tables and the requests in flight keep their types; in particular no
\* attempt is numbered beyond max_attempts, however many starts race.
THEOREM AttemptsTypeCorrect == Spec => []TypeOK
<1>1. Spec => []TypeInv
  BY InitType, NextType, PTL DEF Spec
<1>2. TypeInv => TypeOK
  BY DEF TypeInv
<1>3. QED
  BY <1>1, <1>2, PTL

----------------------------------------------------------------------------
(* One result per attempt                                                  *)

Grading == {"grading", "graded"}

Existing == \A r \in Requests :
    req[r].pc \in Submitting \cup {"expiring"} => attempt[req[r].id].status # "none"

\* Who holds an attempt's row has found it in progress, and nobody else holds it.
Locked == \A r \in Requests : req[r].pc \in Grading => attempt[req[r].id].status = "in_progress"

Exclusive == \A q, r \in Requests :
    q # r /\ req[q].pc \in Grading /\ req[r].pc \in Grading => req[q].id # req[r].id

Ungraded == \A i \in Ids : attempt[i].status \in {"none", "in_progress"} => attempt[i].answers = NoAnswers

RowInv == TypeInv /\ Existing /\ Locked /\ Exclusive /\ Ungraded
AttemptInv == RowInv /\ ReplayIsTheResult /\ UnansweredKeyIsSpent

\* A step that moves one request and writes no attempt.
LEMMA MoveRows ==
  ASSUME RowInv, TypeInv', NEW r \in Requests, NEW p, attempt' = attempt,
         req' = [req EXCEPT ![r] = p],
         p.pc \in Submitting \cup {"expiring"} => attempt[p.id].status # "none",
         p.pc \in Grading => /\ attempt[p.id].status = "in_progress"
                             /\ \A q \in Requests \ {r} : ~HoldsAttempt(q, p.id)
  PROVE  RowInv'
<1> USE DEF RowInv, TypeInv, TypeOK
<1>1. \A q \in Requests : req'[q] = IF q = r THEN p ELSE req[q]
  OBVIOUS
<1>2. Existing' /\ Locked' /\ Ungraded'
  BY <1>1 DEF Existing, Locked, Ungraded
<1>3. Exclusive'
  BY <1>1 DEF Exclusive, HoldsAttempt, Grading
<1>4. QED
  BY <1>2, <1>3

\* A step that ends one request, and writes its attempt while nobody else holds
\* the row.
LEMMA WriteRow ==
  ASSUME RowInv, TypeInv', NEW r \in Requests, End(r), NEW a,
         attempt' = [attempt EXCEPT ![req[r].id] = a],
         \A q \in Requests \ {r} : ~HoldsAttempt(q, req[r].id),
         a.status # "none", a.status = "in_progress" => a.answers = NoAnswers
  PROVE  RowInv'
<1> USE DEF RowInv, TypeInv, TypeOK
<1>1. \A q \in Requests : req'[q] = IF q = r THEN Idle ELSE req[q]
  BY DEF End
<1>2. \A i \in Ids : attempt'[i] = IF i = req[r].id THEN a ELSE attempt[i]
  OBVIOUS
<1>3. \A q \in Requests : req[q].id \in Ids
  BY DEF Request
<1>4. Existing'
  BY <1>1, <1>2, <1>3, IdleType DEF Existing, Submitting
<1>5. Locked'
  BY <1>1, <1>2, <1>3, IdleType DEF Locked, HoldsAttempt, Grading
<1>6. Ungraded'
  BY <1>2 DEF Ungraded
<1>7. Exclusive'
  BY <1>1, IdleType DEF Exclusive, Grading
<1>8. QED
  BY <1>4, <1>5, <1>6, <1>7

\* Row locks over every step: what is being graded is in progress, and by one
\* request.
LEMMA RowStep ==
  ASSUME RowInv, [Next]_vars
  PROVE  RowInv'
<1> USE DEF RowInv
<1>0. TypeInv' /\ \A r \in Requests : req[r] \in Request /\ req[r].id \in Ids
  BY NextType DEF TypeInv, TypeOK, Request
<1>1. ASSUME NEW r \in Requests, End(r), attempt' = attempt PROVE RowInv'
  BY <1>0, <1>1, MoveRows, IdleType DEF End, Submitting, Grading
<1>2. ASSUME NEW r \in Requests, AssignNumber(r) PROVE RowInv'
  <2> DEFINE z == req[r].id[1]
             id == <<z, Total(z) + 1>>
             p == [req[r] EXCEPT !.pc = "starting", !.id = id, !.deadline = Deadline(z)]
  <2>1. CASE MayStart(z)
    <3>1. p.pc = "starting"
      BY <1>0 DEF Request
    <3>2. req' = [req EXCEPT ![r] = p] /\ attempt' = attempt
      BY <1>2, <2>1 DEF AssignNumber
    <3>3. QED
      BY <1>0, <3>1, <3>2, MoveRows DEF Submitting, Grading
  <2>2. QED
    BY <1>1, <1>2, <2>1 DEF AssignNumber
<1>3. ASSUME NEW r \in Requests, CommitStart(r) PROVE RowInv'
  <2> DEFINE i == req[r].id
             new == [NoAttempt EXCEPT !.status = "in_progress", !.deadline = req[r].deadline]
  <2>1. CASE attempt[i].status = "none"
    <3>1. attempt' = [attempt EXCEPT ![i] = new]
      BY <1>3, <2>1 DEF CommitStart
    <3>2. new.status = "in_progress" /\ new.answers = NoAnswers
      BY DEF NoAttempt
    <3>3. \A q \in Requests \ {r} : ~HoldsAttempt(q, i)
      BY <2>1 DEF Locked, HoldsAttempt, Grading
    <3>4. QED
      BY <1>0, <1>3, <3>1, <3>2, <3>3, WriteRow DEF CommitStart
  <2>2. CASE attempt[i].status # "none"
    <3>1. attempt' = attempt
      BY <1>0, <1>3, <2>2 DEF CommitStart, TypeInv, TypeOK
    <3>2. QED
      BY <1>1, <1>3, <3>1 DEF CommitStart
  <2>3. QED
    BY <2>1, <2>2
<1>4. ASSUME NEW r \in Requests, InsertKey(r) PROVE RowInv'
  <2> DEFINE p == [req[r] EXCEPT !.pc = "locking"]
  <2>1. p.pc = "locking" /\ p.id = req[r].id /\ req[r].pc = "keying"
    BY <1>0, <1>4 DEF Request, InsertKey
  <2>2. req' = [req EXCEPT ![r] = p] /\ attempt' = attempt
    BY <1>4 DEF InsertKey, Goto
  <2>3. QED
    BY <1>0, <2>1, <2>2, MoveRows DEF Submitting, Grading, Existing
<1>5. ASSUME NEW r \in Requests, BeginGrading(r) PROVE RowInv'
  <2> DEFINE p == [req[r] EXCEPT !.pc = "grading"]
  <2>1. p.pc = "grading" /\ p.id = req[r].id
    BY <1>0 DEF Request
  <2>2. req' = [req EXCEPT ![r] = p] /\ attempt' = attempt
    BY <1>5 DEF BeginGrading, Goto
  <2>3. /\ attempt[p.id].status = "in_progress"
        /\ \A q \in Requests \ {r} : ~HoldsAttempt(q, p.id)
    BY <1>5, <2>1 DEF BeginGrading, MayGrade, AttemptFree
  <2>4. QED
    BY <1>0, <2>1, <2>2, <2>3, MoveRows
<1>6. ASSUME NEW r \in Requests, Grade(r) PROVE RowInv'
  <2> DEFINE ls == IF Passes(r) THEN Completes(req[r].id[1]) ELSE {}
             p == [req[r] EXCEPT !.pc = "graded", !.lessons = ls]
  <2>1. p.pc = "graded" /\ p.id = req[r].id /\ req[r].pc = "grading"
    BY <1>0, <1>6 DEF Request, Grade
  <2>2. req' = [req EXCEPT ![r] = p] /\ attempt' = attempt
    BY <1>6 DEF Grade
  <2>3. /\ attempt[p.id].status = "in_progress"
        /\ \A q \in Requests \ {r} : ~HoldsAttempt(q, p.id)
    BY <2>1 DEF Locked, Exclusive, HoldsAttempt, Grading
  <2>4. QED
    BY <1>0, <2>1, <2>2, <2>3, MoveRows
<1>7. ASSUME NEW r \in Requests, CommitResult(r) PROVE RowInv'
  <2> DEFINE i == req[r].id
             a == [attempt[i] EXCEPT !.status = "submitted", !.answers = req[r].answers]
  <2>1. attempt' = [attempt EXCEPT ![i] = a]
    BY <1>7 DEF CommitResult
  <2>2. a.status = "submitted"
    BY <1>0 DEF TypeInv, TypeOK, Attempt
  <2>3. \A q \in Requests \ {r} : ~HoldsAttempt(q, i)
    BY <1>7 DEF CommitResult, Exclusive, HoldsAttempt, Grading
  <2>4. QED
    BY <1>0, <1>7, <2>1, <2>2, <2>3, WriteRow DEF CommitResult
<1>8. ASSUME NEW r \in Requests, RefuseLate(r) \/ CommitExpiry(r) PROVE RowInv'
  <2> DEFINE i == req[r].id
             a == Expired(attempt[i])
  <2>1. attempt' = [attempt EXCEPT ![i] = a]
    BY <1>8 DEF RefuseLate, CommitExpiry
  <2>2. a.status = "expired"
    BY <1>0 DEF TypeInv, TypeOK, Attempt, Expired
  <2>3. \A q \in Requests \ {r} : ~HoldsAttempt(q, i)
    BY <1>8 DEF RefuseLate, CommitExpiry, AttemptFree
  <2>4. QED
    BY <1>0, <1>8, <2>1, <2>2, <2>3, WriteRow DEF RefuseLate, CommitExpiry
<1>9. ASSUME NEW r \in Requests, NEW z \in Quizzes, StartRequest(r, z) PROVE RowInv'
  <2> DEFINE p == [Idle EXCEPT !.pc = "numbering", !.id = <<z, 1>>]
  <2>1. p.pc = "numbering"
    BY IdleType DEF Request
  <2>2. req' = [req EXCEPT ![r] = p] /\ attempt' = attempt
    BY <1>9 DEF StartRequest
  <2>3. QED
    BY <1>0, <2>1, <2>2, MoveRows DEF Submitting, Grading
<1>10. ASSUME NEW r \in Requests, NEW s \in Submissions, Submit(r, s) PROVE RowInv'
  <2> DEFINE pc == IF RecordsOf(s.id, s.key) = {} THEN "keying" ELSE "locking"
             p == [Idle EXCEPT !.pc = pc, !.id = s.id, !.key = s.key, !.answers = s.answers]
  <2>1. pc \in {"keying", "locking"}
    OBVIOUS
  <2>2. req' = [req EXCEPT ![r] = p] /\ attempt' = attempt /\ attempt[s.id].status # "none"
    BY <1>10 DEF Submit
  <2> HIDE DEF pc
  <2>3. p.pc = pc /\ p.id = s.id
    BY IdleType DEF Request
  <2>4. QED
    BY <1>0, <2>1, <2>2, <2>3, MoveRows DEF Submitting, Grading
<1>11. ASSUME NEW r \in Requests, NEW i \in Ids, Resume(r, i) PROVE RowInv'
  <2> DEFINE p == [Idle EXCEPT !.pc = "expiring", !.id = i]
  <2>1. p.pc = "expiring" /\ p.id = i
    BY IdleType DEF Request
  <2>2. req' = [req EXCEPT ![r] = p] /\ attempt' = attempt /\ attempt[i].status # "none"
    BY <1>11 DEF Resume
  <2>3. QED
    BY <1>0, <2>1, <2>2, MoveRows DEF Submitting, Grading
<1>12. CASE Tick \/ UNCHANGED vars
  BY <1>0, <1>12 DEF Tick, vars, Existing, Locked, Exclusive, Ungraded
<1>13. QED
  BY <1>1, <1>2, <1>3, <1>4, <1>5, <1>6, <1>7, <1>8, <1>9, <1>10, <1>11, <1>12
     DEF Next, RequestStep, Fail, DuplicateKey, RefuseFinalized

\* What a step does to the attempts on record.
LEMMA AttemptChange ==
  ASSUME RowInv, [Next]_vars, NEW i \in Ids
  PROVE  \/ attempt'[i] = attempt[i]
         \/ attempt[i].status = "none"
         \/ attempt'[i].status = "expired" /\ attempt'[i].answers = attempt[i].answers
         \/ \E r \in Requests : CommitResult(r) /\ req[r].id = i
<1> USE DEF RowInv, TypeInv, TypeOK
<1>0. attempt[i] \in Attempt
  OBVIOUS
<1>1. ASSUME NEW r \in Requests, CommitStart(r)
      PROVE  attempt'[i] = attempt[i] \/ attempt[i].status = "none"
  BY <1>1 DEF CommitStart
<1>2. ASSUME NEW r \in Requests, RefuseLate(r) \/ CommitExpiry(r)
      PROVE  \/ attempt'[i] = attempt[i]
             \/ attempt'[i].status = "expired" /\ attempt'[i].answers = attempt[i].answers
  <2>1. attempt' = [attempt EXCEPT ![req[r].id] = Expired(@)]
    BY <1>2 DEF RefuseLate, CommitExpiry
  <2>2. Expired(attempt[i]).status = "expired" /\ Expired(attempt[i]).answers = attempt[i].answers
    BY <1>0 DEF Expired, Attempt
  <2>3. attempt'[i] = IF i = req[r].id THEN Expired(attempt[i]) ELSE attempt[i]
    BY <2>1
  <2>4. QED
    BY <2>2, <2>3
<1>3. ASSUME NEW r \in Requests, CommitResult(r)
      PROVE  attempt'[i] = attempt[i] \/ req[r].id = i
  BY <1>3 DEF CommitResult
<1>4. CASE attempt' = attempt
  BY <1>4
<1>5. QED
  BY <1>1, <1>2, <1>3, <1>4
     DEF Next, RequestStep, AssignNumber, InsertKey, DuplicateKey, BeginGrading,
         RefuseFinalized, Grade, Fail, StartRequest, Submit, Resume, Tick, vars

\* A result, once there, stays: only an attempt in progress is graded.
LEMMA ResultStays ==
  ASSUME RowInv, [Next]_vars, NEW i \in Ids, attempt[i].answers # NoAnswers
  PROVE  attempt'[i].answers = attempt[i].answers
<1>1. attempt[i].status \notin {"none", "in_progress"}
  BY DEF RowInv, Ungraded
<1>2. ~\E r \in Requests : CommitResult(r) /\ req[r].id = i
  BY <1>1 DEF RowInv, Locked, Grading, CommitResult
<1>3. QED
  BY <1>1, <1>2, AttemptChange

\* An attempt that has ended without a result never gets one.
LEMMA ExpiredStays ==
  ASSUME RowInv, [Next]_vars, NEW i \in Ids, attempt[i].status = "expired"
  PROVE  attempt'[i].status = "expired" /\ attempt'[i].answers = attempt[i].answers
<1>1. ~\E r \in Requests : CommitResult(r) /\ req[r].id = i
  BY DEF RowInv, Locked, Grading, CommitResult
<1>2. QED
  BY <1>1, AttemptChange

\* Only a result and a late refusal leave a record behind.
LEMMA RecordChange ==
  ASSUME RowInv, [Next]_vars, NEW d \in idem' \ idem
  PROVE  \E r \in Requests : \/ CommitResult(r) /\ d = RecordOf(req[r], TRUE)
                             \/ RefuseLate(r) /\ d = RecordOf(req[r], FALSE)
<1>1. ASSUME NEW r \in Requests, CommitResult(r) PROVE d = RecordOf(req[r], TRUE)
  BY <1>1 DEF CommitResult, Recorded
<1>2. ASSUME NEW r \in Requests, RefuseLate(r) PROVE d = RecordOf(req[r], FALSE)
  BY <1>2 DEF RefuseLate, Recorded
<1>3. idem' # idem
  OBVIOUS
<1>4. QED
  BY <1>1, <1>2, <1>3
     DEF Next, RequestStep, AssignNumber, CommitStart, InsertKey, DuplicateKey, BeginGrading,
         RefuseFinalized, Grade, CommitExpiry, Fail, StartRequest, Submit, Resume, Tick, vars

\* Results and records over every step.
LEMMA AttemptStep ==
  ASSUME AttemptInv, [Next]_vars
  PROVE  AttemptInv'
<1> USE DEF AttemptInv
<1>1. RowInv'
  BY RowStep
<1>2. ASSUME NEW d \in idem' \cap idem
      PROVE  IF d.done THEN attempt'[d.id].answers = d.answers
             ELSE attempt'[d.id].status = "expired" /\ attempt'[d.id].answers = NoAnswers
  <2>1. d.id \in Ids /\ d.answers \in Answers /\ d.done \in BOOLEAN
    BY DEF RowInv, TypeInv, TypeOK, Record
  <2>2. CASE d.done
    <3>1. attempt[d.id].answers = d.answers /\ d.answers # NoAnswers
      BY <2>1, <2>2, AssessmentAssumption DEF ReplayIsTheResult
    <3>2. QED
      BY <2>1, <2>2, <3>1, ResultStays
  <2>3. CASE ~d.done
    <3>1. attempt[d.id].status = "expired" /\ attempt[d.id].answers = NoAnswers
      BY <2>3 DEF UnansweredKeyIsSpent
    <3>2. QED
      BY <2>1, <2>3, <3>1, ExpiredStays
  <2>4. QED
    BY <2>1, <2>2, <2>3
<1>3. ASSUME NEW d \in idem' \ idem
      PROVE  IF d.done THEN attempt'[d.id].answers = d.answers
             ELSE attempt'[d.id].status = "expired" /\ attempt'[d.id].answers = NoAnswers
  <2>1. PICK r \in Requests : \/ CommitResult(r) /\ d = RecordOf(req[r], TRUE)
                              \/ RefuseLate(r) /\ d = RecordOf(req[r], FALSE)
    BY RecordChange
  <2>2. req[r].id \in Ids /\ attempt[req[r].id] \in Attempt
    BY DEF RowInv, TypeInv, TypeOK, Request
  <2>3. CASE CommitResult(r) /\ d = RecordOf(req[r], TRUE)
    BY <2>2, <2>3 DEF CommitResult, RecordOf, RowInv, TypeInv, TypeOK, Attempt
  <2>4. CASE RefuseLate(r) /\ d = RecordOf(req[r], FALSE)
    <3>1. attempt[req[r].id].answers = NoAnswers
      BY <2>2, <2>4 DEF RefuseLate, MayGrade, RowInv, Ungraded
    <3>2. attempt'[req[r].id] = Expired(attempt[req[r].id])
      BY <2>2, <2>4 DEF RefuseLate, RowInv, TypeInv, TypeOK
    <3>3. d.done = FALSE /\ d.id = req[r].id
      BY <2>4 DEF RecordOf
    <3>4. QED
      BY <2>2, <3>1, <3>2, <3>3 DEF Expired, Attempt
  <2>5. QED
    BY <2>1, <2>3, <2>4
<1>4. \A d \in idem' : d.done \in BOOLEAN
  BY <1>1 DEF RowInv, TypeInv, TypeOK, Record
<1>5. ReplayIsTheResult' /\ UnansweredKeyIsSpent'
  <2>1. ASSUME NEW d \in idem'
        PROVE  IF d.done THEN attempt'[d.id].answers = d.answers
               ELSE attempt'[d.id].status = "expired" /\ attempt'[d.id].answers = NoAnswers
    BY <1>2, <1>3
  <2>2. QED
    BY <1>4, <2>1 DEF ReplayIsTheResult, UnansweredKeyIsSpent
<1>6. QED
  BY <1>1, <1>5

\* Results and records at the start.
LEMMA AttemptInit == Init => AttemptInv
<1> SUFFICES ASSUME Init PROVE AttemptInv
  OBVIOUS
<1>1. TypeInv
  BY InitType
<1>2. \A r \in Requests : req[r].pc = "idle"
  BY IdleType DEF Init
<1>3. \A i \in Ids : attempt[i].answers = NoAnswers
  BY DEF Init, NoAttempt
<1>4. Existing /\ Locked /\ Exclusive /\ Ungraded
  BY <1>2, <1>3 DEF Existing, Locked, Exclusive, Ungraded, Submitting, Grading
<1>5. ReplayIsTheResult /\ UnansweredKeyIsSpent
  BY DEF Init, ReplayIsTheResult, UnansweredKeyIsSpent
<1>6. QED
  BY <1>1, <1>4, <1>5 DEF AttemptInv, RowInv

\* The invariant behind the two theorems that follow: row locks, results and
\* records agree (submit, grade_submission).
THEOREM AttemptInvariant == Spec => []AttemptInv
BY AttemptInit, AttemptStep, PTL DEF Spec

\* Whatever is replayed for a key is the one result the attempt got, for any
\* number of submissions, keys and retries in flight.
THEOREM RepliesAreResults == Spec => []ReplayIsTheResult
<1>1. AttemptInv => ReplayIsTheResult
  BY DEF AttemptInv
<1>2. QED
  BY <1>1, AttemptInvariant, PTL

\* A key whose submission came too late never gets a result, however often it is
\* retried.
THEOREM LateKeysAreSpent == Spec => []UnansweredKeyIsSpent
<1>1. AttemptInv => UnansweredKeyIsSpent
  BY DEF AttemptInv
<1>2. QED
  BY <1>1, AttemptInvariant, PTL

----------------------------------------------------------------------------
(* Numbers                                                                 *)

Contiguous == \A z \in Quizzes : \A n \in Numbers(z) : \A m \in 1..n :
    attempt[<<z, n>>].status # "none" => attempt[<<z, m>>].status # "none"

StartsApart == \A q, r \in Requests :
    q # r /\ req[q].pc = "starting" /\ req[r].pc = "starting" => req[q].id[1] # req[r].id[1]

StartInv == RowInv /\ Contiguous /\ StartsApart /\ StagedNumberIsNew

\* A set of numbers without a gap below any of them is 1..n for its size n.
LEMMA Prefix ==
  ASSUME NEW M \in Nat, NEW S \in SUBSET (1..M), \A n \in S : 1..n \subseteq S
  PROVE  S = 1..Cardinality(S)
<1>1. IsFiniteSet(1..M)
  BY FS_Interval
<1>2. IsFiniteSet(S) /\ Cardinality(S) \in Nat
  BY <1>1, FS_Subset, FS_CardinalityType
<1>3. ASSUME NEW n \in S PROVE n \in 1..Cardinality(S)
  <2>1. n \in Nat /\ n >= 1
    OBVIOUS
  <2>2. Cardinality(1..n) = n
    BY <2>1, FS_Interval
  <2>3. Cardinality(1..n) <= Cardinality(S)
    BY <1>2, FS_Subset
  <2>4. QED
    BY <1>2, <2>1, <2>2, <2>3
<1>4. Cardinality(1..Cardinality(S)) = Cardinality(S) /\ IsFiniteSet(1..Cardinality(S))
  BY <1>2, FS_Interval
<1>5. QED
  BY <1>2, <1>3, <1>4, FS_Subset

\* Counting the attempts tells which numbers are taken.
LEMMA TotalIsTheLast ==
  ASSUME TypeInv, Contiguous, NEW z \in Quizzes, NEW n \in Numbers(z)
  PROVE  attempt[<<z, n>>].status = "none" <=> n >= Total(z) + 1
<1> DEFINE S == {m \in Numbers(z) : attempt[<<z, m>>].status # "none"}
<1>1. MaxAttempts[z] \in Nat /\ S \in SUBSET (1..MaxAttempts[z]) /\ n \in Nat
  BY AssessmentAssumption DEF Numbers
<1>2. \A m \in S : 1..m \subseteq S
  BY <1>1 DEF Contiguous, Numbers
<1>3. S = 1..Cardinality(S)
  BY <1>1, <1>2, Prefix
<1>4. Total(z) = Cardinality(S) /\ Total(z) \in Nat
  BY TotalIsNat DEF Total
<1>5. attempt[<<z, n>>].status # "none" <=> n \in 1..Total(z)
  BY <1>3, <1>4
<1>6. QED
  BY <1>1, <1>4, <1>5 DEF Numbers

\* Only a start writes a new attempt.
LEMMA NewAttempt ==
  ASSUME RowInv, [Next]_vars, ~\E r \in Requests : CommitStart(r), NEW i \in Ids
  PROVE  attempt'[i].status = "none" <=> attempt[i].status = "none"
<1> USE DEF RowInv, TypeInv, TypeOK
<1>1. ASSUME NEW r \in Requests, RefuseLate(r) \/ CommitExpiry(r)
      PROVE  attempt'[i].status = "none" <=> attempt[i].status = "none"
  <2>1. attempt' = [attempt EXCEPT ![req[r].id] = Expired(@)]
    BY <1>1 DEF RefuseLate, CommitExpiry
  <2>2. attempt[req[r].id].status # "none"
    BY <1>1 DEF RefuseLate, CommitExpiry, Existing, Submitting
  <2>3. attempt'[i] = IF i = req[r].id THEN Expired(attempt[i]) ELSE attempt[i]
    BY <2>1
  <2>4. Expired(attempt[i]).status = "expired"
    BY DEF Expired, Attempt
  <2>5. QED
    BY <2>2, <2>3, <2>4
<1>2. ASSUME NEW r \in Requests, CommitResult(r)
      PROVE  attempt'[i].status = "none" <=> attempt[i].status = "none"
  <2>1. attempt[req[r].id].status = "in_progress" /\ req[r].id \in Ids
    BY <1>2 DEF CommitResult, Locked, Grading, Request
  <2>2. QED
    BY <1>2, <2>1 DEF CommitResult, Attempt
<1>3. CASE attempt' = attempt
  BY <1>3
<1>4. QED
  BY <1>1, <1>2, <1>3
     DEF Next, RequestStep, AssignNumber, InsertKey, DuplicateKey, BeginGrading,
         RefuseFinalized, Grade, Fail, StartRequest, Submit, Resume, Tick, vars

\* A start is staged by its own AssignNumber only.
LEMMA StartStaged ==
  ASSUME RowInv, [Next]_vars, NEW q \in Requests, req'[q].pc = "starting"
  PROVE  req'[q] = req[q] \/ AssignNumber(q)
<1> USE DEF RowInv, TypeInv, TypeOK
<1>0. \A r \in Requests : req[r] \in Request
  OBVIOUS
<1>1. ASSUME NEW r \in Requests, End(r) PROVE req'[q] = req[q]
  BY <1>1, IdleType DEF End
<1>2. ASSUME NEW r \in Requests, NEW pc \in {"locking", "grading"}, Goto(r, pc) PROVE req'[q] = req[q]
  BY <1>0, <1>2 DEF Goto, Request
<1>3. ASSUME NEW r \in Requests, Grade(r) PROVE req'[q] = req[q]
  <2> DEFINE ls == IF Passes(r) THEN Completes(req[r].id[1]) ELSE {}
  <2>1. req' = [req EXCEPT ![r] = [@ EXCEPT !.pc = "graded", !.lessons = ls]]
    BY <1>3 DEF Grade
  <2> HIDE DEF ls
  <2>2. QED
    BY <1>0, <2>1 DEF Request
<1>4. ASSUME NEW r \in Requests, AssignNumber(r) PROVE req'[q] = req[q] \/ AssignNumber(q)
  BY <1>1, <1>4 DEF AssignNumber
<1>5. ASSUME NEW r \in Requests, NEW z \in Quizzes, StartRequest(r, z) PROVE req'[q] = req[q]
  BY <1>5, IdleType DEF StartRequest, Request
<1>6. ASSUME NEW r \in Requests, NEW s \in Submissions, Submit(r, s) PROVE req'[q] = req[q]
  <2> DEFINE pc == IF RecordsOf(s.id, s.key) = {} THEN "keying" ELSE "locking"
  <2>1. req' = [req EXCEPT ![r] = [Idle EXCEPT !.pc = pc, !.id = s.id, !.key = s.key, !.answers = s.answers]]
    BY <1>6 DEF Submit
  <2>2. pc # "starting"
    OBVIOUS
  <2> HIDE DEF pc
  <2>3. QED
    BY <2>1, <2>2, IdleType DEF Request
<1>7. ASSUME NEW r \in Requests, NEW i \in Ids, Resume(r, i) PROVE req'[q] = req[q]
  BY <1>7, IdleType DEF Resume, Request
<1>8. CASE req' = req
  BY <1>8
<1>9. QED
  BY <1>1, <1>2, <1>3, <1>4, <1>5, <1>6, <1>7, <1>8
     DEF Next, RequestStep, CommitStart, InsertKey, DuplicateKey, BeginGrading,
         RefuseFinalized, RefuseLate, CommitResult, CommitExpiry, Fail, Tick, vars

\* Numbers over every step.
LEMMA StartStep ==
  ASSUME StartInv, [Next]_vars
  PROVE  StartInv'
<1> USE DEF StartInv
<1>1. RowInv'
  BY RowStep
<1>2. \A q \in Requests : req[q] \in Request /\ req[q].id \in Ids /\ req[q].id[1] \in Quizzes
  BY IdsFact DEF RowInv, TypeInv, TypeOK, Request
<1>3. CASE \E r \in Requests : AssignNumber(r)
  <2>1. PICK r \in Requests : AssignNumber(r)
    BY <1>3
  <2> DEFINE z == req[r].id[1]
  <2>2. attempt' = attempt /\ \A q \in Requests \ {r} : req'[q] = req[q]
    BY <2>1 DEF AssignNumber, End, RowInv, TypeInv, TypeOK
  <2>3. ASSUME req'[r].pc = "starting"
        PROVE  req'[r].id = <<z, Total(z) + 1>>
    BY <1>2, <2>1, <2>3, IdleType DEF AssignNumber, End, Request, RowInv, TypeInv, TypeOK
  <2>4. Contiguous'
    BY <2>2 DEF Contiguous
  <2>5. StartsApart'
    <3>1. \A q \in Requests \ {r} : req[q].pc = "starting" => req[q].id[1] # z
      BY <2>1 DEF AssignNumber, StartFree, HoldsStart
    <3>2. QED
      BY <2>2, <2>3, <3>1 DEF StartsApart
  <2>6. StagedNumberIsNew'
    <3>1. \A n \in Numbers(z) : attempt[<<z, n>>].status = "none" <=> n >= Total(z) + 1
      BY <1>2, TotalIsTheLast DEF RowInv
    <3>2. QED
      BY <2>2, <2>3, <3>1 DEF StagedNumberIsNew
  <2>7. QED
    BY <1>1, <2>4, <2>5, <2>6
<1>4. CASE \E r \in Requests : CommitStart(r)
  <2>1. PICK r \in Requests : CommitStart(r)
    BY <1>4
  <2> DEFINE z == req[r].id[1]
             k == req[r].id[2]
  <2>2. req[r].pc = "starting" /\ End(r)
    BY <2>1 DEF CommitStart
  <2>3. \A q \in Requests : req'[q] = IF q = r THEN Idle ELSE req[q]
    BY <2>2 DEF End, RowInv, TypeInv, TypeOK
  <2>4. z \in Quizzes /\ k \in Numbers(z) /\ req[r].id = <<z, k>>
    BY <1>2, IdsFact
  <2>5. \A n \in Numbers(z) : attempt[<<z, n>>].status = "none" <=> n >= k
    BY <2>2, <1>2 DEF StagedNumberIsNew
  <2>6. \A y \in Quizzes : \A n \in Numbers(y) :
           attempt'[<<y, n>>].status = "none" <=>
             attempt[<<y, n>>].status = "none" /\ ~(y = z /\ n = k)
    <3>1. attempt' = [attempt EXCEPT ![<<z, k>>] = IF @.status = "none"
                         THEN [NoAttempt EXCEPT !.status = "in_progress", !.deadline = req[r].deadline]
                         ELSE @]
      BY <2>1, <2>4 DEF CommitStart
    <3> TAKE y \in Quizzes
    <3> TAKE n \in Numbers(y)
    <3>2. <<y, n>> \in Ids
      BY IdsFact
    <3>3. QED
      BY <3>1, <3>2 DEF RowInv, TypeInv, TypeOK, NoAttempt
  <2>7. Contiguous'
    <3>1. ASSUME NEW y \in Quizzes, NEW n \in Numbers(y), NEW m \in 1..n,
                 attempt'[<<y, n>>].status # "none"
          PROVE  attempt'[<<y, m>>].status # "none"
      <4>1. m \in Numbers(y) /\ m \in Nat /\ n \in Nat /\ m <= n
        BY AssessmentAssumption DEF Numbers
      <4>2. CASE y = z /\ n = k
        <5>1. k \in Nat
          BY <2>4, AssessmentAssumption DEF Numbers
        <5>2. QED
          BY <2>5, <2>6, <4>1, <4>2, <5>1
      <4>3. CASE ~(y = z /\ n = k)
        BY <2>6, <3>1, <4>1, <4>3 DEF Contiguous
      <4>4. QED
        BY <4>2, <4>3
    <3>2. QED
      BY <3>1 DEF Contiguous
  <2>8. StartsApart'
    BY <2>3, IdleType DEF StartsApart
  <2>9. StagedNumberIsNew'
    <3>1. ASSUME NEW q \in Requests, req'[q].pc = "starting",
                 NEW n \in Numbers(req'[q].id[1])
          PROVE  attempt'[<<req'[q].id[1], n>>].status = "none" <=> n >= req'[q].id[2]
      <4>1. q # r /\ req'[q] = req[q] /\ req[q].pc = "starting"
        BY <2>3, <3>1, IdleType
      <4>2. req[q].id[1] # z
        BY <2>2, <4>1 DEF StartsApart
      <4>3. attempt[<<req[q].id[1], n>>].status = "none" <=> n >= req[q].id[2]
        BY <3>1, <4>1 DEF StagedNumberIsNew
      <4>4. QED
        BY <1>2, <2>6, <3>1, <4>1, <4>2, <4>3
    <3>2. QED
      BY <3>1 DEF StagedNumberIsNew
  <2>10. QED
    BY <1>1, <2>7, <2>8, <2>9
<1>5. CASE ~\E r \in Requests : AssignNumber(r) \/ CommitStart(r)
  <2>1. \A i \in Ids : attempt'[i].status = "none" <=> attempt[i].status = "none"
    BY <1>5, NewAttempt
  <2>2. \A q \in Requests : req'[q].pc = "starting" => req'[q] = req[q]
    BY <1>5, StartStaged
  <2>3. \A z \in Quizzes : \A n \in Numbers(z) : \A m \in 1..n : <<z, n>> \in Ids /\ <<z, m>> \in Ids
    BY IdsFact, AssessmentAssumption DEF Numbers
  <2>4. Contiguous'
    BY <2>1, <2>3 DEF Contiguous
  <2>5. StartsApart'
    BY <2>2 DEF StartsApart
  <2>6. StagedNumberIsNew'
    <3>1. ASSUME NEW q \in Requests, req'[q].pc = "starting",
                 NEW n \in Numbers(req'[q].id[1])
          PROVE  attempt'[<<req'[q].id[1], n>>].status = "none" <=> n >= req'[q].id[2]
      <4>1. req'[q] = req[q] /\ <<req[q].id[1], n>> \in Ids
        BY <1>2, <2>2, <3>1, IdsFact
      <4>2. QED
        BY <2>1, <3>1, <4>1 DEF StagedNumberIsNew
    <3>2. QED
      BY <3>1 DEF StagedNumberIsNew
  <2>7. QED
    BY <1>1, <2>4, <2>5, <2>6
<1>6. QED
  BY <1>3, <1>4, <1>5

\* For any number of starts that race, the number one has counted is new when it
\* commits and follows the last: no learner's start fails on the unique index,
\* and no attempt is lost from the count.
THEOREM StagedNumbersStayNew == Spec => []StagedNumberIsNew
<1>1. Init => StartInv
  <2> SUFFICES ASSUME Init PROVE StartInv
    OBVIOUS
  <2>1. RowInv
    BY AttemptInit DEF AttemptInv
  <2>2. \A r \in Requests : req[r].pc # "starting"
    BY IdleType DEF Init
  <2>3. \A z \in Quizzes : \A n \in Numbers(z) : attempt[<<z, n>>].status = "none"
    BY IdsFact DEF Init, NoAttempt
  <2>4. Contiguous /\ StartsApart /\ StagedNumberIsNew
    BY <2>2, <2>3 DEF Contiguous, StartsApart, StagedNumberIsNew
  <2>5. QED
    BY <2>1, <2>4 DEF StartInv
<1>2. StartInv => StagedNumberIsNew
  BY DEF StartInv
<1>3. QED
  BY <1>1, <1>2, StartStep, PTL DEF Spec

----------------------------------------------------------------------------
(* Lessons                                                                 *)

ProgressApart == \A q, r \in Requests : HoldsProgress(q) /\ HoldsProgress(r) => q = r

\* What a pass completes is no less than what it would complete now.
StagedLessons == \A r \in Requests : HoldsProgress(r) => Completes(req[r].id[1]) \subseteq req[r].lessons

LessonInv == RowInv /\ ProgressApart /\ StagedLessons /\ NoLostCompletion

\* Only Grade stages the lessons that a result completes.
LEMMA GradedStaged ==
  ASSUME RowInv, [Next]_vars, NEW q \in Requests, req'[q].pc = "graded"
  PROVE  req'[q] = req[q] \/ Grade(q)
<1> USE DEF RowInv, TypeInv, TypeOK
<1>0. \A r \in Requests : req[r] \in Request
  OBVIOUS
<1>1. ASSUME NEW r \in Requests, End(r) PROVE req'[q] = req[q]
  BY <1>1, IdleType DEF End
<1>2. ASSUME NEW r \in Requests, NEW pc \in {"locking", "grading"}, Goto(r, pc) PROVE req'[q] = req[q]
  BY <1>0, <1>2 DEF Goto, Request
<1>3. ASSUME NEW r \in Requests, Grade(r) PROVE req'[q] = req[q] \/ Grade(q)
  BY <1>3 DEF Grade
<1>4. ASSUME NEW r \in Requests, AssignNumber(r) PROVE req'[q] = req[q]
  <2>1. CASE MayStart(req[r].id[1])
    <3> DEFINE z == req[r].id[1]
               id == <<z, Total(z) + 1>>
               dl == Deadline(z)
    <3>1. req' = [req EXCEPT ![r] = [@ EXCEPT !.pc = "starting", !.id = id, !.deadline = dl]]
      BY <1>4, <2>1 DEF AssignNumber
    <3> HIDE DEF id, dl
    <3>2. QED
      BY <1>0, <3>1 DEF Request
  <2>2. QED
    BY <1>1, <1>4, <2>1 DEF AssignNumber
<1>5. ASSUME NEW r \in Requests, NEW z \in Quizzes, StartRequest(r, z) PROVE req'[q] = req[q]
  BY <1>5, IdleType DEF StartRequest, Request
<1>6. ASSUME NEW r \in Requests, NEW s \in Submissions, Submit(r, s) PROVE req'[q] = req[q]
  <2> DEFINE pc == IF RecordsOf(s.id, s.key) = {} THEN "keying" ELSE "locking"
  <2>1. req' = [req EXCEPT ![r] = [Idle EXCEPT !.pc = pc, !.id = s.id, !.key = s.key, !.answers = s.answers]]
    BY <1>6 DEF Submit
  <2>2. pc # "graded"
    OBVIOUS
  <2> HIDE DEF pc
  <2>3. QED
    BY <2>1, <2>2, IdleType DEF Request
<1>7. ASSUME NEW r \in Requests, NEW i \in Ids, Resume(r, i) PROVE req'[q] = req[q]
  BY <1>7, IdleType DEF Resume, Request
<1>8. CASE req' = req
  BY <1>8
<1>9. QED
  BY <1>1, <1>2, <1>3, <1>4, <1>5, <1>6, <1>7, <1>8
     DEF Next, RequestStep, CommitStart, InsertKey, DuplicateKey, BeginGrading,
         RefuseFinalized, RefuseLate, CommitResult, CommitExpiry, Fail, Tick, vars

\* A quiz comes to be passed only by the commit of a result that passes.
LEMMA NewPass ==
  ASSUME RowInv, [Next]_vars, NEW z \in Quizzes, Passed(z)', ~Passed(z)
  PROVE  \E r \in Requests : CommitResult(r) /\ req[r].id[1] = z /\ HoldsProgress(r)
<1> USE DEF RowInv, TypeInv, TypeOK
<1>1. PICK n \in Numbers(z) : /\ attempt'[<<z, n>>].status = "submitted"
                              /\ attempt'[<<z, n>>].answers \in Passing[z]
  BY DEF Passed
<1>2. <<z, n>> \in Ids
  BY IdsFact
<1>3. attempt'[<<z, n>>] # attempt[<<z, n>>]
  BY <1>1 DEF Passed
<1>4. ASSUME attempt[<<z, n>>].status = "none"
      PROVE  \E r \in Requests : CommitResult(r) /\ req[r].id = <<z, n>>
  <2>1. ASSUME NEW r \in Requests, CommitStart(r) PROVE FALSE
    BY <1>1, <1>2, <1>3, <2>1 DEF CommitStart, NoAttempt
  <2>2. QED
    BY <1>1, <1>2, <1>4, <2>1, NewAttempt
<1>5. PICK r \in Requests : CommitResult(r) /\ req[r].id = <<z, n>>
  BY <1>1, <1>2, <1>3, <1>4, AttemptChange
<1>6. attempt'[<<z, n>>].answers = req[r].answers
  BY <1>2, <1>5 DEF CommitResult, Attempt
<1>7. req[r].id[1] = z /\ req[r].pc = "graded"
  BY <1>5 DEF CommitResult
<1>8. QED
  BY <1>1, <1>5, <1>6, <1>7 DEF HoldsProgress, Passes

\* A lesson, once completed, stays so.
LEMMA CompletedGrows ==
  ASSUME [Next]_vars
  PROVE  completed \subseteq completed'
BY DEF Next, RequestStep, AssignNumber, CommitStart, InsertKey, DuplicateKey, BeginGrading,
       RefuseFinalized, RefuseLate, Grade, CommitResult, CommitExpiry, Fail, StartRequest,
       Submit, Resume, Tick, vars

\* Completions over every step.
LEMMA LessonStep ==
  ASSUME LessonInv, [Next]_vars
  PROVE  LessonInv'
<1> USE DEF LessonInv
<1>1. RowInv'
  BY RowStep
<1>2. \A q \in Requests : req[q] \in Request /\ req[q].id[1] \in Quizzes
  BY IdsFact DEF RowInv, TypeInv, TypeOK, Request
<1>3. \A l \in Lessons : QuizzesOf[l] \subseteq Quizzes
  BY AssessmentAssumption
<1>4. ASSUME NEW q \in Requests, HoldsProgress(q)'
      PROVE  \/ req'[q] = req[q] /\ HoldsProgress(q)
             \/ /\ Grade(q) /\ attempt' = attempt
                /\ req'[q].id = req[q].id /\ req'[q].lessons = Completes(req[q].id[1])
                /\ \A r \in Requests \ {q} : req'[r] = req[r] /\ ~HoldsProgress(r)
  <2>1. CASE req'[q] = req[q]
    BY <1>4, <2>1 DEF HoldsProgress, Passes
  <2>2. CASE Grade(q)
    <3> DEFINE ls == IF Passes(q) THEN Completes(req[q].id[1]) ELSE {}
    <3>1. /\ req' = [req EXCEPT ![q] = [@ EXCEPT !.pc = "graded", !.lessons = ls]]
          /\ attempt' = attempt /\ (Passes(q) => ProgressFree(q))
      BY <2>2 DEF Grade
    <3> HIDE DEF ls
    <3>2. /\ req'[q].id = req[q].id /\ req'[q].lessons = ls /\ req'[q].answers = req[q].answers
          /\ \A r \in Requests \ {q} : req'[r] = req[r]
      BY <1>2, <3>1 DEF Request, RowInv, TypeInv, TypeOK
    <3>3. Passes(q)
      BY <1>4, <3>2 DEF HoldsProgress, Passes
    <3>4. ls = Completes(req[q].id[1])
      BY <3>3 DEF ls
    <3>5. QED
      BY <2>2, <3>1, <3>2, <3>3, <3>4 DEF ProgressFree
  <2>3. QED
    BY <1>4, <2>1, <2>2, GradedStaged DEF HoldsProgress
<1>5. ProgressApart'
  <2>1. ASSUME NEW q \in Requests, NEW r \in Requests, HoldsProgress(q)', HoldsProgress(r)', q # r
        PROVE  FALSE
    <3>1. HoldsProgress(q) \/ Grade(q)
      BY <1>4, <2>1
    <3>2. HoldsProgress(r) \/ Grade(r)
      BY <1>4, <2>1
    <3>3. CASE HoldsProgress(q) /\ HoldsProgress(r)
      BY <2>1, <3>3 DEF ProgressApart
    <3>4. CASE ~HoldsProgress(q)
      <4>1. req'[r] = req[r] /\ ~HoldsProgress(r)
        BY <1>4, <2>1, <3>4
      <4>2. QED
        BY <2>1, <4>1 DEF HoldsProgress, Passes
    <3>5. CASE ~HoldsProgress(r)
      <4>1. req'[q] = req[q] /\ ~HoldsProgress(q)
        BY <1>4, <2>1, <3>5
      <4>2. QED
        BY <2>1, <4>1 DEF HoldsProgress, Passes
    <3>6. QED
      BY <3>3, <3>4, <3>5
  <2>2. QED
    BY <2>1 DEF ProgressApart
<1>6. StagedLessons'
  <2>1. ASSUME NEW q \in Requests, HoldsProgress(q)', NEW l \in Completes(req[q].id[1])'
        PROVE  l \in req'[q].lessons
    <3>1. CASE req'[q] = req[q] /\ HoldsProgress(q)
      <4> DEFINE z == req[q].id[1]
      <4>1. l \in Lessons /\ z \in QuizzesOf[l] /\ \A y \in QuizzesOf[l] \ {z} : Passed(y)'
        BY <2>1, <3>1 DEF Completes
      <4>2. ASSUME NEW y \in QuizzesOf[l] \ {z} PROVE Passed(y)
        <5>1. SUFFICES ASSUME ~Passed(y) PROVE FALSE
          OBVIOUS
        <5>2. PICK r \in Requests : CommitResult(r) /\ HoldsProgress(r)
          BY <1>3, <4>1, <4>2, <5>1, NewPass
        <5>3. r = q
          BY <3>1, <5>2 DEF ProgressApart
        <5>4. req'[q] = Idle
          BY <5>2, <5>3 DEF CommitResult, End, RowInv, TypeInv, TypeOK
        <5>5. QED
          BY <2>1, <5>4, IdleType DEF HoldsProgress
      <4>3. l \in Completes(z)
        BY <4>1, <4>2 DEF Completes
      <4>4. QED
        BY <3>1, <4>3 DEF StagedLessons
    <3>2. CASE /\ attempt' = attempt
               /\ req'[q].id = req[q].id /\ req'[q].lessons = Completes(req[q].id[1])
      BY <2>1, <3>2 DEF Completes, Passed
    <3>3. QED
      BY <1>4, <2>1, <3>1, <3>2
  <2>2. QED
    BY <2>1 DEF StagedLessons
<1>7. NoLostCompletion'
  <2>1. ASSUME NEW l \in Lessons, \A z \in QuizzesOf[l] : Passed(z)'
        PROVE  l \in completed'
    <3>1. CASE \A z \in QuizzesOf[l] : Passed(z)
      BY <3>1, CompletedGrows DEF NoLostCompletion
    <3>2. CASE \E z \in QuizzesOf[l] : ~Passed(z)
      <4>1. PICK z \in QuizzesOf[l] : ~Passed(z)
        BY <3>2
      <4>2. PICK r \in Requests : CommitResult(r) /\ req[r].id[1] = z /\ HoldsProgress(r)
        BY <1>3, <2>1, <4>1, NewPass
      <4>3. ASSUME NEW y \in QuizzesOf[l] \ {z} PROVE Passed(y)
        <5>1. SUFFICES ASSUME ~Passed(y) PROVE FALSE
          OBVIOUS
        <5>2. PICK q \in Requests : req[q].id[1] = y /\ HoldsProgress(q)
          BY <1>3, <2>1, <4>3, <5>1, NewPass
        <5>3. QED
          BY <4>2, <4>3, <5>2 DEF ProgressApart
      <4>4. l \in req[r].lessons
        BY <4>2, <4>3 DEF Completes, StagedLessons
      <4>5. QED
        BY <4>2, <4>4 DEF CommitResult
    <3>3. QED
      BY <3>1, <3>2
  <2>2. QED
    BY <2>1 DEF NoLostCompletion
<1>8. QED
  BY <1>1, <1>5, <1>6, <1>7

\* Whichever submissions pass a lesson's last quizzes at the same time, for any
\* number of quizzes and lessons, one of them completes the lesson.
THEOREM CompletionsAreKept == Spec => []NoLostCompletion
<1>1. Init => LessonInv
  <2> SUFFICES ASSUME Init PROVE LessonInv
    OBVIOUS
  <2>1. RowInv
    BY AttemptInit DEF AttemptInv
  <2>2. \A r \in Requests : req[r].pc = "idle"
    BY IdleType DEF Init
  <2>3. ProgressApart /\ StagedLessons
    BY <2>2 DEF ProgressApart, StagedLessons, HoldsProgress
  <2>4. ASSUME NEW z \in Quizzes PROVE ~Passed(z)
    BY IdsFact DEF Init, Passed, NoAttempt
  <2>5. NoLostCompletion
    BY <2>4, AssessmentAssumption DEF NoLostCompletion
  <2>6. QED
    BY <2>1, <2>3, <2>5 DEF LessonInv
<1>2. LessonInv => NoLostCompletion
  BY DEF LessonInv
<1>3. QED
  BY <1>1, <1>2, LessonStep, PTL DEF Spec

----------------------------------------------------------------------------
(* Certificates                                                            *)

\* A commit that completes lessons has passed their quizzes with this one.
StagedEarned == \A r \in Requests : req[r].pc = "graded" =>
    \A l \in req[r].lessons :
        /\ Passes(r)
        /\ \A y \in QuizzesOf[l] \ {req[r].id[1]} : EverPassed(y)

\* What a claim has checked stays true.
ClaimGrounded == \A c \in Claims :
    /\ HoldsClaim(c) => cert = "none"
    /\ claim[c] \in {"assessments", "issuing"} => Lessons \subseteq completed
    /\ claim[c] = "issuing" => \A z \in Required : EverPassed(z)

ClaimsApart == \A c, d \in Claims : HoldsClaim(c) /\ HoldsClaim(d) => c = d

CertInv == RowInv /\ CertTypeOK /\ StagedEarned /\ ClaimGrounded /\ ClaimsApart

\* Seen from the attempts, every step is one of theirs or a stutter.
LEMMA CertStepIsStep ==
  ASSUME [CertNext]_certVars
  PROVE  [Next]_vars
BY DEF CertNext, certVars, StartClaim, LockClaim, CheckCompletion, CheckAssessments, Issue,
       EndClaim, Revoke

\* A quiz that has been passed stays so, for eligibility.
LEMMA EverPassedStays ==
  ASSUME RowInv, [Next]_vars, NEW z \in Quizzes, EverPassed(z)
  PROVE  EverPassed(z)'
<1>1. PICK n \in Numbers(z) : attempt[<<z, n>>].answers \in Passing[z]
  BY DEF EverPassed
<1>2. <<z, n>> \in Ids /\ attempt[<<z, n>>].answers # NoAnswers
  BY <1>1, IdsFact, AssessmentAssumption
<1>3. attempt'[<<z, n>>].answers = attempt[<<z, n>>].answers
  BY <1>2, ResultStays
<1>4. QED
  BY <1>1, <1>3 DEF EverPassed

\* What commits are about to complete, over every step.
LEMMA StagedEarnedStep ==
  ASSUME RowInv, StagedEarned, [Next]_vars
  PROVE  StagedEarned'
<1>0. \A l \in Lessons : QuizzesOf[l] \subseteq Quizzes
  BY AssessmentAssumption
<1>1. ASSUME NEW q \in Requests, req'[q].pc = "graded", NEW l \in req'[q].lessons
      PROVE  Passes(q)' /\ \A y \in QuizzesOf[l] \ {req'[q].id[1]} : EverPassed(y)'
  <2>0. req[q] \in Request
    BY DEF RowInv, TypeInv, TypeOK
  <2>1. CASE req'[q] = req[q]
    <3>1. l \in Lessons
      BY <1>1, <2>0, <2>1 DEF Request
    <3>2. Passes(q)' /\ \A y \in QuizzesOf[l] \ {req[q].id[1]} : EverPassed(y)
      BY <1>1, <2>1 DEF StagedEarned, Passes
    <3>3. QED
      BY <1>0, <2>1, <3>1, <3>2, EverPassedStays
  <2>2. CASE Grade(q)
    <3> DEFINE z == req[q].id[1]
               ls == IF Passes(q) THEN Completes(z) ELSE {}
    <3>1. req' = [req EXCEPT ![q] = [@ EXCEPT !.pc = "graded", !.lessons = ls]] /\ attempt' = attempt
      BY <2>2 DEF Grade
    <3> HIDE DEF ls
    <3>2. req'[q].id = req[q].id /\ req'[q].lessons = ls /\ req'[q].answers = req[q].answers
      BY <2>0, <3>1 DEF Request, RowInv, TypeInv, TypeOK
    <3>3. Passes(q) /\ l \in Completes(z)
      BY <1>1, <3>2 DEF ls
    <3>4. \A y \in QuizzesOf[l] \ {z} : Passed(y)
      BY <3>3 DEF Completes
    <3>5. \A y \in QuizzesOf[l] \ {z} : EverPassed(y)
      BY <3>4 DEF Passed, EverPassed
    <3>6. QED
      BY <3>1, <3>2, <3>3, <3>5 DEF Passes, EverPassed
  <2>3. QED
    BY <1>1, <2>1, <2>2, GradedStaged
<1>2. QED
  BY <1>1 DEF StagedEarned

\* What claims have checked, over every step.
LEMMA ClaimStep ==
  ASSUME CertInv, [CertNext]_certVars
  PROVE  (cert \in {"none", "issued", "revoked"} /\ claim \in [Claims -> ClaimPhase])'
         /\ ClaimGrounded' /\ ClaimsApart'
<1> USE DEF CertInv, CertTypeOK
<1>0. [Next]_vars /\ Required \subseteq Quizzes
  BY CertStepIsStep, CertificateAssumption
<1>1. completed \subseteq completed'
  BY <1>0, CompletedGrows
<1>2. \A z \in Required : EverPassed(z) => EverPassed(z)'
  BY <1>0, EverPassedStays
<1>3. ASSUME UNCHANGED <<cert, claim>>
      PROVE  (cert \in {"none", "issued", "revoked"} /\ claim \in [Claims -> ClaimPhase])'
             /\ ClaimGrounded' /\ ClaimsApart'
  BY <1>1, <1>2, <1>3 DEF ClaimGrounded, ClaimsApart, HoldsClaim
<1>4. ASSUME NEW c \in Claims,
             \/ StartClaim(c) \/ LockClaim(c) \/ CheckCompletion(c)
             \/ CheckAssessments(c) \/ Issue(c) \/ EndClaim(c)
      PROVE  (cert \in {"none", "issued", "revoked"} /\ claim \in [Claims -> ClaimPhase])'
             /\ ClaimGrounded' /\ ClaimsApart'
  <2>1. PICK pc \in ClaimPhase : ClaimGoto(c, pc)
    BY <1>4 DEF StartClaim, LockClaim, CheckCompletion, CheckAssessments, Issue, EndClaim, ClaimPhase
  <2>2. \A d \in Claims : claim'[d] = IF d = c THEN pc ELSE claim[d]
    BY <2>1 DEF ClaimGoto
  <2>3. (cert \in {"none", "issued", "revoked"} /\ claim \in [Claims -> ClaimPhase])'
    BY <1>4, <2>1 DEF ClaimGoto, StartClaim, LockClaim, CheckCompletion, CheckAssessments, Issue, EndClaim
  <2>4. CASE pc = "idle"
    <3>1. ASSUME NEW d \in Claims, HoldsClaim(d)' PROVE d # c /\ HoldsClaim(d) /\ cert' = "none"
      <4>1. d # c /\ HoldsClaim(d)
        BY <2>2, <2>4, <3>1 DEF HoldsClaim
      <4>2. ~Issue(c)
        BY <4>1 DEF Issue, HoldsClaim, ClaimsApart
      <4>3. cert' = cert
        BY <1>4, <4>2 DEF StartClaim, LockClaim, CheckCompletion, CheckAssessments, EndClaim
      <4>4. QED
        BY <4>1, <4>3 DEF ClaimGrounded
    <3>2. ClaimsApart'
      BY <3>1 DEF ClaimsApart
    <3>3. ClaimGrounded'
      BY <1>1, <1>2, <2>2, <2>4, <3>1 DEF ClaimGrounded
    <3>4. QED
      BY <2>3, <3>2, <3>3
  <2>5. CASE pc = "waiting"
    <3>1. cert' = cert
      BY <1>4, <2>2, <2>5
         DEF StartClaim, LockClaim, CheckCompletion, CheckAssessments, Issue, EndClaim, ClaimGoto
    <3>2. QED
      BY <1>1, <1>2, <2>2, <2>3, <2>5, <3>1 DEF ClaimGrounded, ClaimsApart, HoldsClaim
  <2>6. CASE pc \in {"completion", "assessments", "issuing"}
    <3>1. \/ LockClaim(c) /\ pc = "completion" /\ cert = "none"
          \/ CheckCompletion(c) /\ pc = "assessments"
          \/ CheckAssessments(c) /\ pc = "issuing"
      BY <1>4, <2>2, <2>6
         DEF StartClaim, LockClaim, CheckCompletion, CheckAssessments, Issue, EndClaim, ClaimGoto
    <3>2. cert' = cert /\ cert = "none"
      BY <3>1 DEF LockClaim, CheckCompletion, CheckAssessments, ClaimGrounded, HoldsClaim
    <3>3. \A d \in Claims \ {c} : ~HoldsClaim(d)
      BY <3>1 DEF LockClaim, ClaimFree, CheckCompletion, CheckAssessments, ClaimsApart, HoldsClaim
    <3>4. \A d \in Claims : HoldsClaim(d)' => d = c
      BY <2>2, <3>3 DEF HoldsClaim
    <3>5. pc \in {"assessments", "issuing"} => Lessons \subseteq completed
      BY <3>1 DEF CheckCompletion, CheckAssessments, ClaimGrounded
    <3>6. pc = "issuing" => \A z \in Required : EverPassed(z)
      BY <3>1 DEF CheckAssessments
    <3>7. ClaimsApart'
      BY <3>4 DEF ClaimsApart
    <3>8. ClaimGrounded'
      BY <1>1, <1>2, <2>2, <3>2, <3>4, <3>5, <3>6 DEF ClaimGrounded, HoldsClaim
    <3>9. QED
      BY <2>3, <3>7, <3>8
  <2>7. QED
    BY <2>4, <2>5, <2>6 DEF ClaimPhase
<1>5. ASSUME Revoke
      PROVE  (cert \in {"none", "issued", "revoked"} /\ claim \in [Claims -> ClaimPhase])'
             /\ ClaimGrounded' /\ ClaimsApart'
  <2>1. \A c \in Claims : ~HoldsClaim(c)
    BY <1>5 DEF Revoke, ClaimGrounded
  <2>2. QED
    BY <1>1, <1>2, <1>5, <2>1 DEF Revoke, ClaimGrounded, ClaimsApart, HoldsClaim
<1>6. QED
  BY <1>3, <1>4, <1>5 DEF CertNext, certVars

\* The whole invariant over every step.
LEMMA CertStep ==
  ASSUME CertInv, [CertNext]_certVars
  PROVE  CertInv'
<1> USE DEF CertInv
<1>1. [Next]_vars
  BY CertStepIsStep
<1>2. RowInv' /\ TypeOK'
  BY <1>1, RowStep DEF RowInv, TypeInv
<1>3. StagedEarned'
  BY <1>1, StagedEarnedStep
<1>4. QED
  BY <1>2, <1>3, ClaimStep DEF CertTypeOK

\* The invariant at the start.
LEMMA CertInitInv == CertInit => CertInv
<1> SUFFICES ASSUME CertInit PROVE CertInv
  OBVIOUS
<1>1. RowInv /\ TypeOK
  BY AttemptInit DEF CertInit, AttemptInv, RowInv, TypeInv
<1>2. \A r \in Requests : req[r].pc = "idle"
  BY IdleType DEF CertInit, Init
<1>3. StagedEarned
  BY <1>2 DEF StagedEarned
<1>4. QED
  BY <1>1, <1>3 DEF CertInit, CertInv, CertTypeOK, ClaimPhase, ClaimGrounded, ClaimsApart, HoldsClaim

\* The invariant behind the theorems that follow: what a commit or a claim has
\* checked stays true until it is written (grade_submission, issue).
THEOREM CertInvariant == CertSpec => []CertInv
BY CertInitInv, CertStep, PTL DEF CertSpec

\* Attempts, claims and the certificate keep their types.
THEOREM CertificatesTypeCorrect == CertSpec => []CertTypeOK
<1>1. CertInv => CertTypeOK
  BY DEF CertInv
<1>2. QED
  BY <1>1, CertInvariant, PTL

\* For any number of claims at once, the one that issues is the first: no
\* learner's claim fails on the unique index.
THEOREM StagedCertificatesStayNew == CertSpec => []StagedCertificateIsNew
<1>1. CertInv => StagedCertificateIsNew
  BY DEF CertInv, ClaimGrounded, HoldsClaim, StagedCertificateIsNew
<1>2. QED
  BY <1>1, CertInvariant, PTL

----------------------------------------------------------------------------
(* The refinement                                                          *)

Results == [i \in Ids |-> attempt[i].answers]

\* Passed in the code's attempts is passed in the transcript.
LEMMA PassedInResults ==
  ASSUME NEW z \in Quizzes
  PROVE  EverPassed(z) <=> T!PassedIn(Results, z)
<1>1. ASSUME EverPassed(z) PROVE T!PassedIn(Results, z)
  <2>1. PICK n \in Numbers(z) : attempt[<<z, n>>].answers \in Passing[z]
    BY <1>1 DEF EverPassed
  <2>2. <<z, n>> \in Ids /\ <<z, n>>[1] = z
    BY IdsFact
  <2>3. QED
    BY <2>1, <2>2 DEF T!PassedIn, Results
<1>2. ASSUME T!PassedIn(Results, z) PROVE EverPassed(z)
  <2>1. PICK i \in Ids : i[1] = z /\ attempt[i].answers \in Passing[z]
    BY <1>2 DEF T!PassedIn, Results
  <2>2. i[2] \in Numbers(z) /\ i = <<z, i[2]>>
    BY <2>1, IdsFact
  <2>3. QED
    BY <2>1, <2>2 DEF EverPassed
<1>3. QED
  BY <1>1, <1>2

\* The commit of a result is the transcript's RecordResult.
LEMMA CommitRecords ==
  ASSUME CertInv, [Next]_vars, NEW r \in Requests, CommitResult(r), UNCHANGED cert,
         NEW i, NEW a, i = req[r].id, a = req[r].answers
  PROVE  i \in Ids /\ a \in Answers /\ T!RecordResult(i, a)
<1> USE DEF CertInv, RowInv, TypeInv, TypeOK
<1>0. \A l \in Lessons : QuizzesOf[l] \subseteq Quizzes
  BY AssessmentAssumption
<1>1. i \in Ids /\ i[1] \in Quizzes /\ a \in Answers /\ req[r].lessons \subseteq Lessons
  BY IdsFact DEF Request, CommitResult, Keyed, Submitting
<1>2. attempt[i].answers = NoAnswers
  BY <1>1 DEF CommitResult, Locked, Grading, Ungraded
<1>3. \A j \in Ids : attempt'[j].answers = IF j = i THEN a ELSE attempt[j].answers
  <2>1. \A j \in Ids : attempt[j] \in Attempt
    OBVIOUS
  <2>2. attempt' = [attempt EXCEPT ![i] = [@ EXCEPT !.status = "submitted", !.answers = a]]
    BY DEF CommitResult
  <2>3. QED
    BY <2>1, <2>2 DEF Attempt
<1>4. Results' = [Results EXCEPT ![i] = a]
  BY <1>1, <1>3 DEF Results
<1>5. completed \subseteq completed' /\ completed' \ completed \subseteq req[r].lessons
  BY DEF CommitResult
<1>6. ASSUME NEW l \in completed' \ completed, NEW z \in QuizzesOf[l]
      PROVE  T!PassedIn(Results', z)
  <2>1. l \in req[r].lessons /\ l \in Lessons /\ z \in Quizzes
    BY <1>0, <1>1, <1>5, <1>6
  <2>2. CASE z = i[1]
    <3>1. a \in Passing[z]
      BY <2>1, <2>2 DEF CommitResult, StagedEarned, Passes
    <3>2. QED
      BY <1>1, <1>4, <2>2, <3>1 DEF T!PassedIn, Results
  <2>3. CASE z # i[1]
    <3>1. EverPassed(z)
      BY <2>1, <2>3, <1>6 DEF CommitResult, StagedEarned
    <3>2. PICK n \in Numbers(z) : attempt'[<<z, n>>].answers \in Passing[z]
      BY <2>1, <3>1, EverPassedStays DEF EverPassed
    <3>3. <<z, n>> \in Ids /\ <<z, n>>[1] = z
      BY <2>1, IdsFact
    <3>4. QED
      BY <3>2, <3>3 DEF T!PassedIn, Results
  <2>4. QED
    BY <2>2, <2>3
<1>7. T!RecordResult(i, a)
  BY <1>1, <1>2, <1>4, <1>5, <1>6 DEF T!RecordResult, Results
<1>8. QED
  BY <1>1, <1>7

\* Every other step leaves the results and the lessons alone.
LEMMA OtherStepsStutter ==
  ASSUME RowInv, [Next]_vars, ~\E r \in Requests : CommitResult(r)
  PROVE  UNCHANGED <<Results, completed>>
<1>1. ASSUME NEW i \in Ids PROVE attempt'[i].answers = attempt[i].answers
  <2>1. CASE attempt[i].status = "none"
    <3>1. attempt[i].answers = NoAnswers /\ attempt[i] \in Attempt
      BY <2>1 DEF RowInv, Ungraded, TypeInv, TypeOK
    <3>2. ASSUME NEW r \in Requests, CommitStart(r) PROVE attempt'[i].answers = NoAnswers
      BY <3>1, <3>2 DEF CommitStart, NoAttempt, RowInv, TypeInv, TypeOK
    <3>3. ASSUME ~\E r \in Requests : CommitStart(r) PROVE attempt'[i].answers = NoAnswers
      <4>1. attempt'[i].status = "none"
        BY <2>1, <3>3, NewAttempt
      <4>2. QED
        BY <4>1, RowStep DEF RowInv, Ungraded
    <3>4. QED
      BY <3>1, <3>2, <3>3
  <2>2. CASE attempt[i].status # "none"
    BY <2>2, AttemptChange
  <2>3. QED
    BY <2>1, <2>2
<1>2. completed' = completed
  BY DEF Next, RequestStep, AssignNumber, CommitStart, InsertKey, DuplicateKey, BeginGrading,
         RefuseFinalized, RefuseLate, Grade, CommitExpiry, Fail, StartRequest,
         Submit, Resume, Tick, vars
<1>3. QED
  BY <1>1, <1>2 DEF Results

\* Every step is a step of the transcript or leaves it alone.
LEMMA TranscriptStep ==
  ASSUME CertInv, [CertNext]_certVars
  PROVE  [T!Next]_(T!vars)
<1> USE DEF CertInv
<1>1. [Next]_vars
  BY CertStepIsStep
<1>2. CASE \E r \in Requests : CommitResult(r)
  <2>1. PICK r \in Requests : CommitResult(r)
    BY <1>2
  <2>2. UNCHANGED cert
    <3>1. req' # req
      BY <2>1, IdleType DEF CommitResult, End, RowInv, TypeInv, TypeOK
    <3>2. QED
      BY <3>1 DEF CertNext, certVars, vars, StartClaim, LockClaim, CheckCompletion,
                  CheckAssessments, Issue, EndClaim, Revoke
  <2>3. PICK i, a : i = req[r].id /\ a = req[r].answers
    OBVIOUS
  <2>4. i \in Ids /\ a \in Answers /\ T!RecordResult(i, a)
    BY <1>1, <2>1, <2>2, <2>3, CommitRecords
  <2>5. QED
    BY <2>4 DEF T!Next
<1>3. CASE ~\E r \in Requests : CommitResult(r)
  <2>1. UNCHANGED <<Results, completed>>
    BY <1>1, <1>3, OtherStepsStutter
  <2>2. CASE UNCHANGED cert
    BY <2>1, <2>2 DEF T!vars, Results
  <2>3. ASSUME NEW c \in Claims, Issue(c), cert' # cert PROVE T!Next
    <3>1. cert = "none" /\ cert' = "issued"
      BY <2>3 DEF Issue
    <3>2. Lessons \subseteq completed /\ \A z \in Required : EverPassed(z)
      BY <2>3 DEF Issue, ClaimGrounded
    <3>3. \A z \in Required : T!PassedIn(Results, z)
      BY <3>2, PassedInResults, CertificateAssumption
    <3>4. T!Issue
      BY <2>1, <3>1, <3>2, <3>3 DEF T!Issue, T!Earned, Results
    <3>5. QED
      BY <3>4 DEF T!Next
  <2>4. ASSUME Revoke PROVE T!Next
    BY <2>1, <2>4 DEF Revoke, T!Revoke, T!Next, Results
  <2>5. QED
    BY <2>2, <2>3, <2>4
       DEF CertNext, certVars, StartClaim, LockClaim, CheckCompletion, CheckAssessments, EndClaim
<1>4. QED
  BY <1>2, <1>3

\* Whatever the quizzes, lessons and attempts, however many requests and claims
\* run at once and wherever they fail: each attempt gets one result for good,
\* lessons and certificates are earned, and a revoked certificate stays so.
THEOREM TranscriptImplemented == CertSpec => ImplementsTranscript
<1>1. CertInit => T!Init
  BY DEF CertInit, Init, T!Init, NoAttempt
<1>2. CertInv /\ [CertNext]_certVars => [T!Next]_(T!vars)
  BY TranscriptStep
<1>3. QED
  BY <1>1, <1>2, CertInvariant, PTL DEF CertSpec, ImplementsTranscript, T!Spec
=============================================================================
