--------------------------- MODULE LearningProofs ---------------------------
(***************************************************************************)
(* Proofs about progress, for any course, any number of requests and any   *)
(* mutations. Two locks carry them: the course's, which keeps the batches  *)
(* of two synchronisations and the gradings apart, and the video's, under  *)
(* which what a checkpoint has computed stays valid until it is written.   *)
(***************************************************************************)
EXTENDS LearningProps, NumberProofs

\* Where requests of each kind can stand, and what they are then about.
Formed(q) ==
    /\ q.pc = "idle" => q = Idle
    /\ q.pc = "course" => q.kind \in {"sync", "grade"}
    /\ q.pc = "merging" => q.kind = "sync"
    /\ q.pc = "asset" => q.kind = "watch"
    /\ q.pc = "completing" => q.kind \in {"watch", "grade"}
    /\ q.pc = "writing" => q.kind \in {"sync", "watch", "grade"}
    /\ q.pc \in {"lesson", "linking"} => q.kind = "link"
    /\ q.pc # "writing" => q.rows = {} /\ q.fresh = {}
    /\ q.kind \in {"watch", "link"} => q.video \in Videos
    /\ q.kind = "grade" => q.quiz \in Quizzes

\* The windows of a video are in the past, and what was watched fits in them.
Dated(w) == w.since <= w.at /\ w.at <= clock /\ w.furthest <= 2 * (w.at - w.since)

\* What a checkpoint is about to write goes on from what is there.
GoesOn(old, new) == /\ new.furthest >= old.furthest /\ new.at >= old.at
                    /\ new.known /\ (old.done => new.done)

\* What a request has established before it waits for its last locks.
Staged(q) ==
    /\ q.kind = "sync" /\ q.pc = "writing" =>
         \A m \in q.batch : m.kind = "completion" => RequiredDone(m.lesson, passed, Watched)
    /\ q.kind = "watch" /\ q.pc \in {"completing", "writing"} =>
         /\ Dated(q.watched) /\ GoesOn(watch[q.video], q.watched)
         /\ q.rows \subseteq {LessonOf[q.video]}
         /\ q.pc = "completing" \/ q.rows # {} =>
              q.watched.done /\ RequiredDone(LessonOf[q.video], passed, Watched \cup {q.video})
    /\ q.kind = "grade" /\ q.pc = "writing" =>
         \A l \in q.rows : RequiredDone(l, passed \cup {q.quiz}, Watched)

RequestsFormed == \A r \in Requests : Formed(req[r])
RequestsStaged == \A r \in Requests : Staged(req[r])

\* One request at a time holds the course, and one a video.
CourseApart == \A r, q \in Requests : HoldsCourse(r) /\ HoldsCourse(q) => r = q
AssetsApart ==
    \A v \in Videos : \A r, q \in Requests : HoldsAsset(r, v) /\ HoldsAsset(q, v) => r = q

WatchDated ==
    \A v \in Videos : Dated(watch[v]) /\ (~watch[v].known => watch[v] = NoWatch)
RowsBegin == \A l \in Lessons : ~row[l].known => row[l].pos = 0

ServerInv ==
    /\ ServerTypeOK /\ RequestsFormed /\ RequestsStaged /\ CourseApart /\ AssetsApart
    /\ WatchDated /\ RowsBegin /\ NoUnearnedCompletion

----------------------------------------------------------------------------
(* Numbers                                                                 *)

LEMMA MaxOf ==
  ASSUME NEW S, S \subseteq Nat, IsFiniteSet(S), S # {}
  PROVE  Max(S) \in S /\ \A y \in S : Max(S) >= y
<1>1. \E x \in S : \A y \in S : x >= y
  <2>1. PICK x \in S : \A y \in S : y <= x
    BY FiniteMax
  <2>2. QED
    BY <2>1
<1>2. QED
  BY <1>1 DEF Max

----------------------------------------------------------------------------
(* Steps of the back end                                                   *)

InCourse(q) == q.kind \in {"sync", "grade"} /\ q.pc \in {"merging", "completing", "writing"}
InAsset(q, v) == q.kind = "watch" /\ q.video = v /\ q.pc \in {"completing", "writing"}

\* Steps that write no table, and steps that write one.
Move(r) ==
    \/ \E v \in Videos : StartLink(r, v) \/ \E to \in Nat : StartWatch(r, v, to)
    \/ \E z \in Quizzes : StartGrade(r, z)
    \/ \E b \in SUBSET Mutations : StartSync(r, b)
    \/ LockCourse(r) \/ Merge(r) \/ RefuseBatch(r) \/ Checkpoint(r) \/ RefuseSeek(r)
    \/ Complete(r) \/ LockLesson(r) \/ Conflict(r) \/ AbortDeadlock(r) \/ Fail(r)

Write(r) ==
    \/ \E v \in Videos : OpenWindow(r, v)
    \/ CommitSync(r) \/ CommitWatch(r) \/ CommitGrade(r) \/ CommitLink(r)

LEMMA NextForms ==
  ASSUME TypeOK, [Next]_vars
  PROVE  UNCHANGED serverVars \/ Tick \/ \E r \in Requests : Move(r) \/ Write(r)
<1>1. CASE ServerStep
  BY <1>1, OutboxAssumption DEF ServerStep, RequestStep, Move, Write
<1>2. CASE AppStep
  <2>1. ASSUME NEW r \in Requests, Synchronize(r)
        PROVE  Move(r)
    <3>1. Oldest(pending) \in SUBSET Mutations
      BY DEF Oldest, TypeOK
    <3>2. QED
      BY <2>1, <3>1 DEF Synchronize, Move
  <2>2. ASSUME NEW r \in Requests, Answer(r)
        PROVE  Write(r)
    BY <2>2 DEF Answer, Write
  <2>3. QED
    BY <1>2, <2>1, <2>2 DEF AppStep, RecordPosition, RecordCompletion, Record, StoreSync,
       LoseSync, Fetch, StoreFetch, LoseFetch, serverVars
<1>3. CASE UNCHANGED vars
  BY <1>3 DEF vars, serverVars
<1>4. QED
  BY <1>1, <1>2, <1>3 DEF Next

LEMMA IdleFact == Idle \in Request /\ Formed(Idle) /\ Staged(Idle)
BY DEF Idle, NoWatch, Request, Watch, Phase, Formed, Staged

\* A request in the place that a step of r leaves it in.
Placed(r, q) ==
    /\ q \in Request /\ Formed(q) /\ Staged(q)
    /\ InCourse(q) => InCourse(req[r]) \/ CourseFree(r)
    /\ \A v \in Videos : InAsset(q, v) =>
         InAsset(req[r], v) \/ \A p \in Others(r) : ~HoldsAsset(p, v)

LEMMA IdlePlaced ==
  ASSUME NEW r \in Requests
  PROVE  Placed(r, Idle)
<1>1. ~InCourse(Idle) /\ \A v \in Videos : ~InAsset(Idle, v)
  BY DEF Idle, InCourse, InAsset
<1>2. QED
  BY <1>1, IdleFact DEF Placed

\* A checkpoint of a video computes a window that goes on from the last one.
LEMMA Checkpoints ==
  ASSUME ServerTypeOK, WatchDated, NEW v \in Videos, NEW to \in Nat
  PROVE  LET old == CurrentWatch(v)
             new == Advanced(v, old, to)
         IN  /\ old \in Watch /\ Dated(old) /\ GoesOn(watch[v], old)
             /\ new \in Watch /\ Dated(new) /\ GoesOn(watch[v], new)
             /\ Reaches(v, old, to) \in Nat
<1> DEFINE old == CurrentWatch(v)
           new == Advanced(v, old, to)
           p == Reaches(v, old, to)
<1>1. /\ watch[v] \in Watch /\ Dated(watch[v]) /\ clock \in Nat
      /\ ~watch[v].known => watch[v] = NoWatch
  BY DEF ServerTypeOK, WatchDated
<1>2. old \in Watch /\ Dated(old) /\ GoesOn(watch[v], old)
  <2>1. CASE watch[v].known
    BY <1>1, <2>1 DEF CurrentWatch, GoesOn, Watch
  <2>2. CASE ~watch[v].known
    <3>1. old = [known |-> TRUE, furthest |-> 0, done |-> FALSE, at |-> clock, since |-> clock]
      BY <2>2 DEF CurrentWatch, NoWatch
    <3> HIDE DEF old
    <3>2. watch[v] = NoWatch
      BY <1>1, <2>2
    <3>3. QED
      BY <1>1, <3>1, <3>2 DEF GoesOn, Watch, Dated, NoWatch
  <2>3. QED
    BY <2>1, <2>2
<1> HIDE DEF old
<1>3. Allowance(old) \in Nat /\ Allowance(old) <= 2 * (clock - old.at)
  BY <1>1, <1>2, LessonAssumption DEF Allowance, LeastOf, Dated, Watch
<1>4. p \in Nat /\ p <= old.furthest + Allowance(old)
  BY <1>2, <1>3, LessonAssumption DEF Reaches, LeastOf, Watch
<1>5. new = [old EXCEPT !.furthest = IF p > old.furthest THEN p ELSE old.furthest, !.at = clock,
                        !.done = old.done \/ 20 * (IF p > old.furthest THEN p ELSE old.furthest)
                                              >= 19 * Length[v]]
  BY DEF Advanced
<1> HIDE DEF new, p
<1>6. /\ new.at = clock /\ new.since = old.since
      /\ new.known = old.known /\ (old.done => new.done)
      /\ new.furthest = IF p > old.furthest THEN p ELSE old.furthest
  BY <1>2, <1>5 DEF Watch
<1>7. new \in Watch
  BY <1>1, <1>2, <1>4, <1>5 DEF Watch
<1>8. Dated(new)
  BY <1>1, <1>2, <1>3, <1>4, <1>6 DEF Dated, Watch
<1>9. GoesOn(watch[v], new)
  BY <1>1, <1>2, <1>4, <1>6 DEF GoesOn, Watch, Dated
<1>10. QED
  BY <1>2, <1>4, <1>7, <1>8, <1>9 DEF old, new, p

LEMMA StartPlaced ==
  ASSUME ServerInv, NEW r \in Requests,
         NEW pc \in {"course", "asset", "lesson"}, NEW q0 \in Request,
         Formed([q0 EXCEPT !.pc = pc]), Begin(r, pc, q0)
  PROVE  \E q : Placed(r, q) /\ req' = [req EXCEPT ![r] = q]
<1> DEFINE q == [q0 EXCEPT !.pc = pc]
<1>1. q.pc = pc /\ q \in Request
  BY DEF Request, Phase
<1>2. req' = [req EXCEPT ![r] = q] /\ Formed(q)
  BY DEF Begin
<1> HIDE DEF q
<1>3. Staged(q) /\ ~InCourse(q) /\ \A v \in Videos : ~InAsset(q, v)
  BY <1>1 DEF Staged, InCourse, InAsset
<1>4. QED
  BY <1>1, <1>2, <1>3 DEF Placed

LEMMA MovePlaces ==
  ASSUME ServerInv, NEW r \in Requests, Move(r)
  PROVE  TablesUnchanged /\ \E q : Placed(r, q) /\ req' = [req EXCEPT ![r] = q]
<1> DEFINE Goal == TablesUnchanged /\ \E q : Placed(r, q) /\ req' = [req EXCEPT ![r] = q]
<1>0. /\ req[r] \in Request /\ Formed(req[r]) /\ Staged(req[r])
      /\ req \in [Requests -> Request]
  BY DEF ServerInv, ServerTypeOK, RequestsFormed, RequestsStaged
<1>1. ASSUME NEW v \in Videos, StartLink(r, v)
      PROVE  Goal
  <2> DEFINE q0 == [Idle EXCEPT !.kind = "link", !.video = v]
  <2>1. q0 \in Request /\ Formed([q0 EXCEPT !.pc = "lesson"])
    BY DEF Idle, Request, Formed, NoWatch, Watch, Phase
  <2>2. TablesUnchanged /\ Begin(r, "lesson", q0)
    BY <1>1 DEF StartLink
  <2> HIDE DEF q0
  <2>3. QED
    BY <2>1, <2>2, StartPlaced
<1>2. ASSUME NEW v \in Videos, NEW to \in Nat, StartWatch(r, v, to)
      PROVE  Goal
  <2> DEFINE q0 == [Idle EXCEPT !.kind = "watch", !.video = v, !.to = to]
  <2>1. q0 \in Request /\ Formed([q0 EXCEPT !.pc = "asset"])
    BY DEF Idle, Request, Formed, NoWatch, Watch, Phase
  <2>2. TablesUnchanged /\ Begin(r, "asset", q0)
    BY <1>2 DEF StartWatch
  <2> HIDE DEF q0
  <2>3. QED
    BY <2>1, <2>2, StartPlaced
<1>3. ASSUME NEW z \in Quizzes, StartGrade(r, z)
      PROVE  Goal
  <2> DEFINE q0 == [Idle EXCEPT !.kind = "grade", !.quiz = z]
  <2>1. q0 \in Request /\ Formed([q0 EXCEPT !.pc = "course"])
    BY DEF Idle, Request, Formed, NoWatch, Watch, Phase
  <2>2. TablesUnchanged /\ Begin(r, "course", q0)
    BY <1>3 DEF StartGrade
  <2> HIDE DEF q0
  <2>3. QED
    BY <2>1, <2>2, StartPlaced
<1>4. ASSUME NEW b \in SUBSET Mutations, StartSync(r, b)
      PROVE  Goal
  <2> DEFINE q0 == [Idle EXCEPT !.kind = "sync", !.batch = b]
  <2>1. q0 \in Request /\ Formed([q0 EXCEPT !.pc = "course"])
    BY DEF Idle, Request, Formed, NoWatch, Watch, Phase
  <2>2. TablesUnchanged /\ Begin(r, "course", q0)
    BY <1>4 DEF StartSync
  <2> HIDE DEF q0
  <2>3. QED
    BY <2>1, <2>2, StartPlaced
<1>5. CASE LockCourse(r)
  <2> DEFINE to == IF req[r].kind = "sync" THEN "merging" ELSE "completing"
             q == [req[r] EXCEPT !.pc = to]
  <2>1. req' = [req EXCEPT ![r] = q] /\ TablesUnchanged
    BY <1>0, <1>5 DEF LockCourse, Goto
  <2>2. q \in Request /\ Formed(q) /\ Staged(q) /\ \A v \in Videos : ~InAsset(q, v)
    BY <1>0, <1>5 DEF LockCourse, Request, Phase, Formed, Staged, InAsset
  <2> HIDE DEF q
  <2>3. QED
    BY <1>5, <2>1, <2>2 DEF LockCourse, Placed
<1>6. ASSUME NEW L \in SUBSET Lessons, TakeRows(r, L),
             \/ req[r].pc = "merging" /\ \A m \in req[r].batch : Accepts(m)
             \/ /\ req[r].pc = "completing" /\ req[r].kind = "watch"
                /\ L \subseteq {LessonOf[req[r].video]}
             \/ /\ req[r].pc = "completing" /\ req[r].kind = "grade"
                /\ L \subseteq GradeCompletes(req[r].quiz)
      PROVE  Goal
  <2> DEFINE new == {l \in L : ~row[l].known}
             q == [req[r] EXCEPT !.pc = "writing", !.rows = L, !.fresh = new]
  <2>1. req' = [req EXCEPT ![r] = q] /\ TablesUnchanged
    BY <1>0, <1>6 DEF TakeRows
  <2>2. new \in SUBSET Lessons
    BY <1>6
  <2> HIDE DEF new
  <2>3. /\ q \in Request /\ q.pc = "writing" /\ q.kind = req[r].kind /\ q.rows = L
        /\ q.batch = req[r].batch /\ q.video = req[r].video /\ q.quiz = req[r].quiz
        /\ q.watched = req[r].watched /\ q.fresh = new
    BY <1>0, <2>2 DEF Request, Phase
  <2> HIDE DEF q
  <2>4. Formed(q)
    BY <1>0, <1>6, <2>3 DEF Formed
  <2>5. Staged(q)
    <3>1. CASE q.kind = "sync"
      BY <1>0, <1>6, <2>3, <3>1 DEF Staged, Formed, Accepts
    <3>2. CASE q.kind = "watch"
      BY <1>0, <1>6, <2>3, <3>2 DEF Staged, Formed
    <3>3. CASE q.kind = "grade"
      BY <1>0, <1>6, <2>3, <3>3 DEF Staged, Formed, GradeCompletes
    <3>4. QED
      BY <2>3, <2>4, <3>1, <3>2, <3>3 DEF Formed
  <2>6. /\ InCourse(q) => InCourse(req[r])
        /\ \A v \in Videos : InAsset(q, v) => InAsset(req[r], v)
    BY <1>0, <1>6, <2>3 DEF InCourse, InAsset, Formed
  <2>7. QED
    BY <2>1, <2>3, <2>4, <2>5, <2>6 DEF Placed
<1>7. CASE Merge(r)
  <2> DEFINE L == {m.lesson : m \in NewIn(req[r])}
  <2>1. L \in SUBSET Lessons
    BY <1>0, LessonAssumption DEF NewIn, Request
  <2>2. req[r].pc = "merging" /\ (\A m \in req[r].batch : Accepts(m)) /\ TakeRows(r, L)
    BY <1>7 DEF Merge
  <2> HIDE DEF L
  <2>3. QED
    BY <1>6, <2>1, <2>2
<1>8. CASE Complete(r)
  <2> DEFINE L == IF req[r].kind = "watch" THEN {LessonOf[req[r].video]}
                  ELSE GradeCompletes(req[r].quiz)
  <2>1. req[r].pc = "completing" /\ TakeRows(r, L)
    BY <1>8 DEF Complete
  <2>2. L \in SUBSET Lessons
    BY <1>0, <2>1, LessonAssumption DEF Formed, GradeCompletes
  <2>3. \/ req[r].kind = "watch" /\ L \subseteq {LessonOf[req[r].video]}
        \/ req[r].kind = "grade" /\ L \subseteq GradeCompletes(req[r].quiz)
    BY <1>0, <2>1 DEF Formed
  <2> HIDE DEF L
  <2>4. QED
    BY <1>6, <2>1, <2>2, <2>3
<1>9. CASE Checkpoint(r)
  <2> DEFINE q0 == req[r]
             l == LessonOf[q0.video]
             old == CurrentWatch(q0.video)
             new == Advanced(q0.video, old, q0.to)
             to == Reaches(q0.video, old, q0.to)
             done == /\ new.done /\ l \notin Explicit
                     /\ RequiredDone(l, passed, Watched \cup {q0.video})
             pc == IF done THEN "completing" ELSE "writing"
             q == [q0 EXCEPT !.watched = new, !.to = to, !.pc = pc]
  <2>1. /\ q0.pc = "asset" /\ AssetFree(r) /\ TablesUnchanged
        /\ req' = [req EXCEPT ![r] = q]
    BY <1>0, <1>9 DEF Checkpoint
  <2>2. q0.kind = "watch" /\ q0.video \in Videos /\ q0.to \in Nat /\ q0.rows = {} /\ q0.fresh = {}
    BY <1>0, <2>1 DEF Formed, Request
  <2>3. new \in Watch /\ Dated(new) /\ GoesOn(watch[q0.video], new) /\ to \in Nat
    BY <2>2, Checkpoints DEF ServerInv
  <2>4. done => new.done /\ RequiredDone(l, passed, Watched \cup {q0.video})
    OBVIOUS
  <2> HIDE DEF new, to, done
  <2>5. /\ q \in Request /\ q.pc = pc /\ q.kind = "watch" /\ q.video = q0.video
        /\ q.watched = new /\ q.rows = {} /\ q.fresh = {}
    BY <1>0, <2>2, <2>3 DEF Request, Phase
  <2>6. pc \in {"completing", "writing"} /\ (pc = "completing" => done)
    OBVIOUS
  <2> HIDE DEF q, pc
  <2>7. Formed(q)
    BY <2>2, <2>5, <2>6 DEF Formed
  <2>8. Staged(q)
    BY <2>3, <2>4, <2>5, <2>6 DEF Staged
  <2>9. ~InCourse(q) /\ \A v \in Videos : InAsset(q, v) => v = q0.video
    BY <2>5 DEF InCourse, InAsset
  <2>10. QED
    BY <2>1, <2>5, <2>7, <2>8, <2>9 DEF Placed, AssetFree
<1>10. CASE LockLesson(r)
  <2> DEFINE q == [req[r] EXCEPT !.pc = "linking"]
  <2>1. req' = [req EXCEPT ![r] = q] /\ TablesUnchanged
    BY <1>0, <1>10 DEF LockLesson, Goto
  <2>2. q \in Request /\ Formed(q) /\ Staged(q) /\ ~InCourse(q) /\ \A v \in Videos : ~InAsset(q, v)
    BY <1>0, <1>10 DEF LockLesson, Request, Phase, Formed, Staged, InCourse, InAsset
  <2> HIDE DEF q
  <2>3. QED
    BY <2>1, <2>2 DEF Placed
<1>11. CASE RefuseBatch(r) \/ RefuseSeek(r) \/ Conflict(r) \/ AbortDeadlock(r) \/ Fail(r)
  <2>1. End(r) /\ TablesUnchanged
    BY <1>11 DEF RefuseBatch, RefuseSeek, Conflict, AbortDeadlock, Fail
  <2>2. QED
    BY <2>1, IdlePlaced DEF End
<1>12. QED
  BY <1>1, <1>2, <1>3, <1>4, <1>5, <1>7, <1>8, <1>9, <1>10, <1>11 DEF Move

----------------------------------------------------------------------------
(* What every step keeps                                                   *)

\* Nothing that a request relies on is taken back.
Onward ==
    /\ clock <= clock' /\ acked \subseteq acked'
    /\ passed \subseteq passed' /\ Watched \subseteq Watched'

LEMMA StagedStays ==
  ASSUME ServerTypeOK, Onward, clock' \in Nat, NEW q \in Request, Formed(q), Staged(q),
         q.kind = "watch" /\ q.pc \in {"completing", "writing"} => watch'[q.video] = watch[q.video]
  PROVE  Staged(q)'
<1>1. clock \in Nat /\ q.watched \in Watch
  BY DEF ServerTypeOK, Request
<1>2. \A w \in Watch : Dated(w) => Dated(w)'
  BY <1>1 DEF Onward, Dated, Watch
<1>3. \A l, P, V, P2, V2 : P \subseteq P2 /\ V \subseteq V2 /\ RequiredDone(l, P, V)
                             => RequiredDone(l, P2, V2)
  BY DEF RequiredDone
<1>4. CASE q.kind = "sync" /\ q.pc = "writing"
  BY <1>3, <1>4 DEF Staged, Onward
<1>5. CASE q.kind = "watch" /\ q.pc \in {"completing", "writing"}
  <2>1. Watched \cup {q.video} \subseteq Watched' \cup {q.video} /\ passed \subseteq passed'
    BY DEF Onward
  <2>2. Dated(q.watched)' /\ GoesOn(watch[q.video], q.watched)'
    BY <1>1, <1>2, <1>5 DEF Staged, GoesOn
  <2>3. /\ q.rows \subseteq {LessonOf[q.video]}
        /\ q.pc = "completing" \/ q.rows # {} =>
             q.watched.done /\ RequiredDone(LessonOf[q.video], passed', Watched' \cup {q.video})
    BY <1>3, <1>5, <2>1 DEF Staged
  <2>4. QED
    BY <1>5, <2>2, <2>3 DEF Staged
<1>6. CASE q.kind = "grade" /\ q.pc = "writing"
  <2>1. passed \cup {q.quiz} \subseteq passed' \cup {q.quiz} /\ Watched \subseteq Watched'
    BY DEF Onward
  <2>2. QED
    BY <1>3, <1>6, <2>1 DEF Staged
<1>7. QED
  BY <1>4, <1>5, <1>6 DEF Staged

\* Only the places of requests move, one of them at most; what is written under the lock
\* of a video is written by who holds it.
LEMMA RequestsKept ==
  ASSUME ServerInv, Onward, clock' \in Nat, NEW r \in Requests, NEW q, Placed(r, q), Staged(q)',
         req' = [req EXCEPT ![r] = q],
         \A v \in Videos : watch'[v] = watch[v] \/ \A p \in Others(r) : ~HoldsAsset(p, v)
  PROVE  /\ req' \in [Requests -> Request]
         /\ RequestsFormed' /\ RequestsStaged' /\ CourseApart' /\ AssetsApart'
<1>1. /\ req \in [Requests -> Request]
      /\ q \in Request /\ Formed(q)
      /\ req'[r] = q /\ \A p \in Requests \ {r} : req'[p] = req[p]
  BY DEF ServerInv, ServerTypeOK, Placed
<1>2. req' \in [Requests -> Request]
  BY <1>1
<1>3. RequestsFormed'
  BY <1>1 DEF RequestsFormed, ServerInv, Formed
<1>4. ASSUME NEW p \in Requests
      PROVE  Staged(req[p])'
  <2>1. CASE p = r
    <3>1. req'[p] = q
      BY <1>1, <2>1
    <3>2. QED
      BY <3>1 DEF Staged
  <2>2. CASE p # r
    <3>1. req[p] \in Request /\ Formed(req[p]) /\ Staged(req[p]) /\ ServerTypeOK
      BY <1>1 DEF ServerInv, RequestsFormed, RequestsStaged
    <3>2. req[p].kind = "watch" /\ req[p].pc \in {"completing", "writing"} =>
            watch'[req[p].video] = watch[req[p].video]
      BY <2>2, <3>1 DEF HoldsAsset, Others, Formed
    <3>3. PICK x \in Request : x = req[p]
      BY <3>1
    <3>4. Staged(x)'
      BY <3>1, <3>2, <3>3, StagedStays
    <3>5. req'[p] = x
      BY <1>1, <2>2, <3>3
    <3>6. QED
      BY <3>4, <3>5 DEF Staged
  <2>3. QED
    BY <2>1, <2>2
<1>5. RequestsStaged'
  BY <1>4 DEF RequestsStaged
<1>6. \A p \in Requests : HoldsCourse(p)' <=> InCourse(IF p = r THEN q ELSE req[p])
  BY <1>1 DEF HoldsCourse, InCourse
<1>7. \A p \in Requests : HoldsCourse(p) <=> InCourse(req[p])
  BY DEF HoldsCourse, InCourse
<1>8. CourseApart'
  BY <1>6, <1>7 DEF CourseApart, ServerInv, Placed, CourseFree, Others
<1>9. \A v \in Videos : \A p \in Requests :
        HoldsAsset(p, v)' <=> InAsset(IF p = r THEN q ELSE req[p], v)
  BY <1>1 DEF HoldsAsset, InAsset
<1>10. \A v \in Videos : \A p \in Requests : HoldsAsset(p, v) <=> InAsset(req[p], v)
  BY DEF HoldsAsset, InAsset
<1>11. AssetsApart'
  BY <1>9, <1>10 DEF AssetsApart, ServerInv, Placed, Others
<1>12. QED
  BY <1>2, <1>3, <1>5, <1>8, <1>11

LEMMA MoveKeeps ==
  ASSUME ServerInv, NEW r \in Requests, Move(r)
  PROVE  Onward /\ ServerInv'
<1>1. PICK q : Placed(r, q) /\ req' = [req EXCEPT ![r] = q]
  BY MovePlaces
<1>2. TablesUnchanged
  BY MovePlaces
<1>3. clock' \in Nat /\ Onward
  BY <1>2 DEF TablesUnchanged, Onward, ServerInv, ServerTypeOK, Watched
<1>4. Staged(q)'
  BY <1>1, <1>2 DEF Placed, Staged, TablesUnchanged, Dated, Watched
<1>5. \A v \in Videos : watch'[v] = watch[v]
  BY <1>2 DEF TablesUnchanged
<1>6. req' \in [Requests -> Request] /\ RequestsFormed' /\ RequestsStaged' /\ CourseApart' /\ AssetsApart'
  BY <1>1, <1>3, <1>4, <1>5, RequestsKept
<1>7. ServerTypeOK'
  BY <1>2, <1>6 DEF ServerInv, ServerTypeOK, TablesUnchanged
<1>8. WatchDated' /\ RowsBegin' /\ NoUnearnedCompletion'
  BY <1>2 DEF ServerInv, TablesUnchanged, WatchDated, Dated, RowsBegin, NoUnearnedCompletion, Watched
<1>9. QED
  BY <1>3, <1>6, <1>7, <1>8 DEF ServerInv

LEMMA OpenKeeps ==
  ASSUME ServerInv, NEW r \in Requests, NEW v \in Videos, OpenWindow(r, v)
  PROVE  Onward /\ GoesOn(watch[v], watch'[v]) /\ ServerInv'
<1> DEFINE w == [CurrentWatch(v) EXCEPT !.at = clock]
<1>1. /\ UNCHANGED <<clock, row, acked, passed, linked, req>>
      /\ watch' = [watch EXCEPT ![v] = w]
      /\ req[r].pc = "idle" /\ \A p \in Others(r) : ~HoldsAsset(p, v)
  BY DEF OpenWindow
<1>2. /\ watch \in [Videos -> Watch] /\ clock \in Nat
      /\ watch[v] \in Watch /\ Dated(watch[v]) /\ (~watch[v].known => watch[v] = NoWatch)
  BY DEF ServerInv, ServerTypeOK, WatchDated
<1>3. CurrentWatch(v) \in Watch /\ Dated(CurrentWatch(v)) /\ GoesOn(watch[v], CurrentWatch(v))
  BY Checkpoints DEF ServerInv
<1>4. watch[v].done <=> CurrentWatch(v).done
  BY <1>2 DEF CurrentWatch, NoWatch
<1>5. /\ w \in Watch /\ w.done = CurrentWatch(v).done /\ w.at = clock
      /\ w.known = CurrentWatch(v).known
      /\ w.furthest = CurrentWatch(v).furthest /\ w.since = CurrentWatch(v).since
  BY <1>2, <1>3 DEF Watch
<1> HIDE DEF w
<1>6. w \in Watch /\ Dated(w) /\ GoesOn(watch[v], w) /\ (w.done <=> watch[v].done)
  BY <1>2, <1>3, <1>4, <1>5 DEF Watch, Dated, GoesOn
<1>7. watch' \in [Videos -> Watch] /\ watch'[v] = w /\ \A x \in Videos \ {v} : watch'[x] = watch[x]
  BY <1>1, <1>2, <1>6
<1>8. Watched' = Watched
  BY <1>6, <1>7 DEF Watched
<1>9. clock' \in Nat /\ Onward
  BY <1>1, <1>2, <1>8 DEF Onward
<1>10. Placed(r, req[r])
  BY DEF Placed, ServerInv, ServerTypeOK, RequestsFormed, RequestsStaged
<1>11. req[r] = Idle /\ req' = [req EXCEPT ![r] = Idle]
  BY <1>1 DEF ServerInv, ServerTypeOK, RequestsFormed, Formed
<1>12. Staged(Idle)'
  BY DEF Staged, Idle
<1>13. req' \in [Requests -> Request] /\ RequestsFormed' /\ RequestsStaged' /\ CourseApart' /\ AssetsApart'
  BY <1>1, <1>7, <1>9, <1>11, <1>12, IdlePlaced, RequestsKept
<1>14. ServerTypeOK'
  BY <1>1, <1>7, <1>13 DEF ServerInv, ServerTypeOK
<1>15. WatchDated'
  <2>1. ASSUME NEW x \in Videos
        PROVE  Dated(watch[x])' /\ (~watch'[x].known => watch'[x] = NoWatch)
    <3>1. CASE x = v
      BY <1>1, <1>6, <1>7, <3>1 DEF Dated, GoesOn
    <3>2. CASE x # v
      BY <1>1, <1>7, <3>2 DEF Dated, ServerInv, WatchDated
    <3>3. QED
      BY <3>1, <3>2
  <2>2. QED
    BY <2>1 DEF WatchDated
<1>16. RowsBegin' /\ NoUnearnedCompletion'
  BY <1>1, <1>8 DEF ServerInv, RowsBegin, NoUnearnedCompletion
<1>17. QED
  BY <1>6, <1>7, <1>9, <1>13, <1>14, <1>15, <1>16 DEF ServerInv

\* A row that is written keeps its completion, and its position too unless it is graded.
RowsGrow == \A l \in Lessons :
    /\ row[l].done => row'[l].done
    /\ \/ row'[l].pos >= row[l].pos
       \/ /\ \E r \in Requests : CommitGrade(r) /\ l \in req[r].rows
          /\ row'[l].pos = Duration[l]

WatchesGrow == \A v \in Videos : watch'[v].furthest >= watch[v].furthest /\ watch'[v].at >= watch[v].at

LEMMA MergedFacts ==
  ASSUME ServerTypeOK, NEW l \in Lessons, NEW M \in SUBSET Mutations
  PROVE  /\ Merged(l, M) \in Row /\ Merged(l, M).known
         /\ Merged(l, M).pos >= row[l].pos
         /\ Merged(l, M).done <=> row[l].done \/ \E m \in M : m.kind = "completion"
<1> DEFINE S == {row[l].pos} \cup {m.pos : m \in M}
           d == row[l].done \/ \E m \in M : m.kind = "completion"
<1>1. row[l].pos \in Nat /\ row[l].done \in BOOLEAN
  BY DEF ServerTypeOK, Row
<1>2. \A m \in M : m.pos \in Nat
  BY LessonAssumption
<1>3. S \subseteq Nat /\ S # {} /\ IsFiniteSet(S)
  <2> DEFINE P == {m.pos : m \in M}
  <2>1. IsFiniteSet(M)
    BY LessonAssumption, FS_Subset
  <2>2. IsFiniteSet(P)
    <3> DEFINE f == [m \in M |-> m.pos]
    <3>1. f \in Surjection(M, P)
      BY DEF Surjection
    <3> HIDE DEF f, P
    <3>2. QED
      BY <2>1, <3>1, FS_Surjection
  <2> HIDE DEF P
  <2>3. IsFiniteSet(P \cup {row[l].pos}) /\ P \cup {row[l].pos} = {row[l].pos} \cup P
    BY <2>2, FS_AddElement
  <2>4. IsFiniteSet(S)
    BY <2>3 DEF P
  <2>5. QED
    BY <1>1, <1>2, <2>4
<1>4. Max(S) \in Nat /\ Max(S) >= row[l].pos
  <2> HIDE DEF S
  <2>1. row[l].pos \in S
    BY DEF S
  <2>2. QED
    BY <1>3, <2>1, MaxOf
<1>5. Merged(l, M) = [known |-> TRUE, pos |-> Max(S), done |-> d]
  BY DEF Merged, Furthest
<1>6. d \in BOOLEAN
  BY <1>1
<1> HIDE DEF S, d
<1>7. /\ Merged(l, M) \in Row /\ Merged(l, M).known
      /\ Merged(l, M).pos = Max(S) /\ Merged(l, M).done = d
  BY <1>4, <1>5, <1>6 DEF Row
<1>8. QED
  BY <1>4, <1>7 DEF d

\* A commit of r that writes rows of lessons whose parts are done, and perhaps a video.
LEMMA CommitKeeps ==
  ASSUME ServerInv, NEW r \in Requests, End(r), clock' = clock,
         acked' \subseteq Mutations, linked' \subseteq Videos, passed' \subseteq Quizzes, Onward,
         row' \in [Lessons -> Row], RowsGrow, RowsBegin', NoUnearnedCompletion',
         watch' \in [Videos -> Watch], WatchDated',
         \A v \in Videos : watch'[v] = watch[v] \/ HoldsAsset(r, v)
  PROVE  ServerInv'
<1>1. clock' \in Nat
  BY DEF ServerInv, ServerTypeOK
<1>2. \A v \in Videos : watch'[v] = watch[v] \/ \A p \in Others(r) : ~HoldsAsset(p, v)
  BY DEF ServerInv, AssetsApart, Others
<1>3. Staged(Idle)'
  BY DEF Staged, Idle
<1>4. req' = [req EXCEPT ![r] = Idle]
  BY DEF End
<1>5. req' \in [Requests -> Request] /\ RequestsFormed' /\ RequestsStaged' /\ CourseApart' /\ AssetsApart'
  BY <1>1, <1>2, <1>3, <1>4, IdlePlaced, RequestsKept
<1>6. ServerTypeOK'
  BY <1>5 DEF ServerInv, ServerTypeOK
<1>7. QED
  BY <1>5, <1>6 DEF ServerInv

LEMMA SyncKeeps ==
  ASSUME ServerInv, NEW r \in Requests, CommitSync(r)
  PROVE  Onward /\ RowsGrow /\ WatchesGrow /\ ServerInv'
<1> DEFINE q == req[r]
           M(l) == {m \in NewIn(q) : m.lesson = l}
<1>1. /\ q.kind = "sync" /\ q.pc = "writing"
      /\ row' = [l \in Lessons |-> IF l \in q.rows THEN Merged(l, M(l)) ELSE row[l]]
      /\ acked' = acked \cup q.batch
      /\ End(r)
      /\ UNCHANGED <<clock, watch, passed, linked>>
  BY DEF CommitSync, CanWrite
<1>2. /\ ServerTypeOK /\ q \in Request /\ Staged(q)
      /\ clock \in Nat /\ watch \in [Videos -> Watch] /\ row \in [Lessons -> Row]
  BY DEF ServerInv, ServerTypeOK, RequestsStaged
<1>3. acked' \subseteq Mutations /\ Watched' = Watched /\ Onward
  BY <1>1, <1>2 DEF ServerTypeOK, Request, Onward, Watched
<1>4. \A l \in Lessons : M(l) \in SUBSET Mutations
  BY <1>2 DEF NewIn, Request
<1> HIDE DEF q
<1>5. ASSUME NEW l \in Lessons
      PROVE  /\ row'[l] \in Row /\ row'[l].pos >= row[l].pos /\ (row[l].done => row'[l].done)
             /\ ~row'[l].known => row'[l].pos = 0
             /\ row'[l].done => RequiredDone(l, passed, Watched)
  <2>1. CASE l \in q.rows
    <3> DEFINE N == M(l)
    <3>1. row'[l] = Merged(l, N)
      BY <1>1, <2>1
    <3>2. N \in SUBSET Mutations
      BY <1>4
    <3>3. \A m \in N : m.kind = "completion" => RequiredDone(l, passed, Watched)
      BY <1>1, <1>2 DEF Staged, NewIn
    <3> HIDE DEF N
    <3>4. /\ Merged(l, N) \in Row /\ Merged(l, N).known
          /\ Merged(l, N).pos >= row[l].pos
          /\ Merged(l, N).done <=> row[l].done \/ \E m \in N : m.kind = "completion"
      BY <1>2, <3>2, MergedFacts
    <3>5. row[l].done => RequiredDone(l, passed, Watched)
      BY DEF ServerInv, NoUnearnedCompletion
    <3> QED
      BY <3>1, <3>3, <3>4, <3>5
  <2>2. CASE l \notin q.rows
    <3>1. row'[l] = row[l] /\ row[l].pos \in Nat
      BY <1>1, <1>2, <2>2, LessonAssumption DEF Row
    <3>2. QED
      BY <1>2, <3>1 DEF ServerInv, RowsBegin, NoUnearnedCompletion
  <2>3. QED
    BY <2>1, <2>2
<1>6. row' \in [Lessons -> Row]
  BY <1>1, <1>5
<1>7. RowsGrow /\ RowsBegin'
  BY <1>5 DEF RowsGrow, RowsBegin
<1>8. NoUnearnedCompletion'
  BY <1>1, <1>3, <1>5 DEF NoUnearnedCompletion
<1>9. WatchesGrow
  BY <1>1, <1>2 DEF WatchesGrow, Watch
<1>10. WatchDated'
  BY <1>1 DEF WatchDated, Dated, ServerInv
<1>11. ServerInv'
  <2>1. linked' \subseteq Videos /\ passed' \subseteq Quizzes /\ watch' \in [Videos -> Watch]
    BY <1>1, <1>2 DEF ServerTypeOK
  <2>2. \A v \in Videos : watch'[v] = watch[v] \/ HoldsAsset(r, v)
    BY <1>1
  <2>3. QED
    BY <1>1, <1>3, <1>6, <1>7, <1>8, <1>10, <2>1, <2>2, CommitKeeps
<1>12. QED
  BY <1>3, <1>7, <1>9, <1>11

LEMMA WatchKeeps ==
  ASSUME ServerInv, NEW r \in Requests, CommitWatch(r)
  PROVE  Onward /\ RowsGrow /\ WatchesGrow /\ ServerInv'
<1> DEFINE q == req[r]
           v == q.video
           w == q.watched
<1>1. /\ q.kind = "watch" /\ q.pc = "writing"
      /\ watch' = [watch EXCEPT ![v] = w]
      /\ row' = [l \in Lessons |-> IF l \in q.rows
                   THEN [known |-> TRUE, done |-> TRUE,
                         pos |-> IF row[l].known THEN row[l].pos ELSE q.to]
                   ELSE row[l]]
      /\ End(r)
      /\ UNCHANGED <<clock, acked, passed, linked>>
  BY DEF CommitWatch, CanWrite
<1>2. /\ ServerTypeOK /\ q \in Request /\ Staged(q) /\ Formed(q) /\ v \in Videos /\ w \in Watch
      /\ clock \in Nat /\ watch \in [Videos -> Watch] /\ row \in [Lessons -> Row] /\ q.to \in Nat
  BY <1>1 DEF ServerInv, ServerTypeOK, RequestsStaged, RequestsFormed, Request, Formed
<1>3. /\ Dated(w) /\ GoesOn(watch[v], w) /\ q.rows \subseteq {LessonOf[v]}
      /\ q.rows # {} => w.done /\ RequiredDone(LessonOf[v], passed, Watched \cup {v})
  BY <1>1, <1>2 DEF Staged
<1>4. \A x \in Videos : watch'[x] = watch[x] \/ HoldsAsset(r, x)
  BY <1>1, <1>2 DEF HoldsAsset
<1> HIDE DEF w, v, q
<1>5. watch'[v] = w /\ \A x \in Videos \ {v} : watch'[x] = watch[x]
  BY <1>1, <1>2
<1>6. Watched' = Watched \cup (IF w.done THEN {v} ELSE {})
  BY <1>2, <1>3, <1>5 DEF Watched, GoesOn
<1>7. Onward
  BY <1>1, <1>2, <1>6 DEF Onward
<1>8. WatchesGrow
  <2>1. ASSUME NEW x \in Videos
        PROVE  watch'[x].furthest >= watch[x].furthest /\ watch'[x].at >= watch[x].at
    <3>1. watch[x] \in Watch
      BY <1>2
    <3>2. QED
      BY <1>3, <1>5, <3>1 DEF GoesOn, Watch
  <2>2. QED
    BY <2>1 DEF WatchesGrow
<1>9. watch' \in [Videos -> Watch]
  BY <1>1, <1>2
<1>10. WatchDated'
  <2>1. ASSUME NEW x \in Videos
        PROVE  Dated(watch[x])' /\ (~watch'[x].known => watch'[x] = NoWatch)
    <3>1. CASE x = v
      BY <1>1, <1>3, <1>5, <3>1 DEF Dated, GoesOn
    <3>2. CASE x # v
      BY <1>1, <1>5, <3>2 DEF Dated, ServerInv, WatchDated
    <3>3. QED
      BY <3>1, <3>2
  <2>2. QED
    BY <2>1 DEF WatchDated
<1>11. ASSUME NEW l \in Lessons
       PROVE  /\ row'[l] \in Row /\ row'[l].pos >= row[l].pos /\ (row[l].done => row'[l].done)
              /\ ~row'[l].known => row'[l].pos = 0
              /\ row'[l].done => RequiredDone(l, passed, Watched')
  <2>1. row[l] \in Row /\ row[l].pos \in Nat /\ Duration[l] \in Nat
    BY <1>2, LessonAssumption DEF Row
  <2>2. CASE l \in q.rows
    <3> DEFINE p == IF row[l].known THEN row[l].pos ELSE q.to
    <3>1. row'[l] = [known |-> TRUE, done |-> TRUE, pos |-> p]
      BY <1>1, <2>2
    <3>2. p \in Nat /\ p >= row[l].pos
      BY <1>2, <2>1 DEF Row, ServerInv, RowsBegin
    <3>3. RequiredDone(l, passed, Watched')
      BY <1>3, <1>6, <2>2
    <3> HIDE DEF p
    <3>4. QED
      BY <3>1, <3>2, <3>3 DEF Row
  <2>3. CASE l \notin q.rows
    <3>1. row'[l] = row[l]
      BY <1>1, <2>3
    <3>2. Watched \subseteq Watched'
      BY <1>6
    <3>3. QED
      BY <2>1, <3>1, <3>2 DEF ServerInv, RowsBegin, NoUnearnedCompletion, RequiredDone
  <2>4. QED
    BY <2>2, <2>3
<1>12. row' \in [Lessons -> Row]
  BY <1>1, <1>11
<1>13. RowsGrow /\ RowsBegin'
  BY <1>11 DEF RowsGrow, RowsBegin
<1>14. NoUnearnedCompletion'
  BY <1>1, <1>11 DEF NoUnearnedCompletion
<1>15. ServerInv'
  <2>1. acked' \subseteq Mutations /\ linked' \subseteq Videos /\ passed' \subseteq Quizzes
    BY <1>1, <1>2 DEF ServerTypeOK
  <2>2. QED
    BY <1>1, <1>4, <1>7, <1>9, <1>10, <1>12, <1>13, <1>14, <2>1, CommitKeeps
<1>16. QED
  BY <1>7, <1>8, <1>13, <1>15

LEMMA GradeKeeps ==
  ASSUME ServerInv, NEW r \in Requests, CommitGrade(r)
  PROVE  Onward /\ RowsGrow /\ WatchesGrow /\ ServerInv'
<1> DEFINE q == req[r]
<1>1. /\ q.kind = "grade" /\ q.pc = "writing"
      /\ passed' = passed \cup {q.quiz}
      /\ row' = [l \in Lessons |-> IF l \in q.rows
                   THEN [known |-> TRUE, pos |-> Duration[l], done |-> TRUE] ELSE row[l]]
      /\ End(r)
      /\ UNCHANGED <<clock, acked, watch, linked>>
  BY DEF CommitGrade, CanWrite
<1>2. /\ ServerTypeOK /\ Staged(q) /\ q.quiz \in Quizzes
      /\ clock \in Nat /\ watch \in [Videos -> Watch] /\ row \in [Lessons -> Row]
  BY <1>1 DEF ServerInv, ServerTypeOK, RequestsStaged, RequestsFormed, Request, Formed
<1>3. \A l \in q.rows : RequiredDone(l, passed', Watched)
  BY <1>1, <1>2 DEF Staged
<1> HIDE DEF q
<1>4. Watched' = Watched /\ Onward
  BY <1>1, <1>2 DEF Onward, Watched
<1>5. ASSUME NEW l \in Lessons
      PROVE  /\ row'[l] \in Row /\ (row[l].done => row'[l].done)
             /\ row'[l].pos >= row[l].pos \/ (l \in req[r].rows /\ row'[l].pos = Duration[l])
             /\ ~row'[l].known => row'[l].pos = 0
             /\ row'[l].done => RequiredDone(l, passed', Watched)
  <2>1. row[l] \in Row /\ row[l].pos \in Nat /\ Duration[l] \in Nat
    BY <1>2, LessonAssumption DEF Row
  <2>2. CASE l \in q.rows
    <3>1. row'[l] = [known |-> TRUE, pos |-> Duration[l], done |-> TRUE]
      BY <1>1, <2>2
    <3>2. QED
      BY <1>3, <2>1, <2>2, <3>1 DEF Row, q
  <2>3. CASE l \notin q.rows
    <3>1. row'[l] = row[l] /\ passed \subseteq passed'
      BY <1>1, <2>3
    <3>2. row'[l].pos >= row[l].pos
      BY <2>1, <3>1
    <3>3. row[l].done => RequiredDone(l, passed', Watched)
      BY <3>1 DEF ServerInv, NoUnearnedCompletion, RequiredDone
    <3>4. ~row[l].known => row[l].pos = 0
      BY DEF ServerInv, RowsBegin
    <3> QED
      BY <2>1, <3>1, <3>2, <3>3, <3>4
  <2>4. QED
    BY <2>2, <2>3
<1>6. row' \in [Lessons -> Row]
  BY <1>1, <1>5
<1>7. RowsGrow /\ RowsBegin'
  BY <1>5 DEF RowsGrow, RowsBegin
<1>8. NoUnearnedCompletion'
  BY <1>4, <1>5 DEF NoUnearnedCompletion
<1>9. WatchesGrow
  BY <1>1, <1>2 DEF WatchesGrow, Watch
<1>10. WatchDated'
  BY <1>1 DEF WatchDated, Dated, ServerInv
<1>11. ServerInv'
  <2>1. /\ acked' \subseteq Mutations /\ linked' \subseteq Videos /\ passed' \subseteq Quizzes
        /\ watch' \in [Videos -> Watch]
    BY <1>1, <1>2 DEF ServerTypeOK
  <2>2. \A v \in Videos : watch'[v] = watch[v] \/ HoldsAsset(r, v)
    BY <1>1
  <2>3. QED
    BY <1>1, <1>4, <1>6, <1>7, <1>8, <1>10, <2>1, <2>2, CommitKeeps
<1>12. QED
  BY <1>4, <1>7, <1>9, <1>11

\* Steps that leave the rows alone.
LEMMA OtherKeeps ==
  ASSUME ServerInv, Tick \/ \E r \in Requests : CommitLink(r)
  PROVE  Onward /\ RowsGrow /\ WatchesGrow /\ ServerInv'
<1>1. /\ ServerTypeOK /\ clock \in 1..MaxTime /\ MaxTime \in Nat
      /\ watch \in [Videos -> Watch] /\ row \in [Lessons -> Row]
  BY LessonAssumption DEF ServerInv, ServerTypeOK
<1>2. UNCHANGED <<row, acked, watch, passed>> /\ clock' \in 1..MaxTime /\ clock <= clock'
  BY <1>1 DEF Tick, CommitLink
<1>3. Watched' = Watched /\ Onward
  BY <1>2 DEF Onward, Watched
<1>4. RowsGrow /\ WatchesGrow
  <2>1. \A l \in Lessons : row[l].pos \in Nat
    BY <1>1, LessonAssumption DEF Row
  <2>2. \A v \in Videos : watch[v].furthest \in Nat /\ watch[v].at \in Nat
    BY <1>1 DEF Watch
  <2>3. QED
    BY <1>2, <2>1, <2>2 DEF RowsGrow, WatchesGrow
<1>5. RowsBegin' /\ NoUnearnedCompletion'
  BY <1>2, <1>3 DEF ServerInv, RowsBegin, NoUnearnedCompletion
<1>6. WatchDated'
  <2>1. ASSUME NEW v \in Videos
        PROVE  Dated(watch[v])' /\ (~watch'[v].known => watch'[v] = NoWatch)
    <3>1. watch[v] \in Watch /\ Dated(watch[v]) /\ (~watch[v].known => watch[v] = NoWatch)
      BY <1>1 DEF ServerInv, WatchDated
    <3>2. QED
      BY <1>1, <1>2, <3>1 DEF Dated, Watch
  <2>2. QED
    BY <2>1 DEF WatchDated
<1>7. CASE Tick
  <2>1. req' = req /\ linked' = linked
    BY <1>7 DEF Tick
  <2>2. ASSUME NEW p \in Requests
        PROVE  Staged(req[p])'
    <3>1. PICK x \in Request : x = req[p] /\ Formed(x) /\ Staged(x)
      BY <1>1 DEF ServerInv, ServerTypeOK, RequestsFormed, RequestsStaged
    <3>2. Staged(x)'
      BY <1>1, <1>2, <1>3, <3>1, StagedStays
    <3>3. QED
      BY <2>1, <3>1, <3>2 DEF Staged
  <2>3. RequestsStaged'
    BY <2>1, <2>2 DEF RequestsStaged
  <2>4. RequestsFormed' /\ CourseApart' /\ AssetsApart'
    BY <2>1 DEF ServerInv, RequestsFormed, Formed, CourseApart, AssetsApart, HoldsCourse, HoldsAsset
  <2>5. ServerTypeOK'
    BY <1>1, <1>2, <2>1 DEF ServerTypeOK
  <2>6. QED
    BY <1>3, <1>4, <1>5, <1>6, <2>3, <2>4, <2>5 DEF ServerInv
<1>8. ASSUME NEW r \in Requests, CommitLink(r)
      PROVE  ServerInv'
  <2>1. End(r) /\ clock' = clock /\ linked' = linked \cup {req[r].video} /\ req[r].video \in Videos
    BY <1>8 DEF CommitLink, ServerInv, RequestsFormed, Formed
  <2>2. /\ acked' \subseteq Mutations /\ linked' \subseteq Videos /\ passed' \subseteq Quizzes
        /\ watch' \in [Videos -> Watch] /\ row' \in [Lessons -> Row]
    BY <1>1, <1>2, <2>1 DEF ServerTypeOK
  <2>3. \A v \in Videos : watch'[v] = watch[v] \/ HoldsAsset(r, v)
    BY <1>2
  <2>4. QED
    BY <1>3, <1>4, <1>5, <1>6, <2>1, <2>2, <2>3, CommitKeeps
<1>9. QED
  BY <1>3, <1>4, <1>7, <1>8

LEMMA ServerStart ==
  ASSUME ServerInit
  PROVE  ServerInv
<1>1. ServerTypeOK
  <2>1. Idle \in Request /\ 1 \in 1..MaxTime /\ NoWatch \in Watch
    BY IdleFact, LessonAssumption DEF NoWatch, Watch
  <2>2. [known |-> FALSE, pos |-> 0, done |-> FALSE] \in Row
    BY LessonAssumption DEF Row
  <2>3. QED
    BY <2>1, <2>2 DEF ServerInit, ServerTypeOK
<1>2. \A r \in Requests : req[r] = Idle
  BY DEF ServerInit
<1>3. RequestsFormed /\ RequestsStaged
  BY <1>2, IdleFact DEF RequestsFormed, RequestsStaged
<1>4. CourseApart /\ AssetsApart
  BY <1>2 DEF CourseApart, AssetsApart, HoldsCourse, HoldsAsset, Idle
<1>5. WatchDated /\ RowsBegin /\ NoUnearnedCompletion
  BY DEF ServerInit, WatchDated, Dated, NoWatch, RowsBegin, NoUnearnedCompletion
<1>6. QED
  BY <1>1, <1>3, <1>4, <1>5 DEF ServerInv

LEMMA ServerKept ==
  ASSUME TypeOK, ServerInv, [Next]_vars
  PROVE  acked \subseteq acked' /\ RowsGrow /\ WatchesGrow /\ ServerInv'
<1>1. /\ \A l \in Lessons : row[l].pos \in Nat
      /\ \A v \in Videos : watch[v] \in Watch
  BY LessonAssumption DEF ServerInv, ServerTypeOK, Row
<1>2. CASE UNCHANGED serverVars
  <2>1. RowsGrow /\ WatchesGrow
    BY <1>1, <1>2 DEF serverVars, RowsGrow, WatchesGrow, Watch
  <2>2. ServerTypeOK'
    BY <1>2 DEF serverVars, ServerInv, ServerTypeOK
  <2>3. RequestsFormed' /\ CourseApart' /\ AssetsApart'
    BY <1>2 DEF serverVars, ServerInv, RequestsFormed, Formed, CourseApart, AssetsApart,
       HoldsCourse, HoldsAsset
  <2>4. RequestsStaged'
    BY <1>2 DEF serverVars, ServerInv, RequestsStaged, Staged, Dated, GoesOn, Watched
  <2>5. WatchDated' /\ RowsBegin' /\ NoUnearnedCompletion'
    BY <1>2 DEF serverVars, ServerInv, WatchDated, Dated, RowsBegin, NoUnearnedCompletion, Watched
  <2>6. QED
    BY <1>2, <2>1, <2>2, <2>3, <2>4, <2>5 DEF serverVars, ServerInv
<1>3. ASSUME NEW r \in Requests, Move(r)
      PROVE  acked \subseteq acked' /\ RowsGrow /\ WatchesGrow /\ ServerInv'
  <2>1. TablesUnchanged
    BY <1>3, MovePlaces
  <2>2. RowsGrow /\ WatchesGrow
    BY <1>1, <2>1 DEF TablesUnchanged, RowsGrow, WatchesGrow, Watch
  <2>3. QED
    BY <1>3, <2>1, <2>2, MoveKeeps DEF TablesUnchanged
<1>4. ASSUME NEW r \in Requests, NEW v \in Videos, OpenWindow(r, v)
      PROVE  acked \subseteq acked' /\ RowsGrow /\ WatchesGrow /\ ServerInv'
  <2>1. GoesOn(watch[v], watch'[v]) /\ ServerInv'
    BY <1>4, OpenKeeps
  <2>2. UNCHANGED <<row, acked>> /\ \A x \in Videos : x = v \/ watch'[x] = watch[x]
    BY <1>4 DEF OpenWindow, ServerInv, ServerTypeOK
  <2>3. RowsGrow
    BY <1>1, <2>2 DEF RowsGrow
  <2>4. WatchesGrow
    BY <1>1, <2>1, <2>2 DEF WatchesGrow, GoesOn, Watch
  <2>5. QED
    BY <2>1, <2>2, <2>3, <2>4
<1>5. CASE Tick \/ \E r \in Requests : CommitLink(r)
  BY <1>5, OtherKeeps DEF Onward
<1>6. ASSUME NEW r \in Requests, CommitSync(r) \/ CommitWatch(r) \/ CommitGrade(r)
      PROVE  acked \subseteq acked' /\ RowsGrow /\ WatchesGrow /\ ServerInv'
  BY <1>6, SyncKeeps, WatchKeeps, GradeKeeps DEF Onward
<1>7. QED
  BY <1>2, <1>3, <1>4, <1>5, <1>6, NextForms DEF Write

----------------------------------------------------------------------------
(* The outbox                                                              *)

\* What the back end has answered for is on record there; a request that a synchronisation
\* still waits for carries its batch.
SendingStands ==
    /\ sending.pc = "answered" => sending.batch \subseteq acked
    /\ sending.slot # None /\ req[sending.slot].kind = "sync" =>
         req[sending.slot].batch = sending.batch

LearnInv == TypeOK /\ ServerInv /\ SendingStands /\ NothingRecordedIsLost

\* Steps of the app, by what they do to the outbox.
Recorded == \E m \in Mutations :
    /\ m \notin made /\ (\A n \in made : n.id < m.id)
    /\ made' = made \cup {m} /\ pending' = Kept(pending \cup {m})
    /\ UNCHANGED <<serverVars, sending>>

\* The newest position of a lesson is kept, and every completion.
LEMMA KeptCovers ==
  ASSUME NEW P \in SUBSET Mutations, NEW b \in Nat, \A n \in P : n.id <= b
  PROVE  /\ Kept(P) \subseteq P
         /\ \A m \in P : \/ m \in Kept(P)
                         \/ /\ m.kind = "position"
                            /\ \E n \in Kept(P) : n.lesson = m.lesson /\ n.id > m.id
<1>1. Kept(P) \subseteq P
  BY DEF Kept, LatestOf
<1>2. ASSUME NEW m \in P, m \notin Kept(P)
      PROVE  m.kind = "position" /\ \E n \in Kept(P) : n.lesson = m.lesson /\ n.id > m.id
  <2>1. Kept(P) = LatestOf(P)
    BY <1>2 DEF Kept
  <2>2. m.kind = "position"
    BY <1>2, <2>1, LessonAssumption DEF LatestOf
  <2> DEFINE Q == {n \in P : n.kind = "position" /\ n.lesson = m.lesson}
             S == {n.id : n \in Q}
  <2>3. S \subseteq 0..b /\ S # {}
    <3>1. \A n \in P : n.id \in 0..b
      BY LessonAssumption
    <3>2. QED
      BY <2>2, <3>1
  <2>4. PICK x \in S : \A y \in S : x >= y
    BY <2>3, NatMax
  <2>5. PICK n \in Q : x = n.id
    OBVIOUS
  <2>6. \A k \in Q : k.id <= n.id
    BY <2>4, <2>5
  <2>7. n \in LatestOf(P)
    BY <2>6 DEF LatestOf
  <2>8. m.id <= n.id /\ m.id \in Nat /\ n.id \in Nat
    BY <2>2, <2>6, LessonAssumption
  <2>9. PICK k \in P : k.kind = "position" /\ k.lesson = m.lesson /\ ~(k.id <= m.id)
    BY <1>2, <2>1 DEF LatestOf
  <2>10. k.id <= n.id /\ k.id \in Nat
    BY <2>6, <2>9, LessonAssumption
  <2>11. n.id > m.id
    BY <2>8, <2>9, <2>10
  <2>12. QED
    BY <2>1, <2>2, <2>7, <2>11
<1>3. QED
  BY <1>1, <1>2

LEMMA TypeStep ==
  ASSUME TypeOK, ServerInv, [Next]_vars
  PROVE  TypeOK'
<1>0. ServerTypeOK'
  BY ServerKept DEF ServerInv
<1>1. CASE UNCHANGED vars
  BY <1>0, <1>1 DEF vars, TypeOK
<1>2. CASE ServerStep
  BY <1>0, <1>2 DEF ServerStep, AppUnchanged, TypeOK
<1>3. ASSUME NEW m \in Mutations, Record(m)
      PROVE  TypeOK'
  <2>1. made' \subseteq Mutations /\ pending' \subseteq made'
    BY <1>3 DEF Record, TypeOK, Kept, LatestOf
  <2>2. cache' \subseteq Lessons
    BY <1>3, LessonAssumption DEF Record, TypeOK, Reconcile
  <2>3. Cardinality(pending') <= MaxPending
    BY <1>3 DEF Record, Fits
  <2>4. QED
    BY <1>0, <1>3, <2>1, <2>2, <2>3 DEF Record, TypeOK
<1>4. ASSUME NEW r \in Requests, Synchronize(r)
      PROVE  TypeOK'
  <2>1. Oldest(pending) \in SUBSET Mutations
    BY DEF Oldest, TypeOK
  <2>2. sending' = [pc |-> "sent", slot |-> r, batch |-> Oldest(pending), answer |-> {}]
    BY <1>4 DEF Synchronize, NotSending
  <2>3. QED
    BY <1>0, <1>4, <2>1, <2>2 DEF Synchronize, StoreUnchanged, TypeOK
<1>5. ASSUME NEW r \in Requests, Answer(r)
      PROVE  TypeOK'
  <2>1. Progress' \in SUBSET Lessons
    BY DEF Progress
  <2>2. sending' \in [pc: {"idle", "sent", "answered"}, slot: Requests \cup {None},
                      batch: SUBSET Mutations, answer: SUBSET Lessons]
    BY <1>5, <2>1 DEF Answer, TypeOK
  <2>3. QED
    BY <1>0, <1>5, <2>2 DEF Answer, StoreUnchanged, TypeOK
<1>6. CASE StoreSync
  <2>1. cache' \subseteq Lessons
    BY <1>6, LessonAssumption DEF StoreSync, Reconcile, Remaining, TypeOK
  <2>2. pending' \subseteq pending /\ pending \subseteq Mutations
    BY <1>6 DEF StoreSync, Remaining, TypeOK
  <2>3. IsFiniteSet(pending)
    BY <2>2, LessonAssumption, FS_Subset
  <2>4. Cardinality(pending') <= Cardinality(pending)
    BY <2>2, <2>3, FS_Subset
  <2>5. IsFiniteSet(pending')
    BY <2>2, <2>3, FS_Subset
  <2>6. Cardinality(pending') <= MaxPending
    BY <2>3, <2>4, <2>5, FS_CardinalityType, OutboxAssumption DEF TypeOK
  <2>7. QED
    BY <1>0, <1>6, <2>1, <2>6 DEF StoreSync, Remaining, NotSending, TypeOK
<1>7. CASE LoseSync
  BY <1>0, <1>7 DEF LoseSync, StoreUnchanged, NotSending, TypeOK
<1>8. CASE Fetch
  BY <1>0, <1>8 DEF Fetch, StoreUnchanged, Progress, TypeOK
<1>9. CASE StoreFetch
  <2>1. cache' \subseteq Lessons
    BY <1>9, LessonAssumption DEF StoreFetch, Reconcile, TypeOK
  <2>2. QED
    BY <1>0, <1>9, <2>1 DEF StoreFetch, NotFetching, TypeOK
<1>10. CASE LoseFetch
  BY <1>0, <1>10 DEF LoseFetch, StoreUnchanged, NotFetching, TypeOK
<1>11. QED
  BY <1>1, <1>2, <1>3, <1>4, <1>5, <1>6, <1>7, <1>8, <1>9, <1>10
     DEF Next, AppStep, RecordPosition, RecordCompletion

\* A request of the back end's own steps is a synchronisation only if it was this one.
LEMMA SyncsContinue ==
  ASSUME ServerInv, ServerStep, NEW p \in Requests, req'[p].kind = "sync"
  PROVE  req[p].kind = "sync" /\ req'[p].batch = req[p].batch
<1> DEFINE Goal == req[p].kind = "sync" /\ req'[p].batch = req[p].batch
<1>0. req \in [Requests -> Request] /\ Idle.kind = "none"
  BY DEF ServerInv, ServerTypeOK, Idle
<1>1. CASE Tick
  BY <1>1 DEF Tick
<1>2. ASSUME NEW r \in Requests, End(r)
      PROVE  Goal
  BY <1>0, <1>2 DEF End
<1>3. ASSUME NEW r \in Requests, NEW pc, Goto(r, pc)
      PROVE  Goal
  BY <1>0, <1>3 DEF Goto, Request
<1>4. ASSUME NEW r \in Requests, NEW L, TakeRows(r, L)
      PROVE  Goal
  BY <1>0, <1>4 DEF TakeRows, Request
<1>5. ASSUME NEW r \in Requests, NEW pc, NEW q0, q0.kind # "sync", q0 \in Request, Begin(r, pc, q0)
      PROVE  Goal
  BY <1>0, <1>5 DEF Begin, Request
<1>6. ASSUME NEW r \in Requests, Checkpoint(r)
      PROVE  Goal
  BY <1>0, <1>6 DEF Checkpoint, Request
<1>7. ASSUME NEW r \in Requests, RequestStep(r) \/ Fail(r)
      PROVE  Goal
  <2>1. CASE LockCourse(r) \/ LockLesson(r)
    BY <1>3, <2>1 DEF LockCourse, LockLesson
  <2>2. CASE Merge(r) \/ Complete(r)
    BY <1>4, <2>2 DEF Merge, Complete
  <2>3. CASE \/ RefuseBatch(r) \/ RefuseSeek(r) \/ CommitWatch(r) \/ CommitGrade(r)
             \/ CommitLink(r) \/ Conflict(r) \/ AbortDeadlock(r) \/ Fail(r)
    <3>1. End(r)
      BY <2>3 DEF RefuseBatch, RefuseSeek, CommitWatch, CommitGrade, CommitLink, Conflict,
         AbortDeadlock, Fail
    <3>2. QED
      BY <1>2, <3>1
  <2>4. QED
    BY <1>6, <1>7, <2>1, <2>2, <2>3 DEF RequestStep
<1>8. ASSUME NEW r \in Requests, NEW v \in Videos, OpenWindow(r, v)
      PROVE  Goal
  BY <1>8 DEF OpenWindow
<1>9. ASSUME NEW r \in Requests, NEW v \in Videos,
             StartLink(r, v) \/ \E to \in Reports : StartWatch(r, v, to)
      PROVE  Goal
  <2>1. ASSUME NEW to \in Nat
        PROVE  LET q0 == [Idle EXCEPT !.kind = "watch", !.video = v, !.to = to]
               IN  q0.kind # "sync" /\ q0 \in Request
    BY DEF Idle, NoWatch, Watch, Request, Phase
  <2>2. LET q0 == [Idle EXCEPT !.kind = "link", !.video = v]
        IN  q0.kind # "sync" /\ q0 \in Request
    BY DEF Idle, NoWatch, Watch, Request, Phase
  <2>3. QED
    BY <1>5, <1>9, <2>1, <2>2, OutboxAssumption DEF StartLink, StartWatch
<1>10. ASSUME NEW r \in Requests, NEW z \in Quizzes, StartGrade(r, z)
       PROVE  Goal
  <2>1. LET q0 == [Idle EXCEPT !.kind = "grade", !.quiz = z]
        IN  q0.kind # "sync" /\ q0 \in Request
    BY DEF Idle, NoWatch, Watch, Request, Phase
  <2>2. QED
    BY <1>5, <1>10, <2>1 DEF StartGrade
<1>11. QED
  BY <1>1, <1>7, <1>8, <1>9, <1>10 DEF ServerStep

LEMMA SendingStep ==
  ASSUME TypeOK, ServerInv, SendingStands, [Next]_vars
  PROVE  SendingStands'
<1>0. /\ acked \subseteq acked'
      /\ sending.slot \in Requests \cup {None} /\ None \notin Requests
      /\ req \in [Requests -> Request]
  BY ServerKept, OutboxAssumption DEF TypeOK, ServerTypeOK
<1>1. CASE UNCHANGED <<sending, req>>
  BY <1>0, <1>1 DEF SendingStands
<1>2. CASE ServerStep
  <2>1. sending' = sending
    BY <1>2 DEF ServerStep, AppUnchanged
  <2>2. QED
    BY <1>0, <1>2, <2>1, SyncsContinue DEF SendingStands
<1>3. ASSUME NEW r \in Requests, Synchronize(r)
      PROVE  SendingStands'
  <2>1. sending' = [pc |-> "sent", slot |-> r, batch |-> Oldest(pending), answer |-> {}]
    BY <1>3 DEF Synchronize, NotSending
  <2>2. req'[r] = [[Idle EXCEPT !.kind = "sync", !.batch = Oldest(pending)] EXCEPT !.pc = "course"]
    BY <1>0, <1>3 DEF Synchronize, StartSync, Begin
  <2>3. req'[r].batch = Oldest(pending)
    BY <2>2 DEF Idle
  <2>4. QED
    BY <2>1, <2>3 DEF SendingStands
<1>4. ASSUME NEW r \in Requests, Answer(r)
      PROVE  SendingStands'
  <2>1. /\ req[r].kind = "sync" /\ acked' = acked \cup req[r].batch
        /\ \A p \in Requests \ {r} : req'[p] = req[p]
    BY <1>0, <1>4 DEF Answer, CommitSync, CanWrite, End
  <2>2. CASE sending.slot = r
    <3>1. sending' = [sending EXCEPT !.pc = "answered", !.slot = None, !.answer = Progress']
      BY <1>4, <2>2 DEF Answer
    <3>2. sending'.slot = None /\ sending'.batch = sending.batch
      BY <3>1 DEF TypeOK
    <3>3. req[r].batch = sending.batch
      BY <1>0, <2>1, <2>2 DEF SendingStands
    <3>4. QED
      BY <2>1, <3>2, <3>3 DEF SendingStands
  <2>3. CASE sending.slot # r
    <3>1. sending' = sending
      BY <1>4, <2>3 DEF Answer
    <3>2. QED
      BY <1>0, <2>1, <2>3, <3>1 DEF SendingStands
  <2>4. QED
    BY <2>2, <2>3
<1>5. CASE StoreSync \/ LoseSync
  <2>1. sending' = NotSending
    BY <1>5 DEF StoreSync, LoseSync
  <2>2. QED
    BY <2>1 DEF NotSending, SendingStands
<1>6. QED
  BY <1>1, <1>2, <1>3, <1>4, <1>5 DEF Next, AppStep, RecordPosition, RecordCompletion, Record,
     Fetch, StoreFetch, LoseFetch, vars, serverVars

LEMMA LossStep ==
  ASSUME TypeOK, ServerInv, SendingStands, NothingRecordedIsLost, [Next]_vars
  PROVE  NothingRecordedIsLost'
<1>0. acked \subseteq acked' /\ acked \subseteq Mutations /\ made \subseteq Mutations /\ pending \subseteq made
  BY ServerKept DEF TypeOK, ServerTypeOK
<1>1. CASE made' = made /\ pending \subseteq pending' \cup acked'
  BY <1>0, <1>1 DEF NothingRecordedIsLost
<1>2. ASSUME NEW m \in Mutations, Record(m)
      PROVE  NothingRecordedIsLost'
  <2> DEFINE P == pending \cup {m}
  <2>1. /\ made' = made \cup {m} /\ pending' = Kept(P) /\ acked' = acked
        /\ \A n \in made : n.id < m.id
    BY <1>2 DEF Record, serverVars
  <2>2. m.id \in Nat /\ P \in SUBSET Mutations /\ \A n \in P : n.id <= m.id
    BY <1>0, <2>1, LessonAssumption
  <2> HIDE DEF P
  <2>3. \A n \in P : \/ n \in Kept(P)
                     \/ /\ n.kind = "position"
                        /\ \E k \in Kept(P) : k.lesson = n.lesson /\ k.id > n.id
    BY <2>2, KeptCovers
  <2>4. ASSUME NEW x \in made'
        PROVE  \/ x \in Kept(P) \cup acked
               \/ /\ x.kind = "position"
                  /\ \E k \in Kept(P) \cup acked : k.lesson = x.lesson /\ k.id > x.id
    <3>1. CASE x \in P
      BY <2>3, <3>1
    <3>2. CASE x \notin P
      <4>1. x \in made /\ x \notin pending
        BY <2>1, <3>2 DEF P
      <4>2. CASE x \in acked
        BY <4>2
      <4>3. CASE x \notin acked
        <5>1. PICK n \in pending \cup acked : x.kind = "position" /\ n.lesson = x.lesson /\ n.id > x.id
          BY <4>1, <4>3 DEF NothingRecordedIsLost
        <5>2. CASE n \in Kept(P) \cup acked
          BY <5>1, <5>2
        <5>3. CASE n \notin Kept(P) \cup acked
          <6>1. PICK k \in Kept(P) : k.lesson = n.lesson /\ k.id > n.id
            BY <2>3, <5>1, <5>3 DEF P
          <6>2. Kept(P) \subseteq P
            BY <2>2, KeptCovers
          <6>3. k.id \in Nat /\ n.id \in Nat /\ x.id \in Nat
            BY <1>0, <2>2, <4>1, <6>2, LessonAssumption
          <6>4. k.id > x.id
            BY <5>1, <6>1, <6>3
          <6>5. QED
            BY <5>1, <6>1, <6>4
        <5>4. QED
          BY <5>2, <5>3
      <4>4. QED
        BY <4>2, <4>3
    <3>3. QED
      BY <3>1, <3>2
  <2>5. QED
    BY <2>1, <2>4 DEF NothingRecordedIsLost
<1>3. CASE StoreSync
  <2>1. sending.batch \subseteq acked' /\ pending' = pending \ sending.batch /\ made' = made
    BY <1>0, <1>3 DEF StoreSync, Remaining, SendingStands
  <2>2. QED
    BY <1>1, <2>1
<1>4. CASE ServerStep \/ UNCHANGED vars
  BY <1>1, <1>4 DEF ServerStep, AppUnchanged, vars
<1>5. CASE LoseSync \/ Fetch \/ StoreFetch \/ LoseFetch \/ \E r \in Requests : Synchronize(r) \/ Answer(r)
  BY <1>1, <1>5 DEF LoseSync, Fetch, StoreFetch, LoseFetch, Synchronize, Answer, StoreUnchanged
<1>6. QED
  BY <1>2, <1>3, <1>4, <1>5 DEF Next, AppStep, RecordPosition, RecordCompletion

----------------------------------------------------------------------------
(* Theorems                                                                *)

LEMMA LearnStart ==
  ASSUME Init
  PROVE  LearnInv
<1>1. ServerInv
  BY ServerStart DEF Init
<1>2. TypeOK
  BY <1>1, FS_EmptySet, OutboxAssumption DEF Init, TypeOK, ServerInv, NotSending, NotFetching
<1>3. SendingStands /\ NothingRecordedIsLost
  BY DEF Init, NotSending, SendingStands, NothingRecordedIsLost
<1>4. QED
  BY <1>1, <1>2, <1>3 DEF LearnInv

LEMMA LearnKept ==
  ASSUME LearnInv, [Next]_vars
  PROVE  LearnInv'
BY ServerKept, TypeStep, SendingStep, LossStep DEF LearnInv

\* The inductive invariant: the locks are exclusive, what requests have established under
\* them still holds, and the outbox covers what the back end has not recorded (sync_progress,
\* save_watch, grade_submission, _record, _synchronize).
THEOREM ProgressIsKept == Spec => []LearnInv
<1>1. Init => LearnInv
  BY LearnStart
<1>2. LearnInv /\ [Next]_vars => LearnInv'
  BY LearnKept
<1>3. QED
  BY <1>1, <1>2, PTL DEF Spec

\* Every variable of the back end and of the app keeps its type.
THEOREM LearningTypeCorrect == Spec => []TypeOK
<1>1. LearnInv => TypeOK
  BY DEF LearnInv
<1>2. QED
  BY <1>1, ProgressIsKept, PTL

\* No writer completes a lesson whose videos and quizzes are not done.
THEOREM CompletionsAreEarned == Spec => []NoUnearnedCompletion
<1>1. LearnInv => NoUnearnedCompletion
  BY DEF LearnInv, ServerInv
<1>2. QED
  BY <1>1, ProgressIsKept, PTL

\* Nobody watches faster than at double speed: what a video counts as watched fits in its
\* windows.
THEOREM WatchingTakesItsTime == Spec => []WatchedTimeIsReal
<1>1. LearnInv => WatchedTimeIsReal
  BY DEF LearnInv, ServerInv, WatchDated, Dated, WatchedTimeIsReal
<1>2. QED
  BY <1>1, ProgressIsKept, PTL

\* What was recorded is in the outbox or at the back end, or a later position of the lesson is.
THEOREM RecordingsSurvive == Spec => []NothingRecordedIsLost
<1>1. LearnInv => NothingRecordedIsLost
  BY DEF LearnInv
<1>2. QED
  BY <1>1, ProgressIsKept, PTL

\* Two synchronisations never stage one mutation, since both hold the course's lock.
THEOREM MutationsAreStagedOnce == Spec => []StagedMutationsAreNew
<1>1. LearnInv => StagedMutationsAreNew
  BY DEF LearnInv, ServerInv, CourseApart, HoldsCourse, StagedMutationsAreNew
<1>2. QED
  BY <1>1, ProgressIsKept, PTL

\* A completion and what was watched never go back, and a position only in a step that
\* grades a quiz of its lesson, to the duration that the lesson's author gave.
THEOREM ProgressNeverShrinks == Spec => ProgressOnlyGrows
<1>1. LearnInv /\ [Next]_vars =>
        [/\ \A l \in Lessons :
              /\ row[l].done => row'[l].done
              /\ \/ row'[l].pos >= row[l].pos
                 \/ /\ \E r \in Requests : CommitGrade(r) /\ l \in req[r].rows
                    /\ row'[l].pos = Duration[l]
         /\ \A v \in Videos : /\ watch'[v].furthest >= watch[v].furthest
                              /\ watch'[v].at >= watch[v].at]_vars
  BY ServerKept DEF LearnInv, RowsGrow, WatchesGrow
<1>2. QED
  BY <1>1, ProgressIsKept, PTL DEF Spec, ProgressOnlyGrows

\* Every wait is for a request that is further on, except that of an author who links a
\* video for a learner who watches it.
LEMMA WaitsLead ==
  ASSUME RequestsFormed, NEW r \in Requests, NEW q \in Requests, WaitsFor(r, q)
  PROVE  /\ req[r].pc = "course" => req[q].pc \in {"merging", "completing", "writing"}
         /\ req[r].pc = "asset" => req[q].pc \in {"completing", "writing"}
         /\ req[r].pc \in {"merging", "completing"} => req[q].pc = "writing"
         /\ req[r].pc \in {"writing", "lesson"} => req[q].pc = "linking"
         /\ req[r].pc = "linking" =>
              req[r].kind = "link" /\ req[q].kind = "watch" /\ req[q].video = req[r].video
         /\ req[r].pc \in {"course", "asset", "merging", "completing", "writing", "lesson", "linking"}
BY DEF WaitsFor, HoldsCourse, HoldsAsset, HoldsRow, HoldsLesson, RequestsFormed, Formed

\* Requests wait in a circle only around a link of a video that is being watched.
THEOREM CirclesLink == Spec => []OnlyLinksDeadlock
<1>1. ASSUME RequestsFormed, NEW S \in SUBSET Requests, Deadlocked(S)
      PROVE  \E r, q \in S :
               req[r].kind = "link" /\ req[q].kind = "watch" /\ req[q].video = req[r].video
  <2>1. S # {} /\ \A r \in S : \E q \in S : WaitsFor(r, q)
    BY <1>1 DEF Deadlocked
  <2>2. ASSUME NEW r \in S, req[r].pc = "linking"
        PROVE  \E q \in S :
                 req[r].kind = "link" /\ req[q].kind = "watch" /\ req[q].video = req[r].video
    BY <1>1, <2>1, <2>2, WaitsLead
  <2>3. \A r \in S : req[r].pc \in {"writing", "lesson"} => \E q \in S : req[q].pc = "linking"
    BY <1>1, <2>1, WaitsLead
  <2>4. \A r \in S : req[r].pc \in {"merging", "completing"} => \E q \in S : req[q].pc = "writing"
    BY <1>1, <2>1, WaitsLead
  <2>5. \A r \in S : req[r].pc \in {"course", "asset"} =>
          \E q \in S : req[q].pc \in {"merging", "completing", "writing"}
    BY <1>1, <2>1, WaitsLead
  <2>6. \A r \in S :
          req[r].pc \in {"course", "asset", "merging", "completing", "writing", "lesson", "linking"}
    BY <1>1, <2>1, WaitsLead
  <2>7. \E r \in S : req[r].pc = "linking"
    BY <2>1, <2>3, <2>4, <2>5, <2>6
  <2>8. QED
    BY <2>2, <2>7
<1>2. LearnInv => OnlyLinksDeadlock
  BY <1>1 DEF LearnInv, ServerInv, OnlyLinksDeadlock
<1>3. QED
  BY <1>2, ProgressIsKept, PTL
=============================================================================
