--------------------------- MODULE LessonProgress ---------------------------
(***************************************************************************)
(* The progress of one learner in one course: the back end's three writers *)
(* of lesson_progress, which are progress synchronisation (app/api.py),    *)
(* video checkpoints (app/media_workflow.py) and grading (app/services.py),*)
(* and the author who links a video to a content item (app/academic.py),   *)
(* whose locks meet theirs.                                                *)
(*                                                                         *)
(* A request is a database transaction at READ COMMITTED that is cut where *)
(* it waits for a lock or commits. The learner's enrollment and access,    *)
(* and the published content of the lessons, do not change.                *)
(***************************************************************************)
EXTENDS Integers, FiniteSets, FiniteSetsExt

CONSTANTS
    Lessons,
    Videos, LessonOf,     \* the videos that lessons require, and their lessons
    Quizzes, QuizzesOf,   \* the quizzes that each lesson requires
    Explicit,             \* lessons with a note or a resource, which the learner completes
    Bare,                 \* quiz lessons without content items
    Length,               \* a video's duration, in seconds
    Duration,             \* what an author gives as a lesson's duration; 0 unless he does
    Window,               \* seconds between checkpoints that count at most (30)
    Mutations,            \* what the app can have recorded
    Requests,             \* request slots
    None,                 \* no video, quiz or request
    MaxTime               \* bound on the clock

ASSUME LessonAssumption ==
    /\ LessonOf \in [Videos -> Lessons]
    /\ QuizzesOf \in [Lessons -> SUBSET Quizzes]
    /\ Explicit \subseteq Lessons /\ Bare \subseteq Lessons
    /\ Length \in [Videos -> Nat \ {0}]
    /\ None \notin Videos \cup Quizzes
    /\ Duration \in [Lessons -> Nat] /\ Window \in Nat /\ MaxTime \in Nat \ {0}
    /\ IsFiniteSet(Mutations)
    /\ Mutations \subseteq [id: Nat, lesson: Lessons, kind: {"position", "completion"}, pos: Nat]

VARIABLES
    clock,
    row,        \* lesson_progress
    acked,      \* progress_mutations
    watch,      \* video_watch_progress; since is when its first window opened
    passed,     \* the quizzes with a submitted attempt that passed
    linked,     \* media_assets.content_item_id is set
    req         \* the requests in flight

serverVars == <<clock, row, acked, watch, passed, linked, req>>

Row == [known: BOOLEAN, pos: Nat, done: BOOLEAN]
Watch == [known: BOOLEAN, furthest: Nat, done: BOOLEAN, at: Nat, since: Nat]

\* Where a request is: waiting for the course's lock, merging a batch, waiting for
\* a video, completing lessons, about to commit; an author's request waiting for the
\* lesson, then for the video.
Phase == {"idle", "course", "merging", "asset", "completing", "writing", "lesson", "linking"}
Request == [pc: Phase, kind: {"none", "sync", "watch", "grade", "link"}, batch: SUBSET Mutations,
            video: Videos \cup {None}, quiz: Quizzes \cup {None}, to: Nat,
            rows: SUBSET Lessons, fresh: SUBSET Lessons, watched: Watch]

ServerTypeOK ==
    /\ clock \in 1..MaxTime
    /\ row \in [Lessons -> Row]
    /\ acked \subseteq Mutations
    /\ watch \in [Videos -> Watch]
    /\ passed \subseteq Quizzes
    /\ linked \subseteq Videos
    /\ req \in [Requests -> Request]

NoWatch == [known |-> FALSE, furthest |-> 0, done |-> FALSE, at |-> 0, since |-> 0]

Idle == [pc |-> "idle", kind |-> "none", batch |-> {}, video |-> None, quiz |-> None, to |-> 0,
         rows |-> {}, fresh |-> {}, watched |-> NoWatch]

ServerInit ==
    /\ clock = 1
    /\ row = [l \in Lessons |-> [known |-> FALSE, pos |-> 0, done |-> FALSE]]
    /\ acked = {}
    /\ watch = [v \in Videos |-> NoWatch]
    /\ passed = {}
    /\ linked = {}
    /\ req = [r \in Requests |-> Idle]

----------------------------------------------------------------------------
(* Locks, each held to the end of its transaction                          *)

\* pg_advisory_xact_lock('progress:<learner>:<course>'). Checkpoints do not take it.
HoldsCourse(q) == req[q].kind \in {"sync", "grade"} /\ req[q].pc \in {"merging", "completing", "writing"}

\* Mutant: a synchronisation locks the videos of the lessons it writes.
HoldsAssetToo(q, v) == req[q].kind \in {"sync", "watch"} /\ req[q].pc = "writing"
                       /\ LessonOf[v] \in req[q].rows \cup {LessonOf[x] : x \in Videos \cap {req[q].video}}

\* The video's row, SELECTed FOR UPDATE with the learner's watch row.
HoldsAsset(q, v) == /\ req[q].kind = "watch" /\ req[q].video = v
                    /\ req[q].pc \in {"completing", "writing"}

\* A row of lesson_progress that was there to be locked.
HoldsRow(q, l) == req[q].pc = "writing" /\ l \in req[q].rows \ req[q].fresh

\* The lesson, locked by its author. A row that refers to the lesson for the first time
\* waits for it.
HoldsLesson(q, l) == req[q].pc = "linking" /\ LessonOf[req[q].video] = l

Others(r) == Requests \ {r}

\* Mutant: no advisory lock.
CourseFreeAlways(r) == req[r].pc # "idle"
CourseFree(r) == \A q \in Others(r) : ~HoldsCourse(q)
\* Mutant: neither the video nor the watch row is locked.
AssetFreeAlways(r) == req[r].pc # "idle"
AssetFree(r) == \A q \in Others(r) : ~HoldsAsset(q, req[r].video)
RowsFree(r, L) == \A q \in Others(r), l \in L : ~HoldsRow(q, l)
LessonsFree(r, L) == \A q \in Others(r), l \in L : ~HoldsLesson(q, l)

\* The request ends, with or without a commit.
End(r) == req' = [req EXCEPT ![r] = Idle]

Begin(r, pc, q) == req[r].pc = "idle" /\ req' = [req EXCEPT ![r] = [q EXCEPT !.pc = pc]]

Goto(r, pc) == req' = [req EXCEPT ![r].pc = pc]

TablesUnchanged == UNCHANGED <<clock, row, acked, watch, passed, linked>>

----------------------------------------------------------------------------
(* What a lesson requires                                                  *)

\* required_quizzes_passed, for the quizzes P and the videos V one counts on.
RequiredDone(l, P, V) == QuizzesOf[l] \subseteq P /\ \A v \in Videos : LessonOf[v] = l => v \in V

Watched == {v \in Videos : watch[v].done}

\* Mutant: any completion that the app reports is taken.
AcceptsAny(m) == m \in Mutations

\* A completion is checked, also when it is already on record.
Accepts(m) == m.kind = "completion" => m.lesson \notin Bare /\ RequiredDone(m.lesson, passed, Watched)

\* The lessons that passing z completes: its own and nothing but quizzes in them.
GradeCompletes(z) == {l \in Lessons \ Explicit :
    z \in QuizzesOf[l] /\ (\A v \in Videos : LessonOf[v] # l)
        /\ RequiredDone(l, passed \cup {z}, Watched)}

----------------------------------------------------------------------------
(* POST /courses/{id}/progress/sync                                        *)

StartSync(r, batch) ==
    /\ Begin(r, "course", [Idle EXCEPT !.kind = "sync", !.batch = batch])
    /\ TablesUnchanged

LockCourse(r) ==
    /\ req[r].pc = "course"
    /\ CourseFree(r)
    /\ Goto(r, IF req[r].kind = "sync" THEN "merging" ELSE "completing")
    /\ TablesUnchanged

NewIn(q) == q.batch \ acked

\* The rows are locked one by one; those that are not there are staged.
TakeRows(r, L) ==
    /\ RowsFree(r, L)
    /\ req' = [req EXCEPT ![r] = [@ EXCEPT !.pc = "writing", !.rows = L,
                                           !.fresh = {l \in L : ~row[l].known}]]
    /\ TablesUnchanged

Merge(r) ==
    /\ req[r].pc = "merging"
    /\ \A m \in req[r].batch : Accepts(m)
    /\ TakeRows(r, {m.lesson : m \in NewIn(req[r])})

\* 403 SERVER_COMPLETION_REQUIRED: nothing of the batch is kept.
RefuseBatch(r) ==
    /\ req[r].pc = "merging"
    /\ \E m \in req[r].batch : ~Accepts(m)
    /\ End(r)
    /\ TablesUnchanged

Furthest(x, P) == Max({x} \cup P)

\* What the mutations make of the row. A position is cut to the duration on record, which
\* cuts nothing: the app sends its own with it, and no position past that.
Merged(l, M) == [known |-> TRUE,
                 pos |-> Furthest(row[l].pos, {m.pos : m \in M}),
                 done |-> row[l].done \/ \E m \in M : m.kind = "completion"]

CanWrite(r, kind) ==
    /\ req[r].pc = "writing" /\ req[r].kind = kind
    /\ LessonsFree(r, req[r].fresh)
    /\ \A l \in req[r].fresh : ~row[l].known

CommitSync(r) ==
    LET q == req[r]
    IN  /\ CanWrite(r, "sync")
        /\ row' = [l \in Lessons |-> IF l \in q.rows
                     THEN Merged(l, {m \in NewIn(q) : m.lesson = l}) ELSE row[l]]
        /\ acked' = acked \cup q.batch
        /\ End(r)
        /\ UNCHANGED <<clock, watch, passed, linked>>

\* Another request has inserted the row since: the unique index refuses this one (500).
Conflict(r) ==
    /\ req[r].pc = "writing"
    /\ \E l \in req[r].fresh : row[l].known
    /\ End(r)
    /\ TablesUnchanged

----------------------------------------------------------------------------
(* GET and POST /playback/{asset}/progress                                 *)

StartWatch(r, v, to) ==
    /\ Begin(r, "asset", [Idle EXCEPT !.kind = "watch", !.video = v, !.to = to])
    /\ TablesUnchanged

\* A first checkpoint finds no row and starts one: its window opens now.
CurrentWatch(v) == IF watch[v].known THEN watch[v]
                   ELSE [NoWatch EXCEPT !.known = TRUE, !.at = clock, !.since = clock]

\* Opening the player begins a window; idle time is never banked. Nothing is awaited
\* between the lock and the commit.
OpenWindow(r, v) ==
    /\ req[r].pc = "idle"
    /\ \A q \in Others(r) : ~HoldsAsset(q, v)
    /\ watch' = [watch EXCEPT ![v] = [CurrentWatch(v) EXCEPT !.at = clock]]
    /\ UNCHANGED <<clock, row, acked, passed, linked, req>>

LeastOf(a, b) == IF a < b THEN a ELSE b

Allowance(w) == 2 * LeastOf(Window, clock - w.at)

\* Mutant: the tolerance is added to what has been watched.
ReachesTolerantly(v, w, to) == LeastOf(LeastOf(to, Length[v]), w.furthest + Allowance(w) + 2)
\* A jump within the tolerance of two seconds is accepted and cut to the allowance.
Reaches(v, w, to) == LeastOf(LeastOf(to, Length[v]), w.furthest + Allowance(w))

\* advance_watch
Advanced(v, w, to) ==
    LET far == LET p == Reaches(v, w, to) IN IF p > w.furthest THEN p ELSE w.furthest
    IN  [w EXCEPT !.furthest = far, !.at = clock,
                  !.done = w.done \/ 20 * far >= 19 * Length[v]]

SeeksForward(w, to) == to > w.furthest + Allowance(w) + 2

\* Waiting for other transactions is over with the video's lock.
Checkpoint(r) ==
    LET q == req[r]
        l == LessonOf[q.video]
        old == CurrentWatch(q.video)
        new == Advanced(q.video, old, q.to)
    IN  /\ q.pc = "asset" /\ AssetFree(r)
        /\ ~SeeksForward(old, q.to)
        /\ req' = [req EXCEPT ![r] = [@ EXCEPT
             !.watched = new, !.to = Reaches(q.video, old, q.to),
             !.pc = IF /\ new.done /\ l \notin Explicit
                       /\ RequiredDone(l, passed, Watched \cup {q.video})
                    THEN "completing" ELSE "writing"]]
        /\ TablesUnchanged

\* 422 FORWARD_SEEK_LIMIT
RefuseSeek(r) ==
    /\ req[r].pc = "asset" /\ AssetFree(r)
    /\ SeeksForward(CurrentWatch(req[r].video), req[r].to)
    /\ End(r)
    /\ TablesUnchanged

\* The lessons that the video or the quiz completes.
Complete(r) ==
    /\ req[r].pc = "completing"
    /\ TakeRows(r, IF req[r].kind = "watch" THEN {LessonOf[req[r].video]}
                   ELSE GradeCompletes(req[r].quiz))

\* A row that is there keeps its position.
CommitWatch(r) ==
    LET q == req[r]
    IN  /\ CanWrite(r, "watch")
        /\ watch' = [watch EXCEPT ![q.video] = q.watched]
        /\ row' = [l \in Lessons |-> IF l \in q.rows
                     THEN [known |-> TRUE, done |-> TRUE,
                           pos |-> IF row[l].known THEN row[l].pos ELSE q.to]
                     ELSE row[l]]
        /\ End(r)
        /\ UNCHANGED <<clock, acked, passed, linked>>

----------------------------------------------------------------------------
(* Grading of a submission that passes (grade_submission)                  *)

StartGrade(r, z) ==
    /\ Begin(r, "course", [Idle EXCEPT !.kind = "grade", !.quiz = z])
    /\ TablesUnchanged

\* Whatever the position was, it is now the duration that the author gave.
CommitGrade(r) ==
    LET q == req[r]
    IN  /\ CanWrite(r, "grade")
        /\ passed' = passed \cup {q.quiz}
        /\ row' = [l \in Lessons |-> IF l \in q.rows
                     THEN [known |-> TRUE, pos |-> Duration[l], done |-> TRUE] ELSE row[l]]
        /\ End(r)
        /\ UNCHANGED <<clock, acked, watch, linked>>

----------------------------------------------------------------------------
(* Linking a video to a content item of its lesson (save_content)          *)

StartLink(r, v) ==
    /\ v \notin linked
    /\ Begin(r, "lesson", [Idle EXCEPT !.kind = "link", !.video = v])
    /\ TablesUnchanged

LockLesson(r) ==
    /\ req[r].pc = "lesson"
    /\ LessonsFree(r, {LessonOf[req[r].video]})
    /\ Goto(r, "linking")
    /\ TablesUnchanged

\* The UPDATE of the video waits for whoever watches it.
CommitLink(r) ==
    /\ req[r].pc = "linking"
    /\ AssetFree(r)
    /\ linked' = linked \cup {req[r].video}
    /\ End(r)
    /\ UNCHANGED <<clock, row, acked, watch, passed>>

----------------------------------------------------------------------------
WaitsFor(r, q) ==
    /\ r # q
    /\ \/ req[r].pc = "course" /\ HoldsCourse(q)
       \/ req[r].pc \in {"asset", "linking"} /\ HoldsAsset(q, req[r].video)
       \/ /\ req[r].pc = "merging"
          /\ \E m \in NewIn(req[r]) : HoldsRow(q, m.lesson)
       \/ /\ req[r].pc = "completing" /\ req[r].kind = "watch"
          /\ HoldsRow(q, LessonOf[req[r].video])
       \/ /\ req[r].pc = "completing" /\ req[r].kind = "grade"
          /\ \E l \in GradeCompletes(req[r].quiz) : HoldsRow(q, l)
       \/ req[r].pc = "writing" /\ \E l \in req[r].fresh : HoldsLesson(q, l)
       \/ req[r].pc = "lesson" /\ HoldsLesson(q, LessonOf[req[r].video])

Deadlocked(S) == S # {} /\ \A r \in S : \E q \in S : WaitsFor(r, q)

\* PostgreSQL ends one of the transactions of a cycle.
AbortDeadlock(r) ==
    /\ \E S \in SUBSET Requests : r \in S /\ Deadlocked(S)
    /\ End(r)
    /\ TablesUnchanged

\* A dropped connection, a worker that dies, a lock that is not granted in time.
Fail(r) ==
    /\ req[r].pc # "idle"
    /\ End(r)
    /\ TablesUnchanged

Tick ==
    /\ clock < MaxTime
    /\ clock' = clock + 1
    /\ UNCHANGED <<row, acked, watch, passed, linked, req>>

RequestStep(r) ==
    \/ LockCourse(r) \/ Merge(r) \/ RefuseBatch(r)
    \/ Checkpoint(r) \/ RefuseSeek(r) \/ Complete(r) \/ CommitWatch(r)
    \/ CommitGrade(r)
    \/ LockLesson(r) \/ CommitLink(r)
    \/ Conflict(r) \/ AbortDeadlock(r)
=============================================================================
