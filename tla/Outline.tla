------------------------------ MODULE Outline ------------------------------
(***************************************************************************)
(* The outline of a course as its authors edit it in the CMS (app/api.py): *)
(* the modules of a course, the lessons of a module or the questions of an *)
(* assessment. The three have the same handlers but for what guards a      *)
(* deletion, which rows learners refer to, and the course's duration. One  *)
(* such list is modelled, of any of the three kinds.                       *)
(*                                                                         *)
(* A request is a transaction at READ COMMITTED that is cut where it waits *)
(* for a row. A flush updates rows in the order of their primary keys, one *)
(* by one, and the unique constraint on positions looks at every one.      *)
(***************************************************************************)
EXTENDS Integers, FiniteSets, SequencesExt

CONSTANTS
    Nodes,          \* primary keys of the siblings: numbers, as their order matters
    Studied,        \* those that learners may get to
    Early,          \* those of the siblings that are there from the start
    Requests,       \* request slots
    Sizes,          \* durations of lessons
    Kinds,          \* the kinds of lists
    Parking,        \* what a reorder adds to a position when it parks it (1000)
    MaxPosition     \* bound on the positions that authors go on editing with

NoNode == -1

ASSUME OutlineAssumption ==
    /\ Nodes \subseteq Nat /\ IsFiniteSet(Nodes) /\ Early \cup Studied \subseteq Nodes
    /\ IsFiniteSet(Requests)
    /\ Sizes \subseteq Nat /\ NoNode \notin Nodes
    /\ Kinds \subseteq {"module", "lesson", "question"}
    /\ Parking \in Nat /\ MaxPosition \in Nat

VARIABLES
    kind,       \* what the siblings are
    course,     \* the row of the course
    row,        \* the rows of the siblings
    learned,    \* those that rows of learners refer to
    req         \* the requests in flight

vars == <<kind, course, row, learned, req>>

\* A primary key is used once: its row is still to come, there, or gone.
Row == [is: {"new", "there", "gone"}, position: Int, size: Nat]

\* Where a request is: waiting for a row, with a position for a new row, with the list of
\* its author, locking rows, about to renumber them, about to add durations up, waiting
\* for the course's row, waiting for the rows that go with the course.
Phase == {"idle", "row", "placing", "listed", "locking", "totalling", "course", "cascading"}

Request == [pc: Phase, op: {"none", "create", "update", "delete", "reorder", "deleteCourse"},
            node: Nodes \cup {NoNode}, seen: SUBSET Nodes, todo: SUBSET Nodes,
            held: SUBSET Nodes, mine: [Nodes -> Row], total: Nat]

There(f) == {n \in Nodes : f[n].is = "there"}

TypeOK ==
    /\ kind \in Kinds
    /\ course \in [there: BOOLEAN, duration: Nat]
    /\ row \in [Nodes -> Row]
    /\ learned \subseteq There(row)
    /\ req \in [Requests -> Request]

NewRow == [is |-> "new", position |-> 0, size |-> 0]

Gone == [is |-> "gone", position |-> 0, size |-> 0]

Idle == [pc |-> "idle", op |-> "none", node |-> NoNode, seen |-> {}, todo |-> {},
         held |-> {}, mine |-> [n \in Nodes |-> NewRow], total |-> 0]

Init ==
    /\ kind \in Kinds
    /\ course = [there |-> TRUE, duration |-> 0]
    /\ \E list \in SetToSeqs(Early) :
         row = [n \in Nodes |-> IF n \in Early
                                THEN [is |-> "there", size |-> 0,
                                      position |-> CHOOSE i \in DOMAIN list : list[i] = n]
                                ELSE NewRow]
    /\ learned = {}
    /\ req = [r \in Requests |-> Idle]

----------------------------------------------------------------------------
(* Lists                                                                   *)

Siblings == There(row)

Duration(f) == SumFunctionOnSet([n \in Nodes |-> f[n].size], There(f))

\* (SELECT max(position)) or 0
LastPosition ==
    IF Siblings = {} THEN 0
    ELSE CHOOSE p \in {row[n].position : n \in Siblings} :
           \A n \in Siblings : row[n].position <= p

\* Where n comes among the nodes of N, counted from 1.
Rank(n, N) == Cardinality({m \in N : row[m].position <= row[n].position})

\* A flush that turns f into g, row by row, meets the unique constraint: a row that keeps
\* its position, has its new one, or does not have it yet, is in the way of another.
Collides(f, g) ==
    \E n, m \in There(g) :
        /\ n # m /\ g[n] # f[n]
        /\ g[n].position = (IF m < n THEN g[m] ELSE f[m]).position

Parked(N) ==
    [n \in Nodes |-> IF n \in N
                     THEN [row[n] EXCEPT !.position = -((IF @ < 0 THEN -@ ELSE @) + Parking)]
                     ELSE row[n]]

\* The rows of N are parked, then those that are in the list numbered.
Reordered(list, N) ==
    [n \in Nodes |-> IF n \in N /\ \E i \in DOMAIN list : list[i] = n
                     THEN [row[n] EXCEPT !.position = CHOOSE i \in DOMAIN list : list[i] = n]
                     ELSE Parked(N)[n]]

----------------------------------------------------------------------------
(* Transactions                                                            *)

Others(r) == Requests \ {r}

\* Mutant: a deletion does not lock the row that it deletes.
FreeOfOthers(r, n) == \A q \in Others(r) : n \in req[q].held => req[q].op = "delete"

Free(r, n) == \A q \in Others(r) : n \notin req[q].held

\* The course is deleted by nobody else.
CourseFree(r) == \A q \in Others(r) : req[q].pc # "cascading"

\* What the request sees: what is committed, and its own rows.
View(r) == [n \in Nodes |-> IF n \in req[r].held THEN req[r].mine[n] ELSE row[n]]

\* Another request has written, or overwritten, a row with the position.
Undecided(r, p) ==
    \E q \in Others(r) : \E n \in req[q].held :
        /\ req[q].mine[n] # row[n]
        /\ \E w \in {row[n], req[q].mine[n]} : w.is = "there" /\ w.position = p

Occupied(p) == \E n \in Siblings : row[n].position = p

End(r) == req' = [req EXCEPT ![r] = Idle]

Abort(r) ==
    /\ End(r)
    /\ UNCHANGED <<kind, course, row, learned>>

\* Mutant: the foreign keys of learners' rows do not cascade.
CommitKeepingRows(r, f) ==
    /\ row' = f
    /\ End(r)
    /\ UNCHANGED <<kind, learned>>

\* The rows are written; what learners have of those that are gone goes with them.
Commit(r, f) ==
    /\ row' = f
    /\ learned' = learned \cap There(f)
    /\ End(r)
    /\ UNCHANGED kind

Begin(r, op, pc, q) ==
    /\ req[r].pc = "idle" /\ course.there
    /\ req' = [req EXCEPT ![r] = [q EXCEPT !.op = op, !.pc = pc]]
    /\ UNCHANGED <<kind, course, row, learned>>

Goto(r, q) ==
    /\ req' = [req EXCEPT ![r] = q]
    /\ UNCHANGED <<kind, course, row, learned>>

\* Lessons count for the duration of their course, which is added up before the commit.
Finish(r, q) ==
    IF kind = "lesson" THEN Goto(r, [q EXCEPT !.pc = "totalling"])
    ELSE /\ Commit(r, [n \in Nodes |-> IF n \in q.held THEN q.mine[n] ELSE row[n]])
         /\ UNCHANGED course

----------------------------------------------------------------------------
(* admin_create_module, admin_create_lesson, admin_create_question         *)

StartCreate(r, n, s) ==
    /\ row[n].is = "new" /\ \A q \in Requests : req[q].node # n
    /\ Begin(r, "create", "placing",
             [Idle EXCEPT !.node = n,
                          !.mine[n] = [is |-> "there", position |-> LastPosition + 1,
                                       size |-> IF kind = "lesson" THEN s ELSE 0]])

NewPosition(r) == req[r].mine[req[r].node].position

\* The foreign key waits for a deletion of the course, the unique index for the others.
CanPlace(r) == req[r].pc = "placing" /\ CourseFree(r) /\ ~Undecided(r, NewPosition(r))

Place(r) ==
    /\ CanPlace(r)
    /\ course.there /\ ~Occupied(NewPosition(r))
    /\ Finish(r, [req[r] EXCEPT !.held = {req[r].node}])

\* The course is gone, or another row took the position: the constraint fails (500).
CannotPlace(r) ==
    /\ CanPlace(r)
    /\ ~course.there \/ Occupied(NewPosition(r))
    /\ Abort(r)

----------------------------------------------------------------------------
(* Updates and deletions lock their row                                    *)

StartUpdate(r, n, s) ==
    /\ n \in Siblings
    /\ Begin(r, "update", "row",
             [Idle EXCEPT !.node = n, !.mine[n].size = IF kind = "lesson" THEN s ELSE 0])

\* guard_course_history; questions have no guard.
Guarded == kind \in {"module", "lesson"} /\ learned # {}

StartDelete(r, n) ==
    /\ n \in Siblings /\ ~Guarded
    /\ Begin(r, "delete", "row", [Idle EXCEPT !.node = n])

\* 404
Missing(r) ==
    /\ req[r].pc = "row" /\ Free(r, req[r].node)
    /\ req[r].node \notin Siblings
    /\ Abort(r)

Update(r) ==
    LET q == req[r]
    IN  /\ q.pc = "row" /\ q.op = "update"
        /\ Free(r, q.node) /\ q.node \in Siblings
        /\ Finish(r, [q EXCEPT !.held = {q.node},
                               !.mine[q.node] = [row[q.node] EXCEPT !.size = q.mine[q.node].size]])

\* The row is deleted; those of the others whose rank is not their position are numbered.
Delete(r) ==
    LET q == req[r]
        rest == Siblings \ {q.node}
    IN  /\ q.pc = "row" /\ q.op = "delete"
        /\ Free(r, q.node) /\ q.node \in Siblings
        /\ Goto(r, [q EXCEPT
             !.pc = "locking", !.held = {q.node},
             !.todo = {n \in rest : Rank(n, rest) # row[n].position},
             !.mine = [n \in Nodes |-> IF n \in rest
                                       THEN [row[n] EXCEPT !.position = Rank(n, rest)]
                                       ELSE Gone]])

\* The flush updates one row after the other, in the order of the keys.
Renumber(r, n) ==
    LET q == req[r]
    IN  /\ q.pc = "locking" /\ q.op = "delete"
        /\ n \in q.todo /\ \A m \in q.todo : n <= m
        /\ Free(r, n) /\ n \in Siblings
        /\ Goto(r, [q EXCEPT !.todo = @ \ {n}, !.held = @ \cup {n},
                             !.mine[n] = [row[n] EXCEPT !.position = q.mine[n].position]])

\* A row that was to be updated is gone (StaleDataError, 500).
Stale(r, n) ==
    /\ req[r].pc = "locking" /\ req[r].op = "delete" /\ n \in req[r].todo
    /\ Free(r, n) /\ n \notin Siblings
    /\ Abort(r)

Deleted(r) == [row EXCEPT ![req[r].node] = Gone]

FinishDelete(r) ==
    /\ req[r].pc = "locking" /\ req[r].op = "delete" /\ req[r].todo = {}
    /\ \A n \in req[r].held : ~Undecided(r, req[r].mine[n].position)
    /\ IF Collides(Deleted(r), View(r)) THEN Abort(r) ELSE Finish(r, req[r])

----------------------------------------------------------------------------
(* admin_reorder_modules, admin_reorder_lessons, admin_reorder_questions   *)

\* The editor shows an author the whole course, or the whole assessment.
Shown == Siblings

\* The author puts what is shown into some order.
StartReorder(r) ==
    /\ \A n \in Siblings : row[n].position \in -MaxPosition .. MaxPosition
    /\ Cardinality(Siblings) > 1
    /\ Begin(r, "reorder", "listed", [Idle EXCEPT !.seen = Shown])

Scan(r) ==
    /\ req[r].pc = "listed"
    /\ Goto(r, [req[r] EXCEPT !.pc = "locking", !.todo = Siblings])

LockSibling(r, n) ==
    LET q == req[r]
    IN  /\ q.pc = "locking" /\ q.op = "reorder" /\ n \in q.todo
        /\ Free(r, n)
        /\ Goto(r, IF n \in Siblings
                   THEN [q EXCEPT !.todo = @ \ {n}, !.held = @ \cup {n}, !.mine[n] = row[n]]
                   ELSE [q EXCEPT !.todo = @ \ {n}])

\* Mutant: a reorder adds up the duration of the course, too.
ReorderCounting(r, list) ==
    LET new == Reordered(list, req[r].held)
    IN  /\ req[r].pc = "locking" /\ req[r].op = "reorder" /\ req[r].todo = {}
        /\ \A n \in req[r].held : ~Undecided(r, new[n].position)
        /\ Finish(r, [req[r] EXCEPT !.mine = new])

Reorder(r, list) ==
    LET q == req[r]
        new == Reordered(list, q.held)
    IN  /\ q.pc = "locking" /\ q.op = "reorder" /\ q.todo = {}
        /\ \A n \in q.held : ~Undecided(r, new[n].position)
        /\ IF Collides(row, Parked(q.held)) \/ Collides(Parked(q.held), new)
           THEN Abort(r)
           ELSE Commit(r, new) /\ UNCHANGED course

----------------------------------------------------------------------------
(* The duration of the course                                              *)

\* An update that changes nothing is not sent.
Total(r) ==
    /\ req[r].pc = "totalling"
    /\ IF Duration(View(r)) = course.duration
       THEN Commit(r, View(r)) /\ UNCHANGED course
       ELSE Goto(r, [req[r] EXCEPT !.pc = "course", !.total = Duration(View(r))])

SaveDuration(r) ==
    /\ req[r].pc = "course" /\ req[r].op # "deleteCourse"
    /\ CourseFree(r)
    /\ course' = [course EXCEPT !.duration = req[r].total]
    /\ Commit(r, View(r))

----------------------------------------------------------------------------
(* The course                                                              *)

CreateCourse ==
    /\ ~course.there
    /\ course' = [there |-> TRUE, duration |-> 0]
    /\ UNCHANGED <<kind, row, learned, req>>

CanEditCourse == course.there /\ \A q \in Requests : req[q].pc # "cascading"

\* validate_course_for_publishing: every list of modules and lessons has members, and every
\* lesson a duration. Only an assessment that a certificate requires needs questions.
CanPublish ==
    /\ kind # "question" => Siblings # {}
    /\ kind = "lesson" => \A n \in Siblings : row[n].size > 0

\* admin_publish_course_endpoint: the course is validated, its duration added up.
Publish ==
    /\ CanEditCourse /\ CanPublish
    /\ course' = [course EXCEPT !.duration = IF kind = "lesson" THEN Duration(row) ELSE @]
    /\ UNCHANGED <<kind, row, learned, req>>

StartDeleteCourse(r) ==
    /\ learned = {}
    /\ Begin(r, "deleteCourse", "course", Idle)

LockCourse(r) ==
    /\ req[r].pc = "course" /\ req[r].op = "deleteCourse"
    /\ CourseFree(r)
    /\ IF course.there THEN Goto(r, [req[r] EXCEPT !.pc = "cascading"]) ELSE Abort(r)

\* The rows of the list are deleted with the course.
Cascade(r) ==
    /\ req[r].pc = "cascading"
    /\ \A q \in Others(r) : req[q].held = {}
    /\ course' = [there |-> FALSE, duration |-> 0]
    /\ Commit(r, [n \in Nodes |-> IF n \in Siblings THEN Gone ELSE row[n]])

----------------------------------------------------------------------------
(* Learners                                                                *)

\* The first progress of a lesson, the first response to a question: the new row refers
\* to one of the list, or to one that goes with it.
Learn(n) ==
    /\ n \in (Siblings \cap Studied) \ learned
    /\ CanEditCourse
    /\ \A q \in Requests : n \in req[q].held => kind = "module" /\ req[q].mine[n].is = "there"
    /\ learned' = learned \cup {n}
    /\ UNCHANGED <<kind, course, row, req>>

----------------------------------------------------------------------------
WaitsFor(r, q) ==
    /\ r # q
    /\ \/ req[r].pc = "row" /\ req[r].node \in req[q].held
       \/ req[r].pc = "locking" /\ req[r].todo # {} /\ req[r].todo \cap req[q].held # {}
       \/ req[r].pc \in {"placing", "course"} /\ req[q].pc = "cascading"
       \/ req[r].pc = "cascading" /\ req[q].held # {}

Fail(r) == req[r].pc # "idle" /\ Abort(r)

Next ==
    \/ \E r \in Requests :
         \/ \E n \in Nodes, s \in Sizes : StartCreate(r, n, s) \/ StartUpdate(r, n, s)
         \/ StartReorder(r) \/ StartDeleteCourse(r)
         \/ Place(r) \/ CannotPlace(r) \/ Missing(r) \/ Update(r) \/ Delete(r)
         \/ \E n \in Nodes : \/ StartDelete(r, n) \/ Renumber(r, n) \/ Stale(r, n)
                             \/ LockSibling(r, n)
         \/ FinishDelete(r) \/ Scan(r) \/ \E list \in SetToSeqs(req[r].seen) : Reorder(r, list)
         \/ Total(r) \/ SaveDuration(r) \/ LockCourse(r) \/ Cascade(r) \/ Fail(r)
    \/ CreateCourse \/ Publish
    \/ \E n \in Nodes : Learn(n)

Spec == Init /\ [][Next]_vars
=============================================================================
