--------------------------- MODULE LessonContent ---------------------------
(***************************************************************************)
(* What a lesson consists of, as its authors put it together               *)
(* (app/academic.py, app/media_workflow.py): notes, videos and quizzes.    *)
(* A video is uploaded before an item refers to it, and is bound to that   *)
(* item; a quiz refers to an assessment of the course, which its authors   *)
(* publish, archive and delete (app/api.py) while learners attempt it.     *)
(*                                                                         *)
(* A request is a transaction at READ COMMITTED, cut where it waits: for   *)
(* the row of the lesson or of an assessment, or for the media provider.   *)
(* Resources for download are items like videos.                           *)
(***************************************************************************)
EXTENDS Naturals, FiniteSets, SequencesExt

CONSTANTS
    Items,          \* content items of the lesson
    Videos,         \* uploads: the rows that they make have their origin as a key
    Assessments,    \* assessments of the course
    Requests,       \* request slots
    Statuses,       \* statuses that authors give: all but published are alike
    Nothing         \* no reference

ASSUME LessonContentAssumption ==
    /\ IsFiniteSet(Items) /\ Items # {}
    /\ Nothing \notin Items \cup Videos \cup Assessments
    /\ {"draft", "published"} \subseteq Statuses /\ Statuses \subseteq {"draft", "published", "archived"}

VARIABLES
    course,         \* the course's status
    item,           \* the rows of the items
    video,          \* the rows of the videos: nothing, or whether and to what item they are bound
    assessment,     \* the rows of the assessments
    attempts,       \* assessments that learners have attempted
    req             \* the requests in flight

vars == <<course, item, video, assessment, attempts, req>>

References == Videos \cup Assessments \cup {Nothing}

Content == [type: {"note", "video", "quiz"}, of: References,
            position: 1 .. Cardinality(Items), published: BOOLEAN]

\* A content item is there or still to come; none is ever deleted by itself.
ItemRow == Content \cup {Nothing}

\* What a video is bound to, if anything.
VideoRow == [item: Items \cup {Nothing}]

ASSUME NothingAssumption == Nothing \notin Content \cup VideoRow \cup Statuses

Phase == {"idle", "writing", "inspecting", "list", "locked", "guarded", "attempting",
          "attempted"}

Request == [pc: Phase, op: {"none", "save", "order", "upload", "edit", "delete", "attempt"},
            on: Items \cup Videos \cup Assessments \cup {Nothing},
            body: ItemRow, seen: SUBSET Items, bound: Items \cup {Nothing},
            status: Statuses]

There(f) == {x \in DOMAIN f : f[x] # Nothing}

TypeOK ==
    /\ course \in Statuses
    /\ item \in [Items -> ItemRow]
    /\ video \in [Videos -> VideoRow \cup {Nothing}]
    /\ assessment \in [Assessments -> Statuses \cup {Nothing}]
    /\ attempts \subseteq Assessments
    /\ req \in [Requests -> Request]
    \* The constraints of the table: positions are unique, a quiz refers to an assessment.
    /\ \A i, j \in There(item) : i # j => item[i].position # item[j].position
    /\ \A i \in There(item) : item[i].type = "quiz" => item[i].of \in There(assessment)

Idle == [pc |-> "idle", op |-> "none", on |-> Nothing, body |-> Nothing, seen |-> {},
         bound |-> Nothing, status |-> "draft"]

Init ==
    /\ course = "draft"
    /\ item = [i \in Items |-> Nothing]
    /\ video = [v \in Videos |-> Nothing]
    /\ assessment = [a \in Assessments |-> Nothing]
    /\ attempts = {}
    /\ req = [r \in Requests |-> Idle]

----------------------------------------------------------------------------
(* Rows and locks                                                          *)

Others(r) == Requests \ {r}

\* The phases in which a request holds the row of the lesson.
HoldsLesson(q) == req[q].pc \in {"writing", "inspecting"}

\* Mutant: nobody locks the lesson.
LessonFreeAlways(r) == r \in Requests

LessonFree(r) == \A q \in Others(r) : ~HoldsLesson(q)

\* Mutant: a deletion looks at what depends on the assessment before it locks it.
LocksLate(q, a) == req[q].on = a /\ req[q].op = "edit" /\ req[q].pc = "locked"

\* An edit or a deletion locks an assessment FOR UPDATE.
Locks(q, a) == req[q].on = a /\ req[q].op \in {"edit", "delete"} /\ req[q].pc \in {"locked", "guarded"}

\* A row that refers to the assessment, not yet committed, keeps it from being locked.
RefersTo(q, a) == req[q].on = a /\ req[q].pc = "attempted"

AssessmentFree(r, a) == \A q \in Others(r) : ~Locks(q, a)

NothingRefers(r, a) == \A q \in Others(r) : ~RefersTo(q, a)

\* guard_course_history: learners' rows, or a video, which may be on a learner's device.
HasHistory == attempts # {} \/ There(video) # {}

End(r) == req' = [req EXCEPT ![r] = Idle]

Abort(r) ==
    /\ req[r].pc # "idle"
    /\ End(r)
    /\ UNCHANGED <<course, item, video, assessment, attempts>>

Goto(r, q) ==
    /\ req' = [req EXCEPT ![r] = q]
    /\ UNCHANGED <<course, item, video, assessment, attempts>>

Begin(r, op, pc, q) == req[r].pc = "idle" /\ Goto(r, [q EXCEPT !.op = op, !.pc = pc])

----------------------------------------------------------------------------
(* save_content: an item is created or replaced                            *)

\* The editor sends the type and the reference together; a note has none.
Bodies ==
    {b \in Content : CASE b.type = "note"  -> b.of = Nothing
                       [] b.type = "video" -> b.of \in Videos
                       [] b.type = "quiz"  -> b.of \in Assessments}

\* A quiz is of this course, and published if it is shown; a video is of this lesson.
ReferenceFits(b) ==
    /\ b.type = "quiz" => /\ assessment[b.of] # Nothing
                          /\ b.published => assessment[b.of] = "published"
    /\ b.type = "video" => video[b.of] # Nothing

Changes(i, b) == item[i] # Nothing /\ (item[i].type # b.type \/ item[i].of # b.of)

\* What an item refers to is changed only in a course without history.
MayBecome(i, b) == Changes(i, b) => ~HasHistory

\* The lesson is locked, then everything is read: the video with the item it is bound to.
\* A new item has a key that no other request has.
StartSave(r, i, b) ==
    /\ LessonFree(r)
    /\ item[i] = Nothing => \A q \in Requests : req[q].on # i
    /\ ReferenceFits(b) /\ MayBecome(i, b)
    /\ Begin(r, "save", "writing",
             [Idle EXCEPT !.on = i, !.body = b,
                          !.bound = IF b.type = "video" THEN video[b.of].item ELSE Nothing])

PositionTaken(i, b) == \E j \in There(item) \ {i} : item[j].position = b.position

\* A new reference to an assessment waits until it is decided whether it stays.
CanWrite(r) ==
    /\ req[r].op = "save" /\ req[r].pc = "writing"
    /\ req[r].body.type = "quiz" => AssessmentFree(r, req[r].body.of)

ConstraintsHold(b, i) ==
    /\ ~PositionTaken(i, b)
    /\ b.type = "quiz" => assessment[b.of] # Nothing

Save(r) ==
    LET q == req[r]
    IN  /\ CanWrite(r) /\ ConstraintsHold(q.body, q.on)
        /\ q.bound \in {Nothing, q.on}
        /\ item' = [item EXCEPT ![q.on] = q.body]
        /\ video' = IF q.body.type = "video"
                    THEN [video EXCEPT ![q.body.of].item = q.on] ELSE video
        /\ End(r) /\ UNCHANGED <<course, assessment, attempts>>

\* CONTENT_POSITION_EXISTS, MEDIA_ALREADY_LINKED
CannotSave(r) ==
    /\ CanWrite(r)
    /\ ~ConstraintsHold(req[r].body, req[r].on) \/ req[r].bound \notin {Nothing, req[r].on}
    /\ Abort(r)

----------------------------------------------------------------------------
(* reorder_content                                                         *)

StartOrder(r) == Begin(r, "order", "list", [Idle EXCEPT !.seen = There(item)])

\* Mutant: the list need not be of every item.
OrderSome(r, list) ==
    /\ req[r].pc = "list" /\ LessonFree(r)
    /\ item' = [i \in Items |-> IF i \in req[r].seen
                                THEN [item[i] EXCEPT !.position =
                                        CHOOSE n \in DOMAIN list : list[n] = i]
                                ELSE item[i]]
    /\ End(r) /\ UNCHANGED <<course, video, assessment, attempts>>

\* The list must be of every item; all get positions that are free, then their numbers.
Order(r, list) ==
    /\ req[r].pc = "list" /\ LessonFree(r)
    /\ req[r].seen = There(item)
    /\ item' = [i \in Items |-> IF i \in There(item)
                                THEN [item[i] EXCEPT !.position =
                                        CHOOSE n \in DOMAIN list : list[n] = i]
                                ELSE Nothing]
    /\ End(r) /\ UNCHANGED <<course, video, assessment, attempts>>

RefuseOrder(r) ==
    /\ req[r].pc = "list" /\ LessonFree(r) /\ req[r].seen # There(item)
    /\ Abort(r)

----------------------------------------------------------------------------
(* authorize_upload, complete_upload                                       *)

\* The authorisation is a signed token, and leaves nothing in the database. A token that is
\* to replace a video is refused at its completion: the video itself counts as history.
\* The lesson stays locked while the provider is asked.
StartUpload(r, v) ==
    /\ LessonFree(r)
    /\ Begin(r, "upload", "inspecting", [Idle EXCEPT !.on = v])

\* The provider has it; a repeated completion finds the row of the first.
CompleteUpload(r) ==
    LET v == req[r].on
    IN  /\ req[r].pc = "inspecting"
        /\ video' = [video EXCEPT ![v] = IF @ = Nothing THEN [item |-> Nothing] ELSE @]
        /\ End(r) /\ UNCHANGED <<course, item, assessment, attempts>>

----------------------------------------------------------------------------
(* Assessments                                                             *)

\* admin_create_assessment
CreateAssessment(a, s) ==
    /\ assessment[a] = Nothing
    /\ \A q \in Requests : req[q].on # a
    /\ assessment' = [assessment EXCEPT ![a] = s]
    /\ UNCHANGED <<course, item, video, attempts, req>>

\* admin_update_assessment, admin_delete_assessment
StartEdit(r, a, s) ==
    /\ assessment[a] # Nothing /\ AssessmentFree(r, a) /\ NothingRefers(r, a)
    /\ \/ Begin(r, "edit", "locked", [Idle EXCEPT !.on = a, !.status = s])
       \/ Begin(r, "delete", "locked", [Idle EXCEPT !.on = a])

UpdateAssessment(r) ==
    /\ req[r].op = "edit" /\ req[r].pc = "locked"
    /\ assessment' = [assessment EXCEPT ![req[r].on] = req[r].status]
    /\ End(r) /\ UNCHANGED <<course, item, video, attempts>>

InUse(a) == \E i \in There(item) : item[i].of = a

GuardAssessment(r) ==
    /\ req[r].op = "delete" /\ req[r].pc = "locked"
    /\ IF HasHistory \/ InUse(req[r].on) THEN Abort(r)
       ELSE Goto(r, [req[r] EXCEPT !.pc = "guarded"])

\* Attempts would go with their assessment.
DeleteAssessment(r) ==
    LET a == req[r].on
    IN  /\ req[r].op = "delete" /\ req[r].pc = "guarded"
        /\ NothingRefers(r, a) /\ ~InUse(a)
        /\ assessment' = [assessment EXCEPT ![a] = Nothing]
        /\ attempts' = attempts \ {a}
        /\ End(r) /\ UNCHANGED <<course, item, video>>

\* new_attempt: the status is read, the new row refers to the assessment.
StartAttempt(r, a) ==
    /\ assessment[a] = "published"
    /\ Begin(r, "attempt", "attempting", [Idle EXCEPT !.on = a])

InsertAttempt(r) ==
    LET q == req[r]
    IN  /\ q.pc = "attempting" /\ AssessmentFree(r, q.on)
        /\ IF assessment[q.on] = Nothing THEN Abort(r) ELSE Goto(r, [q EXCEPT !.pc = "attempted"])

CommitAttempt(r) ==
    /\ req[r].pc = "attempted"
    /\ attempts' = attempts \cup {req[r].on}
    /\ End(r) /\ UNCHANGED <<course, item, video, assessment>>

----------------------------------------------------------------------------
(* The course                                                              *)

\* validate_course_for_publishing: a lesson with items needs a published one.
Valid == There(item) # {} => \E i \in There(item) : item[i].published

\* admin_publish_course_endpoint (the switch that forbids publishing is left out);
\* admin_update_course_status validates nothing.
Publish ==
    /\ Valid
    /\ course' = "published"
    /\ UNCHANGED <<item, video, assessment, attempts, req>>

SetStatus(s) ==
    /\ course' = s
    /\ UNCHANGED <<item, video, assessment, attempts, req>>

\* admin_unpublish_course_endpoint
Unpublish ==
    /\ course' = "draft"
    /\ UNCHANGED <<item, video, assessment, attempts, req>>

----------------------------------------------------------------------------
Next ==
    \/ \E r \in Requests :
         \/ \E i \in Items, b \in Bodies : StartSave(r, i, b)
         \/ Save(r) \/ CannotSave(r)
         \/ StartOrder(r) \/ RefuseOrder(r)
         \/ \E list \in SetToSeqs(req[r].seen) : Order(r, list)
         \/ (\E v \in Videos : StartUpload(r, v)) \/ CompleteUpload(r)
         \/ \E a \in Assessments : StartAttempt(r, a) \/ \E s \in Statuses : StartEdit(r, a, s)
         \/ UpdateAssessment(r) \/ GuardAssessment(r) \/ DeleteAssessment(r)
         \/ InsertAttempt(r) \/ CommitAttempt(r) \/ Abort(r)
    \/ \E a \in Assessments, s \in Statuses : CreateAssessment(a, s)
    \/ Publish \/ Unpublish \/ \E s \in Statuses : SetStatus(s)

Spec == Init /\ [][Next]_vars
=============================================================================
