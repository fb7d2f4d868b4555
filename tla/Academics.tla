----------------------------- MODULE Academics -----------------------------
(***************************************************************************)
(* The academic hierarchy (app/academic.py): curricula, their standards,   *)
(* the streams of a standard, and subjects, which content managers create  *)
(* and switch off and on; the selection of a learner (the academic         *)
(* profile) and the classification of a course, each a path in it.         *)
(*                                                                         *)
(* A request reads what it validates without locks and writes later; only  *)
(* the learner's account and the row of a course are locked. A row's       *)
(* columns are written one by one: an UPDATE names those that the request  *)
(* has changed. Names, codes and the order of records are left out.        *)
(***************************************************************************)
EXTENDS Naturals

CONSTANTS
    Curricula, Standards, Streams, Subjects,    \* keys of records
    Edited,         \* records that are created and changed; the others are there
    Slots,          \* slots of requests
    None,           \* no record, no selection
    MaxVersion      \* bound on the saves of the profile

ASSUME AcademicsAssumption ==
    /\ None \notin Curricula \cup Standards \cup Streams \cup Subjects
    /\ Edited \subseteq Curricula \cup Standards \cup Streams \cup Subjects
    /\ MaxVersion \in Nat

VARIABLES
    record,     \* the rows of the hierarchy
    profile,    \* the learner's academic profile
    class,      \* the classification of the course
    act         \* the requests in flight

academicVars == <<record, profile, class, act>>

Records == Curricula \cup Standards \cup Streams \cup Subjects

Row == [parent: Curricula \cup Standards \cup {None}, active: BOOLEAN]

ParentsOf(x) ==
    CASE x \in Standards -> Curricula [] x \in Streams -> Standards [] OTHER -> {None}

\* What is selected at each level.
Selection == [curriculum: Curricula \cup {None}, standard: Standards \cup {None},
              stream: Streams \cup {None}, subject: Subjects \cup {None}]

Unclassified == [curriculum |-> None, standard |-> None, stream |-> None, subject |-> None]

Profile == [selection: Selection, version: Nat]

Act == [pc: {"idle", "write", "wait", "locked"},
        op: {"none", "record", "profile", "create", "update"},
        record: Records \cup {None}, row: Row \cup {None}, body: Row \cup {None},
        selection: Selection, old: Profile \cup Selection \cup {None}]

ASSUME NoneAssumption == None \notin Row \cup Selection \cup Profile

\* Rows refer to rows that are there.
Exists(x) == x # None => record[x] # None

AcademicsTypeOK ==
    /\ record \in [Records -> Row \cup {None}]
    /\ profile \in Profile \cup {None}
    /\ class \in Selection \cup {None}
    /\ act \in [Slots -> Act]
    /\ \A x \in Records : record[x] # None => Exists(record[x].parent)

Resting == [pc |-> "idle", op |-> "none", record |-> None, row |-> None, body |-> None,
            selection |-> Unclassified, old |-> None]

AcademicsInit ==
    /\ \E parent \in [Records \ Edited -> Curricula \cup Standards \cup {None}] :
         /\ \A x \in Records \ Edited : parent[x] \in ParentsOf(x) \ Edited
         /\ record = [x \in Records |-> IF x \in Edited THEN None
                                        ELSE [parent |-> parent[x], active |-> TRUE]]
    /\ profile = None /\ class = None
    /\ act = [s \in Slots |-> Resting]

----------------------------------------------------------------------------
(* Requests                                                                *)

Done(s) == act' = [act EXCEPT ![s] = Resting]

Proceed(s, a) ==
    /\ act' = [act EXCEPT ![s] = a]
    /\ UNCHANGED <<record, profile, class>>

Receive(s, a) == act[s].pc = "idle" /\ Proceed(s, a)

\* Refused, failed, or without an effect.
Cancel(s) ==
    /\ act[s].pc # "idle"
    /\ Done(s) /\ UNCHANGED <<record, profile, class>>

----------------------------------------------------------------------------
(* save_taxonomy                                                           *)

\* ACADEMIC_PARENT_IMMUTABLE
StaysPut(x, p) == record[x] # None => record[x].parent = p

\* The row is read and its parent checked; the commit comes later.
StartRecord(s, x, p, active) ==
    /\ p \in ParentsOf(x) /\ Exists(p) /\ StaysPut(x, p)
    /\ Receive(s, [Resting EXCEPT !.pc = "write", !.op = "record", !.record = x,
                                  !.row = record[x],
                                  !.body = [parent |-> p, active |-> active]])

\* The row is inserted, or the columns that differ from what was read are updated.
WriteRecord(s) ==
    LET a == act[s]
    IN  /\ a.op = "record" /\ a.pc = "write"
        /\ a.row = None => record[a.record] = None
        /\ record' = [record EXCEPT ![a.record] =
             IF a.row = None THEN a.body
             ELSE [parent |-> IF a.body.parent = a.row.parent THEN @.parent ELSE a.body.parent,
                   active |-> IF a.body.active = a.row.active THEN @.active ELSE a.body.active]]
        /\ Done(s) /\ UNCHANGED <<profile, class>>

----------------------------------------------------------------------------
(* validate_selection                                                      *)

Active(x) == x # None /\ record[x] # None /\ record[x].active

ValidPath(c) ==
    /\ Active(c.curriculum) /\ Active(c.standard)
    /\ record[c.standard].parent = c.curriculum
    /\ IF c.stream # None THEN Active(c.stream) /\ record[c.stream].parent = c.standard
       ELSE \A t \in Streams : Active(t) => record[t].parent # c.standard

\* A course may be unclassified, and has a subject if it is not; a profile has none.
ValidClass(c) == c = Unclassified \/ (ValidPath(c) /\ Active(c.subject))

----------------------------------------------------------------------------
(* put_profile                                                             *)

StartProfile(s, c) ==
    /\ c.subject = None /\ ValidPath(c)
    /\ Receive(s, [Resting EXCEPT !.pc = "wait", !.op = "profile", !.selection = c])

\* The account is locked before the profile is read.
LockAccount(s) ==
    /\ act[s].op = "profile" /\ act[s].pc = "wait"
    /\ \A t \in Slots \ {s} : act[t].op = "profile" => act[t].pc # "locked"
    /\ Proceed(s, [act[s] EXCEPT !.pc = "locked", !.old = profile])

SaveProfile(s) ==
    LET a == act[s]
    IN  /\ a.op = "profile" /\ a.pc = "locked"
        /\ a.old # None => a.old.version < MaxVersion
        /\ profile' = IF a.old = None THEN [selection |-> a.selection, version |-> 1]
                      ELSE IF a.old.selection = a.selection THEN profile
                      ELSE [selection |-> [k \in DOMAIN a.selection |->
                              IF a.selection[k] = a.old.selection[k] THEN profile.selection[k]
                              ELSE a.selection[k]], version |-> a.old.version + 1]
        /\ Done(s) /\ UNCHANGED <<record, class>>

----------------------------------------------------------------------------
(* The classification of a course: admin_create_course, admin_update_course *)

StartCourse(s, c) ==
    /\ class = None /\ ValidClass(c)
    /\ Receive(s, [Resting EXCEPT !.pc = "write", !.op = "create", !.selection = c])

InsertCourse(s) ==
    /\ act[s].op = "create" /\ act[s].pc = "write" /\ class = None
    /\ class' = act[s].selection
    /\ Done(s) /\ UNCHANGED <<record, profile>>

\* Mutant: the row of the course is not locked.
CourseFreeAlways(s) == TRUE

CourseFree(s) == \A t \in Slots \ {s} : act[t].op = "update" => act[t].pc # "locked"

\* The row is locked before it is read. The body gives some levels and the others are taken
\* from the row: c is the whole, which is validated.
LockCourse(s, c) ==
    /\ class # None /\ CourseFree(s) /\ ValidClass(c)
    /\ Receive(s, [Resting EXCEPT !.pc = "locked", !.op = "update",
                                  !.selection = c, !.old = class])

\* The levels that the request has changed are written.
SaveCourse(s) ==
    LET a == act[s]
    IN  /\ a.op = "update" /\ a.pc = "locked"
        /\ class' = [k \in DOMAIN class |-> IF a.selection[k] = a.old[k] THEN class[k]
                                            ELSE a.selection[k]]
        /\ Done(s) /\ UNCHANGED <<record, profile>>

----------------------------------------------------------------------------
AcademicsNext ==
    \E s \in Slots :
      \/ \E x \in Edited, p \in Curricula \cup Standards \cup {None}, b \in BOOLEAN :
           StartRecord(s, x, p, b)
      \/ \E c \in Selection : StartProfile(s, c) \/ StartCourse(s, c) \/ LockCourse(s, c)
      \/ WriteRecord(s) \/ LockAccount(s) \/ SaveProfile(s)
      \/ InsertCourse(s) \/ SaveCourse(s) \/ Cancel(s)

AcademicsSpec == AcademicsInit /\ [][AcademicsNext]_academicVars
=============================================================================
