---------------------------- MODULE MCAuthoring ----------------------------
(***************************************************************************)
(* The content of a lesson, the academic hierarchy, and the grants and     *)
(* switches share no row and no lock: a behaviour of one has no influence  *)
(* on the others. One of them is explored at a time, two content managers  *)
(* or administrators at a time.                                            *)
(***************************************************************************)
EXTENDS ContentProps, AcademicsProps, AccessProps, TLC

VARIABLE desk       \* where the managers of this behaviour work

authoringVars == <<vars, academicVars, accessVars, desk>>

\* Where nobody works, nothing is varied.
AtRest(S) == CHOOSE x \in S : TRUE

\* With one policy that is not inherited, more than one decide what the lowest does.
PoliciesVary == \A x, y \in DOMAIN policy : x # y => "inherit" \in {policy[x], policy[y]}

AuthoringInit ==
    /\ Init /\ AcademicsInit /\ AccessInit
    /\ desk \in {"lesson", "course", "profiles", "classes", "access"}
    /\ desk \notin {"profiles", "classes"} =>
         \A d \in Standards \ Edited : record[d].parent = AtRest(Curricula)
    /\ IF desk = "access" THEN PoliciesVary
       ELSE /\ \A x \in DOMAIN policy : policy[x] = AtRest(Policies)
            /\ \A g \in Grants : grant[g] = Nil

\* Nothing that two authors do to a lesson at once depends on the course's status.
OneAtATime == \A r, q \in Requests : r # q => "idle" \in {req'[r].pc, req'[q].pc}

\* The hierarchy is edited under the learner's selection, or under that of the course.
Concerns(ops) == \A s \in Slots : act'[s].op \in {"none", "record"} \cup ops

\* Administrators of different rows do not meet.
OneRow == \A a, b \in Admins : page'[a].of # page'[b].of => Nil \in {page'[a].of, page'[b].of}

AuthoringNext ==
    \/ /\ desk \in {"lesson", "course"} /\ Next
       /\ IF desk = "lesson" THEN course' = course ELSE OneAtATime
       /\ UNCHANGED <<academicVars, accessVars, desk>>
    \/ /\ desk \in {"profiles", "classes"} /\ AcademicsNext
       /\ Concerns(IF desk = "profiles" THEN {"profile"} ELSE {"create", "update"})
       /\ UNCHANGED <<vars, accessVars, desk>>
    \/ /\ desk = "access" /\ AccessNext
       /\ OneRow
       /\ UNCHANGED <<vars, academicVars, desk>>

AuthoringSpec == AuthoringInit /\ [][AuthoringNext]_authoringVars

\* Every variable has its type, and the constraints of the tables hold: two items of a
\* lesson never have one position, and a quiz refers to an assessment that is there.
AuthoringTypeOK == TypeOK /\ AcademicsTypeOK /\ AccessTypeOK

\* The same managers work everywhere; items and grants have the same keys.
Interchangeable == Permutations(Requests) \cup Permutations(Items) \cup Permutations(Videos)
=============================================================================
