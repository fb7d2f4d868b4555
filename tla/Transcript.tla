----------------------------- MODULE Transcript -----------------------------
(***************************************************************************)
(* What attempts, lessons and certificates add up to, without requests,    *)
(* keys, locks or deadlines: each attempt gets one result, for good; a     *)
(* lesson is complete only when each of its quizzes has been passed; and   *)
(* the course has one certificate, earned when it is issued and never      *)
(* issued again once it is revoked.                                        *)
(***************************************************************************)
CONSTANTS Ids, Lessons, QuizzesOf, Required, Answers, NoAnswers, Passing

VARIABLES result, completed, certificate

vars == <<result, completed, certificate>>

Init ==
    /\ result = [i \in Ids |-> NoAnswers]
    /\ completed = {}
    /\ certificate = "none"

PassedIn(res, z) == \E i \in Ids : i[1] = z /\ res[i] \in Passing[z]

Earned == Lessons \subseteq completed /\ \A z \in Required : PassedIn(result, z)

RecordResult(i, a) ==
    /\ result[i] = NoAnswers
    /\ result' = [result EXCEPT ![i] = a]
    /\ completed \subseteq completed'
    /\ \A l \in completed' \ completed :
          l \in Lessons /\ \A z \in QuizzesOf[l] : PassedIn(result', z)
    /\ UNCHANGED certificate

Issue ==
    /\ certificate = "none"
    /\ Earned
    /\ certificate' = "issued"
    /\ UNCHANGED <<result, completed>>

Revoke ==
    /\ certificate = "issued"
    /\ certificate' = "revoked"
    /\ UNCHANGED <<result, completed>>

Next == (\E i \in Ids, a \in Answers : RecordResult(i, a)) \/ Issue \/ Revoke

Spec == Init /\ [][Next]_vars
=============================================================================
