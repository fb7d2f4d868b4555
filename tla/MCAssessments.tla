--------------------------- MODULE MCAssessments ---------------------------
(***************************************************************************)
(* Two requests of the learner at a time over a timed and an untimed quiz  *)
(* of one lesson, two attempts at the timed one; two keys on its first     *)
(* attempt, one of them with two payloads.                                 *)
(***************************************************************************)
EXTENDS AssessmentProps

CONSTANTS timed, untimed, both, pass, fail, k1, k2

MCQuizzesOf == [l \in Lessons |-> {timed, untimed}]
MCMaxAttempts == [z \in Quizzes |-> IF z = timed THEN 2 ELSE 1]
MCTimeLimit == [z \in Quizzes |-> IF z = timed THEN 1 ELSE 0]
MCSubmissions ==
    {[id |-> <<timed, 1>>, key |-> k1, answers |-> a] : a \in Answers}
        \cup {[id |-> <<timed, 1>>, key |-> k2, answers |-> fail]}
        \cup {[id |-> i, key |-> k1, answers |-> pass] : i \in {<<timed, 2>>, <<untimed, 1>>}}
MCPassing == [z \in Quizzes |-> {pass}]
=============================================================================
