--------------------------- MODULE MCCertificates ---------------------------
(***************************************************************************)
(* Two claims beside two submissions: two quizzes complete the course's    *)
(* only lesson, a third is required for the certificate but is in no       *)
(* lesson, and its attempt can end with its deadline.                      *)
(***************************************************************************)
EXTENDS CertificateProps

CONSTANTS first, second, final, l1, pass, fail, k1, k2

MCQuizzesOf == [l \in Lessons |-> {first, second}]
MCMaxAttempts == [z \in Quizzes |-> 1]
MCTimeLimit == [z \in Quizzes |-> IF z = final THEN 1 ELSE 0]
MCSubmissions ==
    {[id |-> <<z, 1>>, key |-> k1, answers |-> pass] : z \in Quizzes}
        \cup {[id |-> <<final, 1>>, key |-> k2, answers |-> fail]}
MCPassing == [z \in Quizzes |-> {pass}]
=============================================================================
