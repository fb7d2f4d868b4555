-------------------------- MODULE CertificateProps --------------------------
(***************************************************************************)
(* What attempts, lesson completion and certificates promise together.     *)
(***************************************************************************)
EXTENDS Certificates

\* The transcript is read off the results of the attempts: no status, key or
\* deadline.
T == INSTANCE Transcript WITH result <- [i \in Ids |-> attempt[i].answers],
                              certificate <- cert

\* Whatever requests run at once and wherever they fail, every step of the code
\* is a step of the transcript or leaves it alone: one result per attempt
\* for good, completion and certificates only once they are earned, and no
\* certificate after a revocation (submit, grade_submission, issue, revoke).
ImplementsTranscript == T!Spec

\* A claim that has found no certificate finds none when it issues its own: two
\* claims at once never meet the unique index (issue's advisory lock).
StagedCertificateIsNew == \A c \in Claims : claim[c] = "issuing" => cert = "none"
=============================================================================
