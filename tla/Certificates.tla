---------------------------- MODULE Certificates ----------------------------
(***************************************************************************)
(* The certificate of the course: claims (certificate_eligibility and the  *)
(* issuance route) and revocation, beside the attempts they depend on.     *)
(* The enrollment, which nothing in the code ends, is taken to be active;  *)
(* access is decided elsewhere.                                            *)
(***************************************************************************)
EXTENDS Assessments

CONSTANTS
    Required,   \* the quizzes with required_for_certificate
    Claims      \* claim slots: POST /certificate-issuances requests at a time

ASSUME CertificateAssumption == Required \subseteq Quizzes

VARIABLES
    cert,    \* the learner's certificate for the course
    claim    \* the claims in flight

certVars == <<vars, cert, claim>>

ClaimPhase == {"idle", "waiting", "completion", "assessments", "issuing"}

CertTypeOK ==
    /\ TypeOK
    /\ cert \in {"none", "issued", "revoked"}
    /\ claim \in [Claims -> ClaimPhase]

CertInit ==
    /\ Init
    /\ cert = "none"
    /\ claim = [c \in Claims |-> "idle"]

\* pg_advisory_xact_lock('certificate:<learner>:<course>').
HoldsClaim(c) == claim[c] \in {"completion", "assessments", "issuing"}

\* Mutant: no advisory lock.
ClaimFreeAlways(c) == claim[c] # "idle"
ClaimFree(c) == \A d \in Claims \ {c} : ~HoldsClaim(d)

ClaimGoto(c, pc) == claim' = [claim EXCEPT ![c] = pc]

StartClaim(c) ==
    /\ claim[c] = "idle"
    /\ ClaimGoto(c, "waiting")
    /\ UNCHANGED <<vars, cert>>

\* A certificate on record is returned as it is, revoked or not.
LockClaim(c) ==
    /\ claim[c] = "waiting"
    /\ ClaimFree(c)
    /\ ClaimGoto(c, IF cert = "none" THEN "completion" ELSE "idle")
    /\ UNCHANGED <<vars, cert>>

CheckCompletion(c) ==
    /\ claim[c] = "completion"
    /\ Lessons \subseteq completed
    /\ ClaimGoto(c, "assessments")
    /\ UNCHANGED <<vars, cert>>

\* Mutant: the answers of any attempt at the quiz count.
EverAnswered(z) == \E n \in Numbers(z) : attempt[<<z, n>>].answers # NoAnswers

\* Eligibility looks at passed, whatever the attempt's status.
EverPassed(z) == \E n \in Numbers(z) : attempt[<<z, n>>].answers \in Passing[z]

CheckAssessments(c) ==
    /\ claim[c] = "assessments"
    /\ \A z \in Required : EverPassed(z)
    /\ ClaimGoto(c, "issuing")
    /\ UNCHANGED <<vars, cert>>

\* The unique index on learner and course would refuse the second of two.
Issue(c) ==
    /\ claim[c] = "issuing"
    /\ cert' = IF cert = "none" THEN "issued" ELSE cert
    /\ ClaimGoto(c, "idle")
    /\ UNCHANGED vars

\* 409 CERTIFICATE_INELIGIBLE, for the want of access too, or a lost connection.
EndClaim(c) ==
    /\ claim[c] # "idle"
    /\ ClaimGoto(c, "idle")
    /\ UNCHANGED <<vars, cert>>

\* POST /admin/certificates/{id}/revocation locks the certificate.
Revoke ==
    /\ cert = "issued"
    /\ cert' = "revoked"
    /\ UNCHANGED <<vars, claim>>

CertNext ==
    \/ Next /\ UNCHANGED <<cert, claim>>
    \/ \E c \in Claims :
        \/ StartClaim(c) \/ LockClaim(c)
        \/ CheckCompletion(c) \/ CheckAssessments(c)
        \/ Issue(c) \/ EndClaim(c)
    \/ Revoke

CertSpec == CertInit /\ [][CertNext]_certVars
=============================================================================
