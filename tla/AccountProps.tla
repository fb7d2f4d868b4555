---------------------------- MODULE AccountProps ----------------------------
(***************************************************************************)
(* What accounts and sessions promise.                                     *)
(***************************************************************************)
EXTENDS Accounts

\* A refresh token is exchanged for one session at most and ends with the exchange, and
\* one that was revoked for none: whoever presents it, at the same time as a logout or a
\* reset (refresh).
TokensAreExchangedOnce ==
    [][\A r \in Requests, n \in Tokens : req[r].kind = "refresh" /\ Issue(r, n) =>
         session[req[r].with].live /\ ~session'[req[r].with].live]_vars

\* While a reset or a suspension waits for the sessions that it revokes, no session of
\* the account escapes it: none can be issued (password_reset_confirm,
\* _set_account_active, and the foreign key of auth_sessions).
NothingEscapes ==
    \A r \in Requests :
        req[r].kind \in {"reset", "suspend"} /\ req[r].pc \in {"revoking", "auditing"}
            => SessionsOf(req[r].target) \subseteq req[r].seen

\* A code that was sent before an account's password is reset does not reset it again
\* (password_reset_request, password_reset_confirm).
ResetSpendsEveryCode ==
    [][\A r \in Requests, n \in Tokens : CommitReset(r, n) =>
         /\ ~code[req[r].with].spent
         /\ \A c \in Codes : code[c].user = req[r].target => code'[c].spent]_vars

Bulk == {"suspend", "revokeAll"}
Flushed == {"logout", "reset", "change", "delete"}
Administrative == Bulk \cup {"reactivate", "role"}

\* Requests wait for each other in a circle only with one of these pairs among them: a
\* rotation beside a reset or a suspension of its account, which hold the user's row; a
\* deletion, which comes to the user's row last, beside a reset or a change of the password;
\* a bulk revocation, whose rows come in any order, beside another revocation; or the
\* requests of two administrators. Revocations in the order of the keys, as logouts are, do
\* not deadlock (logout, delete_account_route, revoke_sessions, the foreign keys).
OnlyTheseDeadlock ==
    \A S \in SUBSET Requests : Deadlocked(S) =>
        \E r, q \in S :
            \/ /\ req[r].target = req[q].target
               /\ \/ req[r].kind = "refresh" /\ req[q].kind \in {"reset", "suspend"}
                  \/ req[r].kind = "delete" /\ req[q].kind \in {"reset", "change"}
            \/ r # q /\ req[r].kind \in Bulk /\ req[q].kind \in Bulk \cup Flushed
            \/ r # q /\ req[r].kind \in Administrative /\ req[q].kind \in Administrative

\* An active super administrator remains when one is suspended (LAST_SUPER_ADMIN).
AnOwnerRemains ==
    [][\A u \in Users : user[u].super /\ user[u].active /\ ~user'[u].active =>
         \E o \in Users : user'[o].super /\ user'[o].active]_vars
=============================================================================
