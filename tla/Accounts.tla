------------------------------ MODULE Accounts ------------------------------
(***************************************************************************)
(* Accounts and their sessions: registration, login, the rotation of       *)
(* refresh tokens, logout, password reset and change, deletion (app/api.py)*)
(* and what super administrators do to accounts (app/cms_operations.py).   *)
(*                                                                         *)
(* A request is a database transaction at READ COMMITTED that is cut where *)
(* it waits for a lock. Besides the locks that the code asks for there are *)
(* those of foreign keys: a new session refers to its user, and an audit   *)
(* event to its actor, so both inserts wait for whoever has locked that    *)
(* user's row FOR UPDATE. The rows of several sessions are locked one by   *)
(* one, and each is held to the end.                                       *)
(*                                                                         *)
(* Passwords are abstracted to the requests that know them. A token or a   *)
(* code that has expired is one that is not presented any more.            *)
(***************************************************************************)
EXTENDS Naturals, FiniteSets

CONSTANTS
    Users, Founders,    \* accounts; those that are super administrators from the start
    Tokens,             \* refresh tokens, which stand for their sessions, in the order of
                        \* the sessions' primary keys
    Codes,              \* password reset codes
    Requests,           \* request slots
    Kinds,              \* the requests that are made
    Nobody

AllKinds == {"register", "login", "refresh", "onboard", "reset", "change", "delete",
             "logout", "suspend", "reactivate", "role", "revokeAll"}

ASSUME AccountAssumption ==
    /\ Founders \subseteq Users /\ Nobody \notin Users \cup Tokens \cup Codes
    /\ Tokens \subseteq Nat /\ IsFiniteSet(Tokens) /\ Tokens \cap Codes = {}
    /\ Kinds \subseteq AllKinds

VARIABLES
    user,       \* users: whether it exists, is found by its e-mail, is active, is super
    session,    \* auth_sessions; user is Nobody before there is one
    code,       \* password_reset_codes, in the same way
    req         \* the requests in flight

vars == <<user, session, code, req>>

\* Where a request is: waiting for a session's row, for a user's row, for the rows of
\* the sessions it revokes (those that it has seen, until it holds them), for the actor's
\* row, for the row of a new session's user.
Phase == {"idle", "token", "user", "revoking", "auditing", "issuing"}
Request == [pc: Phase, kind: AllKinds \cup {"none"}, actor: Users \cup {Nobody},
            target: Users \cup {Nobody}, with: Tokens \cup Codes \cup {Nobody},
            seen: SUBSET Tokens, held: SUBSET Tokens, super: BOOLEAN]

TypeOK ==
    /\ user \in [Users -> [known: BOOLEAN, found: BOOLEAN, active: BOOLEAN, super: BOOLEAN]]
    /\ session \in [Tokens -> [user: Users \cup {Nobody}, live: BOOLEAN]]
    /\ \A t \in Tokens : session[t].live => session[t].user # Nobody
    /\ code \in [Codes -> [user: Users \cup {Nobody}, spent: BOOLEAN]]
    /\ req \in [Requests -> Request]

Idle == [pc |-> "idle", kind |-> "none", actor |-> Nobody, target |-> Nobody,
         with |-> Nobody, seen |-> {}, held |-> {}, super |-> FALSE]

Init ==
    /\ user = [u \in Users |-> [known |-> u \in Founders, found |-> u \in Founders,
                                active |-> u \in Founders, super |-> u \in Founders]]
    /\ session = [t \in Tokens |-> [user |-> Nobody, live |-> FALSE]]
    /\ code = [c \in Codes |-> [user |-> Nobody, spent |-> FALSE]]
    /\ req = [r \in Requests |-> Idle]

AllSessionsOf(u) == {t \in Tokens : session[t].user = u}
SessionsOf(u) == {t \in AllSessionsOf(u) : session[t].live}

----------------------------------------------------------------------------
(* Locks, each held to the end of its transaction                          *)

\* FOR UPDATE.
LocksUser(q, u) == /\ req[q].target = u /\ req[q].pc \in {"revoking", "auditing"}
                   /\ req[q].kind \in {"reset", "suspend", "reactivate", "role"}

\* An UPDATE of the password only, which foreign keys do not wait for.
UpdatesUser(q, u) == req[q].target = u /\ req[q].pc = "revoking" /\ req[q].kind = "change"

\* The session of a token that is being rotated, or one that is being revoked.
LocksSession(q, t) == t \in req[q].held

Others(r) == Requests \ {r}

\* Mutant: sessions and audit events do not refer to users.
ReferableAlways(r, u) == u \in Users
Referable(r, u) == \A q \in Others(r) : ~LocksUser(q, u)

\* Mutant: a reset reads the account without a lock.
UserFreeAlways(r, u) == u \in Users
UserFree(r, u) == \A q \in Others(r) : ~LocksUser(q, u) /\ ~UpdatesUser(q, u)

\* Mutant: a refresh reads its session without a lock.
SessionsFreeAlways(r, T) == T \subseteq Tokens
SessionsFree(r, T) == \A q \in Others(r), t \in T : ~LocksSession(q, t)

\* The request ends, with or without a commit.
End(r) == req' = [req EXCEPT ![r] = Idle]

Goto(r, pc) == req' = [req EXCEPT ![r].pc = pc]

TablesUnchanged == UNCHANGED <<user, session, code>>

Begin(r, kind, pc, q) ==
    /\ kind \in Kinds /\ req[r].pc = "idle"
    /\ req' = [req EXCEPT ![r] = [q EXCEPT !.kind = kind, !.pc = pc]]
    /\ TablesUnchanged

----------------------------------------------------------------------------
(* Requests begin with what they read without a lock                       *)

\* current_user: the bearer's session is live and the account active.
Authenticated(t) == session[t].live /\ user[session[t].user].active

\* No account has the e-mail yet.
StartRegister(r, u) ==
    /\ ~user[u].known
    /\ Begin(r, "register", "issuing", [Idle EXCEPT !.target = u])

StartLogin(r, u) ==
    /\ user[u].found /\ user[u].active
    /\ Begin(r, "login", "issuing", [Idle EXCEPT !.target = u])

\* Whoever has the token, whatever has become of it.
StartRefresh(r, t) ==
    /\ session[t].user # Nobody
    /\ Begin(r, "refresh", "token",
             [Idle EXCEPT !.target = session[t].user, !.with = t])

\* The session that finishes onboarding stays beside the new one.
StartOnboarding(r, t) ==
    /\ Authenticated(t)
    /\ Begin(r, "onboard", "issuing", [Idle EXCEPT !.target = session[t].user])

StartReset(r, c) ==
    /\ code[c].user # Nobody
    /\ Begin(r, "reset", "user", [Idle EXCEPT !.target = code[c].user, !.with = c])

StartChange(r, t) ==
    /\ Authenticated(t)
    /\ Begin(r, "change", "user", [Idle EXCEPT !.target = session[t].user, !.with = t])

\* All sessions of the account are read, those that ended included ...
StartDelete(r, t) ==
    LET u == session[t].user
    IN  /\ Authenticated(t)
        /\ Begin(r, "delete", "revoking", [Idle EXCEPT !.target = u, !.seen = AllSessionsOf(u)])

\* ... or one or all of them, or the other live ones (logout, revoke_session_route,
\* revoke_other_sessions_route).
StartLogout(r, t) ==
    LET u == session[t].user
        own == AllSessionsOf(u)
    IN  /\ Authenticated(t)
        /\ \E T \in {{x} : x \in own} \cup {own, SessionsOf(u) \ {t}} :
             Begin(r, "logout", "revoking", [Idle EXCEPT !.target = u, !.seen = T])

\* A super administrator signed in as t acts on another's account.
StartSuper(r, kind, t, u) ==
    LET a == session[t].user
    IN  /\ Authenticated(t) /\ user[a].super
        /\ user[u].known /\ (a # u \/ kind = "reactivate")
        /\ \E s \in BOOLEAN :
             /\ s => kind = "role"
             /\ Begin(r, kind, "user", [Idle EXCEPT !.actor = a, !.target = u, !.super = s])

\* The bulk UPDATE sees the sessions that are there when it starts.
StartRevokeAll(r, t, u) ==
    LET a == session[t].user
    IN  /\ Authenticated(t) /\ user[a].super /\ user[u].known
        /\ Begin(r, "revokeAll", "revoking",
                 [Idle EXCEPT !.actor = a, !.target = u, !.seen = SessionsOf(u)])

----------------------------------------------------------------------------
(* POST /auth/refresh                                                      *)

Revoked(T) == [t \in Tokens |-> [session[t] EXCEPT !.live = @ /\ t \notin T]]

LockToken(r) ==
    LET t == req[r].with
    IN  /\ req[r].pc = "token"
        /\ SessionsFree(r, {t})
        /\ session[t].live /\ user[session[t].user].active
        /\ req' = [req EXCEPT ![r] = [@ EXCEPT !.pc = "issuing", !.held = {t}]]
        /\ TablesUnchanged

\* 401. The session of an account that is not available is revoked.
RefuseToken(r) ==
    LET t == req[r].with
    IN  /\ req[r].pc = "token"
        /\ SessionsFree(r, {t})
        /\ ~(session[t].live /\ user[session[t].user].active)
        /\ session' = Revoked({t})
        /\ End(r)
        /\ UNCHANGED <<user, code>>

----------------------------------------------------------------------------
(* create_session                                                          *)

\* Mutant: the session belongs to what was presented.
IssuedToCredentials(r, n, T) == [Revoked(T) EXCEPT ![n] = [user |-> req[r].with, live |-> TRUE]]

\* The session of a new token, when those of T end.
Issued(r, n, T) ==
    [Revoked(T) EXCEPT ![n] = [user |-> req[r].target, live |-> TRUE]]

Unused(n) == session[n].user = Nobody

\* An onboarding inserts the session and then writes the user's row. What the insert locks
\* while a change of the password holds that row is left out: of those who have a lock, only
\* a deletion of the account could wait for it.
Issue(r, n) ==
    LET q == req[r]
    IN  /\ q.pc = "issuing" /\ Unused(n)
        /\ Referable(r, q.target)
        /\ q.kind = "onboard" => UserFree(r, q.target)
        /\ q.kind = "register" => ~user[q.target].known
        /\ session' = Issued(r, n, IF q.kind = "refresh" THEN {q.with} ELSE {})
        /\ user' = IF q.kind = "register"
                   THEN [user EXCEPT ![q.target] = [known |-> TRUE, found |-> TRUE,
                                                         active |-> TRUE, super |-> FALSE]]
                   ELSE user
        /\ End(r)
        /\ UNCHANGED code

\* The e-mail has been taken since: the unique index refuses the second account (500).
Conflict(r) ==
    /\ req[r].pc = "issuing" /\ req[r].kind = "register" /\ user[req[r].target].known
    /\ End(r)
    /\ TablesUnchanged

----------------------------------------------------------------------------
(* Password reset                                                          *)

RequestReset(c, u) ==
    /\ code[c].user = Nobody
    /\ user[u].found
    /\ \A q \in Requests : ~LocksUser(q, u) /\ ~UpdatesUser(q, u)
    /\ code' = [code EXCEPT ![c].user = u]
    /\ UNCHANGED <<user, session, req>>

----------------------------------------------------------------------------
(* The lock of the user's row, and what is decided under it                *)

Supers == {u \in Users : user[u].super /\ user[u].active}

\* The code is unspent and the account there; an owner is not the last one.
MayProceed(q) ==
    CASE q.kind = "reset" -> /\ ~code[q.with].spent
                             /\ user[q.target].found /\ user[q.target].active
      [] q.kind = "suspend" -> user[q.target].super => Cardinality(Supers) > 1
      [] OTHER -> TRUE

\* The sessions to revoke are read under the lock: a reset takes those that ended, too, and a
\* change leaves the current one.
SeenUnderLock(q) ==
    CASE q.kind = "reset" -> AllSessionsOf(q.target)
      [] q.kind = "suspend" -> SessionsOf(q.target)
      [] q.kind = "change" -> SessionsOf(q.target) \ {q.with}
      [] OTHER -> {}

LockUser(r) ==
    LET q == req[r]
    IN  /\ q.pc = "user" /\ UserFree(r, q.target)
        /\ MayProceed(q)
        /\ req' = [req EXCEPT ![r] = [q EXCEPT
             !.pc = IF q.kind \in {"reactivate", "role"} THEN "auditing" ELSE "revoking",
             !.seen = SeenUnderLock(q)]]
        /\ TablesUnchanged

\* 410 EXPIRED_RESOURCE, 409 LAST_SUPER_ADMIN
Refuse(r) ==
    /\ req[r].pc = "user" /\ UserFree(r, req[r].target)
    /\ ~MayProceed(req[r])
    /\ End(r)
    /\ TablesUnchanged

----------------------------------------------------------------------------
(* The rows of the sessions that end                                       *)

\* A flush writes rows in the order of their keys, a bulk UPDATE as its scan finds them.
InKeyOrder(q) == q.kind \notin {"suspend", "revokeAll"}

\* Mutant: a flush writes rows in the order in which they were read.
NextRowsInAnyOrder(q) == q.seen \ q.held

NextRows(q) == {t \in q.seen \ q.held : InKeyOrder(q) => \A s \in q.seen \ q.held : t <= s}

LockRow(r, t) ==
    /\ req[r].pc = "revoking" /\ t \in NextRows(req[r])
    /\ SessionsFree(r, {t})
    /\ req' = [req EXCEPT ![r].held = @ \cup {t}]
    /\ TablesUnchanged

CanRevoke(r) == req[r].pc = "revoking" /\ req[r].seen \subseteq req[r].held

\* password_reset_confirm: every code of the account is spent.
CommitReset(r, n) ==
    /\ CanRevoke(r) /\ req[r].kind = "reset" /\ Unused(n)
    /\ session' = Issued(r, n, req[r].seen)
    /\ code' = [c \in Codes |-> [code[c] EXCEPT !.spent = @ \/ code[c].user = req[r].target]]
    /\ End(r)
    /\ UNCHANGED user

\* logout, revoke-others, password change, deletion. A deletion writes the user's row after
\* those of the sessions, and the e-mail of the account is gone.
CommitRevocation(r) ==
    LET q == req[r]
    IN  /\ CanRevoke(r) /\ q.kind \in {"logout", "change", "delete"}
        /\ q.kind = "delete" => UserFree(r, q.target)
        /\ session' = Revoked(q.seen)
        /\ user' = IF q.kind = "delete"
                   THEN [user EXCEPT ![q.target] = [@ EXCEPT !.found = FALSE, !.active = FALSE]]
                   ELSE user
        /\ End(r)
        /\ UNCHANGED code

RevokeForAudit(r) ==
    /\ CanRevoke(r) /\ req[r].kind \in {"suspend", "revokeAll"}
    /\ Goto(r, "auditing")
    /\ TablesUnchanged

----------------------------------------------------------------------------
\* change_admin_role, suspend_user, reactivate_user, revoke_sessions
Audit(r) ==
    LET q == req[r]
    IN  /\ q.pc = "auditing"
        /\ Referable(r, q.actor)
        /\ session' = Revoked(q.seen)
        /\ user' = CASE q.kind = "suspend" -> [user EXCEPT ![q.target].active = FALSE]
                     [] q.kind = "reactivate" -> [user EXCEPT ![q.target].active = TRUE]
                     [] q.kind = "role" -> [user EXCEPT ![q.target].super = q.super]
                     [] OTHER -> user
        /\ End(r)
        /\ UNCHANGED code

----------------------------------------------------------------------------
WaitsFor(r, q) ==
    /\ r # q
    /\ \/ req[r].pc = "token" /\ LocksSession(q, req[r].with)
       \/ req[r].pc = "user" /\ (LocksUser(q, req[r].target) \/ UpdatesUser(q, req[r].target))
       \/ req[r].pc = "revoking" /\ \E t \in NextRows(req[r]) : LocksSession(q, t)
       \/ /\ CanRevoke(r) /\ req[r].kind = "delete"
          /\ LocksUser(q, req[r].target) \/ UpdatesUser(q, req[r].target)
       \/ req[r].pc = "auditing" /\ LocksUser(q, req[r].actor)
       \/ /\ req[r].pc = "issuing"
          /\ \/ LocksUser(q, req[r].target)
             \/ req[r].kind = "onboard" /\ UpdatesUser(q, req[r].target)

Deadlocked(S) == S # {} /\ \A r \in S : \E q \in S : WaitsFor(r, q)

\* An error, a lost connection, or PostgreSQL ends a transaction of a deadlock.
Fail(r) ==
    /\ req[r].pc # "idle"
    /\ End(r)
    /\ TablesUnchanged

Start(r) ==
    \/ \E u \in Users : StartRegister(r, u) \/ StartLogin(r, u)
    \/ \E c \in Codes : StartReset(r, c)
    \/ \E t \in Tokens :
         \/ StartRefresh(r, t) \/ StartOnboarding(r, t) \/ StartChange(r, t)
         \/ StartDelete(r, t) \/ StartLogout(r, t)
         \/ \E u \in Users :
              \/ StartRevokeAll(r, t, u)
              \/ \E k \in {"suspend", "reactivate", "role"} : StartSuper(r, k, t, u)

Step(r) ==
    \/ LockToken(r) \/ RefuseToken(r) \/ LockUser(r) \/ Refuse(r) \/ Conflict(r)
    \/ \E n \in Tokens : Issue(r, n) \/ CommitReset(r, n) \/ LockRow(r, n)
    \/ CommitRevocation(r) \/ RevokeForAudit(r) \/ Audit(r) \/ Fail(r)

Next ==
    \/ \E r \in Requests : Start(r) \/ Step(r)
    \/ \E c \in Codes, u \in Users : RequestReset(c, u)

Spec == Init /\ [][Next]_vars
=============================================================================
