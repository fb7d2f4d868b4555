--------------------------- MODULE AccountProofs ---------------------------
(***************************************************************************)
(* Proofs about accounts, sessions and the limit on attempts, for any      *)
(* number of users, tokens, codes, requests, processes and identities. For *)
(* accounts everything rests on what the locks keep apart: two requests    *)
(* that hold a user's row, or the row of a session, are the same. For the  *)
(* limit, on how far what is admitted, or may still be, rises with each    *)
(* tick.                                                                   *)
(***************************************************************************)
EXTENDS MCAccounts, NumberProofs

\* The rows of sessions that a request holds: those of what it revokes come one by one, and
\* those of a flush in the order of their keys.
HoldsRows(q) ==
    /\ q.pc \in {"idle", "token", "user"} => q.held = {}
    /\ q.pc = "issuing" => q.held = IF q.kind = "refresh" THEN {q.with} ELSE {}
    /\ q.pc = "revoking" => q.held \subseteq q.seen
    /\ q.pc = "auditing" => q.held = q.seen
    /\ q.pc = "revoking" /\ InKeyOrder(q) => \A h \in q.held, s \in q.seen \ q.held : h < s

\* Where requests of each kind can stand, and what they then have in hand.
Formed(q) ==
    /\ q.pc = "idle" <=> q.kind = "none"
    /\ q.pc = "idle" => q.seen = {}
    /\ q.pc = "token" => q.kind = "refresh"
    /\ q.pc = "user" => q.kind \in {"reset", "change", "suspend", "reactivate", "role"}
    /\ q.pc = "revoking" => q.kind \in {"logout", "revokeAll", "reset", "change", "delete", "suspend"}
    /\ q.pc = "auditing" => q.kind \in {"reactivate", "role", "suspend", "revokeAll"}
    /\ q.pc = "issuing" => q.kind \in {"register", "login", "refresh", "onboard"}
    /\ q.pc # "idle" => q.target \in Users
    /\ q.kind = "reset" => q.with \in Codes
    /\ q.kind = "refresh" => q.with \in Tokens
    /\ q.kind \in {"reactivate", "role"} => q.seen = {}
    /\ HoldsRows(q)

AllFormed == \A r \in Requests : Formed(req[r])

\* What a request revokes or rotates are sessions of one account.
OfOneAccount(q) ==
    /\ \A t \in q.seen : session[t].user = q.target
    /\ q.kind = "refresh" => session[q.with].user = q.target

AllOfOneAccount == \A r \in Requests : OfOneAccount(req[r])

\* The row of a user is locked FOR UPDATE by one request at most, and so is a session's.
UsersApart == \A u \in Users : \A r, q \in Requests : LocksUser(r, u) /\ LocksUser(q, u) => r = q

SessionsApart ==
    \A t \in Tokens : \A r, q \in Requests : LocksSession(r, t) /\ LocksSession(q, t) => r = q

\* The session of a token that is being rotated stays live until it is.
RotatedIsLive ==
    \A r \in Requests : req[r].kind = "refresh" /\ req[r].pc = "issuing" => session[req[r].with].live

\* A code belongs to the account that its reset is about, and is unspent once that is locked.
ResetIsDue ==
    \A r \in Requests : req[r].kind = "reset" =>
        /\ code[req[r].with].user = req[r].target
        /\ req[r].pc = "revoking" => ~code[req[r].with].spent

SessionInv ==
    /\ TypeOK /\ AllFormed /\ AllOfOneAccount /\ UsersApart /\ SessionsApart
    /\ RotatedIsLive /\ ResetIsDue /\ NothingEscapes

----------------------------------------------------------------------------
\* A request that begins holds no lock.
Fresh(q) ==
    /\ q \in Request /\ Formed(q) /\ OfOneAccount(q)
    /\ q.pc \in {"token", "user", "issuing", "revoking"} /\ q.held = {}
    /\ q.pc = "revoking" => q.kind \in {"logout", "revokeAll", "delete"}
    /\ q.kind = "reset" => code[q.with].user = q.target

LEMMA IdleFact == Idle \in Request /\ Formed(Idle)
BY DEF Idle, Request, Formed, HoldsRows, Phase

LEMMA StartIsFresh ==
  ASSUME TypeOK, NEW r \in Requests, Start(r)
  PROVE  /\ TablesUnchanged
         /\ \E q : Fresh(q) /\ req' = [req EXCEPT ![r] = q]
<1> USE AccountAssumption DEF TypeOK, Request, Phase, AllKinds, HoldsRows, OfOneAccount
<1>1. ASSUME NEW u \in Users, StartRegister(r, u) \/ StartLogin(r, u)
      PROVE  TablesUnchanged /\ \E q : Fresh(q) /\ req' = [req EXCEPT ![r] = q]
  BY <1>1 DEF StartRegister, StartLogin, Begin, Fresh, Formed, Idle
<1>2. ASSUME NEW c \in Codes, StartReset(r, c)
      PROVE  TablesUnchanged /\ \E q : Fresh(q) /\ req' = [req EXCEPT ![r] = q]
  <2>1. code[c].user \in Users
    BY <1>2 DEF StartReset
  <2>2. QED
    BY <1>2, <2>1 DEF StartReset, Begin, Fresh, Formed, Idle
<1>3. ASSUME NEW t \in Tokens, StartRefresh(r, t)
      PROVE  TablesUnchanged /\ \E q : Fresh(q) /\ req' = [req EXCEPT ![r] = q]
  <2>1. session[t].user \in Users
    BY <1>3 DEF StartRefresh
  <2>2. QED
    BY <1>3, <2>1 DEF StartRefresh, Begin, Fresh, Formed, Idle
<1>4. ASSUME NEW t \in Tokens, StartOnboarding(r, t) \/ StartChange(r, t)
      PROVE  TablesUnchanged /\ \E q : Fresh(q) /\ req' = [req EXCEPT ![r] = q]
  <2>1. session[t].user \in Users
    BY <1>4 DEF StartOnboarding, StartChange, Authenticated
  <2>2. QED
    BY <1>4, <2>1 DEF StartOnboarding, StartChange, Begin, Fresh, Formed, Idle
<1>41. ASSUME NEW p \in Request, NEW kind \in {"logout", "delete", "revokeAll"},
              p.target \in Users, p.seen \subseteq AllSessionsOf(p.target), p.held = {},
              Begin(r, kind, "revoking", p)
       PROVE  TablesUnchanged /\ \E q : Fresh(q) /\ req' = [req EXCEPT ![r] = q]
  <2> DEFINE q == [p EXCEPT !.kind = kind, !.pc = "revoking"]
  <2>1. TablesUnchanged /\ req' = [req EXCEPT ![r] = q]
    BY <1>41 DEF Begin
  <2>2. Fresh(q)
    BY <1>41 DEF Fresh, Formed, AllSessionsOf
  <2>3. QED
    BY <2>1, <2>2
<1>5. ASSUME NEW t \in Tokens, StartLogout(r, t) \/ StartDelete(r, t)
      PROVE  TablesUnchanged /\ \E q : Fresh(q) /\ req' = [req EXCEPT ![r] = q]
  <2> DEFINE u == session[t].user
             own == AllSessionsOf(u)
             sets == {{x} : x \in own} \cup {own, SessionsOf(u) \ {t}}
             begun(kind, T) == Begin(r, kind, "revoking", [Idle EXCEPT !.target = u, !.seen = T])
  <2>1. u \in Users
    BY <1>5 DEF StartLogout, StartDelete, Authenticated
  <2>2. \A T \in sets : T \subseteq own
    BY DEF SessionsOf
  <2>3. PICK kind \in {"logout", "delete"}, T \in SUBSET own : begun(kind, T)
    <3>1. StartLogout(r, t) => \E T \in sets : begun("logout", T)
      BY DEF StartLogout
    <3>2. StartDelete(r, t) => begun("delete", own)
      BY DEF StartDelete
    <3> HIDE DEF begun, sets, own
    <3>3. QED
      BY <1>5, <2>2, <3>1, <3>2
  <2> DEFINE p == [Idle EXCEPT !.target = u, !.seen = T]
  <2>4. p \in Request /\ p.target = u /\ p.seen = T /\ p.held = {}
    BY <2>1 DEF Idle, AllSessionsOf
  <2>5. Begin(r, kind, "revoking", p)
    BY <2>3
  <2> HIDE DEF p, u
  <2>6. QED
    BY <1>41, <2>1, <2>4, <2>5
<1>6. ASSUME NEW t \in Tokens, NEW u \in Users, StartRevokeAll(r, t, u)
      PROVE  TablesUnchanged /\ \E q : Fresh(q) /\ req' = [req EXCEPT ![r] = q]
  <2> DEFINE p == [Idle EXCEPT !.actor = session[t].user, !.target = u, !.seen = SessionsOf(u)]
  <2>1. session[t].user \in Users /\ SessionsOf(u) \subseteq AllSessionsOf(u)
    BY <1>6 DEF StartRevokeAll, Authenticated, SessionsOf
  <2>2. p \in Request /\ p.target = u /\ p.seen = SessionsOf(u) /\ p.held = {}
    BY <2>1 DEF Idle, AllSessionsOf
  <2>3. Begin(r, "revokeAll", "revoking", p)
    BY <1>6 DEF StartRevokeAll
  <2> HIDE DEF p
  <2>4. QED
    BY <1>41, <2>1, <2>2, <2>3
<1>7. ASSUME NEW t \in Tokens, NEW u \in Users, NEW k \in {"suspend", "reactivate", "role"},
             StartSuper(r, k, t, u)
      PROVE  TablesUnchanged /\ \E q : Fresh(q) /\ req' = [req EXCEPT ![r] = q]
  <2>1. session[t].user \in Users
    BY <1>7 DEF StartSuper, Authenticated
  <2>2. QED
    BY <1>7, <2>1 DEF StartSuper, Begin, Fresh, Formed, Idle
<1>8. QED
  BY <1>1, <1>2, <1>3, <1>4, <1>5, <1>6, <1>7 DEF Start

\* The types of the two tables that steps write.
UsersTyped(f) == f \in [Users -> [known: BOOLEAN, found: BOOLEAN, active: BOOLEAN, super: BOOLEAN]]

SessionsTyped(f) == /\ f \in [Tokens -> [user: Users \cup {Nobody}, live: BOOLEAN]]
                    /\ \A t \in Tokens : f[t].live => f[t].user # Nobody

LEMMA UserWrites ==
  ASSUME TypeOK, NEW u, NEW b \in BOOLEAN
  PROVE  /\ UsersTyped([user EXCEPT ![u] = [known |-> TRUE, found |-> TRUE,
                                            active |-> TRUE, super |-> FALSE]])
         /\ UsersTyped([user EXCEPT ![u] = [@ EXCEPT !.found = FALSE, !.active = FALSE]])
         /\ UsersTyped([user EXCEPT ![u].active = b])
         /\ UsersTyped([user EXCEPT ![u].super = b])
BY DEF TypeOK, UsersTyped

LEMMA RevocationWrites ==
  ASSUME TypeOK, NEW T \in SUBSET Tokens
  PROVE  SessionsTyped(Revoked(T))
BY DEF TypeOK, SessionsTyped, Revoked

LEMMA IssueWrites ==
  ASSUME TypeOK, NEW T \in SUBSET Tokens, NEW n \in Tokens, NEW r, req[r].target \in Users
  PROVE  SessionsTyped(Issued(r, n, T))
BY RevocationWrites, AccountAssumption DEF SessionsTyped, Issued

\* The rows of the least key come first, and are greater than those that are held.
LEMMA NextRowFact ==
  ASSUME NEW q, q \in Request, Formed(q), q.pc = "revoking", InKeyOrder(q), NEW t \in NextRows(q)
  PROVE  /\ t \in Tokens /\ t \in q.seen /\ t \notin q.held
         /\ \A h \in q.held : h < t
         /\ \A s \in q.seen \ (q.held \cup {t}) : t < s
<1>1. q.seen \subseteq Nat /\ q.seen \subseteq Tokens
  BY AccountAssumption DEF Request
<1>2. t \in q.seen \ q.held /\ \A s \in q.seen \ q.held : t <= s
  BY DEF NextRows
<1>3. \A s \in q.seen \ (q.held \cup {t}) : t < s
  <2> SUFFICES ASSUME NEW s \in q.seen, s \notin q.held, s # t PROVE t < s
    OBVIOUS
  <2>1. t <= s /\ t \in Nat /\ s \in Nat
    BY <1>1, <1>2
  <2>2. QED
    BY <2>1
<1>4. QED
  BY <1>1, <1>2, <1>3 DEF Formed, HoldsRows

\* A lock taken leaves a request well formed.
LEMMA LockingForms ==
  ASSUME TypeOK, AllFormed, NEW r \in Requests
  PROVE  /\ LockToken(r) =>
              Formed([req[r] EXCEPT !.pc = "issuing", !.held = {req[r].with}])
         /\ LockUser(r) =>
              Formed([req[r] EXCEPT
                !.pc = IF req[r].kind \in {"reactivate", "role"} THEN "auditing" ELSE "revoking",
                !.seen = SeenUnderLock(req[r])])
         /\ RevokeForAudit(r) => Formed([req[r] EXCEPT !.pc = "auditing"])
         /\ \A t \in Tokens : LockRow(r, t) => Formed([req[r] EXCEPT !.held = @ \cup {t}])
<1>0. req[r] \in Request /\ Formed(req[r])
  BY DEF TypeOK, AllFormed
<1>1. ASSUME LockToken(r)
      PROVE  Formed([req[r] EXCEPT !.pc = "issuing", !.held = {req[r].with}])
  BY <1>0, <1>1 DEF LockToken, Request, Formed, HoldsRows
<1>2. ASSUME LockUser(r)
      PROVE  Formed([req[r] EXCEPT
                !.pc = IF req[r].kind \in {"reactivate", "role"} THEN "auditing" ELSE "revoking",
                !.seen = SeenUnderLock(req[r])])
  <2>1. req[r].pc = "user"
    BY <1>2 DEF LockUser
  <2>2. req[r].kind \in {"reactivate", "role"} => SeenUnderLock(req[r]) = {}
    BY DEF SeenUnderLock
  <2>3. QED
    BY <1>0, <2>1, <2>2 DEF Request, Formed, HoldsRows
<1>3. ASSUME RevokeForAudit(r)
      PROVE  Formed([req[r] EXCEPT !.pc = "auditing"])
  BY <1>0, <1>3 DEF RevokeForAudit, CanRevoke, Request, Formed, HoldsRows
<1>4. ASSUME NEW t \in Tokens, LockRow(r, t)
      PROVE  Formed([req[r] EXCEPT !.held = @ \cup {t}])
  <2> DEFINE q == [req[r] EXCEPT !.held = @ \cup {t}]
  <2>1. req[r].pc = "revoking" /\ t \in NextRows(req[r]) /\ t \in req[r].seen
    BY <1>4 DEF LockRow, NextRows
  <2>2. /\ q.pc = req[r].pc /\ q.kind = req[r].kind /\ q.target = req[r].target
        /\ q.with = req[r].with /\ q.seen = req[r].seen /\ q.held = req[r].held \cup {t}
    BY <1>0 DEF Request
  <2>3. InKeyOrder(req[r]) => \A h \in q.held, s \in q.seen \ q.held : h < s
    <3> SUFFICES ASSUME InKeyOrder(req[r]), NEW h \in q.held, NEW s \in q.seen \ q.held PROVE h < s
      OBVIOUS
    <3>1. CASE h = t
      BY <1>0, <2>1, <2>2, <3>1, NextRowFact
    <3>2. CASE h # t
      BY <1>0, <2>1, <2>2, <3>2 DEF Formed, HoldsRows
    <3>3. QED
      BY <3>1, <3>2
  <2> HIDE DEF q
  <2>4. HoldsRows(q)
    BY <1>0, <2>1, <2>2, <2>3 DEF HoldsRows, InKeyOrder, Formed
  <2>5. Formed(q)
    BY <1>0, <2>1, <2>2, <2>4 DEF Formed
  <2>6. QED
    BY <2>5 DEF q
<1>5. QED
  BY <1>1, <1>2, <1>3, <1>4

\* A step of r changes its own place only, and every variable keeps its type.
LEMMA StepForms ==
  ASSUME TypeOK, AllFormed, NEW r \in Requests, Step(r)
  PROVE  TypeOK' /\ \E q \in Request : Formed(q) /\ req' = [req EXCEPT ![r] = q]
<1> USE AccountAssumption DEF TypeOK
<1>0. req[r] \in Request /\ Formed(req[r])
  BY DEF AllFormed
<1>3. ASSUME End(r), UNCHANGED code, UsersTyped(user'), SessionsTyped(session')
      PROVE  TypeOK' /\ \E q \in Request : Formed(q) /\ req' = [req EXCEPT ![r] = q]
  BY <1>3, IdleFact DEF End, UsersTyped, SessionsTyped
<1>31. UsersTyped(user) /\ SessionsTyped(session)
  BY DEF UsersTyped, SessionsTyped
<1>4. ASSUME NEW q \in Request, Formed(q), req' = [req EXCEPT ![r] = q], TablesUnchanged
      PROVE  TypeOK' /\ \E p \in Request : Formed(p) /\ req' = [req EXCEPT ![r] = p]
  BY <1>4 DEF TablesUnchanged
<1>41. CASE LockToken(r)
  <2> DEFINE q == [req[r] EXCEPT !.pc = "issuing", !.held = {req[r].with}]
  <2>1. q \in Request
    BY <1>0, <1>41 DEF LockToken, Formed, Request, Phase
  <2>2. QED
    BY <1>4, <1>41, <2>1, LockingForms DEF LockToken
<1>42. CASE LockUser(r)
  <2> DEFINE q == [req[r] EXCEPT
               !.pc = IF req[r].kind \in {"reactivate", "role"} THEN "auditing" ELSE "revoking",
               !.seen = SeenUnderLock(req[r])]
  <2>1. SeenUnderLock(req[r]) \subseteq Tokens
    BY DEF SeenUnderLock, SessionsOf, AllSessionsOf
  <2>2. q \in Request
    BY <1>0, <2>1 DEF Request, Phase
  <2>3. QED
    BY <1>4, <1>42, <2>2, LockingForms DEF LockUser
<1>43. CASE RevokeForAudit(r)
  <2> DEFINE q == [req[r] EXCEPT !.pc = "auditing"]
  <2>1. q \in Request /\ req' = [req EXCEPT ![r] = q]
    BY <1>0, <1>43 DEF RevokeForAudit, Goto, Request, Phase
  <2>2. QED
    BY <1>4, <1>43, <2>1, LockingForms DEF RevokeForAudit
<1>44. ASSUME NEW t \in Tokens, LockRow(r, t)
       PROVE  TypeOK' /\ \E q \in Request : Formed(q) /\ req' = [req EXCEPT ![r] = q]
  <2> DEFINE q == [req[r] EXCEPT !.held = @ \cup {t}]
  <2>1. q \in Request /\ req' = [req EXCEPT ![r] = q] /\ TablesUnchanged
    BY <1>0, <1>44 DEF LockRow, Request
  <2>2. Formed(q)
    BY <1>44, LockingForms
  <2> HIDE DEF q
  <2>3. QED
    BY <1>4, <2>1, <2>2
<1>5. CASE RefuseToken(r)
  <2>1. req[r].with \in Tokens
    BY <1>0, <1>5 DEF RefuseToken, Formed
  <2>2. session' = Revoked({req[r].with}) /\ UNCHANGED <<user, code>> /\ End(r)
    BY <1>5 DEF RefuseToken
  <2>3. SessionsTyped(session')
    BY <2>1, <2>2, RevocationWrites
  <2>4. QED
    BY <1>3, <1>31, <2>2, <2>3
<1>6. ASSUME NEW n \in Tokens, Issue(r, n)
      PROVE  TypeOK' /\ \E q \in Request : Formed(q) /\ req' = [req EXCEPT ![r] = q]
  <2>1. req[r].target \in Users /\ (req[r].kind = "refresh" => req[r].with \in Tokens)
    BY <1>0, <1>6 DEF Issue, Formed
  <2>2. PICK T \in SUBSET Tokens : session' = Issued(r, n, T)
    BY <1>6, <2>1 DEF Issue
  <2>3. SessionsTyped(session')
    <3>1. SessionsTyped(Issued(r, n, T))
      BY <2>1, IssueWrites
    <3>2. QED
      BY <2>2, <3>1
  <2>4. UsersTyped(user')
    BY <1>31, <1>6, UserWrites, TRUE \in BOOLEAN DEF Issue
  <2>5. QED
    BY <1>3, <1>6, <2>3, <2>4 DEF Issue
<1>7. ASSUME NEW n \in Tokens, CommitReset(r, n)
      PROVE  TypeOK' /\ \E q \in Request : Formed(q) /\ req' = [req EXCEPT ![r] = q]
  <2>1. req[r].target \in Users /\ req[r].seen \subseteq Tokens
    BY <1>0, <1>7 DEF CommitReset, Formed, Request
  <2>2. session' = Issued(r, n, req[r].seen) /\ End(r) /\ UNCHANGED user
    BY <1>7 DEF CommitReset
  <2>3. SessionsTyped(session')
    BY <2>1, <2>2, IssueWrites
  <2>4. code' \in [Codes -> [user: Users \cup {Nobody}, spent: BOOLEAN]]
    BY <1>7 DEF CommitReset
  <2>5. QED
    BY <2>2, <2>3, <2>4, IdleFact DEF SessionsTyped, End
<1>8. CASE CommitRevocation(r) \/ Audit(r)
  <2>1. req[r].seen \subseteq Tokens /\ req[r].super \in BOOLEAN
    BY <1>0 DEF Request
  <2>2. session' = Revoked(req[r].seen) /\ End(r) /\ UNCHANGED code
    BY <1>8 DEF CommitRevocation, Audit
  <2>3. UsersTyped(user')
    <3>1. CASE CommitRevocation(r)
      BY <1>31, <3>1, UserWrites, TRUE \in BOOLEAN DEF CommitRevocation
    <3>2. CASE Audit(r)
      BY <1>31, <2>1, <3>2, UserWrites DEF Audit
    <3>3. QED
      BY <1>8, <3>1, <3>2
  <2>4. SessionsTyped(session')
    BY <2>1, <2>2, RevocationWrites
  <2>5. QED
    BY <1>3, <2>2, <2>3, <2>4
<1>9. CASE Refuse(r) \/ Conflict(r) \/ Fail(r)
  BY <1>3, <1>31, <1>9 DEF Refuse, Conflict, Fail, TablesUnchanged
<1>10. QED
  BY <1>41, <1>42, <1>43, <1>44, <1>5, <1>6, <1>7, <1>8, <1>9 DEF Step

\* What the locks keep apart, over every step.
Apart == UsersApart /\ SessionsApart

\* A request that takes locks finds them free, and one that ends has none.
LEMMA ApartStep ==
  ASSUME TypeOK, AllFormed, Apart, NEW r \in Requests, Start(r) \/ Step(r)
  PROVE  Apart'
<1>0. req \in [Requests -> Request] /\ Formed(req[r])
  BY DEF TypeOK, AllFormed
<1> DEFINE Keeps(q) ==
      /\ \A u \in Users : LocksUser(q, u)' => \/ LocksUser(q, u)
                                              \/ \A p \in Others(q) : ~LocksUser(p, u)
      /\ \A t \in Tokens : LocksSession(q, t)' => \/ LocksSession(q, t)
                                                  \/ \A p \in Others(q) : ~LocksSession(p, t)
<1>1. ASSUME Keeps(r), \A q \in Others(r) : req'[q] = req[q]
      PROVE  Apart'
  BY <1>1 DEF Apart, UsersApart, SessionsApart, LocksUser, LocksSession, Others
<1>2. CASE Start(r)
  <2>1. PICK q : Fresh(q) /\ req' = [req EXCEPT ![r] = q]
    BY <1>2, StartIsFresh
  <2>2. req'[r] = q /\ \A p \in Others(r) : req'[p] = req[p]
    BY <1>0, <2>1 DEF Others
  <2>3. Keeps(r)
    BY <2>1, <2>2, AccountAssumption DEF Fresh, LocksUser, LocksSession
  <2>4. QED
    BY <1>1, <2>2, <2>3
<1>3. CASE End(r)
  BY <1>0, <1>1, <1>3, AccountAssumption DEF End, Idle, LocksUser, LocksSession, Others
<1>4. CASE LockToken(r)
  BY <1>0, <1>1, <1>4 DEF LockToken, SessionsFree, LocksUser, LocksSession, Others, Formed, Request
<1>5. CASE LockUser(r)
  <2>1. \A q \in Others(r) : req'[q] = req[q]
    BY <1>0, <1>5 DEF LockUser, Others
  <2>2. \A u \in Users : LocksUser(r, u)' => \A p \in Others(r) : ~LocksUser(p, u)
    BY <1>0, <1>5 DEF LockUser, UserFree, LocksUser, Request
  <2>3. \A t \in Tokens : ~LocksSession(r, t)'
    BY <1>0, <1>5 DEF LockUser, LocksSession, Formed, HoldsRows, Request
  <2>4. QED
    BY <1>1, <2>1, <2>2, <2>3
<1>6. CASE RevokeForAudit(r)
  BY <1>0, <1>1, <1>6 DEF RevokeForAudit, CanRevoke, Goto, LocksUser, LocksSession, Others, Request
<1>61. ASSUME NEW t \in Tokens, LockRow(r, t)
       PROVE  Apart'
  <2>1. /\ req'[r] = [req[r] EXCEPT !.held = @ \cup {t}]
        /\ \A q \in Others(r) : req'[q] = req[q]
    BY <1>0, <1>61 DEF LockRow, Others
  <2>2. /\ req'[r].pc = req[r].pc /\ req'[r].kind = req[r].kind /\ req'[r].target = req[r].target
        /\ req'[r].held = req[r].held \cup {t}
    BY <1>0, <2>1 DEF Request
  <2>3. \A q \in Others(r) : ~LocksSession(q, t)
    BY <1>61 DEF LockRow, SessionsFree
  <2>4. QED
    BY <1>1, <2>1, <2>2, <2>3 DEF LocksUser, LocksSession
<1>7. QED
  BY <1>2, <1>3, <1>4, <1>5, <1>6, <1>61
     DEF Step, RefuseToken, Refuse, Conflict, Issue, CommitReset, CommitRevocation, Audit, Fail

\* What gets a request a lock, or the next one.
Locks(r) == LockToken(r) \/ LockUser(r) \/ RevokeForAudit(r) \/ \E t \in Tokens : LockRow(r, t)

\* A request that gets a lock is still about the same.
LEMMA LockingKeeps ==
  ASSUME TypeOK, AllFormed, NEW r \in Requests, Locks(r)
  PROVE  /\ TablesUnchanged
         /\ req'[r].kind = req[r].kind /\ req'[r].target = req[r].target /\ req'[r].with = req[r].with
         /\ LockToken(r) => req[r].kind = "refresh" /\ req'[r].seen = req[r].seen
         /\ LockUser(r) => req[r].kind # "refresh" /\ req'[r].seen = SeenUnderLock(req[r])
         /\ ~LockToken(r) /\ ~LockUser(r) =>
              /\ req[r].kind # "refresh" /\ req[r].pc = "revoking"
              /\ req'[r].seen = req[r].seen
              /\ req[r].kind = "reset" => req'[r].pc = "revoking"
<1>0. req \in [Requests -> Request] /\ Formed(req[r])
  BY DEF TypeOK, AllFormed
<1> USE DEF Formed, Request, TablesUnchanged
<1>1. CASE LockToken(r)
  BY <1>0, <1>1 DEF LockToken, LockUser
<1>2. CASE LockUser(r)
  BY <1>0, <1>2 DEF LockToken, LockUser
<1>3. CASE RevokeForAudit(r)
  BY <1>0, <1>3 DEF LockToken, LockUser, RevokeForAudit, CanRevoke, Goto
<1>4. ASSUME NEW t \in Tokens, LockRow(r, t)
      PROVE  /\ TablesUnchanged
             /\ req'[r].kind = req[r].kind /\ req'[r].target = req[r].target /\ req'[r].with = req[r].with
             /\ req'[r].seen = req[r].seen /\ req'[r].pc = "revoking" /\ req[r].pc = "revoking"
  BY <1>0, <1>4 DEF LockRow
<1>5. QED
  BY <1>0, <1>1, <1>2, <1>3, <1>4 DEF Locks, LockToken, LockUser

\* What r does when it neither begins nor gets a lock.
LEMMA OtherSteps ==
  ASSUME NEW r \in Requests, Step(r), ~Locks(r)
  PROVE  End(r)
BY DEF Step, Locks, RefuseToken, Refuse, Conflict, Issue, CommitReset, CommitRevocation, Audit, Fail

\* A session belongs to its account from the start to the end.
LEMMA OwnersStay ==
  ASSUME TypeOK, AllFormed, NEW r \in Requests, Start(r) \/ Step(r), NEW t \in Tokens, session[t].user \in Users
  PROVE  session'[t].user = session[t].user
<1>1. ASSUME NEW T, session' = Revoked(T)
      PROVE  session'[t].user = session[t].user
  BY <1>1 DEF Revoked, TypeOK
<1>2. ASSUME NEW T, NEW n \in Tokens, Unused(n), session' = Issued(r, n, T)
      PROVE  session'[t].user = session[t].user
  <2>1. n # t
    BY <1>2, AccountAssumption DEF Unused
  <2>2. QED
    BY <1>2, <2>1 DEF Issued, Revoked, TypeOK
<1>3. CASE Start(r)
  BY <1>3, StartIsFresh DEF TablesUnchanged
<1>4. CASE Locks(r)
  BY <1>4, LockingKeeps DEF TablesUnchanged
<1>5. CASE RefuseToken(r) \/ CommitRevocation(r) \/ Audit(r)
  BY <1>1, <1>5 DEF RefuseToken, CommitRevocation, Audit
<1>6. CASE \E n \in Tokens : Issue(r, n) \/ CommitReset(r, n)
  BY <1>2, <1>6 DEF Issue, CommitReset
<1>7. CASE Refuse(r) \/ Conflict(r) \/ Fail(r)
  BY <1>7 DEF Refuse, Conflict, Fail, TablesUnchanged
<1>8. QED
  BY <1>3, <1>4, <1>5, <1>6, <1>7 DEF Step, Locks

\* Requests stay within one account.
LEMMA OneAccountStep ==
  ASSUME SessionInv, NEW r \in Requests, Start(r) \/ Step(r)
  PROVE  AllOfOneAccount'
<1> USE DEF SessionInv
<1>0. req \in [Requests -> Request] /\ \A q \in Requests : Formed(req[q]) /\ OfOneAccount(req[q])
  BY DEF TypeOK, AllFormed, AllOfOneAccount
<1>1. ASSUME NEW q, Formed(q), q \in Request, OfOneAccount(q)
      PROVE  OfOneAccount(q)'
  <2>1. q.pc # "idle" => q.target \in Users
    BY <1>1 DEF Formed
  <2>2. q.pc = "idle" => q.kind # "refresh"
    BY <1>1 DEF Formed
  <2>3. ASSUME NEW t \in q.seen, q.pc # "idle" PROVE session'[t].user = q.target
    BY <1>1, <2>1, <2>3, OwnersStay DEF OfOneAccount, Request
  <2>4. q.kind = "refresh" => session'[q.with].user = q.target
    BY <1>1, <2>1, <2>2, OwnersStay DEF OfOneAccount, Formed
  <2>5. q.pc = "idle" => q.seen = {}
    BY <1>1 DEF Formed
  <2>6. QED
    BY <2>3, <2>4, <2>5 DEF OfOneAccount
<1>2. \A q \in Requests \ {r} : req'[q] = req[q]
  <2>1. \E q : req' = [req EXCEPT ![r] = q]
    BY StartIsFresh, StepForms
  <2>2. QED
    BY <1>0, <2>1
<1>3. OfOneAccount(req[r]) /\ OfOneAccount(Idle)
  BY <1>0, AccountAssumption DEF OfOneAccount, Idle
<1>4. OfOneAccount(req[r])'
  <2>1. CASE Start(r)
    <3>1. PICK q : Fresh(q) /\ req' = [req EXCEPT ![r] = q]
      BY <2>1, StartIsFresh
    <3>2. req'[r] = q
      BY <1>0, <3>1
    <3>3. QED
      BY <1>1, <3>1, <3>2 DEF Fresh, OfOneAccount
  <2>2. CASE LockUser(r)
    <3>1. session' = session /\ req'[r].kind # "refresh" /\ req'[r].target = req[r].target
          /\ req'[r].seen = SeenUnderLock(req[r])
      BY <2>2, LockingKeeps DEF Locks, TablesUnchanged
    <3>2. \A t \in SeenUnderLock(req[r]) : session[t].user = req[r].target
      BY DEF SeenUnderLock, SessionsOf, AllSessionsOf
    <3>3. QED
      BY <3>1, <3>2 DEF OfOneAccount
  <2>3. CASE Locks(r) /\ ~LockUser(r)
    BY <1>3, <2>3, LockingKeeps DEF OfOneAccount, TablesUnchanged
  <2>4. CASE End(r)
    <3>1. req'[r] = Idle
      BY <1>0, <2>4 DEF End
    <3>2. QED
      BY <3>1 DEF OfOneAccount, Idle
  <2>5. QED
    BY <2>1, <2>2, <2>3, <2>4, OtherSteps
<1>5. QED
  <2>1. ASSUME NEW q \in Requests, q # r PROVE OfOneAccount(req[q])'
    BY <1>0, <1>1, <1>2, <2>1 DEF OfOneAccount
  <2>2. QED
    BY <1>4, <2>1 DEF AllOfOneAccount

\* Nobody revokes the session of a token that another rotates.
LEMMA RotatedStep ==
  ASSUME SessionInv, NEW r \in Requests, Start(r) \/ Step(r)
  PROVE  RotatedIsLive'
<1> USE DEF SessionInv
<1>0. /\ req \in [Requests -> Request] /\ Formed(req[r])
      /\ session \in [Tokens -> [user: Users \cup {Nobody}, live: BOOLEAN]]
  BY DEF TypeOK, AllFormed
<1>1. ASSUME NEW q \in Requests, q # r, req[q].kind = "refresh", req[q].pc = "issuing"
      PROVE  session'[req[q].with].live
  <2> DEFINE t == req[q].with
  <2>1. t \in Tokens /\ session[t].live /\ LocksSession(q, t) /\ q \in Others(r)
    BY <1>1 DEF AllFormed, Formed, HoldsRows, RotatedIsLive, LocksSession, Others
  <2>12. ~LocksSession(r, t)
    BY <1>1, <2>1 DEF SessionsApart
  <2>2. ASSUME NEW T, t \notin T, session' = Revoked(T)
        PROVE  session'[t].live
    BY <1>0, <2>1, <2>2 DEF Revoked
  <2>3. ASSUME NEW T, NEW n \in Tokens, t \notin T, Unused(n), session' = Issued(r, n, T)
        PROVE  session'[t].live
    <3>1. n # t
      BY <2>1, <2>3 DEF TypeOK, Unused
    <3>2. QED
      BY <1>0, <2>1, <2>3, <3>1 DEF Revoked, Issued
  <2>4. CASE session' = session
    BY <2>1, <2>4
  <2>5. CASE RefuseToken(r)
    BY <2>1, <2>2, <2>5 DEF RefuseToken, SessionsFree
  <2>6. ASSUME NEW n \in Tokens, Issue(r, n)
        PROVE  session'[t].live
    <3>1. req[r].kind = "refresh" => LocksSession(r, req[r].with)
      BY <1>0, <2>6 DEF Issue, LocksSession, Formed, HoldsRows
    <3>2. t \notin (IF req[r].kind = "refresh" THEN {req[r].with} ELSE {})
      BY <2>12, <3>1
    <3>3. QED
      BY <2>3, <2>6, <3>2 DEF Issue
  <2>7. ASSUME NEW n \in Tokens, CommitReset(r, n)
        PROVE  session'[t].live
    BY <2>12, <2>3, <2>7 DEF CommitReset, CanRevoke, LocksSession
  <2>8. CASE CommitRevocation(r)
    BY <2>12, <2>2, <2>8 DEF CommitRevocation, CanRevoke, LocksSession
  <2>9. CASE Audit(r)
    BY <1>0, <2>12, <2>2, <2>9 DEF Audit, LocksSession, Formed, HoldsRows
  <2>10. CASE Start(r)
    BY <2>4, <2>10, StartIsFresh DEF TablesUnchanged
  <2>11. CASE Locks(r) \/ Refuse(r) \/ Conflict(r) \/ Fail(r)
    BY <2>4, <2>11, LockingKeeps DEF Refuse, Conflict, Fail, TablesUnchanged
  <2>13. QED
    BY <2>5, <2>6, <2>7, <2>8, <2>9, <2>10, <2>11 DEF Step, Locks
<1>2. ASSUME req'[r].kind = "refresh", req'[r].pc = "issuing"
      PROVE  session'[req'[r].with].live
  <2>1. CASE Start(r)
    <3>1. PICK q : Fresh(q) /\ req' = [req EXCEPT ![r] = q]
      BY <2>1, StartIsFresh
    <3>2. QED
      BY <1>0, <1>2, <3>1, AccountAssumption DEF Fresh, Formed, HoldsRows
  <2>2. CASE LockToken(r)
    BY <1>0, <1>2, <2>2, LockingKeeps DEF Locks, LockToken, TablesUnchanged
  <2>3. CASE Locks(r) /\ ~LockToken(r)
    BY <1>2, <2>3, LockingKeeps
  <2>4. CASE End(r)
    BY <1>0, <1>2, <2>4 DEF End, Idle
  <2>5. QED
    BY <2>1, <2>2, <2>3, <2>4, OtherSteps
<1>3. \A q \in Requests \ {r} : req'[q] = req[q]
  <2>1. \E q : req' = [req EXCEPT ![r] = q]
    BY StartIsFresh, StepForms
  <2>2. QED
    BY <1>0, <2>1
<1>4. QED
  BY <1>1, <1>2, <1>3 DEF RotatedIsLive

\* Codes belong to their resets, and none spends the code of another.
LEMMA ResetStep ==
  ASSUME SessionInv, NEW r \in Requests, Start(r) \/ Step(r)
  PROVE  ResetIsDue'
<1> USE DEF SessionInv
<1>0. req \in [Requests -> Request] /\ Formed(req[r])
  BY DEF TypeOK, AllFormed
<1>1. \A c \in Codes : code'[c].user = code[c].user
  <2>1. CASE code' = code
    BY <2>1
  <2>2. ASSUME NEW n \in Tokens, CommitReset(r, n) PROVE \A c \in Codes : code'[c].user = code[c].user
    BY <2>2 DEF CommitReset, TypeOK
  <2>3. QED
    BY <2>1, <2>2, StartIsFresh, LockingKeeps
       DEF Step, Locks, RefuseToken, Refuse, Conflict, Issue, CommitRevocation, Audit, Fail,
           TablesUnchanged
<1>2. ASSUME NEW q \in Requests, q # r, req[q].kind = "reset", req[q].pc = "revoking"
      PROVE  ~code'[req[q].with].spent
  <2>1. /\ req[q].with \in Codes /\ req[q].target \in Users /\ ~code[req[q].with].spent
        /\ code[req[q].with].user = req[q].target /\ LocksUser(q, req[q].target)
    BY <1>2 DEF AllFormed, Formed, ResetIsDue, LocksUser
  <2>2. ASSUME NEW n \in Tokens, CommitReset(r, n) PROVE ~code'[req[q].with].spent
    <3>1. LocksUser(r, req[r].target)
      BY <2>2 DEF CommitReset, CanRevoke, LocksUser
    <3>2. req[r].target # req[q].target
      BY <1>2, <2>1, <3>1 DEF UsersApart
    <3>3. QED
      BY <2>1, <2>2, <3>2 DEF CommitReset, TypeOK
  <2>3. CASE code' = code
    BY <2>1, <2>3
  <2>4. QED
    BY <2>2, <2>3, StartIsFresh, LockingKeeps
       DEF Step, Locks, RefuseToken, Refuse, Conflict, Issue, CommitRevocation, Audit, Fail,
           TablesUnchanged
<1>3. ASSUME req'[r].kind = "reset"
      PROVE  /\ code'[req'[r].with].user = req'[r].target
             /\ req'[r].pc = "revoking" => ~code'[req'[r].with].spent
  <2>1. CASE Start(r)
    <3>1. PICK q : Fresh(q) /\ req' = [req EXCEPT ![r] = q]
      BY <2>1, StartIsFresh
    <3>2. code' = code
      BY <2>1, StartIsFresh DEF TablesUnchanged
    <3>3. QED
      BY <1>0, <1>3, <3>1, <3>2 DEF Fresh
  <2>2. CASE Locks(r) /\ ~LockUser(r)
    BY <1>3, <2>2, LockingKeeps DEF TablesUnchanged, ResetIsDue
  <2>3. CASE LockUser(r)
    BY <1>3, <2>3, LockingKeeps DEF Locks, LockUser, MayProceed, TablesUnchanged, ResetIsDue
  <2>4. CASE End(r)
    BY <1>0, <1>3, <2>4 DEF End, Idle
  <2>5. QED
    BY <2>1, <2>2, <2>3, <2>4, OtherSteps
<1>4. \A q \in Requests \ {r} : req'[q] = req[q]
  <2>1. \E q : req' = [req EXCEPT ![r] = q]
    BY StartIsFresh, StepForms
  <2>2. QED
    BY <1>0, <2>1
<1>5. QED
  BY <1>1, <1>2, <1>3, <1>4 DEF ResetIsDue, AllFormed, Formed

\* No session is issued for an account whose row another holds.
LEMMA EscapeStep ==
  ASSUME SessionInv, NEW r \in Requests, Start(r) \/ Step(r)
  PROVE  NothingEscapes'
<1> USE DEF SessionInv
<1>0. /\ req \in [Requests -> Request] /\ Formed(req[r])
      /\ session \in [Tokens -> [user: Users \cup {Nobody}, live: BOOLEAN]]
  BY DEF TypeOK, AllFormed
<1>1. ASSUME NEW u \in Users, NEW q \in Others(r), LocksUser(q, u)
      PROVE  SessionsOf(u)' \subseteq SessionsOf(u)
  <2>1. ASSUME NEW T, session' = Revoked(T) PROVE SessionsOf(u)' \subseteq SessionsOf(u)
    BY <1>0, <2>1 DEF Revoked, SessionsOf, AllSessionsOf
  <2>2. ASSUME NEW T, NEW n \in Tokens, req[r].target # u, session' = Issued(r, n, T)
        PROVE  SessionsOf(u)' \subseteq SessionsOf(u)
    BY <1>0, <2>2 DEF Revoked, Issued, SessionsOf, AllSessionsOf
  <2>3. ASSUME NEW n \in Tokens, Issue(r, n) PROVE req[r].target # u
    BY <1>1, <2>3 DEF Issue, Referable
  <2>4. ASSUME NEW n \in Tokens, CommitReset(r, n) PROVE req[r].target # u
    <3>1. LocksUser(r, req[r].target)
      BY <2>4 DEF CommitReset, CanRevoke, LocksUser
    <3>2. QED
      BY <1>1, <3>1 DEF UsersApart, Others
  <2>5. CASE session' = session
    BY <2>5 DEF SessionsOf, AllSessionsOf
  <2>6. CASE RefuseToken(r) \/ CommitRevocation(r) \/ Audit(r)
    BY <2>1, <2>6 DEF RefuseToken, CommitRevocation, Audit
  <2>7. CASE \E n \in Tokens : Issue(r, n) \/ CommitReset(r, n)
    BY <2>2, <2>3, <2>4, <2>7 DEF Issue, CommitReset
  <2>8. QED
    BY <2>5, <2>6, <2>7, StartIsFresh, LockingKeeps
       DEF Step, Locks, Refuse, Conflict, Fail, TablesUnchanged
<1>2. \A q \in Others(r) : req'[q] = req[q]
  <2>1. \E q : req' = [req EXCEPT ![r] = q]
    BY StartIsFresh, StepForms
  <2>2. QED
    BY <1>0, <2>1 DEF Others
<1>3. ASSUME NEW q \in Others(r), req[q].kind \in {"reset", "suspend"},
             req[q].pc \in {"revoking", "auditing"}
      PROVE  SessionsOf(req[q].target)' \subseteq req'[q].seen
  <2>1. SessionsOf(req[q].target) \subseteq req[q].seen
    BY <1>3 DEF NothingEscapes, Others
  <2>2. req[q].target \in Users /\ LocksUser(q, req[q].target)
    BY <1>3 DEF AllFormed, Formed, LocksUser, Others
  <2>3. QED
    BY <1>1, <1>2, <2>1, <2>2
<1>4. ASSUME req'[r].kind \in {"reset", "suspend"}, req'[r].pc \in {"revoking", "auditing"}
      PROVE  SessionsOf(req[r].target)' \subseteq req'[r].seen
  <2>1. CASE Start(r)
    <3>1. PICK q : Fresh(q) /\ req' = [req EXCEPT ![r] = q]
      BY <2>1, StartIsFresh
    <3>2. QED
      BY <1>0, <1>4, <3>1 DEF Fresh
  <2>2. CASE End(r)
    BY <1>0, <1>4, <2>2 DEF End, Idle
  <2>3. CASE LockToken(r) \/ LockUser(r)
    BY <1>4, <2>3, LockingKeeps DEF Locks, SeenUnderLock, TablesUnchanged, SessionsOf, AllSessionsOf
  <2>4. CASE Locks(r) /\ ~LockToken(r) /\ ~LockUser(r)
    BY <1>4, <2>4, LockingKeeps DEF TablesUnchanged, SessionsOf, AllSessionsOf, NothingEscapes
  <2>5. QED
    BY <2>1, <2>2, <2>3, <2>4, OtherSteps
<1>5. QED
  BY <1>2, <1>3, <1>4 DEF NothingEscapes, Others

\* A request for a code writes a code that no reset has, and nothing else.
LEMMA RequestResetStep ==
  ASSUME SessionInv, NEW c \in Codes, NEW u \in Users, RequestReset(c, u)
  PROVE  SessionInv'
<1> USE DEF SessionInv
<1>1. UNCHANGED <<user, session, req>> /\ code' = [code EXCEPT ![c].user = u] /\ code[c].user = Nobody
  BY DEF RequestReset
<1>2. TypeOK'
  BY <1>1 DEF TypeOK
<1>3. ASSUME NEW r \in Requests, req[r].kind = "reset"
      PROVE  code'[req[r].with] = code[req[r].with]
  <2>1. req[r].with \in Codes /\ code[req[r].with].user \in Users
    BY <1>3 DEF AllFormed, Formed, ResetIsDue
  <2>2. req[r].with # c
    BY <1>1, <2>1, AccountAssumption
  <2>3. QED
    BY <1>1, <2>1, <2>2 DEF TypeOK
<1>4. ResetIsDue'
  BY <1>1, <1>3 DEF ResetIsDue
<1>5. (AllFormed /\ AllOfOneAccount /\ UsersApart /\ SessionsApart /\ RotatedIsLive /\ NothingEscapes)'
  BY <1>1 DEF AllFormed, AllOfOneAccount, OfOneAccount, UsersApart, SessionsApart, RotatedIsLive,
              NothingEscapes, LocksUser, LocksSession, SessionsOf, AllSessionsOf
<1>6. QED
  BY <1>2, <1>4, <1>5

\* The invariant over the steps of requests.
LEMMA SessionStep ==
  ASSUME SessionInv, NEW r \in Requests, Start(r) \/ Step(r)
  PROVE  SessionInv'
<1>1. TypeOK' /\ AllFormed'
  <2>1. TypeOK' /\ \E q \in Request : Formed(q) /\ req' = [req EXCEPT ![r] = q]
    <3>1. CASE Start(r)
      <4>1. PICK q : Fresh(q) /\ req' = [req EXCEPT ![r] = q]
        BY <3>1, StartIsFresh DEF SessionInv
      <4>2. TablesUnchanged
        BY <3>1, StartIsFresh DEF SessionInv
      <4>3. QED
        BY <4>1, <4>2 DEF Fresh, TablesUnchanged, SessionInv, TypeOK
    <3>2. QED
      BY <3>1, StepForms DEF SessionInv
  <2>2. PICK q \in Request : Formed(q) /\ req' = [req EXCEPT ![r] = q]
    BY <2>1
  <2>3. \A p \in Requests : req'[p] = IF p = r THEN q ELSE req[p]
    BY <2>2 DEF SessionInv, TypeOK
  <2>4. QED
    BY <2>1, <2>2, <2>3 DEF SessionInv, AllFormed
<1>2. UsersApart' /\ SessionsApart'
  BY ApartStep DEF SessionInv, Apart
<1>3. QED
  BY <1>1, <1>2, OneAccountStep, RotatedStep, ResetStep, EscapeStep DEF SessionInv

LEMMA SessionsStart ==
  ASSUME Init
  PROVE  SessionInv
<1>1. \A r \in Requests : req[r] = Idle
  BY DEF Init
<1>2. TypeOK /\ AllFormed
  BY <1>1, IdleFact, AccountAssumption DEF Init, TypeOK, AllFormed
<1>3. AllOfOneAccount /\ UsersApart /\ SessionsApart /\ RotatedIsLive /\ ResetIsDue /\ NothingEscapes
  BY <1>1 DEF Idle, AllOfOneAccount, OfOneAccount, UsersApart, SessionsApart, LocksUser, LocksSession, RotatedIsLive,
              ResetIsDue, NothingEscapes
<1>4. QED
  BY <1>2, <1>3 DEF SessionInv

LEMMA SessionKept ==
  ASSUME SessionInv, [Next]_vars
  PROVE  SessionInv'
<1>1. CASE UNCHANGED vars
  BY <1>1 DEF vars, SessionInv, TypeOK, AllFormed, AllOfOneAccount, OfOneAccount, UsersApart,
              SessionsApart, LocksUser, LocksSession, RotatedIsLive, ResetIsDue, NothingEscapes,
              SessionsOf, AllSessionsOf
<1>2. CASE Next
  BY <1>2, SessionStep, RequestResetStep DEF Next
<1>3. QED
  BY <1>1, <1>2

\* Every behaviour keeps the invariant.
THEOREM SessionsAreKept == Spec => []SessionInv
<1>1. Init => SessionInv
  BY SessionsStart
<1>2. SessionInv /\ [Next]_vars => SessionInv'
  BY SessionKept
<1>3. QED
  BY <1>1, <1>2, PTL DEF Spec

\* Type correctness: a live session has a user, and requests are well formed.
THEOREM AccountsTypeCorrect == Spec => []TypeOK
BY SessionsAreKept, PTL DEF SessionInv

\* No session of an account escapes its reset or its suspension: whoever holds the user's row
\* keeps the insertion of a session that refers to it waiting.
THEOREM SessionsDoNotEscape == Spec => []NothingEscapes
BY SessionsAreKept, PTL DEF SessionInv

\* A refresh token is exchanged once, and a revoked one never.
THEOREM ExchangesAreUnique == Spec => TokensAreExchangedOnce
<1>1. SessionInv /\ [Next]_vars =>
        \A r \in Requests, n \in Tokens : req[r].kind = "refresh" /\ Issue(r, n) =>
          session[req[r].with].live /\ ~session'[req[r].with].live
  <2> SUFFICES ASSUME SessionInv, NEW r \in Requests, NEW n \in Tokens,
                      req[r].kind = "refresh", Issue(r, n)
               PROVE  session[req[r].with].live /\ ~session'[req[r].with].live
    OBVIOUS
  <2> DEFINE t == req[r].with
  <2>1. t \in Tokens /\ session[t].live
    BY DEF SessionInv, AllFormed, Formed, RotatedIsLive, Issue
  <2>2. t # n
    BY <2>1 DEF Issue, Unused, SessionInv, TypeOK
  <2>3. session' = Issued(r, n, {t})
    BY DEF Issue
  <2>4. ~session'[t].live
    BY <2>1, <2>2, <2>3 DEF Issued, Revoked, SessionInv, TypeOK
  <2>5. QED
    BY <2>1, <2>4
<1>2. QED
  BY <1>1, SessionsAreKept, PTL DEF Spec, TokensAreExchangedOnce

\* A reset is of an unspent code, and spends every code that the account has.
THEOREM ResetsSpendCodes == Spec => ResetSpendsEveryCode
<1>1. SessionInv /\ [Next]_vars =>
        \A r \in Requests, n \in Tokens : CommitReset(r, n) =>
          /\ ~code[req[r].with].spent
          /\ \A c \in Codes : code[c].user = req[r].target => code'[c].spent
  <2> SUFFICES ASSUME SessionInv, NEW r \in Requests, NEW n \in Tokens, CommitReset(r, n)
               PROVE  /\ ~code[req[r].with].spent
                      /\ \A c \in Codes : code[c].user = req[r].target => code'[c].spent
    OBVIOUS
  <2>1. ~code[req[r].with].spent
    BY DEF SessionInv, ResetIsDue, CommitReset, CanRevoke
  <2>2. \A c \in Codes : code[c].user = req[r].target => code'[c].spent
    BY DEF SessionInv, TypeOK, CommitReset
  <2>3. QED
    BY <2>1, <2>2
<1>2. QED
  BY <1>1, SessionsAreKept, PTL DEF Spec, ResetSpendsEveryCode

\* Rows that are locked in the order of their keys: of requests that hold some, one does not
\* wait for another's.
LEMMA NobodyAscendsForever ==
  ASSUME SessionInv, NEW T, T \subseteq Requests, T # {},
         \A r \in T : /\ req[r].pc = "revoking" /\ InKeyOrder(req[r])
                      /\ \E q \in T, t \in NextRows(req[r]) : LocksSession(q, t)
  PROVE  FALSE
<1>0. \A r \in T : req[r] \in Request /\ Formed(req[r])
  BY DEF SessionInv, AllFormed, TypeOK
<1> DEFINE rows == {t \in Tokens : \E r \in T : t \in NextRows(req[r])}
<1>1. rows \subseteq Nat /\ IsFiniteSet(rows) /\ rows # {}
  <2>1. rows # {}
    BY <1>0, NextRowFact
  <2>2. IsFiniteSet(rows)
    BY AccountAssumption, FS_Subset
  <2>3. QED
    BY <2>1, <2>2, AccountAssumption
<1> HIDE DEF rows
<1>2. PICK m \in rows : \A t \in rows : t <= m
  BY <1>1, FiniteMax
<1>3. PICK r \in T : m \in NextRows(req[r])
  BY DEF rows
<1>4. PICK q \in T, t \in NextRows(req[r]) : LocksSession(q, t)
  BY <1>3
<1>5. t = m
  <2>1. m \in Nat /\ t \in Nat /\ m <= t /\ t <= m
    BY <1>0, <1>1, <1>3, <1>4, AccountAssumption DEF NextRows, Request
  <2>2. QED
    BY <2>1
<1>6. PICK n \in NextRows(req[q]) : TRUE
  BY <1>4
<1>7. m < n /\ n \in rows
  BY <1>0, <1>4, <1>5, <1>6, NextRowFact DEF LocksSession, rows
<1>8. QED
  BY <1>1, <1>2, <1>7

\* The pairs that the property names.
NamedPair(r, q) ==
    \/ /\ req[r].target = req[q].target
       /\ \/ req[r].kind = "refresh" /\ req[q].kind \in {"reset", "suspend"}
          \/ req[r].kind = "delete" /\ req[q].kind \in {"reset", "change"}
    \/ r # q /\ req[r].kind \in Bulk /\ req[q].kind \in Bulk \cup Flushed
    \/ r # q /\ req[r].kind \in Administrative /\ req[q].kind \in Administrative

Unnamed(S) == S \subseteq Requests /\ Deadlocked(S) /\ \A r, q \in S : ~NamedPair(r, q)

\* Where a request can be that holds a row, and whose row it is.
LEMMA Holders ==
  ASSUME SessionInv, NEW S, S \subseteq Requests, NEW q \in S, NEW t \in Tokens, LocksSession(q, t)
  PROVE  /\ session[t].user = req[q].target /\ req[q].target \in Users
         /\ \/ req[q].pc = "issuing" /\ req[q].kind = "refresh"
            \/ req[q].pc = "revoking"
            \/ req[q].pc = "auditing" /\ req[q].kind \in Bulk
<1>1. req[q] \in Request /\ Formed(req[q]) /\ OfOneAccount(req[q]) /\ t \in req[q].held
  BY DEF SessionInv, TypeOK, AllFormed, AllOfOneAccount, LocksSession
<1>2. QED
  BY <1>1 DEF Formed, HoldsRows, OfOneAccount, Request, Phase, Bulk

\* A bulk revocation without another revocation waits for nobody who waits.
LEMMA NoBulk ==
  ASSUME SessionInv, NEW S, Unnamed(S), NEW b \in S
  PROVE  req[b].kind \notin Bulk
<1> SUFFICES ASSUME req[b].kind \in Bulk PROVE FALSE
  OBVIOUS
<1>0. \A r \in S : r \in Requests /\ Formed(req[r]) /\ req[r] \in Request /\ OfOneAccount(req[r])
  BY DEF Unnamed, SessionInv, TypeOK, AllFormed, AllOfOneAccount
<1>1. \A q \in S \ {b} : req[q].kind \notin Administrative \cup Flushed
  BY DEF Unnamed, NamedPair, Administrative, Bulk
<1>2. \A q \in S \ {b} : \A u : ~LocksUser(q, u) /\ ~UpdatesUser(q, u)
  BY <1>1 DEF LocksUser, UpdatesUser, Administrative, Flushed, Bulk
<1>3. PICK q \in S : WaitsFor(b, q)
  BY DEF Unnamed, Deadlocked
<1>4. q # b
  BY <1>3 DEF WaitsFor
<1>5. PICK t \in NextRows(req[b]) : LocksSession(q, t) /\ req[b].pc = "revoking"
  BY <1>0, <1>2, <1>3, <1>4 DEF WaitsFor, Formed, Bulk
<1>6. t \in Tokens /\ session[t].user = req[b].target
  BY <1>0, <1>5 DEF NextRows, OfOneAccount, Request
<1>7. req[q].kind = "refresh" /\ req[q].pc = "issuing" /\ req[q].target = req[b].target
  BY <1>0, <1>1, <1>4, <1>5, <1>6, Holders DEF Unnamed, Formed, Administrative, Flushed, Bulk
<1>8. req[b].kind = "revokeAll"
  BY <1>7 DEF Unnamed, NamedPair, Bulk
<1>9. PICK p \in S : WaitsFor(q, p)
  BY DEF Unnamed, Deadlocked
<1>10. \E u : LocksUser(p, u)
  BY <1>7, <1>9 DEF WaitsFor, CanRevoke
<1>11. p = b
  BY <1>2, <1>10
<1>12. QED
  BY <1>8, <1>10, <1>11 DEF LocksUser

\* A reset that revokes waits for revocations of the same account only, in the order of keys.
LEMMA NoReset ==
  ASSUME SessionInv, NEW S, Unnamed(S), NEW x \in S, req[x].kind = "reset", req[x].pc = "revoking"
  PROVE  FALSE
<1>0. \A r \in S : r \in Requests /\ Formed(req[r]) /\ req[r] \in Request /\ OfOneAccount(req[r])
  BY DEF Unnamed, SessionInv, TypeOK, AllFormed, AllOfOneAccount
<1> DEFINE T == {r \in S : /\ req[r].pc = "revoking" /\ req[r].target = req[x].target
                           /\ req[r].kind \in {"reset", "change", "logout"}}
<1>1. ASSUME NEW r \in T
      PROVE  \E q \in T, t \in NextRows(req[r]) : LocksSession(q, t)
  <2>1. PICK q \in S : WaitsFor(r, q)
    BY DEF Unnamed, Deadlocked
  <2>2. PICK t \in NextRows(req[r]) : LocksSession(q, t)
    BY <2>1 DEF WaitsFor
  <2>3. t \in Tokens /\ session[t].user = req[x].target
    BY <1>0, <2>2 DEF NextRows, OfOneAccount, Request
  <2>4. /\ req[q].target = req[x].target
        /\ \/ req[q].kind = "refresh"
           \/ req[q].pc = "revoking"
           \/ req[q].kind \in Bulk
    BY <2>2, <2>3, Holders DEF Unnamed
  <2>5. req[q].kind \notin Bulk \cup {"refresh", "delete"}
    BY <2>4, NoBulk DEF Unnamed, NamedPair
  <2>6. q \in T
    BY <1>0, <2>4, <2>5 DEF Formed, Bulk
  <2>7. QED
    BY <2>2, <2>6
<1>2. \A r \in T : InKeyOrder(req[r])
  BY DEF InKeyOrder
<1>3. T # {} /\ T \subseteq Requests
  BY <1>0
<1>4. QED
  BY <1>1, <1>2, <1>3, NobodyAscendsForever

\* Requests that wait for each other in a circle, or in any set that nobody leaves, have one of
\* the pairs that the property names among them. Without a pair there is no bulk revocation,
\* and no reset that revokes; so nobody holds a user's row for update, and those who hold rows
\* of sessions wait for greater keys only.
THEOREM DeadlocksAreThese == Spec => []OnlyTheseDeadlock
<1>1. ASSUME SessionInv, NEW S, Unnamed(S)
      PROVE  FALSE
  <2>0. \A r \in S : r \in Requests /\ Formed(req[r]) /\ req[r] \in Request
    BY <1>1 DEF Unnamed, SessionInv, TypeOK, AllFormed
  <2>1. \A r \in S : \E q \in S : WaitsFor(r, q)
    BY <1>1 DEF Unnamed, Deadlocked
  <2>2. \A r \in S : req[r].kind \notin Bulk /\ ~(req[r].kind = "reset" /\ req[r].pc = "revoking")
    BY <1>1, NoBulk, NoReset
  <2>3. \A r \in S : \A u : LocksUser(r, u) => req[r].pc = "auditing" /\ req[r].kind \in {"reactivate", "role"}
    BY <2>0, <2>2 DEF LocksUser, Formed, Bulk
  <2>4. \A r \in S : req[r].pc # "auditing"
    <3> SUFFICES ASSUME NEW r \in S, req[r].pc = "auditing" PROVE FALSE
      OBVIOUS
    <3>1. PICK q \in S : WaitsFor(r, q)
      BY <2>1
    <3>2. r # q /\ LocksUser(q, req[r].actor)
      BY <3>1 DEF WaitsFor, CanRevoke
    <3>3. req[q].kind \in Administrative /\ req[r].kind \in Administrative
      BY <2>0, <2>3, <3>2 DEF Formed, Administrative, Bulk
    <3>4. QED
      BY <1>1, <3>2, <3>3 DEF Unnamed, NamedPair
  <2>5. \A r \in S : \A u : ~LocksUser(r, u)
    BY <2>3, <2>4
  <2>6. \A r \in S : req[r].pc = "issuing" => req[r].kind = "onboard"
    BY <2>0, <2>1, <2>5 DEF WaitsFor, CanRevoke
  <2>7. \A q \in S, t \in Tokens : LocksSession(q, t) => req[q].pc = "revoking"
    BY <1>1, <2>4, <2>6, Holders DEF Unnamed
  <2> DEFINE T == {r \in S : req[r].pc = "revoking"}
  <2>8. \A r \in T : InKeyOrder(req[r])
    BY <2>2 DEF InKeyOrder, Bulk
  <2>9. ASSUME NEW r \in T
        PROVE  \E q \in T, t \in NextRows(req[r]) : LocksSession(q, t)
    <3>1. PICK q \in S : WaitsFor(r, q)
      BY <2>1
    <3>2. ~(req[r].kind = "delete" /\ UpdatesUser(q, req[r].target))
      BY <1>1 DEF Unnamed, NamedPair, UpdatesUser
    <3>3. PICK t \in NextRows(req[r]) : LocksSession(q, t)
      BY <2>5, <3>1, <3>2 DEF WaitsFor
    <3>4. t \in Tokens
      BY <2>0 DEF NextRows, Request
    <3>5. QED
      BY <2>7, <3>3, <3>4
  <2>10. T # {}
    <3>1. PICK r \in S : TRUE
      BY <1>1 DEF Unnamed, Deadlocked
    <3>2. PICK q \in S : WaitsFor(r, q)
      BY <2>1
    <3>3. \/ req[r].pc = "revoking"
          \/ \E t \in Tokens : LocksSession(q, t)
          \/ \E u : UpdatesUser(q, u)
      BY <2>0, <2>5, <3>2 DEF WaitsFor, Formed
    <3>4. QED
      BY <2>7, <3>3 DEF UpdatesUser
  <2>11. T \subseteq Requests
    BY <2>0
  <2>12. QED
    BY <1>1, <2>8, <2>9, <2>10, <2>11, NobodyAscendsForever
<1>2. SessionInv => OnlyTheseDeadlock
  BY <1>1 DEF OnlyTheseDeadlock, Unnamed, NamedPair
<1>3. QED
  BY <1>2, SessionsAreKept, PTL

----------------------------------------------------------------------------
(* The limit on attempts                                                   *)

LiveAt(p) == {i \in Identities : local[p][i].expiry > clock}

\* LimiterTypeOK without the capacity of the tables, and the capacity.
Typed ==
    /\ required \in BOOLEAN
    /\ clock \in 0 .. MaxClock
    /\ shared \in [Identities -> Counter]
    /\ local \in [Processes -> [Identities -> Counter]]
    /\ retryAt \in [Processes -> 0 .. MaxClock + Cooldown]
    /\ probing \in [Processes -> BOOLEAN]
    /\ call \in [Calls -> Call]
    /\ admitted \in [Processes \cup {Shared} -> [0 .. MaxClock -> Nat]]

WithinCapacity == \A p \in Processes : Cardinality(LiveAt(p)) <= MaxEntries

LEMMA TypeParts == LimiterTypeOK <=> Typed /\ WithinCapacity
BY DEF LimiterTypeOK, Typed, WithinCapacity, LiveAt

LEMMA Numbers ==
  /\ Limit \in Nat /\ Limit > 0 /\ Window \in Nat /\ Window > 0 /\ Cooldown \in Nat
  /\ MaxEntries \in Nat /\ MaxClock \in Nat /\ MaxClock > 0 /\ Never \in Nat /\ Never = MaxClock + Window + 1
  /\ Shared \notin Processes /\ Watched \in Identities
BY RateLimiterAssumption DEF Never

----------------------------------------------------------------------------
(* Counters                                                                *)

\* The table that a request leaves has counters, and one live one more at most if there is room.
LEMMA ActiveFacts ==
  ASSUME Typed, NEW p \in Processes
  PROVE  /\ Active(p) \in [Identities -> Counter]
         /\ \A j \in Identities : /\ Active(p)[j] # NoCounter <=> local[p][j].expiry > clock
                                  /\ Active(p)[j].expiry > clock <=> local[p][j].expiry > clock
<1>1. local[p] \in [Identities -> Counter] /\ clock \in Nat
  BY Numbers DEF Typed
<1>2. NoCounter \in Counter
  BY Numbers DEF NoCounter, Counter
<1>3. ASSUME NEW j \in Identities
      PROVE  /\ Active(p)[j] # NoCounter <=> local[p][j].expiry > clock
             /\ Active(p)[j].expiry > clock <=> local[p][j].expiry > clock
  <2>1. local[p][j] \in Counter
    BY <1>1
  <2>2. Active(p)[j] = IF local[p][j].expiry > clock THEN local[p][j] ELSE NoCounter
    BY DEF Active
  <2>3. NoCounter.expiry = 0
    BY DEF NoCounter
  <2>4. QED
    BY <1>1, <2>1, <2>2, <2>3 DEF Counter
<1>4. QED
  BY <1>1, <1>2, <1>3 DEF Active

LEMMA OneMoreFact ==
  ASSUME NEW n \in 0 .. Limit + 1
  PROVE  OneMore(n) \in 0 .. Limit + 1
BY Numbers DEF OneMore

LEMMA ChargedFacts ==
  ASSUME Typed, WithinCapacity, NEW p \in Processes, NEW i \in Identities
  PROVE  /\ Charged(p, i) \in [Identities -> Counter]
         /\ CountOf(p, i) \in 0 .. Limit + 1
         /\ Cardinality({j \in Identities : Charged(p, i)[j].expiry > clock}) <= MaxEntries
<1> DEFINE A == Active(p)
           C == Charged(p, i)
           live == {j \in Identities : C[j].expiry > clock}
<1>1. A \in [Identities -> Counter] /\ clock \in 0 .. MaxClock
  BY ActiveFacts DEF Typed
<1>2. LiveAt(p) = {j \in Identities : A[j] # NoCounter} /\ LiveAt(p) = {j \in Identities : A[j].expiry > clock}
  BY ActiveFacts DEF LiveAt
<1>3. IsFiniteSet(LiveAt(p)) /\ Cardinality(LiveAt(p)) \in Nat /\ Cardinality(LiveAt(p)) <= MaxEntries
  <2>1. LiveAt(p) \subseteq Identities
    BY DEF LiveAt
  <2>2. QED
    BY <2>1, FS_Subset, FS_CardinalityType, RateLimiterAssumption DEF WithinCapacity
<1>4. CASE Full(p, i)
  <2>1. C = A /\ CountOf(p, i) = Limit + 1
    BY <1>4 DEF Charged, CountOf
  <2>2. live = LiveAt(p)
    BY <1>2, <2>1
  <2>3. Limit + 1 \in 0 .. Limit + 1
    BY Numbers
  <2>4. QED
    BY <1>1, <1>3, <2>1, <2>2, <2>3
<1>5. CASE ~Full(p, i)
  <2> DEFINE new == [count |-> OneMore(A[i].count),
                     expiry |-> IF A[i] = NoCounter THEN clock + Window ELSE A[i].expiry]
  <2>1. C = [A EXCEPT ![i] = new]
    BY <1>5 DEF Charged
  <2>2. A[i] \in Counter /\ A[i].count \in 0 .. Limit + 1 /\ A[i].expiry \in 0 .. Never
    BY <1>1 DEF Counter
  <2>3. new.expiry \in 0 .. Never /\ new \in Counter
    <3>1. clock + Window \in 0 .. Never
      BY <1>1, Numbers
    <3>2. QED
      BY <2>2, <3>1, OneMoreFact DEF Counter
  <2> HIDE DEF new
  <2>4. C \in [Identities -> Counter] /\ CountOf(p, i) \in 0 .. Limit + 1
    BY <1>1, <1>5, <2>1, <2>3 DEF CountOf, Counter
  <2>5. live \subseteq LiveAt(p) \cup {i}
    BY <1>1, <1>2, <2>1
  <2>6. CASE i \in LiveAt(p)
    <3>1. live \subseteq LiveAt(p)
      BY <2>5, <2>6
    <3>2. Cardinality(live) <= Cardinality(LiveAt(p)) /\ Cardinality(live) \in Nat
      BY <1>3, <3>1, FS_Subset, FS_CardinalityType
    <3>3. QED
      BY <1>3, <2>4, <3>2, Numbers
  <2>7. CASE i \notin LiveAt(p)
    <3>1. Cardinality(LiveAt(p)) < MaxEntries
      BY <1>2, <1>3, <1>5, <2>7, Numbers DEF Full
    <3>2. IsFiniteSet(LiveAt(p) \cup {i}) /\ Cardinality(LiveAt(p) \cup {i}) = Cardinality(LiveAt(p)) + 1
      BY <1>3, <2>7, FS_AddElement
    <3>3. Cardinality(live) <= Cardinality(LiveAt(p) \cup {i}) /\ Cardinality(live) \in Nat
      BY <2>5, <3>2, FS_Subset, FS_CardinalityType
    <3>4. QED
      BY <1>3, <2>4, <3>1, <3>2, <3>3, Numbers
  <2>8. QED
    BY <2>6, <2>7
<1>6. QED
  BY <1>4, <1>5

LEMMA IncrementedFact ==
  ASSUME Typed, NEW i \in Identities
  PROVE  Incremented(i) \in Counter /\ Incremented(i).count \in 0 .. Limit + 1
<1> DEFINE old == IF shared[i].expiry > clock THEN shared[i] ELSE NoCounter
<1>1. clock \in 0 .. MaxClock /\ shared[i] \in Counter
  BY DEF Typed
<1>2. old \in Counter
  BY <1>1, Numbers DEF NoCounter, Counter
<1>3. Incremented(i) = [count |-> OneMore(old.count),
                        expiry |-> IF old = NoCounter \/ old.expiry = Never THEN clock + Window
                                   ELSE old.expiry]
  BY DEF Incremented
<1> HIDE DEF old
<1>4. clock + Window \in 0 .. Never
  BY <1>1, Numbers
<1>5. QED
  BY <1>2, <1>3, <1>4, OneMoreFact DEF Counter

LEMMA DecideFact ==
  ASSUME Typed, NEW m \in Processes \cup {Shared}, NEW i, NEW n, NEW t \in 0 .. MaxClock,
         Decide(m, i, n, t)
  PROVE  admitted' \in [Processes \cup {Shared} -> [0 .. MaxClock -> Nat]]
<1>1. CASE admitted' = [admitted EXCEPT ![m][t] = @ + 1]
  <2> DEFINE n1 == admitted[m][t] + 1
             f == [admitted[m] EXCEPT ![t] = n1]
  <2>0. admitted[m] \in [0 .. MaxClock -> Nat]
    BY DEF Typed
  <2>1. n1 \in Nat
    BY <2>0, Numbers
  <2>2. admitted' = [admitted EXCEPT ![m] = f]
    BY <1>1
  <2> HIDE DEF n1
  <2>3. f \in [0 .. MaxClock -> Nat]
    BY <2>0, <2>1
  <2> HIDE DEF f
  <2>4. QED
    BY <2>2, <2>3 DEF Typed
<1>2. QED
  BY <1>1 DEF Decide, Typed

\* Every step keeps the types, and the tables within their capacity.
LEMMA LimiterTypeStep ==
  ASSUME LimiterTypeOK, LimiterNext
  PROVE  LimiterTypeOK'
<1> SUFFICES Typed' /\ WithinCapacity'
  BY DEF LimiterTypeOK, Typed, WithinCapacity, LiveAt
<1> USE DEF Typed
<1>0. Typed /\ WithinCapacity /\ clock \in Nat
  BY TypeParts, Numbers
<1>1. ASSUME UNCHANGED <<local, clock>> PROVE WithinCapacity'
  BY <1>0, <1>1 DEF WithinCapacity, LiveAt
<1>2. ASSUME NEW p \in Processes, NEW i \in Identities, clock' = clock,
             local' = [local EXCEPT ![p] = Charged(p, i)]
      PROVE  /\ local' \in [Processes -> [Identities -> Counter]]
             /\ WithinCapacity'
  <2>1. local' \in [Processes -> [Identities -> Counter]]
    BY <1>0, <1>2, ChargedFacts
  <2>2. \A q \in Processes : local'[q] = IF q = p THEN Charged(p, i) ELSE local[q]
    BY <1>0, <1>2
  <2>3. LiveAt(p)' = {j \in Identities : Charged(p, i)[j].expiry > clock}
    BY <1>2, <2>2 DEF LiveAt
  <2>4. \A q \in Processes \ {p} : LiveAt(q)' = LiveAt(q)
    BY <1>2, <2>2 DEF LiveAt
  <2>5. QED
    BY <1>0, <2>1, <2>3, <2>4, ChargedFacts DEF WithinCapacity
<1>3. CASE Tick
  <2>1. Typed'
    BY <1>0, <1>3, Numbers DEF Tick
  <2>2. ASSUME NEW p \in Processes PROVE Cardinality(LiveAt(p)') <= MaxEntries
    <3>1. \A j \in Identities : local[p][j].expiry \in Nat
      BY <1>0, Numbers DEF Counter
    <3>2. LiveAt(p)' \subseteq LiveAt(p) /\ LiveAt(p) \subseteq Identities
      BY <1>0, <1>3, <3>1 DEF LiveAt, Tick
    <3>3. IsFiniteSet(LiveAt(p))
      BY <3>2, FS_Subset, RateLimiterAssumption
    <3>4. /\ Cardinality(LiveAt(p)') <= Cardinality(LiveAt(p))
          /\ Cardinality(LiveAt(p)') \in Nat /\ Cardinality(LiveAt(p)) \in Nat
      BY <3>2, <3>3, FS_Subset, FS_CardinalityType
    <3>5. QED
      BY <1>0, <3>4, Numbers DEF WithinCapacity
  <2>3. QED
    BY <2>1, <2>2 DEF WithinCapacity
<1>4. ASSUME NEW p \in Processes, NEW i \in Identities, EnforceAlone(p, i)
      PROVE  Typed' /\ WithinCapacity'
  <2>1. /\ UNCHANGED <<required, clock, shared, retryAt, probing, call>>
        /\ local' = [local EXCEPT ![p] = Charged(p, i)]
        /\ Decide(p, i, CountOf(p, i), clock)
    BY <1>4 DEF EnforceAlone
  <2>2. QED
    BY <1>0, <1>2, <2>1, DecideFact
<1>5. ASSUME NEW p \in Processes, NEW i \in Identities, NEW c \in Calls, Enforce(c, p, i)
      PROVE  Typed' /\ WithinCapacity'
  <2> DEFINE alone == ~required
             probe == alone /\ retryAt[p] > 0
             q == [NoCall EXCEPT !.process = p, !.who = i, !.probe = probe, !.at = clock,
                                 !.alone = IF alone THEN CountOf(p, i) ELSE 0]
  <2>1. /\ local' = IF alone THEN [local EXCEPT ![p] = Charged(p, i)] ELSE local
        /\ probing' = [probing EXCEPT ![p] = @ \/ probe]
        /\ call' = [call EXCEPT ![c] = q]
        /\ UNCHANGED <<required, clock, shared, retryAt, admitted>>
    BY <1>5 DEF Enforce
  <2>2. q \in Call
    <3>1. CountOf(p, i) \in 0 .. Limit + 1
      BY <1>0, ChargedFacts
    <3>3. probe \in BOOLEAN /\ clock \in 0 .. MaxClock /\ 0 \in 0 .. Limit + 1 /\ 0 \in 0 .. MaxClock
      BY <1>0, Numbers
    <3> HIDE DEF probe, alone
    <3>4. QED
      BY <1>0, <3>1, <3>3, Numbers DEF Call, NoCall
  <2>3. call' \in [Calls -> Call] /\ probing' \in [Processes -> BOOLEAN]
    <3> HIDE DEF q, probe
    <3>1. call' \in [Calls -> Call]
      BY <1>0, <2>1, <2>2
    <3>2. probe \in BOOLEAN
      BY DEF probe
    <3>3. QED
      BY <1>0, <2>1, <3>1, <3>2
  <2>4. local' \in [Processes -> [Identities -> Counter]] /\ WithinCapacity'
    BY <1>0, <1>1, <1>2, <2>1
  <2>5. QED
    BY <1>0, <2>1, <2>3, <2>4
<1>6. ASSUME NEW c \in Calls, Count(c)
      PROVE  Typed' /\ WithinCapacity'
  <2>1. call[c] \in Call /\ call[c].who \in Identities /\ clock \in 0 .. MaxClock
    BY <1>0 DEF Call
  <2> DEFINE n == Incremented(call[c].who)
  <2>2. n \in Counter /\ n.count \in 0 .. Limit + 1
    BY <1>0, <2>1, IncrementedFact
  <2>3. /\ shared' = [shared EXCEPT ![call[c].who] = n]
        /\ call' = [call EXCEPT ![c].count = n.count, ![c].counted = clock]
        /\ UNCHANGED <<required, clock, local, retryAt, probing, admitted>>
    BY <1>6 DEF Count
  <2> HIDE DEF n
  <2>4. shared' \in [Identities -> Counter]
    BY <1>0, <2>2, <2>3
  <2>5. call' \in [Calls -> Call]
    BY <1>0, <2>1, <2>2, <2>3 DEF Call
  <2>6. QED
    BY <1>0, <1>1, <2>3, <2>4, <2>5
<1>7. ASSUME NEW c \in Calls, Release(c), ~Free(c)
      PROVE  probing' \in [Processes -> BOOLEAN] /\ call' \in [Calls -> Call]
  <2>1. NoCall \in Call
    BY Numbers DEF NoCall, Call
  <2>2. QED
    BY <1>0, <1>7, <2>1 DEF Release
<1>8. ASSUME NEW c \in Calls, Answer(c) \/ FailCall(c) \/ Disconnect(c)
      PROVE  Typed' /\ WithinCapacity'
  <2>1. /\ probing' \in [Processes -> BOOLEAN] /\ call' \in [Calls -> Call]
        /\ UNCHANGED <<required, clock, shared, local>>
    BY <1>7, <1>8 DEF Answer, FailCall, Disconnect
  <2>2. /\ call[c].process \in Processes \cup {Shared}
        /\ call[c].counted \in 0 .. MaxClock /\ call[c].at \in 0 .. MaxClock
    BY <1>0 DEF Call
  <2>3. retryAt' \in [Processes -> 0 .. MaxClock + Cooldown]
    <3>1. clock + Cooldown \in 0 .. MaxClock + Cooldown /\ 0 \in 0 .. MaxClock + Cooldown
      BY <1>0, Numbers
    <3>2. CASE Answer(c)
      BY <1>0, <3>1, <3>2 DEF Answer
    <3>3. CASE FailCall(c)
      BY <1>0, <3>1, <3>3 DEF FailCall
    <3>4. CASE Disconnect(c)
      BY <1>0, <3>4 DEF Disconnect
    <3>5. QED
      BY <1>8, <3>2, <3>3, <3>4
  <2>4. admitted' \in [Processes \cup {Shared} -> [0 .. MaxClock -> Nat]]
    BY <1>0, <1>8, <2>2, DecideFact DEF Answer, FailCall, Disconnect
  <2>5. QED
    BY <1>0, <1>1, <2>1, <2>3, <2>4
<1>9. QED
  BY <1>0, <1>1, <1>3, <1>4, <1>5, <1>6, <1>8 DEF LimiterNext

----------------------------------------------------------------------------
(* The probe                                                               *)

\* The calls of a process that ask Redis first after a failure: those that are marked, and
\* while there is one only.
Probes(c, p) == call[c].process = p /\ call[c].probe

ProbesAreMarked ==
    /\ \A c \in Calls : call[c].probe => ~Free(c) /\ probing[call[c].process]
    /\ \A p \in Processes : probing[p] => \E c \in Calls : Probes(c, p)
    /\ \A p \in Processes : \A c, d \in Calls : Probes(c, p) /\ Probes(d, p) => c = d

LimiterInv == LimiterTypeOK /\ ProbesAreMarked

LEMMA ProbeStep ==
  ASSUME LimiterInv, LimiterNext
  PROVE  ProbesAreMarked'
<1>0. /\ call \in [Calls -> Call] /\ probing \in [Processes -> BOOLEAN] /\ required \in BOOLEAN
      /\ ProbesAreMarked /\ Shared \notin Processes
  BY Numbers DEF LimiterInv, LimiterTypeOK
<1>1. CASE UNCHANGED <<call, probing>>
  BY <1>0, <1>1 DEF ProbesAreMarked, Probes, Free
<1>2. ASSUME NEW p \in Processes, NEW i \in Identities, NEW c \in Calls, Enforce(c, p, i)
      PROVE  ProbesAreMarked'
  <2> DEFINE probe == ~required /\ retryAt[p] > 0
  <2>1. /\ Free(c)
        /\ probing' = [probing EXCEPT ![p] = @ \/ probe]
        /\ call'[c].process = p /\ call'[c].probe = probe
        /\ \A d \in Calls \ {c} : call'[d] = call[d]
    BY <1>0, <1>2 DEF Enforce, NoCall
  <2>2. probe => ~probing[p]
    BY <1>2 DEF Enforce, Degraded
  <2> HIDE DEF probe
  <2>3. ~call[c].probe
    BY <1>0, <2>1 DEF ProbesAreMarked
  <2>4. \A d \in Calls : call'[d].probe => call'[d].process # Shared /\ probing'[call'[d].process]
    <3>1. SUFFICES ASSUME NEW d \in Calls, call'[d].probe
                   PROVE  call'[d].process # Shared /\ probing'[call'[d].process]
      OBVIOUS
    <3>2. CASE d = c
      BY <1>0, <2>1, <3>1, <3>2
    <3>3. CASE d # c
      <4>1. call'[d] = call[d] /\ call[d].process # Shared /\ probing[call[d].process]
        BY <1>0, <2>1, <3>1, <3>3 DEF ProbesAreMarked, Free
      <4>2. call[d].process \in Processes
        BY <1>0, <4>1 DEF Call
      <4>3. QED
        BY <1>0, <2>1, <4>1, <4>2
    <3>4. QED
      BY <3>2, <3>3
  <2>5. ASSUME NEW x \in Processes, probing'[x]
        PROVE  \E d \in Calls : call'[d].process = x /\ call'[d].probe
    <3>1. CASE x = p /\ probe
      BY <2>1, <3>1
    <3>2. CASE ~(x = p /\ probe)
      <4>1. probing[x]
        BY <1>0, <2>1, <2>5, <3>2
      <4>2. PICK d \in Calls : Probes(d, x)
        BY <1>0, <4>1 DEF ProbesAreMarked
      <4>3. d # c
        BY <2>3, <4>2 DEF Probes
      <4>4. QED
        BY <2>1, <4>2, <4>3 DEF Probes
    <3>3. QED
      BY <3>1, <3>2
  <2>6. ASSUME NEW x \in Processes, NEW d \in Calls, NEW e \in Calls,
               call'[d].process = x, call'[d].probe, call'[e].process = x, call'[e].probe
        PROVE  d = e
    <3>1. CASE d # c /\ e # c
      BY <1>0, <2>1, <2>6, <3>1 DEF ProbesAreMarked, Probes
    <3>2. ASSUME NEW y \in Calls, y # c, call'[y].process = p, call'[y].probe, probe PROVE FALSE
      BY <1>0, <2>1, <2>2, <3>2 DEF ProbesAreMarked
    <3>3. QED
      BY <2>1, <2>6, <3>1, <3>2
  <2>7. QED
    BY <2>4, <2>5, <2>6 DEF ProbesAreMarked, Probes, Free
<1>3. ASSUME NEW c \in Calls, Count(c)
      PROVE  ProbesAreMarked'
  <2>1. probing' = probing
        /\ \A d \in Calls : call'[d].process = call[d].process /\ call'[d].probe = call[d].probe
    BY <1>0, <1>3 DEF Count, Call
  <2>2. QED
    BY <1>0, <2>1 DEF ProbesAreMarked, Probes, Free
<1>4. ASSUME NEW c \in Calls, Release(c), ~Free(c)
      PROVE  ProbesAreMarked'
  <2>1. /\ call[c].process \in Processes /\ call[c].probe \in BOOLEAN
        /\ call'[c].process = Shared /\ ~call'[c].probe
        /\ \A d \in Calls \ {c} : call'[d] = call[d]
    BY <1>0, <1>4 DEF Release, Free, Call, NoCall
  <2>2. \A x \in Processes : probing'[x] <=> probing[x] /\ ~Probes(c, x)
    BY <1>0, <1>4, <2>1 DEF Release, Probes
  <2>3. \A x \in Processes, d \in Calls : Probes(d, x)' <=> Probes(d, x) /\ d # c
    BY <1>0, <2>1 DEF Probes
  <2>4. \A d \in Calls : call'[d].probe => call'[d].process # Shared /\ probing'[call'[d].process]
    <3>1. SUFFICES ASSUME NEW d \in Calls, call'[d].probe
                   PROVE  call'[d].process # Shared /\ probing'[call'[d].process]
      OBVIOUS
    <3>2. d # c /\ call'[d] = call[d] /\ call[d].process # Shared /\ probing[call[d].process]
      BY <1>0, <2>1, <3>1 DEF ProbesAreMarked, Free
    <3>3. call[d].process \in Processes
      BY <1>0, <3>2 DEF Call
    <3>4. ~Probes(c, call[d].process)
      BY <1>0, <3>1, <3>2, <3>3 DEF ProbesAreMarked, Probes
    <3>5. QED
      BY <2>2, <3>2, <3>3, <3>4
  <2>5. QED
    BY <1>0, <2>2, <2>3, <2>4 DEF ProbesAreMarked, Free
<1>5. QED
  BY <1>0, <1>1, <1>2, <1>3, <1>4
     DEF LimiterNext, Tick, EnforceAlone, Answer, FailCall, Disconnect

LEMMA LimiterStarts ==
  ASSUME LimiterInit
  PROVE  LimiterInv
<1> USE Numbers DEF LimiterInit
<1>1. /\ NoCounter \in Counter /\ NoCounter.expiry = 0
      /\ NoCall \in Call /\ NoCall.process = Shared /\ NoCall.probe = FALSE
      /\ [count |-> 1, expiry |-> Never] \in Counter
  BY DEF NoCounter, Counter, NoCall, Call
<1>2. clock \in 0 .. MaxClock /\ clock = 1
  OBVIOUS
<1>3. shared \in [Identities -> Counter]
  BY <1>1
<1>4. retryAt \in [Processes -> 0 .. MaxClock + Cooldown]
  OBVIOUS
<1>5. \A p \in Processes : LiveAt(p) = {}
  BY <1>1, <1>2 DEF LiveAt
<1>6. WithinCapacity
  <2> SUFFICES ASSUME NEW p \in Processes PROVE Cardinality(LiveAt(p)) <= MaxEntries
    BY DEF WithinCapacity
  <2>1. Cardinality(LiveAt(p)) = 0
    BY <1>5, FS_EmptySet
  <2>2. QED
    BY <2>1
<1>7. Typed
  BY <1>1, <1>2, <1>3, <1>4 DEF Typed
<1>8. ProbesAreMarked
  BY <1>1 DEF ProbesAreMarked, Probes
<1>9. QED
  BY <1>6, <1>7, <1>8, TypeParts DEF LimiterInv

LEMMA LimiterStep ==
  ASSUME LimiterInv, [LimiterNext]_limiterVars
  PROVE  LimiterInv'
<1>1. CASE LimiterNext
  BY <1>1, LimiterTypeStep, ProbeStep DEF LimiterInv
<1>2. CASE UNCHANGED limiterVars
  BY <1>2 DEF limiterVars, LimiterInv, LimiterTypeOK, ProbesAreMarked, Probes, Free
<1>3. QED
  BY <1>1, <1>2

LEMMA ProbesAreOne ==
  ASSUME LimiterInv
  PROVE  OneProbe
<1> SUFFICES ASSUME NEW p \in Processes
             PROVE  Cardinality({c \in Calls : Probes(c, p)}) = IF probing[p] THEN 1 ELSE 0
  BY DEF OneProbe, Probes
<1>1. CASE probing[p]
  <2>1. PICK c \in Calls : Probes(c, p)
    BY <1>1 DEF LimiterInv, ProbesAreMarked
  <2>2. {d \in Calls : Probes(d, p)} = {c}
    BY <2>1 DEF LimiterInv, ProbesAreMarked
  <2>3. QED
    BY <1>1, <2>2, FS_Singleton
<1>2. CASE ~probing[p]
  <2>1. {d \in Calls : Probes(d, p)} = {}
    BY <1>2 DEF LimiterInv, ProbesAreMarked, Probes
  <2>2. QED
    BY <1>2, <2>1, FS_EmptySet
<1>3. QED
  BY <1>1, <1>2

\* After a failure one call at most of a process asks Redis, and its mark is set exactly while
\* one does, however calls end: it is released with the call that set it.
THEOREM ProbesAreReleased == LimiterSpec => []OneProbe
<1>1. LimiterInit => LimiterInv
  BY LimiterStarts
<1>2. LimiterInv /\ [LimiterNext]_limiterVars => LimiterInv'
  BY LimiterStep
<1>3. LimiterInv => OneProbe
  BY ProbesAreOne
<1>4. QED
  BY <1>1, <1>2, <1>3, PTL DEF LimiterSpec

----------------------------------------------------------------------------
(* Admissions                                                              *)

\* P[t] stands for what was counted before tick t and was admitted or may still be, and k is
\* the counter that counts. P rises in no window's length by more than twice the limit less
\* one. While k is live, from the tick s of its first request: since s by what k has counted,
\* after s by one less, and up to s in the length of a window by less than the limit, as an
\* earlier counter had begun before that. Once it is not live, by less than the limit in what
\* is left of a window.
Capped(k) == IF k.count <= Limit THEN k.count ELSE Limit

InWindow(P, k, now) ==
    \E s \in 0 .. now :
       /\ k.expiry = s + Window /\ k.count >= 1
       /\ P[now + 1] <= P[s] + Capped(k) /\ P[now + 1] <= P[s + 1] + Capped(k) - 1
       /\ \A a \in 0 .. s : s < a + Window => P[s] <= P[a] + Limit - 1

Bounded(P, k, now) ==
    /\ P \in [0 .. MaxClock + 1 -> Nat]
    /\ \A a, b \in 0 .. MaxClock + 1 : a <= b => P[a] <= P[b]
    /\ \A t \in 0 .. MaxClock + 1 : now < t => P[t] = P[now + 1]
    /\ \A a, b \in 0 .. MaxClock + 1 : b <= a + Window => P[b] <= P[a] + (Limit + Limit - 1)
    /\ k.expiry = Never => P[now + 1] = P[0]
    /\ now < k.expiry /\ k.expiry # Never => InWindow(P, k, now)
    /\ k.expiry <= now =>
         /\ P[now + 1] = P[now]
         /\ \A a \in 0 .. now + 1 : now < a + Window => P[now + 1] <= P[a] + Limit - 1

\* The counter with one more request.
Renewed(k, new, now) ==
    LET old == IF k.expiry > now THEN k ELSE NoCounter
    IN  new = [count |-> OneMore(old.count),
               expiry |-> IF old = NoCounter \/ old.expiry = Never THEN now + Window ELSE old.expiry]

LEMMA TimePasses ==
  ASSUME NEW P, NEW k \in Counter, NEW now \in 0 .. MaxClock, now < MaxClock, Bounded(P, k, now)
  PROVE  Bounded(P, k, now + 1)
<1> USE Numbers
<1>1. now \in Nat /\ now + 1 \in 0 .. MaxClock /\ (now + 1) + 1 \in 0 .. MaxClock + 1
      /\ now + 1 \in 0 .. MaxClock + 1 /\ 0 \in 0 .. MaxClock + 1
  OBVIOUS
<1>2. P[(now + 1) + 1] = P[now + 1] /\ \A t \in 0 .. MaxClock + 1 : P[t] \in Nat
  BY <1>1 DEF Bounded
<1>3. \A t \in 0 .. MaxClock + 1 : now + 1 < t => P[t] = P[(now + 1) + 1]
  BY <1>1, <1>2 DEF Bounded
<1>4. k.expiry \in Nat /\ k.count \in Nat
  BY DEF Counter
<1>5. ASSUME now + 1 < k.expiry, k.expiry # Never PROVE InWindow(P, k, now + 1)
  <2>1. InWindow(P, k, now)
    BY <1>1, <1>4, <1>5 DEF Bounded
  <2>2. 0 .. now \subseteq 0 .. now + 1
    BY <1>1
  <2>3. QED
    BY <1>2, <2>1, <2>2 DEF InWindow
<1>6. ASSUME k.expiry <= now + 1, NEW a \in 0 .. (now + 1) + 1, now + 1 < a + Window
      PROVE  P[(now + 1) + 1] <= P[a] + Limit - 1
  <2>0. a \in 0 .. MaxClock + 1 /\ a \in Nat /\ P[a] \in Nat
    BY <1>1, <1>2
  <2>1. CASE a = (now + 1) + 1
    BY <1>2, <2>0, <2>1
  <2>2. CASE a # (now + 1) + 1 /\ k.expiry <= now
    <3>1. a \in 0 .. now + 1 /\ now < a + Window
      BY <1>1, <1>6, <2>2
    <3>2. P[now + 1] <= P[a] + Limit - 1
      BY <2>2, <3>1 DEF Bounded
    <3>3. QED
      BY <1>2, <3>2
  <2>3. CASE now < k.expiry
    <3>1. k.expiry # Never /\ k.expiry = now + 1
      BY <1>1, <1>4, <1>6, <2>3
    <3>2. PICK s \in 0 .. now : k.expiry = s + Window /\ P[now + 1] <= P[s + 1] + Capped(k) - 1
      BY <2>3, <3>1 DEF Bounded, InWindow
    <3>3. s + 1 <= a /\ s + 1 \in 0 .. MaxClock + 1
      BY <1>1, <1>6, <2>0, <3>1, <3>2
    <3>4. P[s + 1] <= P[a] /\ P[s + 1] \in Nat /\ P[now + 1] \in Nat
      BY <1>1, <1>2, <2>0, <3>3 DEF Bounded
    <3>5. Capped(k) \in Nat /\ Capped(k) <= Limit
      BY <1>4 DEF Capped
    <3>6. QED
      BY <1>2, <2>0, <3>2, <3>4, <3>5
  <2>4. QED
    BY <1>1, <1>4, <2>1, <2>2, <2>3
<1>7. QED
  BY <1>1, <1>2, <1>3, <1>5, <1>6 DEF Bounded

\* A counter that is not live may be forgotten.
LEMMA CounterLapses ==
  ASSUME NEW P, NEW k \in Counter, NEW now \in 0 .. MaxClock, k.expiry <= now, Bounded(P, k, now)
  PROVE  Bounded(P, NoCounter, now)
<1>1. NoCounter.expiry = 0 /\ now \in Nat
  BY Numbers DEF NoCounter
<1>2. QED
  BY <1>1, Numbers DEF Bounded

\* One more request: P rises from now on by one if it may pass.
Raised(P, new, now) ==
    IF new.count <= Limit THEN [t \in 0 .. MaxClock + 1 |-> IF now < t THEN P[t] + 1 ELSE P[t]]
    ELSE P

LEMMA RequestCounts ==
  ASSUME NEW P, NEW k \in Counter, NEW now \in 0 .. MaxClock, Bounded(P, k, now),
         NEW new, Renewed(k, new, now)
  PROVE  Bounded(Raised(P, new, now), new, now)
<1> USE Numbers
<1> DEFINE Q == Raised(P, new, now)
           up == IF new.count <= Limit THEN 1 ELSE 0
           T == 0 .. MaxClock + 1
<1>0. SUFFICES Bounded(Q, new, now)
  OBVIOUS
<1>1. /\ now \in Nat /\ now \in T /\ now + 1 \in T /\ 0 \in T
      /\ k.expiry \in Nat /\ k.count \in 0 .. Limit + 1
  BY DEF Counter
<1>2. /\ P \in [T -> Nat] /\ \A t \in T : P[t] \in Nat
      /\ \A a, b \in T : a <= b => P[a] <= P[b]
      /\ \A t \in T : now < t => P[t] = P[now + 1]
  BY DEF Bounded
<1>3. new.count \in 0 .. Limit + 1 /\ new.count >= 1
  <2>1. \A n \in 0 .. Limit + 1 : OneMore(n) \in 0 .. Limit + 1 /\ OneMore(n) >= 1
    BY DEF OneMore
  <2>2. NoCounter.count \in 0 .. Limit + 1
    BY DEF NoCounter
  <2>3. QED
    BY <1>1, <2>1, <2>2 DEF Renewed
<1>4. up \in 0 .. 1 /\ Q \in [T -> Nat] /\ \A t \in T : Q[t] = IF now < t THEN P[t] + up ELSE P[t]
  BY <1>1, <1>2, <1>3 DEF Raised
<1> HIDE DEF Q, up
<1>5. \A a, b \in T : a <= b => Q[a] <= Q[b]
  <2> SUFFICES ASSUME NEW a \in T, NEW b \in T, a <= b PROVE Q[a] <= Q[b]
    OBVIOUS
  <2>1. P[a] <= P[b] /\ P[a] \in Nat /\ P[b] \in Nat
    BY <1>2
  <2>2. Q[a] = (IF now < a THEN P[a] + up ELSE P[a]) /\ Q[b] = (IF now < b THEN P[b] + up ELSE P[b])
    BY <1>4
  <2>3. QED
    BY <1>1, <1>4, <2>1, <2>2
<1>6. \A t \in T : now < t => Q[t] = Q[now + 1]
  BY <1>1, <1>2, <1>4
<1>7. Q[now + 1] = P[now + 1] + up /\ \A t \in T : t <= now => Q[t] = P[t]
  BY <1>1, <1>2, <1>4
<1>8. ASSUME NEW s \in 0 .. now, new.expiry = s + Window, now < new.expiry,
             P[now + 1] + up <= P[s] + Capped(new),
             P[now + 1] + up <= Q[s + 1] + Capped(new) - 1,
             \A a \in 0 .. s : s < a + Window => P[s] <= P[a] + Limit - 1
      PROVE  Bounded(Q, new, now)
  <2>1. s \in Nat /\ s \in T /\ s + 1 \in T /\ Capped(new) \in Nat /\ Capped(new) <= Limit /\ Capped(new) >= 1
    BY <1>1, <1>3 DEF Capped
  <2>2. /\ Q[now + 1] <= Q[s] + Capped(new)
        /\ \A a \in 0 .. s : Q[a] = P[a] /\ a \in T
    BY <1>1, <1>7, <1>8, <2>1
  <2>3. InWindow(Q, new, now)
    BY <1>3, <1>7, <1>8, <2>1, <2>2 DEF InWindow
  <2>4. \A a, b \in T : b <= a + Window => Q[b] <= Q[a] + (Limit + Limit - 1)
    <3> SUFFICES ASSUME NEW a \in T, NEW b \in T, b <= a + Window
                 PROVE  Q[b] <= Q[a] + (Limit + Limit - 1)
      OBVIOUS
    <3>1. Q[a] \in Nat /\ Q[b] \in Nat /\ P[a] \in Nat /\ P[b] \in Nat /\ a \in Nat /\ b \in Nat
      BY <1>2, <1>4
    <3>2. CASE b <= now
      <4>1. P[b] <= P[a] + (Limit + Limit - 1)
        BY DEF Bounded
      <4>2. Q[b] = P[b] /\ P[a] <= Q[a]
        BY <1>1, <1>4, <3>1, <3>2
      <4>3. QED
        BY <3>1, <4>1, <4>2
    <3>3. CASE now < b /\ now < a
      <4>1. Q[a] = Q[b]
        BY <1>6, <3>3
      <4>2. QED
        BY <3>1, <4>1
    <3>4. CASE now < b /\ a <= now
      <4>1. Q[b] = Q[now + 1] /\ Q[b] <= Q[s] + Capped(new)
        BY <1>6, <2>2, <3>4
      <4>2. CASE s <= a
        <5>1. Q[s] <= Q[a] /\ Q[s] \in Nat
          BY <1>4, <1>5, <2>1, <4>2
        <5>2. QED
          BY <2>1, <3>1, <4>1, <5>1
      <4>3. CASE a < s
        <5>1. a \in 0 .. s /\ s < a + Window
          BY <1>1, <2>1, <3>1, <3>4, <4>3
        <5>2. Q[s] <= Q[a] + Limit - 1 /\ Q[s] \in Nat
          BY <1>4, <1>7, <1>8, <2>1, <2>2, <5>1
        <5>3. QED
          BY <2>1, <3>1, <4>1, <5>2
      <4>4. QED
        BY <2>1, <3>1, <4>2, <4>3
    <3>5. QED
      BY <1>1, <3>1, <3>2, <3>3, <3>4
  <2>5. new.expiry # Never /\ now < new.expiry /\ new.expiry \in Nat
    BY <1>1, <1>8, <2>1
  <2>6. ~(new.expiry <= now)
    BY <1>1, <2>5
  <2>7. QED
    BY <1>4, <1>5, <1>6, <2>3, <2>4, <2>5, <2>6 DEF Bounded
<1>9. CASE now < k.expiry /\ k.expiry # Never
  <2>1. k # NoCounter
    BY <1>1, <1>9 DEF NoCounter
  <2>2. new.count = OneMore(k.count) /\ new.expiry = k.expiry
    BY <1>9, <2>1 DEF Renewed
  <2>3. PICK s \in 0 .. now :
           /\ k.expiry = s + Window /\ k.count >= 1
           /\ P[now + 1] <= P[s] + Capped(k) /\ P[now + 1] <= P[s + 1] + Capped(k) - 1
           /\ \A a \in 0 .. s : s < a + Window => P[s] <= P[a] + Limit - 1
    BY <1>9 DEF Bounded, InWindow
  <2>4. Capped(k) + up <= Capped(new) /\ Capped(k) \in Nat /\ Capped(new) \in Nat /\ Capped(new) >= 1
    BY <1>1, <1>3, <2>2, <2>3 DEF Capped, OneMore, up
  <2>5. s \in T /\ s + 1 \in T /\ s \in Nat /\ P[s] \in Nat /\ P[s + 1] \in Nat /\ P[now + 1] \in Nat
    BY <1>1, <1>2
  <2> DEFINE c == Capped(k)
             d == Capped(new)
             p == P[now + 1]
  <2>0. /\ c + up <= d /\ c \in Nat /\ d \in Nat /\ d >= 1 /\ up \in 0 .. 1 /\ p \in Nat
        /\ p <= P[s] + c /\ p <= P[s + 1] + c - 1
    BY <1>4, <2>3, <2>4, <2>5
  <2> HIDE DEF c, d, p
  <2>6. P[now + 1] + up <= P[s] + Capped(new)
    <3>1. p + up <= P[s] + d
      BY <2>0, <2>5
    <3>2. QED
      BY <3>1 DEF p, d
  <2>7. P[now + 1] + up <= Q[s + 1] + Capped(new) - 1
    <3>1. CASE s = now
      BY <1>4, <1>7, <2>4, <2>5, <3>1
    <3>2. CASE s # now
      <4>1. Q[s + 1] = P[s + 1]
        BY <1>1, <1>7, <2>5, <3>2
      <4>2. p + up <= P[s + 1] + d - 1
        BY <2>0, <2>5
      <4>3. QED
        BY <4>1, <4>2 DEF p, d
    <3>3. QED
      BY <3>1, <3>2
  <2>8. QED
    BY <1>8, <1>9, <2>2, <2>3, <2>6, <2>7
<1>10. CASE k.expiry <= now \/ k.expiry = Never
  <2>1. new.expiry = now + Window
    BY <1>1, <1>10 DEF Renewed, NoCounter
  <2>2. P[now + 1] = P[now]
    <3>1. CASE k.expiry <= now
      BY <3>1 DEF Bounded
    <3>2. CASE k.expiry = Never
      <4>1. P[now + 1] = P[0]
        BY <3>2 DEF Bounded
      <4>2. P[0] <= P[now] /\ P[now] <= P[now + 1] /\ P[0] \in Nat /\ P[now] \in Nat /\ P[now + 1] \in Nat
        BY <1>1, <1>2
      <4>3. QED
        BY <4>1, <4>2
    <3>3. QED
      BY <1>10, <3>1, <3>2
  <2>3. \A a \in 0 .. now : now < a + Window => P[now] <= P[a] + Limit - 1
    <3> SUFFICES ASSUME NEW a \in 0 .. now, now < a + Window PROVE P[now] <= P[a] + Limit - 1
      OBVIOUS
    <3>0. a \in T /\ P[a] \in Nat /\ P[now] \in Nat
      BY <1>1, <1>2
    <3>1. CASE k.expiry <= now
      <4>1. a \in 0 .. now + 1
        BY <1>1
      <4>2. P[now + 1] <= P[a] + Limit - 1
        BY <3>1, <4>1 DEF Bounded
      <4>3. QED
        BY <2>2, <4>2
    <3>2. CASE k.expiry = Never
      <4>1. P[now + 1] = P[0]
        BY <3>2 DEF Bounded
      <4>2. P[0] <= P[a] /\ P[0] \in Nat
        BY <1>1, <1>2, <3>0
      <4>3. QED
        BY <2>2, <3>0, <4>1, <4>2
    <3>3. QED
      BY <1>10, <3>1, <3>2
  <2>4. Capped(new) >= 1 /\ Capped(new) \in Nat /\ P[now] \in Nat /\ P[now + 1] \in Nat
    BY <1>1, <1>2, <1>3 DEF Capped
  <2>5. now \in 0 .. now
    BY <1>1
  <2>6. P[now + 1] + up <= P[now] + Capped(new) /\ P[now + 1] + up <= Q[now + 1] + Capped(new) - 1
    BY <1>4, <1>7, <2>2, <2>4
  <2>7. now < new.expiry
    BY <1>1, <2>1
  <2>8. QED
    BY <1>8, <2>1, <2>3, <2>5, <2>6, <2>7
<1>11. QED
  BY <1>1, <1>9, <1>10

LEMMA OneMoreFits ==
  \A p, q, l, m \in Nat : p + l <= q =>
     /\ m <= l => p + m <= q /\ p + m <= q + 1 /\ (p + 1) + m <= q + 1
     /\ m <= l + 1 => p + m <= q + 1
OBVIOUS

LEMMA RaisedSuffices ==
  ASSUME NEW P \in [0 .. MaxClock + 1 -> Nat], NEW now \in 0 .. MaxClock, NEW new,
         NEW L \in [0 .. MaxClock -> Nat], NEW M \in [0 .. MaxClock -> Nat],
         \A t \in 0 .. MaxClock : P[t] + L[t] <= P[t + 1],
         \A t \in 0 .. MaxClock : M[t] <= L[t] + IF t = now /\ new.count <= Limit THEN 1 ELSE 0
  PROVE  \A t \in 0 .. MaxClock : Raised(P, new, now)[t] + M[t] <= Raised(P, new, now)[t + 1]
<1> USE Numbers
<1> SUFFICES ASSUME NEW t \in 0 .. MaxClock
             PROVE  Raised(P, new, now)[t] + M[t] <= Raised(P, new, now)[t + 1]
  OBVIOUS
<1>1. t \in 0 .. MaxClock + 1 /\ t + 1 \in 0 .. MaxClock + 1 /\ t \in Nat /\ now \in Nat
  OBVIOUS
<1>2. P[t] \in Nat /\ P[t + 1] \in Nat /\ L[t] \in Nat /\ M[t] \in Nat
  BY <1>1
<1>3. P[t] + L[t] <= P[t + 1] /\ M[t] <= L[t] + IF t = now /\ new.count <= Limit THEN 1 ELSE 0
  OBVIOUS
<1> DEFINE p == P[t]
           q == P[t + 1]
           l == L[t]
           m == M[t]
<1>4. p \in Nat /\ q \in Nat /\ l \in Nat /\ m \in Nat /\ p + l <= q
  BY <1>2, <1>3
<1>5. CASE new.count <= Limit
  <2>1. /\ Raised(P, new, now)[t] = IF now < t THEN p + 1 ELSE p
        /\ Raised(P, new, now)[t + 1] = IF now < t + 1 THEN q + 1 ELSE q
    BY <1>1, <1>5 DEF Raised
  <2>2. m <= l + IF t = now THEN 1 ELSE 0
    BY <1>3, <1>5
  <2> HIDE DEF p, q, l, m
  <2>3. CASE now < t
    <3>1. m <= l
      BY <1>1, <1>4, <2>2, <2>3
    <3>2. (p + 1) + m <= q + 1
      BY <1>4, <3>1, OneMoreFits
    <3>3. now < t + 1
      BY <1>1, <2>3
    <3>4. QED
      BY <2>1, <2>3, <3>2, <3>3 DEF m
  <2>4. CASE now = t
    <3>1. m <= l + 1
      BY <2>2, <2>4
    <3>2. p + m <= q + 1
      BY <1>4, <3>1, OneMoreFits
    <3>3. now < t + 1 /\ ~(now < t)
      BY <1>1, <2>4
    <3>4. QED
      BY <2>1, <3>2, <3>3 DEF m
  <2>5. CASE t < now
    <3>1. m <= l
      BY <1>1, <1>4, <2>2, <2>5
    <3>2. p + m <= q
      BY <1>4, <3>1, OneMoreFits
    <3>3. ~(now < t + 1) /\ ~(now < t)
      BY <1>1, <2>5
    <3>4. QED
      BY <2>1, <3>2, <3>3 DEF m
  <2>6. QED
    BY <1>1, <2>3, <2>4, <2>5
<1>6. CASE ~(new.count <= Limit)
  <2>1. Raised(P, new, now) = P
    BY <1>6 DEF Raised
  <2>2. m <= l
    BY <1>3, <1>4, <1>6
  <2> HIDE DEF p, q, l, m
  <2>3. p + m <= q
    BY <1>4, <2>2, OneMoreFits
  <2>4. QED
    BY <2>1, <2>3 DEF p, q, m
<1>7. QED
  BY <1>5, <1>6

\* The calls in flight that m has counted at t and may still admit, with what it has.
Due(m, c, t) ==
    /\ ~Free(c) /\ call[c].who = Watched
    /\ IF m = Shared THEN call[c].count \in 1 .. Limit /\ call[c].counted = t
       ELSE ~required /\ call[c].process = m /\ call[c].alone <= Limit /\ call[c].at = t

DueAt(m, t) == {c \in Calls : Due(m, c, t)}

Load(m, t) == admitted[m][t] + Cardinality(DueAt(m, t))

Counting(m) == IF m = Shared THEN shared[Watched] ELSE local[m][Watched]

Measured(m) ==
    /\ \E P : Bounded(P, Counting(m), clock) /\ \A t \in 0 .. MaxClock : P[t] + Load(m, t) <= P[t + 1]
    /\ Counting(m).expiry = Never => m = Shared

Counters == Processes \cup {Shared}

\* What a step does to the counter of m: nothing but to forget it, or a request more.
Keeps(m) ==
    /\ Counting(m)' = Counting(m) \/ (Counting(m).expiry <= clock /\ Counting(m)' = NoCounter)
    /\ \A t \in 0 .. MaxClock : Load(m, t)' <= Load(m, t)

CountsOne(m) ==
    /\ Renewed(Counting(m), Counting(m)', clock)
    /\ \A t \in 0 .. MaxClock :
         Load(m, t)' <= Load(m, t) + IF t = clock /\ Counting(m)'.count <= Limit THEN 1 ELSE 0

LEMMA LoadTyped ==
  ASSUME LimiterTypeOK, NEW m \in Counters, NEW t \in 0 .. MaxClock
  PROVE  /\ IsFiniteSet(DueAt(m, t)) /\ Cardinality(DueAt(m, t)) \in Nat
         /\ admitted[m][t] \in Nat /\ Load(m, t) \in Nat
<1>1. DueAt(m, t) \subseteq Calls
  BY DEF DueAt
<1>2. IsFiniteSet(DueAt(m, t)) /\ Cardinality(DueAt(m, t)) \in Nat
  BY <1>1, RateLimiterAssumption, FS_Subset, FS_CardinalityType
<1>3. admitted[m][t] \in Nat
  BY DEF LimiterTypeOK, Counters
<1>4. QED
  BY <1>2, <1>3 DEF Load

LEMMA LoadsTyped ==
  LimiterTypeOK => \A n \in Counters : \A t \in 0 .. MaxClock : Load(n, t) \in Nat
BY LoadTyped

LEMMA LoadsTypedNext ==
  LimiterTypeOK' => \A n \in Counters : \A t \in 0 .. MaxClock : Load(n, t)' \in Nat
<1>1. (LimiterTypeOK => \A n \in Counters : \A t \in 0 .. MaxClock : Load(n, t) \in Nat)'
  BY LoadsTyped, PTL
<1>2. QED
  BY <1>1

LEMMA MeasuredOn ==
  ASSUME LimiterTypeOK, LimiterTypeOK', clock' = clock, NEW m \in Counters, Measured(m),
         Keeps(m) \/ CountsOne(m)
  PROVE  Measured(m)'
<1>1. PICK P : Bounded(P, Counting(m), clock) /\ \A t \in 0 .. MaxClock : P[t] + Load(m, t) <= P[t + 1]
  BY DEF Measured
<1>2. PICK k : k = Counting(m)
  OBVIOUS
<1>3. PICK new : new = Counting(m)'
  OBVIOUS
<1>4. PICK now : now = clock
  OBVIOUS
<1>5. k \in Counter /\ now \in 0 .. MaxClock /\ P \in [0 .. MaxClock + 1 -> Nat]
  <2>1. k \in Counter
    BY <1>2, Numbers DEF Counting, Counters, LimiterTypeOK
  <2>2. now \in 0 .. MaxClock
    BY <1>4 DEF LimiterTypeOK
  <2>3. QED
    BY <1>1, <2>1, <2>2 DEF Bounded
<1>6. PICK L : L = [t \in 0 .. MaxClock |-> Load(m, t)]
  OBVIOUS
<1>7. PICK M : M = [t \in 0 .. MaxClock |-> Load(m, t)']
  OBVIOUS
<1>8. L \in [0 .. MaxClock -> Nat] /\ M \in [0 .. MaxClock -> Nat]
  <2>1. \A t \in 0 .. MaxClock : Load(m, t) \in Nat
    BY LoadTyped
  <2>2. \A t \in 0 .. MaxClock : Load(m, t)' \in Nat
    BY LoadsTypedNext
  <2>3. QED
    BY <1>6, <1>7, <2>1, <2>2
<1>9. \A t \in 0 .. MaxClock : P[t] + L[t] <= P[t + 1]
  BY <1>1, <1>6
<1>10. Bounded(P, k, now)
  BY <1>1, <1>2, <1>4
<1>11. SUFFICES /\ \E Q : Bounded(Q, new, now) /\ \A t \in 0 .. MaxClock : Q[t] + M[t] <= Q[t + 1]
                /\ new.expiry = Never => m = Shared
  BY <1>3, <1>4, <1>7 DEF Measured
<1>12. k.expiry = Never => m = Shared
  BY <1>2 DEF Measured
<1>13. CASE Keeps(m)
  <2>1. new = k \/ (k.expiry <= now /\ new = NoCounter)
    BY <1>2, <1>3, <1>4, <1>13 DEF Keeps
  <2>2. Bounded(P, new, now)
    BY <1>5, <1>10, <2>1, CounterLapses
  <2>3. ASSUME NEW t \in 0 .. MaxClock PROVE P[t] + M[t] <= P[t + 1]
    <3>1. M[t] <= L[t] /\ M[t] \in Nat /\ L[t] \in Nat
      BY <1>6, <1>7, <1>8, <1>13 DEF Keeps
    <3>2. P[t] \in Nat /\ P[t + 1] \in Nat /\ P[t] + L[t] <= P[t + 1]
      BY <1>5, <1>9, Numbers
    <3>3. QED
      BY <3>1, <3>2
  <2>4. new.expiry = Never => m = Shared
    BY <1>12, <2>1, Numbers DEF NoCounter
  <2>5. QED
    BY <2>2, <2>3, <2>4
<1>14. CASE CountsOne(m)
  <2>1. Renewed(k, new, now)
    BY <1>2, <1>3, <1>4, <1>14 DEF CountsOne
  <2>2. \A t \in 0 .. MaxClock : M[t] <= L[t] + IF t = now /\ new.count <= Limit THEN 1 ELSE 0
    BY <1>3, <1>4, <1>6, <1>7, <1>14 DEF CountsOne
  <2>3. Bounded(Raised(P, new, now), new, now)
    BY <1>5, <1>10, <2>1, RequestCounts
  <2>4. \A t \in 0 .. MaxClock : Raised(P, new, now)[t] + M[t] <= Raised(P, new, now)[t + 1]
    BY <1>5, <1>8, <1>9, <2>2, RaisedSuffices
  <2>5. new.expiry # Never
    <3>1. now \in Nat /\ now + Window # Never
      BY <1>5, Numbers
    <3>2. QED
      BY <2>1, <3>1 DEF Renewed
  <2>6. QED
    BY <2>3, <2>4, <2>5
<1>15. QED
  BY <1>13, <1>14

LEMMA LoadOfNext ==
  ASSUME LimiterTypeOK, NEW m \in Counters, NEW t \in 0 .. MaxClock
  PROVE  /\ \A c \in Calls : admitted'[m][t] = admitted[m][t] /\ DueAt(m, t)' \subseteq DueAt(m, t) \cup {c}
                => Load(m, t)' <= Load(m, t) + 1
         /\ admitted'[m][t] = admitted[m][t] /\ DueAt(m, t)' \subseteq DueAt(m, t)
                => Load(m, t)' <= Load(m, t)
         /\ admitted'[m][t] = admitted[m][t] + 1 /\ DueAt(m, t)' \subseteq DueAt(m, t)
                => Load(m, t)' <= Load(m, t) + 1
         /\ \A c \in DueAt(m, t) :
               admitted'[m][t] = admitted[m][t] + 1 /\ DueAt(m, t)' \subseteq DueAt(m, t) \ {c}
                => Load(m, t)' <= Load(m, t)
<1>1. PICK D : D = DueAt(m, t)
  OBVIOUS
<1>2. PICK E : E = DueAt(m, t)'
  OBVIOUS
<1>3. PICK x : x = admitted[m][t]
  OBVIOUS
<1>4. PICK y : y = admitted'[m][t]
  OBVIOUS
<1>5. Load(m, t) = x + Cardinality(D) /\ Load(m, t)' = y + Cardinality(E)
  BY <1>1, <1>2, <1>3, <1>4 DEF Load
<1>6. IsFiniteSet(D) /\ Cardinality(D) \in Nat /\ x \in Nat
  BY <1>1, <1>3, LoadTyped
<1>7. \A F : IsFiniteSet(F) /\ E \subseteq F =>
         Cardinality(E) \in Nat /\ Cardinality(E) <= Cardinality(F) /\ Cardinality(F) \in Nat
  BY FS_Subset, FS_CardinalityType
<1>8. ASSUME NEW c, E \subseteq D \cup {c}
      PROVE  Cardinality(E) \in Nat /\ Cardinality(E) <= Cardinality(D) + 1
  <2>1. /\ IsFiniteSet(D \cup {c})
        /\ Cardinality(D \cup {c}) = Cardinality(D) \/ Cardinality(D \cup {c}) = Cardinality(D) + 1
    BY <1>6, FS_AddElement
  <2>2. QED
    BY <1>6, <1>7, <1>8, <2>1
<1>9. ASSUME NEW c \in D, E \subseteq D \ {c}
      PROVE  Cardinality(E) \in Nat /\ Cardinality(E) + 1 <= Cardinality(D)
  <2>1. IsFiniteSet(D \ {c}) /\ Cardinality(D \ {c}) = Cardinality(D) - 1
    BY <1>6, FS_RemoveElement
  <2>2. QED
    BY <1>6, <1>7, <1>9, <2>1
<1>10. \A c : y = x /\ E \subseteq D \cup {c} => y + Cardinality(E) <= (x + Cardinality(D)) + 1
  BY <1>6, <1>8
<1>11. E \subseteq D => Cardinality(E) \in Nat /\ Cardinality(E) <= Cardinality(D)
  BY <1>6, <1>7
<1>12. \A c \in D : y = x + 1 /\ E \subseteq D \ {c} => y + Cardinality(E) <= x + Cardinality(D)
  BY <1>6, <1>9
<1>13. /\ y = x /\ E \subseteq D => y + Cardinality(E) <= x + Cardinality(D)
       /\ y = x + 1 /\ E \subseteq D => y + Cardinality(E) <= (x + Cardinality(D)) + 1
  BY <1>6, <1>11
<1>14. QED
  BY <1>1, <1>2, <1>3, <1>4, <1>5, <1>10, <1>12, <1>13

LEMMA DecideEffect ==
  ASSUME LimiterTypeOK, NEW m \in Counters, NEW i, NEW n, NEW t \in 0 .. MaxClock, Decide(m, i, n, t),
         NEW x \in Counters, NEW u \in 0 .. MaxClock
  PROVE  admitted'[x][u] = IF x = m /\ u = t /\ i = Watched /\ n <= Limit THEN admitted[x][u] + 1
                           ELSE admitted[x][u]
<1>1. admitted \in [Counters -> [0 .. MaxClock -> Nat]]
  BY DEF LimiterTypeOK, Counters
<1>2. CASE i = Watched /\ n <= Limit
  <2> DEFINE f == [admitted[m] EXCEPT ![t] = @ + 1]
  <2>1. admitted' = [admitted EXCEPT ![m] = f]
    BY <1>2 DEF Decide
  <2>2. admitted'[x] = IF x = m THEN f ELSE admitted[x]
    BY <1>1, <2>1
  <2>3. f[u] = IF u = t THEN admitted[m][u] + 1 ELSE admitted[m][u]
    BY <1>1
  <2> HIDE DEF f
  <2>4. QED
    BY <1>2, <2>2, <2>3
<1>3. CASE ~(i = Watched /\ n <= Limit)
  BY <1>3 DEF Decide
<1>4. QED
  BY <1>2, <1>3

\* A process counts a request of somebody else's, refuses it as its table is full, or counts
\* one of the watched identity.
LEMMA Charging ==
  ASSUME LimiterTypeOK, NEW p \in Processes, NEW i \in Identities, Counting(p).expiry # Never,
         local' = [local EXCEPT ![p] = Charged(p, i)], clock' = clock, shared' = shared
  PROVE  /\ \A m \in Counters \ {p} : Counting(m)' = Counting(m)
         /\ \/ /\ \/ Counting(p)' = Counting(p)
                  \/ Counting(p).expiry <= clock /\ Counting(p)' = NoCounter
               /\ i = Watched => ~(CountOf(p, i) <= Limit)
            \/ /\ i = Watched /\ Renewed(Counting(p), Counting(p)', clock)
               /\ CountOf(p, i) = Counting(p)'.count
<1>0. Typed /\ WithinCapacity /\ Shared \notin Processes /\ Watched \in Identities
  BY TypeParts, Numbers
<1>1. local'[p] = Charged(p, i) /\ \A q \in Processes \ {p} : local'[q] = local[q]
  BY DEF LimiterTypeOK
<1>2. \A m \in Counters \ {p} : Counting(m)' = Counting(m)
  BY <1>1 DEF Counters, Counting
<1>3. Counting(p) = local[p][Watched] /\ Counting(p)' = Charged(p, i)[Watched]
  BY <1>0, <1>1 DEF Counting
<1> DEFINE A == Active(p)
<1>4. A[Watched] = IF Counting(p).expiry > clock THEN Counting(p) ELSE NoCounter
  BY <1>0, <1>3 DEF Active
<1>5. A \in [Identities -> Counter] /\ clock \in Nat /\ Counting(p).expiry \in Nat
  <2>1. local[p][Watched] \in Counter
    BY <1>0 DEF Typed
  <2>2. A \in [Identities -> Counter]
    BY <1>0, ActiveFacts
  <2>3. clock \in Nat
    BY <1>0, Numbers DEF Typed
  <2>4. Counting(p).expiry \in Nat
    BY <1>3, <2>1, Numbers DEF Counter
  <2>5. QED
    BY <2>2, <2>3, <2>4
<1>6. CASE Full(p, i)
  <2>1. Counting(p)' = A[Watched] /\ CountOf(p, i) = Limit + 1
    BY <1>3, <1>6 DEF Charged, CountOf
  <2>2. QED
    BY <1>2, <1>4, <1>5, <2>1, Numbers
<1>7. CASE ~Full(p, i)
  <2> DEFINE new == [count |-> OneMore(A[i].count),
                     expiry |-> IF A[i] = NoCounter THEN clock + Window ELSE A[i].expiry]
  <2>1. Charged(p, i) = [A EXCEPT ![i] = new]
    BY <1>7 DEF Charged
  <2>2. CASE i # Watched
    <3>1. Counting(p)' = A[Watched]
      BY <1>3, <1>5, <2>1, <2>2
    <3>2. QED
      BY <1>2, <1>4, <1>5, <2>2, <3>1
  <2>3. CASE i = Watched
    <3>1. Counting(p)' = new
      BY <1>0, <1>3, <1>5, <2>1, <2>3
    <3>2. CountOf(p, i) = Counting(p)'.count
      BY <1>3, <1>7, <2>3 DEF CountOf
    <3>3. Renewed(Counting(p), new, clock)
      BY <1>4, <2>3, Numbers DEF Renewed, NoCounter
    <3>4. QED
      BY <1>2, <2>3, <3>1, <3>2, <3>3
  <2>4. QED
    BY <2>2, <2>3
<1>8. QED
  BY <1>6, <1>7

\* What a step that touches the call c alone leaves due.
LEMMA DueOfOthers ==
  ASSUME required' = required, NEW c \in Calls, \A d \in Calls \ {c} : call'[d] = call[d],
         NEW m, NEW t
  PROVE  /\ DueAt(m, t)' \subseteq DueAt(m, t) \cup {c}
         /\ ~Due(m, c, t)' => DueAt(m, t)' \subseteq DueAt(m, t) \ {c}
         /\ (Due(m, c, t)' => Due(m, c, t)) => DueAt(m, t)' \subseteq DueAt(m, t)
<1>1. \A d \in Calls \ {c} : Due(m, d, t)' <=> Due(m, d, t)
  BY DEF Due, Free
<1>2. QED
  BY <1>1 DEF DueAt

\* A call that is over counts for nothing.
LEMMA NothingIsDue ==
  ASSUME NEW c \in Calls, call'[c] = NoCall, NEW m, NEW t
  PROVE  ~Due(m, c, t)'
BY DEF Due, Free, NoCall

LEMMA CallTyped ==
  ASSUME LimiterTypeOK, NEW c \in Calls, ~Free(c)
  PROVE  /\ call[c] \in Call /\ call[c].process \in Processes /\ call[c].who \in Identities
         /\ call[c].alone \in 0 .. Limit + 1 /\ call[c].at \in 0 .. MaxClock
         /\ call[c].count \in 0 .. Limit + 1 /\ call[c].counted \in 0 .. MaxClock
<1>1. call[c] \in Call
  BY DEF LimiterTypeOK
<1>2. QED
  BY <1>1 DEF Call, Free

LEMMA MeasuredAlone ==
  ASSUME LimiterTypeOK, NEW p \in Processes, NEW i \in Identities, EnforceAlone(p, i),
         \A m \in Counters : Measured(m), NEW m \in Counters
  PROVE  Keeps(m) \/ CountsOne(m)
<1>0. Shared \notin Processes /\ p \in Counters /\ clock \in 0 .. MaxClock
  BY Numbers DEF Counters, LimiterTypeOK
<1>1. Counting(p).expiry # Never
  BY <1>0 DEF Measured
<1>2. /\ local' = [local EXCEPT ![p] = Charged(p, i)] /\ clock' = clock /\ shared' = shared
      /\ Decide(p, i, CountOf(p, i), clock) /\ call' = call /\ required' = required
  BY DEF EnforceAlone
<1>3. \A t \in 0 .. MaxClock : DueAt(m, t)' = DueAt(m, t)
  BY <1>2 DEF DueAt, Due, Free
<1>4. \A t \in 0 .. MaxClock :
         admitted'[m][t] = IF m = p /\ t = clock /\ i = Watched /\ CountOf(p, i) <= Limit
                           THEN admitted[m][t] + 1 ELSE admitted[m][t]
  BY <1>0, <1>2, DecideEffect
<1>5. \A t \in 0 .. MaxClock :
         /\ admitted'[m][t] = admitted[m][t] => Load(m, t)' <= Load(m, t)
         /\ admitted'[m][t] = admitted[m][t] + 1 => Load(m, t)' <= Load(m, t) + 1
  BY <1>3, LoadOfNext
<1>6. \A t \in 0 .. MaxClock : Load(m, t) \in Nat
  BY LoadTyped
<1>7. CASE m # p
  BY <1>1, <1>2, <1>4, <1>5, <1>7, Charging DEF Keeps
<1>8. CASE m = p
  <2>1. CASE /\ Counting(p)' = Counting(p) \/ (Counting(p).expiry <= clock /\ Counting(p)' = NoCounter)
             /\ i = Watched => ~(CountOf(p, i) <= Limit)
    BY <1>4, <1>5, <1>8, <2>1 DEF Keeps
  <2>2. CASE /\ i = Watched /\ Renewed(Counting(p), Counting(p)', clock)
             /\ CountOf(p, i) = Counting(p)'.count
    <3>1. \A t \in 0 .. MaxClock :
            Load(m, t)' <= Load(m, t) + IF t = clock /\ Counting(m)'.count <= Limit THEN 1 ELSE 0
      BY <1>4, <1>5, <1>6, <1>8, <2>2
    <3>2. QED
      BY <1>8, <2>2, <3>1 DEF CountsOne
  <2>3. QED
    BY <1>1, <1>2, <2>1, <2>2, Charging
<1>9. QED
  BY <1>7, <1>8

LEMMA MeasuredAsked ==
  ASSUME LimiterTypeOK, NEW p \in Processes, NEW i \in Identities, NEW c \in Calls, Enforce(c, p, i),
         \A m \in Counters : Measured(m), NEW m \in Counters
  PROVE  Keeps(m) \/ CountsOne(m)
<1>0. Shared \notin Processes /\ p \in Counters /\ clock \in 0 .. MaxClock
  BY Numbers DEF Counters, LimiterTypeOK
<1>1. Counting(p).expiry # Never
  BY <1>0 DEF Measured
<1>2. /\ clock' = clock /\ shared' = shared /\ admitted' = admitted /\ required' = required
      /\ local' = IF ~required THEN [local EXCEPT ![p] = Charged(p, i)] ELSE local
      /\ \A d \in Calls \ {c} : call'[d] = call[d]
  BY DEF Enforce, LimiterTypeOK
<1>3. /\ call'[c].process = p /\ call'[c].who = i /\ call'[c].at = clock /\ call'[c].count = 0
      /\ call'[c].alone = IF ~required THEN CountOf(p, i) ELSE 0
  BY DEF Enforce, LimiterTypeOK, NoCall
<1>4. \A t \in 0 .. MaxClock :
         Due(m, c, t)' => /\ m = p /\ ~required /\ i = Watched /\ CountOf(p, i) <= Limit /\ t = clock
  BY <1>0, <1>2, <1>3 DEF Due, Free
<1>5. \A t \in 0 .. MaxClock :
         /\ Load(m, t)' <= Load(m, t) + 1
         /\ ~Due(m, c, t)' => Load(m, t)' <= Load(m, t)
  <2> SUFFICES ASSUME NEW t \in 0 .. MaxClock
               PROVE  /\ Load(m, t)' <= Load(m, t) + 1
                      /\ ~Due(m, c, t)' => Load(m, t)' <= Load(m, t)
    OBVIOUS
  <2>1. /\ DueAt(m, t)' \subseteq DueAt(m, t) \cup {c}
        /\ ~Due(m, c, t)' => DueAt(m, t)' \subseteq DueAt(m, t) \ {c}
    BY <1>2, DueOfOthers
  <2>2. QED
    BY <1>2, <2>1, LoadOfNext
<1>6. \A t \in 0 .. MaxClock : Load(m, t) \in Nat
  BY LoadTyped
<1>7. CASE m = p /\ ~required
  <2>1. CASE /\ Counting(p)' = Counting(p) \/ (Counting(p).expiry <= clock /\ Counting(p)' = NoCounter)
             /\ i = Watched => ~(CountOf(p, i) <= Limit)
    BY <1>4, <1>5, <1>7, <2>1 DEF Keeps
  <2>2. CASE /\ i = Watched /\ Renewed(Counting(p), Counting(p)', clock)
             /\ CountOf(p, i) = Counting(p)'.count
    <3>1. \A t \in 0 .. MaxClock :
            Load(m, t)' <= Load(m, t) + IF t = clock /\ Counting(m)'.count <= Limit THEN 1 ELSE 0
      BY <1>4, <1>5, <1>6, <1>7, <2>2
    <3>2. QED
      BY <1>7, <2>2, <3>1 DEF CountsOne
  <2>3. QED
    BY <1>1, <1>2, <1>7, <2>1, <2>2, Charging
<1>8. CASE ~(m = p /\ ~required)
  <2>1. Counting(m)' = Counting(m)
    <3>1. CASE required
      BY <1>2, <3>1 DEF Counting
    <3>2. CASE ~required
      BY <1>1, <1>2, <1>8, <3>2, Charging
    <3>3. QED
      BY <3>1, <3>2
  <2>2. QED
    BY <1>4, <1>5, <1>8, <2>1 DEF Keeps
<1>9. QED
  BY <1>7, <1>8

LEMMA MeasuredCount ==
  ASSUME LimiterTypeOK, NEW c \in Calls, Count(c), NEW m \in Counters
  PROVE  Keeps(m) \/ CountsOne(m)
<1>0. Shared \notin Processes /\ clock \in 0 .. MaxClock /\ Watched \in Identities /\ Shared \in Counters
  BY Numbers DEF Counters, LimiterTypeOK
<1> DEFINE i == call[c].who
<1>1. call[c].process \in Processes /\ i \in Identities /\ call[c].count = 0
  BY CallTyped DEF Count
<1>2. /\ clock' = clock /\ local' = local /\ admitted' = admitted /\ required' = required
      /\ shared' = [shared EXCEPT ![i] = Incremented(i)]
      /\ \A d \in Calls \ {c} : call'[d] = call[d]
      /\ call'[c] = [call[c] EXCEPT !.count = Incremented(i).count, !.counted = clock]
  BY DEF Count, LimiterTypeOK
<1>3. /\ call'[c].process = call[c].process /\ call'[c].who = i /\ call'[c].at = call[c].at
      /\ call'[c].alone = call[c].alone /\ call'[c].count = Incremented(i).count /\ call'[c].counted = clock
  <2>1. call[c] \in Call
    BY DEF LimiterTypeOK
  <2>2. QED
    BY <1>2, <2>1 DEF Call
<1>4. \A t \in 0 .. MaxClock :
         /\ Load(m, t)' <= Load(m, t) + 1
         /\ (Due(m, c, t)' => Due(m, c, t)) => Load(m, t)' <= Load(m, t)
  <2> SUFFICES ASSUME NEW t \in 0 .. MaxClock
               PROVE  /\ Load(m, t)' <= Load(m, t) + 1
                      /\ (Due(m, c, t)' => Due(m, c, t)) => Load(m, t)' <= Load(m, t)
    OBVIOUS
  <2>1. /\ DueAt(m, t)' \subseteq DueAt(m, t) \cup {c}
        /\ (Due(m, c, t)' => Due(m, c, t)) => DueAt(m, t)' \subseteq DueAt(m, t)
    BY <1>2, DueOfOthers
  <2>2. QED
    BY <1>2, <2>1, LoadOfNext
<1>5. \A t \in 0 .. MaxClock : Load(m, t) \in Nat
  BY LoadTyped
<1>6. CASE m # Shared
  <2>1. \A t \in 0 .. MaxClock : Due(m, c, t)' => Due(m, c, t)
    BY <1>2, <1>3, <1>6 DEF Due, Free
  <2>2. Counting(m)' = Counting(m)
    BY <1>2, <1>6 DEF Counting
  <2>3. QED
    BY <1>4, <2>1, <2>2 DEF Keeps
<1>7. CASE m = Shared
  <2>1. \A t \in 0 .. MaxClock :
           Due(m, c, t)' => i = Watched /\ Incremented(i).count <= Limit /\ t = clock
    <3>1. Incremented(i).count \in 0 .. Limit + 1
      BY <1>0, <1>1, IncrementedFact, TypeParts DEF Counter
    <3>2. QED
      BY <1>3, <1>7, <3>1, Numbers DEF Due
  <2>2. CASE i # Watched
    <3>1. Counting(m)' = Counting(m)
      BY <1>0, <1>2, <1>7, <2>2 DEF Counting, LimiterTypeOK
    <3>2. QED
      BY <1>4, <2>1, <2>2, <3>1 DEF Keeps
  <2>3. CASE i = Watched
    <3>1. Counting(m)' = Incremented(Watched) /\ Counting(m) = shared[Watched]
      BY <1>0, <1>2, <1>7, <2>3 DEF Counting, LimiterTypeOK
    <3>2. Renewed(Counting(m), Counting(m)', clock)
      BY <3>1 DEF Renewed, Incremented
    <3>3. \A t \in 0 .. MaxClock :
            Load(m, t)' <= Load(m, t) + IF t = clock /\ Counting(m)'.count <= Limit THEN 1 ELSE 0
      BY <1>4, <1>5, <2>1, <2>3, <3>1
    <3>4. QED
      BY <3>2, <3>3 DEF CountsOne
  <2>4. QED
    BY <2>2, <2>3
<1>8. QED
  BY <1>6, <1>7

\* A call that ends is admitted once by who counted it, if at all.
LEMMA MeasuredEnd ==
  ASSUME LimiterTypeOK, NEW c \in Calls, ~Free(c), call'[c] = NoCall,
         \A d \in Calls \ {c} : call'[d] = call[d],
         required' = required, clock' = clock, shared' = shared, local' = local,
         NEW m \in Counters,
         \/ admitted' = admitted
         \/ /\ call[c].count > 0 /\ Decide(Shared, call[c].who, call[c].count, call[c].counted)
         \/ /\ ~required /\ Decide(call[c].process, call[c].who, call[c].alone, call[c].at)
  PROVE  Keeps(m)
<1>0. Shared \in Counters /\ call[c].process \in Counters
  BY CallTyped DEF Counters
<1>1. Counting(m)' = Counting(m)
  BY DEF Counting
<1>2. SUFFICES ASSUME NEW t \in 0 .. MaxClock PROVE Load(m, t)' <= Load(m, t)
  BY <1>1 DEF Keeps
<1>3. DueAt(m, t)' \subseteq DueAt(m, t) \ {c}
  BY DueOfOthers, NothingIsDue
<1>4. \/ admitted'[m][t] = admitted[m][t]
      \/ admitted'[m][t] = admitted[m][t] + 1 /\ c \in DueAt(m, t)
  <2>1. CASE admitted' = admitted
    BY <2>1
  <2>2. CASE call[c].count > 0 /\ Decide(Shared, call[c].who, call[c].count, call[c].counted)
    <3>1. /\ call[c].counted \in 0 .. MaxClock /\ call[c].count \in 0 .. Limit + 1
          /\ call[c].process # Shared
      BY CallTyped DEF Free
    <3>2. admitted'[m][t] = IF /\ m = Shared /\ t = call[c].counted
                               /\ call[c].who = Watched /\ call[c].count <= Limit
                            THEN admitted[m][t] + 1 ELSE admitted[m][t]
      BY <1>0, <2>2, <3>1, DecideEffect
    <3>3. /\ m = Shared /\ t = call[c].counted /\ call[c].who = Watched /\ call[c].count <= Limit
          => c \in DueAt(m, t)
      BY <2>2, <3>1, Numbers DEF DueAt, Due
    <3>4. QED
      BY <3>2, <3>3
  <2>3. CASE ~required /\ Decide(call[c].process, call[c].who, call[c].alone, call[c].at)
    <3>1. call[c].at \in 0 .. MaxClock /\ call[c].process # Shared
      BY CallTyped DEF Free
    <3>2. admitted'[m][t] = IF /\ m = call[c].process /\ t = call[c].at
                               /\ call[c].who = Watched /\ call[c].alone <= Limit
                            THEN admitted[m][t] + 1 ELSE admitted[m][t]
      BY <1>0, <2>3, <3>1, DecideEffect
    <3>3. /\ m = call[c].process /\ t = call[c].at /\ call[c].who = Watched /\ call[c].alone <= Limit
          => c \in DueAt(m, t)
      BY <2>3, <3>1 DEF DueAt, Due
    <3>4. QED
      BY <3>2, <3>3
  <2>4. QED
    BY <2>1, <2>2, <2>3
<1>5. QED
  BY <1>3, <1>4, LoadOfNext

LEMMA MeasuredTick ==
  ASSUME LimiterTypeOK, Tick, NEW m \in Counters, Measured(m)
  PROVE  Measured(m)'
<1>1. PICK P : Bounded(P, Counting(m), clock) /\ \A t \in 0 .. MaxClock : P[t] + Load(m, t) <= P[t + 1]
  BY DEF Measured
<1>2. /\ clock \in 0 .. MaxClock /\ clock < MaxClock /\ clock' = clock + 1
      /\ Counting(m)' = Counting(m) /\ \A t \in 0 .. MaxClock : Load(m, t)' = Load(m, t)
  BY DEF Tick, LimiterTypeOK, Counting, Load, DueAt, Due, Free
<1>3. Counting(m) \in Counter
  BY Numbers DEF Counting, Counters, LimiterTypeOK
<1>4. Bounded(P, Counting(m), clock + 1)
  BY <1>1, <1>2, <1>3, TimePasses
<1>5. /\ Bounded(P, Counting(m), clock)' /\ \A t \in 0 .. MaxClock : P[t] + Load(m, t)' <= P[t + 1]
  BY <1>1, <1>2, <1>4 DEF Bounded, InWindow
<1>6. QED
  BY <1>1, <1>2, <1>5 DEF Measured

LEMMA MeasuredStep ==
  ASSUME LimiterTypeOK, \A m \in Counters : Measured(m), LimiterNext, NEW m \in Counters
  PROVE  Measured(m)'
<1>0. LimiterTypeOK' /\ Measured(m)
  BY LimiterTypeStep
<1>1. CASE Tick
  BY <1>0, <1>1, MeasuredTick
<1>2. ASSUME NEW p \in Processes, NEW i \in Identities, EnforceAlone(p, i) PROVE Measured(m)'
  <2>1. Keeps(m) \/ CountsOne(m)
    BY <1>2, MeasuredAlone
  <2>2. clock' = clock
    BY <1>2 DEF EnforceAlone
  <2>3. QED
    BY <1>0, <2>1, <2>2, MeasuredOn
<1>3. ASSUME NEW p \in Processes, NEW i \in Identities, NEW c \in Calls, Enforce(c, p, i)
      PROVE  Measured(m)'
  <2>1. Keeps(m) \/ CountsOne(m)
    BY <1>3, MeasuredAsked
  <2>2. clock' = clock
    BY <1>3 DEF Enforce
  <2>3. QED
    BY <1>0, <2>1, <2>2, MeasuredOn
<1>4. ASSUME NEW c \in Calls, Count(c) PROVE Measured(m)'
  <2>1. Keeps(m) \/ CountsOne(m)
    BY <1>4, MeasuredCount
  <2>2. clock' = clock
    BY <1>4 DEF Count
  <2>3. QED
    BY <1>0, <2>1, <2>2, MeasuredOn
<1>5. ASSUME NEW c \in Calls, Answer(c) \/ FailCall(c) \/ Disconnect(c) PROVE Measured(m)'
  <2>1. /\ ~Free(c) /\ Release(c) /\ required' = required /\ clock' = clock
        /\ shared' = shared /\ local' = local
        /\ \/ admitted' = admitted
           \/ /\ call[c].count > 0 /\ Decide(Shared, call[c].who, call[c].count, call[c].counted)
           \/ /\ ~required /\ Decide(call[c].process, call[c].who, call[c].alone, call[c].at)
    BY <1>5 DEF Answer, FailCall, Disconnect
  <2>2. call'[c] = NoCall /\ \A d \in Calls \ {c} : call'[d] = call[d]
    BY <2>1 DEF Release, LimiterTypeOK
  <2>3. Keeps(m)
    BY <2>1, <2>2, MeasuredEnd
  <2>4. QED
    BY <1>0, <2>1, <2>3, MeasuredOn
<1>6. QED
  BY <1>1, <1>2, <1>3, <1>4, <1>5 DEF LimiterNext

LEMMA MeasuredStarts ==
  ASSUME LimiterInit, NEW m \in Counters
  PROVE  Measured(m)
<1> USE Numbers
<1> DEFINE P == [t \in 0 .. MaxClock + 1 |-> 0]
           k == Counting(m)
<1>1. clock = 1 /\ \A t \in 0 .. MaxClock : admitted[m][t] = 0
  BY DEF LimiterInit, Counters
<1>2. \A t \in 0 .. MaxClock : DueAt(m, t) = {}
  BY DEF LimiterInit, DueAt, Due, Free, NoCall
<1>3. \A t \in 0 .. MaxClock : Load(m, t) = 0
  BY <1>1, <1>2, FS_EmptySet DEF Load
<1>4. k.expiry = 0 \/ (k.expiry = Never /\ m = Shared)
  BY DEF LimiterInit, Counting, Counters, NoCounter
<1> HIDE DEF k
<1>5. Bounded(P, k, 1)
  BY <1>4 DEF Bounded
<1>6. \A t \in 0 .. MaxClock : P[t] + Load(m, t) <= P[t + 1]
  BY <1>3
<1>7. k.expiry = Never => m = Shared
  BY <1>4
<1>8. QED
  BY <1>1, <1>5, <1>6, <1>7 DEF Measured, k

LEMMA MeasuredBounds ==
  ASSUME LimiterTypeOK, \A m \in Counters : Measured(m)
  PROVE  AdmissionsAreBounded
<1> USE Numbers
<1> DEFINE ticks(from) == {t \in 0 .. MaxClock : from <= t /\ t < from + Window}
<1> SUFFICES ASSUME NEW m \in Counters, NEW from \in 0 .. clock
             PROVE  MapThenSumSet(LAMBDA t : admitted[m][t], ticks(from)) <= 2 * Limit - 1
  BY DEF AdmissionsAreBounded, Counters
<1>1. MapThenSumSet(LAMBDA t : admitted[m][t], ticks(from)) = SumOf(admitted[m], ticks(from))
  BY DEF MapThenSumSet, MapThenFoldSet, Sums, Some, AddedUp, SumOf
<1>2. PICK P : Bounded(P, Counting(m), clock) /\ \A t \in 0 .. MaxClock : P[t] + Load(m, t) <= P[t + 1]
  BY DEF Measured
<1>3. P \in [0 .. MaxClock + 1 -> Nat] /\ admitted[m] \in [0 .. MaxClock -> Nat]
  BY <1>2 DEF Bounded, LimiterTypeOK, Counters
<1>4. ASSUME NEW t \in 0 .. MaxClock PROVE P[t] + admitted[m][t] <= P[t + 1]
  <2>1. /\ P[t] \in Nat /\ P[t + 1] \in Nat /\ admitted[m][t] \in Nat
        /\ Cardinality(DueAt(m, t)) \in Nat
    BY <1>3, LoadTyped
  <2>2. P[t] + (admitted[m][t] + Cardinality(DueAt(m, t))) <= P[t + 1]
    BY <1>2 DEF Load
  <2>3. QED
    BY <2>1, <2>2
<1>5. PICK to : to = IF from + Window <= MaxClock + 1 THEN from + Window ELSE MaxClock + 1
  OBVIOUS
<1>6. clock \in 0 .. MaxClock
  BY DEF LimiterTypeOK
<1>7. from \in 0 .. MaxClock + 1 /\ to \in 0 .. MaxClock + 1 /\ from <= to /\ to <= from + Window
  BY <1>5, <1>6
<1>8. ticks(from) = {t \in 0 .. MaxClock : from <= t /\ t < to}
  BY <1>5, <1>6
<1>9. P[from] + SumOf(admitted[m], ticks(from)) <= P[to]
  <2> HIDE DEF ticks
  <2>1. QED
    BY <1>3, <1>4, <1>7, <1>8, SumRises
<1>10. P[to] <= P[from] + (Limit + Limit - 1)
  BY <1>2, <1>7 DEF Bounded
<1>11. SumOf(admitted[m], ticks(from)) \in Nat
  <2>1. IsFiniteSet(ticks(from))
    <3>1. IsFiniteSet(0 .. MaxClock) /\ ticks(from) \subseteq 0 .. MaxClock
      BY FS_Interval
    <3>2. QED
      BY <3>1, FS_Subset
  <2>2. \A t \in ticks(from) : admitted[m][t] \in Nat
    BY <1>3
  <2>3. QED
    BY <2>1, <2>2, SumIsNat
<1>12. P[from] \in Nat /\ P[to] \in Nat
  BY <1>3, <1>7
<1> DEFINE sum == SumOf(admitted[m], ticks(from))
<1>13. SumOf(admitted[m], ticks(from)) <= 2 * Limit - 1
  <2>1. sum \in Nat /\ P[from] + sum <= P[to]
    BY <1>9, <1>11
  <2> HIDE DEF sum
  <2>2. sum <= 2 * Limit - 1
    BY <1>10, <1>12, <2>1
  <2>3. QED
    BY <2>2 DEF sum
<1>14. QED
  BY <1>1, <1>13

\* However often Redis fails and comes back, counts what nobody sees answered, or a table is
\* full, no window's length admits more than twice the limit less one.
THEOREM AdmissionsAreLimited == LimiterSpec => []AdmissionsAreBounded
<1> DEFINE Inv == LimiterInv /\ \A m \in Counters : Measured(m)
<1>1. LimiterInit => Inv
  BY LimiterStarts, MeasuredStarts
<1>2. Inv /\ [LimiterNext]_limiterVars => Inv'
  <2> SUFFICES ASSUME Inv, [LimiterNext]_limiterVars PROVE Inv'
    OBVIOUS
  <2>1. LimiterInv'
    BY LimiterStep
  <2>2. ASSUME NEW m \in Counters PROVE Measured(m)'
    <3>1. CASE LimiterNext
      BY <3>1, MeasuredStep DEF LimiterInv
    <3>2. CASE UNCHANGED limiterVars
      BY <3>2 DEF limiterVars, Measured, Counting, Load, DueAt, Due, Free
    <3>3. QED
      BY <3>1, <3>2
  <2>3. QED
    BY <2>1, <2>2 DEF Counters
<1>3. Inv => AdmissionsAreBounded
  BY MeasuredBounds DEF LimiterInv
<1>4. QED
  BY <1>1, <1>2, <1>3, PTL DEF LimiterSpec

----------------------------------------------------------------------------
(* Accounts and the limit together                                         *)

\* Accounts and the limiter together, as they are checked: every variable keeps its type, a
\* live session has a user, and no process counts for more identities than its table holds.
THEOREM AccountTypesHold == AccountSpec => []AccountTypeOK
<1> DEFINE Both == SessionInv /\ LimiterInv
<1>1. AccountInit => Both
  BY SessionsStart, LimiterStarts DEF AccountInit
<1>2. Both /\ [AccountNext]_accountVars => Both'
  <2> SUFFICES ASSUME Both, [AccountNext]_accountVars PROVE Both'
    OBVIOUS
  <2>1. [Next]_vars /\ [LimiterNext]_limiterVars
    BY DEF AccountNext, accountVars
  <2>2. QED
    BY <2>1, SessionKept, LimiterStep
<1>3. Both => AccountTypeOK
  BY DEF AccountTypeOK, SessionInv, LimiterInv
<1>4. QED
  BY <1>1, <1>2, <1>3, PTL DEF AccountSpec
=============================================================================
