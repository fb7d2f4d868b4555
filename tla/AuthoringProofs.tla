-------------------------- MODULE AuthoringProofs --------------------------
(***************************************************************************)
(* Proofs about what managers and administrators do at once, for any       *)
(* content, hierarchy and grants and any number of them: what a request    *)
(* has validated before it writes stays true until it does.                *)
(***************************************************************************)
EXTENDS MCAuthoring, FiniteSetTheorems, TLAPS

----------------------------------------------------------------------------
(* Access: administrators of grants and switches                           *)

Holds(a, k) == page[a].pc = "locked" /\ page[a].of = k

\* Pages are of rows that are there; a grant that is locked was given by an administrator.
PagesStand ==
    \A a \in Admins :
      /\ page[a].pc # "none" => page[a].of \in Grants \cup {Switch}
      /\ page[a].of \in Grants =>
           /\ grant[page[a].of] # Nil
           /\ page[a].pc = "locked" => grant[page[a].of].source = "admin_grant"

\* Nobody holds a row with another, unless it was not there when they looked.
RowsApart ==
    \A a, b \in Admins, k \in Grants \cup {Switch} :
      Holds(a, k) /\ Holds(b, k) => a = b \/ (k = Switch /\ page[a].version = 0)

\* Who holds a row has its version, or has found none.
LockedIsCurrent ==
    \A a \in Admins, k \in Grants \cup {Switch} :
      Holds(a, k) => page[a].version = VersionOf(k) \/ (k = Switch /\ page[a].version = 0)

AccessInv == AccessTypeOK /\ PagesStand /\ RowsApart /\ LockedIsCurrent

AccessChange(a) == SetSwitch(a) \/ \E g \in Grants : Revoke(a, g) \/ Extend(a, g)

LEMMA AccessFacts ==
  ASSUME AccessTypeOK
  PROVE  /\ MaxTime \in Nat /\ MaxChanges \in Nat /\ MaxChanges >= 1
         /\ Forever \in Nat /\ Forever >= 1 /\ now \in 0 .. MaxTime
         /\ \A g \in Grants : grant[g] # Nil => grant[g] \in Grant /\ grant[g].version \in 1 .. MaxChanges
         /\ \A a \in Admins : page[a] \in Page /\ page[a].version \in 0 .. MaxChanges
                            /\ page[a].until \in 0 .. Forever
         /\ \A k \in Grants : VersionOf(k) = grant[k].version
         /\ VersionOf(Switch) = setting
         /\ NoPage \in Page
BY AccessAssumption DEF AccessTypeOK, Forever, Grant, Page, VersionOf, NoPage

LEMMA AccessStart ==
  ASSUME AccessInit
  PROVE  AccessInv
<1>1. \A a \in Admins : page[a] = NoPage
  BY DEF AccessInit
<1>2. AccessTypeOK
  <2>1. [source: Sources \ {"admin_grant"}, status: {"active"}, type: {"course", Nil},
         id: {Course, Nil}, expires: {1, Forever}, version: {1}] \subseteq Grant
    BY AccessAssumption DEF Grant, ResourceType, Forever
  <2>2. grant \in [Grants -> Grant \cup {Nil}]
    BY <2>1 DEF AccessInit
  <2>3. NoPage \in Page
    BY AccessAssumption DEF NoPage, Page, Forever
  <2>4. QED
    BY <2>2, <2>3, AccessAssumption DEF AccessInit, AccessTypeOK
<1>3. PagesStand /\ RowsApart /\ LockedIsCurrent
  BY <1>1, AccessAssumption DEF PagesStand, RowsApart, LockedIsCurrent, Holds, NoPage
<1>4. QED
  BY <1>2, <1>3 DEF AccessInv

\* A step of one administrator changes the page of nobody else, and a grant or the switch
\* only if he holds it; what it changes gets a new version.
LEMMA ChangeForms ==
  ASSUME AccessInv, NEW a \in Admins, AccessChange(a)
  PROVE  /\ UNCHANGED <<policy, now>> /\ page' = [page EXCEPT ![a] = NoPage]
         /\ \E k \in Grants \cup {Switch} :
              /\ Holds(a, k)
              /\ page[a].version = VersionOf(k)
              /\ VersionOf(k)' = VersionOf(k) + 1
              /\ \A x \in (Grants \cup {Switch}) \ {k} : VersionOf(x)' = VersionOf(x)
              /\ grant' \in [Grants -> Grant \cup {Nil}]
              /\ \A g \in Grants : /\ grant[g] # Nil => grant'[g] # Nil
                                   /\ grant[g] # Nil => grant'[g].source = grant[g].source
              /\ setting' \in 0 .. MaxChanges
<1>0. AccessTypeOK /\ PagesStand /\ LockedIsCurrent /\ grant \in [Grants -> Grant \cup {Nil}]
  BY DEF AccessInv, AccessTypeOK
<1>1. CASE SetSwitch(a)
  <2>1. /\ Holds(a, Switch) /\ setting' = setting + 1 /\ setting < MaxChanges
        /\ page[a].version = 0 => setting = 0
        /\ grant' = grant /\ page' = [page EXCEPT ![a] = NoPage] /\ UNCHANGED <<policy, now>>
    BY <1>1 DEF SetSwitch, Changing, VersionOf, TurnTo, Holds
  <2>2. page[a].version = setting
    BY <1>0, <2>1, AccessFacts DEF LockedIsCurrent
  <2>3. \A x \in Grants : x # Switch /\ VersionOf(x)' = VersionOf(x)
    BY <2>1, AccessAssumption DEF VersionOf
  <2>4. setting' \in 0 .. MaxChanges
    BY <1>0, <2>1, AccessFacts DEF AccessTypeOK
  <2>5. VersionOf(Switch)' = setting' /\ VersionOf(Switch) = setting
    BY DEF VersionOf
  <2>6. QED
    BY <1>0, <2>1, <2>2, <2>3, <2>4, <2>5
<1>2. ASSUME NEW g \in Grants, NEW new, Changing(a, g), grant' = [grant EXCEPT ![g] = new],
             grant[g] \in Grant /\ grant[g].version + 1 \in 1 .. MaxChanges =>
               new \in Grant /\ new.version = grant[g].version + 1 /\ new.source = grant[g].source,
             TurnTo(a, NoPage), UNCHANGED <<policy, now, setting>>
      PROVE  \E k \in Grants \cup {Switch} :
              /\ Holds(a, k)
              /\ page[a].version = VersionOf(k)
              /\ VersionOf(k)' = VersionOf(k) + 1
              /\ \A x \in (Grants \cup {Switch}) \ {k} : VersionOf(x)' = VersionOf(x)
              /\ grant' \in [Grants -> Grant \cup {Nil}]
              /\ \A x \in Grants : /\ grant[x] # Nil => grant'[x] # Nil
                                   /\ grant[x] # Nil => grant'[x].source = grant[x].source
              /\ setting' \in 0 .. MaxChanges
  <2>1. g # Switch /\ Holds(a, g) /\ VersionOf(g) = grant[g].version /\ grant[g].version < MaxChanges
    BY <1>2, AccessAssumption DEF Changing, Holds, VersionOf
  <2>2. grant[g] # Nil /\ grant[g] \in Grant /\ grant[g].version \in 1 .. MaxChanges
    BY <1>0, <2>1, AccessFacts DEF PagesStand, Holds
  <2>3. grant[g].version + 1 \in 1 .. MaxChanges
    BY <1>0, <2>1, <2>2, AccessFacts
  <2>4. new \in Grant /\ new.version = grant[g].version + 1 /\ new.source = grant[g].source
    BY <1>2, <2>2, <2>3
  <2>5. grant'[g] = new /\ (\A x \in Grants \ {g} : grant'[x] = grant[x])
        /\ grant' \in [Grants -> Grant \cup {Nil}]
    BY <1>0, <1>2, <2>4
  <2>6. new # Nil
    BY <2>4, NilAssumption
  <2>7. \A x \in Grants : /\ grant[x] # Nil => grant'[x] # Nil
                          /\ grant[x] # Nil => grant'[x].source = grant[x].source
    BY <2>4, <2>5, <2>6
  <2>8. VersionOf(g)' = VersionOf(g) + 1
    BY <2>1, <2>4, <2>5 DEF VersionOf
  <2>9. \A x \in (Grants \cup {Switch}) \ {g} : VersionOf(x)' = VersionOf(x)
    BY <1>2, <2>5 DEF VersionOf
  <2>10. page[a].version = VersionOf(g)
    BY <1>0, <2>1 DEF LockedIsCurrent
  <2>11. setting' \in 0 .. MaxChanges
    BY <1>0, <1>2 DEF AccessTypeOK
  <2>12. QED
    BY <2>1, <2>5, <2>7, <2>8, <2>9, <2>10, <2>11
<1>3. ASSUME NEW g \in Grants, Revoke(a, g)
      PROVE  /\ Changing(a, g) /\ TurnTo(a, NoPage) /\ UNCHANGED <<policy, now, setting>>
             /\ \E new : /\ grant' = [grant EXCEPT ![g] = new]
                         /\ grant[g] \in Grant /\ grant[g].version + 1 \in 1 .. MaxChanges =>
                              /\ new \in Grant /\ new.version = grant[g].version + 1
                              /\ new.source = grant[g].source
  <2> DEFINE new == [grant[g] EXCEPT !.status = "revoked", !.version = grant[g].version + 1]
  <2>1. grant' = [grant EXCEPT ![g] = new]
    BY <1>0, <1>3 DEF Revoke
  <2>2. grant[g] \in Grant /\ grant[g].version + 1 \in 1 .. MaxChanges =>
          new \in Grant /\ new.version = grant[g].version + 1 /\ new.source = grant[g].source
    BY DEF Grant
  <2> HIDE DEF new
  <2>3. QED
    BY <1>3, <2>1, <2>2 DEF Revoke
<1>4. ASSUME NEW g \in Grants, Extend(a, g)
      PROVE  /\ Changing(a, g) /\ TurnTo(a, NoPage) /\ UNCHANGED <<policy, now, setting>>
             /\ \E new : /\ grant' = [grant EXCEPT ![g] = new]
                         /\ grant[g] \in Grant /\ grant[g].version + 1 \in 1 .. MaxChanges =>
                              /\ new \in Grant /\ new.version = grant[g].version + 1
                              /\ new.source = grant[g].source
  <2> DEFINE t == page[a].until
             new == [grant[g] EXCEPT !.expires = t, !.version = grant[g].version + 1]
  <2>1. grant' = [grant EXCEPT ![g] = new]
    BY <1>0, <1>4 DEF Extend
  <2>2. t \in 0 .. Forever
    BY <1>0, AccessFacts
  <2>3. grant[g] \in Grant /\ grant[g].version + 1 \in 1 .. MaxChanges =>
          new \in Grant /\ new.version = grant[g].version + 1 /\ new.source = grant[g].source
    BY <2>2 DEF Grant
  <2> HIDE DEF new
  <2>4. QED
    BY <1>4, <2>1, <2>3 DEF Extend
<1>5. QED
  BY <1>1, <1>2, <1>3, <1>4 DEF AccessChange, SetSwitch, Changing, TurnTo

\* What the other steps do: a page is turned, or a grant comes or is touched by its provider.
LEMMA AccessKept ==
  ASSUME AccessInv, [AccessNext]_accessVars
  PROVE  AccessInv'
<1>0. /\ AccessTypeOK /\ PagesStand /\ RowsApart /\ LockedIsCurrent
      /\ page \in [Admins -> Page] /\ grant \in [Grants -> Grant \cup {Nil}]
      /\ Nil \notin Grants \cup {Switch} /\ Switch \notin Grants
  BY AccessAssumption DEF AccessInv, AccessTypeOK
<1>1. ASSUME UNCHANGED <<setting, page, policy>>, now' \in 0 .. MaxTime,
             grant' \in [Grants -> Grant \cup {Nil}],
             \A g \in Grants : grant[g] # Nil =>
               /\ grant'[g] # Nil /\ grant'[g].source = grant[g].source
               /\ grant'[g].version = grant[g].version
      PROVE  AccessInv'
  <2>1. AccessTypeOK'
    BY <1>0, <1>1 DEF AccessTypeOK
  <2>2. PagesStand'
    BY <1>0, <1>1 DEF PagesStand
  <2>3. \A a \in Admins, k \in Grants \cup {Switch} : Holds(a, k)' <=> Holds(a, k)
    BY <1>1 DEF Holds
  <2>4. \A a \in Admins, k \in Grants \cup {Switch} : Holds(a, k) => VersionOf(k)' = VersionOf(k)
    BY <1>0, <1>1 DEF Holds, VersionOf, PagesStand
  <2>5. RowsApart'
    BY <1>0, <1>1, <2>3 DEF RowsApart
  <2>6. LockedIsCurrent'
    BY <1>0, <1>1, <2>3, <2>4 DEF LockedIsCurrent
  <2>7. QED
    BY <2>1, <2>2, <2>5, <2>6 DEF AccessInv
<1>2. ASSUME NEW a \in Admins, NEW p \in Page, page' = [page EXCEPT ![a] = p],
             UNCHANGED <<policy, now, grant, setting>>,
             p.pc # "none" => p.of \in Grants \cup {Switch},
             p.of \in Grants => grant[p.of] # Nil,
             p.pc = "locked" =>
               /\ p.version = VersionOf(p.of)
               /\ p.of \in Grants => grant[p.of].source = "admin_grant"
               /\ \A b \in Admins \ {a} : ~(Holds(b, p.of) /\ VersionOf(p.of) > 0)
      PROVE  AccessInv'
  <2>1. page'[a] = p /\ \A b \in Admins \ {a} : page'[b] = page[b]
    BY <1>0, <1>2
  <2>2. AccessTypeOK'
    BY <1>0, <1>2 DEF AccessTypeOK
  <2>3. PagesStand'
    BY <1>0, <1>2, <2>1 DEF PagesStand
  <2>4. \A k \in Grants \cup {Switch} : VersionOf(k)' = VersionOf(k)
    BY <1>2 DEF VersionOf
  <2>5. \A k \in Grants \cup {Switch} : \A b \in Admins \ {a} : Holds(b, k)' <=> Holds(b, k)
    BY <2>1 DEF Holds
  <2>6. \A k \in Grants \cup {Switch} : Holds(a, k)' => p.pc = "locked" /\ p.of = k
    BY <2>1 DEF Holds
  <2>7. LockedIsCurrent'
    BY <1>0, <1>2, <2>1, <2>4, <2>5, <2>6 DEF LockedIsCurrent
  <2>8. ASSUME NEW b \in Admins \ {a}, NEW k \in Grants \cup {Switch}, Holds(a, k)', Holds(b, k)'
        PROVE  k = Switch /\ page'[a].version = 0 /\ page'[b].version = 0
    <3>1. Holds(b, k) /\ p.pc = "locked" /\ p.of = k /\ p.version = VersionOf(k) /\ ~(VersionOf(k) > 0)
      BY <1>2, <2>5, <2>6, <2>8
    <3>2. k \notin Grants
      <4>1. ASSUME k \in Grants
            PROVE  FALSE
        <5>1. grant[k] # Nil
          BY <1>2, <3>1, <4>1
        <5>2. VersionOf(k) \in 1 .. MaxChanges /\ MaxChanges \in Nat
          BY <1>0, <4>1, <5>1, AccessFacts
        <5>3. QED
          BY <3>1, <5>2
      <4>2. QED
        BY <4>1
    <3>3. k = Switch /\ VersionOf(k) = 0
      <4>1. VersionOf(Switch) \in 0 .. MaxChanges /\ MaxChanges \in Nat
        BY <1>0, AccessFacts DEF AccessTypeOK
      <4>2. QED
        BY <3>1, <3>2, <4>1
    <3>4. page[b].version = 0
      BY <1>0, <3>1, <3>3 DEF LockedIsCurrent
    <3>5. QED
      BY <2>1, <3>1, <3>3, <3>4
  <2>9. RowsApart'
    BY <1>0, <2>1, <2>5, <2>8 DEF RowsApart
  <2>10. QED
    BY <2>2, <2>3, <2>7, <2>9 DEF AccessInv
<1>3. ASSUME NEW a \in Admins, page' = [page EXCEPT ![a] = NoPage], UNCHANGED <<policy, now, grant, setting>>
      PROVE  AccessInv'
  BY <1>0, <1>2, <1>3, AccessFacts DEF NoPage
<1>4. ASSUME NEW a \in Admins, NEW k \in Grants \cup {Switch}, Load(a, k)
      PROVE  AccessInv'
  <2> DEFINE p == [pc |-> "loaded", of |-> k, version |-> VersionOf(k), until |-> 0]
  <2>1. k \in Grants => grant[k] # Nil
    BY <1>4 DEF Load
  <2>2. VersionOf(k) \in 0 .. MaxChanges
    BY <1>0, <2>1, AccessFacts DEF AccessTypeOK
  <2>3. p \in Page /\ p.pc = "loaded" /\ p.of = k
    BY <2>2, AccessAssumption DEF Page, Forever
  <2>4. page' = [page EXCEPT ![a] = p] /\ UNCHANGED <<policy, now, grant, setting>>
    BY <1>4 DEF Load, TurnTo
  <2> HIDE DEF p
  <2>5. QED
    BY <1>2, <2>1, <2>3, <2>4
<1>41. ASSUME NEW a \in Admins, NEW t \in 1 .. Forever, StartExtend(a, t)
       PROVE  AccessInv'
  <2> DEFINE p == [page[a] EXCEPT !.until = t]
  <2>1. page[a] \in Page /\ t \in 0 .. Forever
    BY <1>0, AccessFacts
  <2>2. p \in Page /\ p.pc = "loaded" /\ p.of = page[a].of /\ p.of \in Grants
    BY <1>41, <2>1 DEF StartExtend, Page
  <2>3. grant[p.of] # Nil
    BY <1>0, <2>2 DEF PagesStand
  <2>4. page' = [page EXCEPT ![a] = p] /\ UNCHANGED <<policy, now, grant, setting>>
    BY <1>41 DEF StartExtend, TurnTo
  <2> HIDE DEF p
  <2>5. QED
    BY <1>2, <2>2, <2>3, <2>4
<1>5. ASSUME NEW a \in Admins, LockRow(a)
      PROVE  AccessInv'
  <2> DEFINE p == page[a]
             q == [p EXCEPT !.pc = "locked"]
             stale == \/ p.version # VersionOf(p.of)
                      \/ p.of \in Grants /\ grant[p.of].source # "admin_grant"
  <2>1. /\ p.pc = "loaded" /\ RowFree(a) /\ UNCHANGED <<policy, now, grant, setting>>
        /\ page' = [page EXCEPT ![a] = IF stale THEN NoPage ELSE q]
    BY <1>5 DEF LockRow, TurnTo
  <2>2. CASE stale
    BY <1>3, <2>1, <2>2
  <2>3. CASE ~stale
    <3>1. q \in Page /\ q.pc = "locked" /\ q.of = p.of /\ q.version = p.version
      BY <1>0 DEF Page
    <3>2. p.of \in Grants \cup {Switch} /\ (p.of \in Grants => grant[p.of] # Nil)
      BY <1>0, <2>1 DEF PagesStand
    <3>3. \A b \in Admins \ {a} : ~(Holds(b, p.of) /\ VersionOf(p.of) > 0)
      BY <2>1 DEF RowFree, Holds
    <3>4. page' = [page EXCEPT ![a] = q]
      BY <2>1, <2>3
    <3>5. p.version = VersionOf(p.of) /\ (p.of \in Grants => grant[p.of].source = "admin_grant")
      BY <2>3
    <3> HIDE DEF q, p, stale
    <3>6. QED
      BY <1>2, <2>1, <3>1, <3>2, <3>3, <3>4, <3>5
  <2>4. QED
    BY <2>2, <2>3
<1>6. ASSUME NEW a \in Admins, AccessChange(a)
      PROVE  AccessInv'
  <2>1. PICK k \in Grants \cup {Switch} :
           /\ Holds(a, k)
           /\ page[a].version = VersionOf(k)
           /\ VersionOf(k)' = VersionOf(k) + 1
           /\ \A x \in (Grants \cup {Switch}) \ {k} : VersionOf(x)' = VersionOf(x)
           /\ grant' \in [Grants -> Grant \cup {Nil}]
           /\ \A g \in Grants : /\ grant[g] # Nil => grant'[g] # Nil
                                /\ grant[g] # Nil => grant'[g].source = grant[g].source
           /\ setting' \in 0 .. MaxChanges
    BY <1>6, ChangeForms
  <2>2. UNCHANGED <<policy, now>> /\ page' = [page EXCEPT ![a] = NoPage]
    BY <1>6, ChangeForms
  <2>3. NoPage \in Page /\ page'[a] = NoPage /\ \A b \in Admins \ {a} : page'[b] = page[b]
    BY <1>0, <2>2, AccessFacts
  <2>4. AccessTypeOK'
    BY <1>0, <2>1, <2>2, <2>3 DEF AccessTypeOK
  <2>5. PagesStand'
    BY <1>0, <2>1, <2>3 DEF PagesStand, NoPage
  <2>6. \A b \in Admins, x \in Grants \cup {Switch} : Holds(b, x)' => b # a /\ Holds(b, x)
    BY <2>3 DEF Holds, NoPage
  <2>7. RowsApart'
    BY <1>0, <2>3, <2>6 DEF RowsApart
  <2>8. LockedIsCurrent'
    BY <1>0, <2>1, <2>3, <2>6 DEF LockedIsCurrent, RowsApart
  <2>9. QED
    BY <2>4, <2>5, <2>7, <2>8 DEF AccessInv
<1>7. ASSUME NEW a \in Admins, GiveUp(a)
      PROVE  AccessInv'
  BY <1>3, <1>7 DEF GiveUp, TurnTo
<1>8. ASSUME NEW g \in Grants, NEW x \in Resources, NEW t \in 1 .. Forever, x.type \in Given, Give(g, x, t)
      PROVE  AccessInv'
  <2> DEFINE new == [source |-> "admin_grant", status |-> "active",
                     type |-> x.type, id |-> x.id, expires |-> t, version |-> 1]
  <2>1. x.type \in ResourceType /\ x.id \in {Course, Module, Lesson, Assessment, Switch}
    BY DEF Resources, ResourceType
  <2>2. new \in Grant
    BY <1>0, <2>1, AccessFacts, AccessAssumption DEF Grant
  <2>3. grant[g] = Nil /\ grant' = [grant EXCEPT ![g] = new] /\ UNCHANGED <<policy, now, setting, page>>
    BY <1>8 DEF Give
  <2> HIDE DEF new
  <2>4. QED
    BY <1>0, <1>1, <2>2, <2>3, NilAssumption DEF AccessTypeOK
<1>9. ASSUME NEW g \in Grants, NEW s \in {"active", "revoked"}, Provider(g, s)
      PROVE  AccessInv'
  <2> DEFINE new == [grant[g] EXCEPT !.status = s]
  <2>1. grant[g] \in Grant /\ grant' = [grant EXCEPT ![g] = new] /\ UNCHANGED <<policy, now, setting, page>>
    BY <1>0, <1>9 DEF Provider
  <2>2. new \in Grant /\ new.source = grant[g].source /\ new.version = grant[g].version
    BY <2>1 DEF Grant
  <2> HIDE DEF new
  <2>3. QED
    BY <1>0, <1>1, <2>1, <2>2, NilAssumption DEF AccessTypeOK
<1>10. CASE Pass \/ UNCHANGED accessVars
  <2>1. UNCHANGED <<policy, grant, setting, page>> /\ now' \in 0 .. MaxTime
    BY <1>0, <1>10, AccessFacts DEF Pass, accessVars
  <2>2. QED
    BY <1>0, <1>1, <2>1
<1>11. QED
  BY <1>4, <1>41, <1>5, <1>6, <1>7, <1>8, <1>9, <1>10 DEF AccessNext, AccessChange

----------------------------------------------------------------------------
(* What a change decides                                                   *)

\* Of several sources there is one of the highest precedence.
LEMMA BestOf ==
  ASSUME NEW S \in SUBSET DOMAIN PRECEDENCE, S # {}
  PROVE  Best(S) \in S
<1>1. \E s \in S : \A t \in S : PRECEDENCE[s] >= PRECEDENCE[t]
  BY DEF PRECEDENCE
<1>2. QED
  BY <1>1 DEF Best

Opens(x) == \/ Effective(x) \in {"free", "preview"}
            \/ Effective(x) # "unavailable" /\ Covering(x) # {}

\* Access is decided by what covers the resource, unless its policy does.
LEMMA AllowedBy ==
  \A x : AccessTypeOK => (Allowed(x) <=> Opens(x))
<1> SUFFICES ASSUME AccessTypeOK, NEW x
             PROVE  Allowed(x) <=> Opens(x)
  OBVIOUS
<1> DEFINE S == {grant[g].source : g \in Covering(x)}
<1>1. S \subseteq DOMAIN PRECEDENCE /\ (Covering(x) # {} => S # {})
  BY AccessFacts, AccessAssumption DEF Covering, InForce, Grant
<1>2. Covering(x) # {} => Best(S) \in DOMAIN PRECEDENCE
  BY <1>1, BestOf
<1>3. "unavailable" \notin DOMAIN PRECEDENCE /\ "expired" \notin DOMAIN PRECEDENCE
      /\ "locked" \notin DOMAIN PRECEDENCE
  BY DEF PRECEDENCE
<1> HIDE DEF S
<1>4. CASE Effective(x) \in {"unavailable", "free", "preview"}
  BY <1>4 DEF Allowed, Decision, Opens
<1>5. CASE Effective(x) \notin {"unavailable", "free", "preview"} /\ Covering(x) # {}
  <2>1. Decision(x) = Best(S)
    BY <1>5 DEF Decision, S
  <2>2. QED
    BY <1>2, <1>3, <1>5, <2>1 DEF Allowed, Opens
<1>6. CASE Effective(x) \notin {"unavailable", "free", "preview"} /\ Covering(x) = {}
  <2>1. Decision(x) \in {"expired", "locked"}
    BY <1>6 DEF Decision
  <2>2. QED
    BY <1>6, <2>1 DEF Allowed, Opens
<1>7. QED
  BY <1>4, <1>5, <1>6

LEMMA AllowedNext ==
  \A x : AccessTypeOK' => (Allowed(x)' <=> Opens(x)')
<1>1. (\A x : AccessTypeOK => (Allowed(x) <=> Opens(x)))'
  BY AllowedBy, PTL
<1>2. QED
  BY <1>1

LEMMA RevokingOpensNothing ==
  ASSUME AccessInv, AccessTypeOK', NEW a \in Admins, NEW g \in Grants, Revoke(a, g), NEW x, Allowed(x)'
  PROVE  Allowed(x)
<1>0. AccessTypeOK /\ grant \in [Grants -> Grant \cup {Nil}] /\ policy' = policy /\ now' = now
  BY DEF AccessInv, AccessTypeOK, Revoke
<1>1. grant[g] \in Grant
  BY <1>0, AccessFacts DEF AccessInv, PagesStand, Revoke, Changing
<1>2. grant'[g].status = "revoked" /\ \A k \in Grants \ {g} : grant'[k] = grant[k]
  BY <1>0, <1>1 DEF Revoke, Grant
<1>3. Covering(x)' \subseteq Covering(x)
  BY <1>0, <1>2 DEF Covering, InForce, Names, CourseOf
<1>4. Effective(x)' = Effective(x)
  BY <1>0 DEF Effective
<1>5. Allowed(x)' <=> Opens(x)'
  BY AllowedNext
<1>6. QED
  BY <1>0, <1>3, <1>4, <1>5, AllowedBy DEF Opens

LEMMA ExtendingClosesNothing ==
  ASSUME AccessInv, AccessTypeOK', NEW a \in Admins, NEW g \in Grants, Extend(a, g),
         page[a].until > now, NEW x, Allowed(x)
  PROVE  Allowed(x)'
<1> DEFINE t == page[a].until
<1>0. /\ AccessTypeOK /\ grant \in [Grants -> Grant \cup {Nil}] /\ policy' = policy /\ now' = now
      /\ now \in Nat /\ t \in 0 .. Forever /\ t \in Nat /\ t > now
  BY AccessFacts DEF AccessInv, AccessTypeOK, Extend
<1>1. grant[g] \in Grant /\ grant[g] # Nil
  BY <1>0, AccessFacts DEF AccessInv, PagesStand, Extend, Changing
<1>2. /\ grant'[g].status = grant[g].status /\ grant'[g].expires = t
      /\ grant'[g].id = grant[g].id /\ grant'[g].type = grant[g].type
      /\ \A k \in Grants \ {g} : grant'[k] = grant[k]
  BY <1>0, <1>1 DEF Extend, Grant
<1>3. grant'[g] # Nil
  <2>1. VersionOf(g) = grant[g].version /\ grant[g].version < MaxChanges
    BY AccessAssumption DEF VersionOf, Extend, Changing
  <2>2. grant[g].version + 1 \in 1 .. MaxChanges
    BY <1>0, <1>1, <2>1, AccessFacts
  <2>3. [grant[g] EXCEPT !.expires = t, !.version = grant[g].version + 1] \in Grant
    BY <1>0, <1>1, <2>2 DEF Grant
  <2>4. grant'[g] = [grant[g] EXCEPT !.expires = t, !.version = grant[g].version + 1]
    BY <1>0, <1>1 DEF Extend
  <2>5. QED
    BY <2>3, <2>4, NilAssumption
<1>4. Covering(x) \subseteq Covering(x)'
  BY <1>0, <1>2, <1>3 DEF Covering, InForce, Names, CourseOf
<1>5. Effective(x)' = Effective(x)
  BY <1>0 DEF Effective
<1>6. QED
  BY <1>0, <1>4, <1>5, AllowedBy, AllowedNext DEF Opens

\* The inductive invariant of grants and switches: who holds a row has its version, and only
\* a row that was not there is held by two (extend_entitlement, revoke_entitlement,
\* update_platform_setting).
THEOREM AccessIsKept == AccessSpec => []AccessInv
<1>1. AccessInit => AccessInv
  BY AccessStart
<1>2. AccessInv /\ [AccessNext]_accessVars => AccessInv'
  BY AccessKept
<1>3. QED
  BY <1>1, <1>2, PTL DEF AccessSpec

\* A step of an administrator who holds a row and changes its version has its version.
LEMMA VersionsAreSeen ==
  ASSUME AccessInv, AccessNext, NEW a \in Admins, NEW k \in Grants \cup {Switch},
         page[a].pc = "locked", page[a].of = k, page'[a].pc = "none", VersionOf(k)' # VersionOf(k)
  PROVE  VersionOf(k) = page[a].version
<1>1. CASE AccessChange(a)
  <2>1. PICK h \in Grants \cup {Switch} : Holds(a, h) /\ page[a].version = VersionOf(h)
    BY <1>1, ChangeForms
  <2>2. QED
    BY <2>1 DEF Holds
<1>2. ASSUME NEW b \in Admins, b # a, AccessChange(b)
      PROVE  FALSE
  <2>1. page' = [page EXCEPT ![b] = NoPage]
    BY <1>2, ChangeForms
  <2>2. page'[a] = page[a]
    BY <1>2, <2>1 DEF AccessInv, AccessTypeOK
  <2>3. QED
    BY <2>2
<1>3. ASSUME UNCHANGED <<grant, setting>>
      PROVE  FALSE
  BY <1>3 DEF VersionOf
<1>4. ASSUME page' = page
      PROVE  FALSE
  BY <1>4
<1>5. QED
  BY <1>1, <1>2, <1>3, <1>4 DEF AccessNext, AccessChange, StartExtend, LockRow, GiveUp, Load, Give, Provider, Pass

\* An administrator changes only what he has seen; a revocation opens nothing, and an
\* extension to a date that is still to come closes nothing.
THEOREM AdministratorsSee == AccessSpec => ChangesAreInformed
<1> DEFINE Informed ==
      \A a \in Admins :
         /\ \A k \in Grants \cup {Switch} :
              /\ page[a].pc = "locked" /\ page[a].of = k /\ page'[a].pc = "none"
              /\ VersionOf(k)' # VersionOf(k)
              => VersionOf(k) = page[a].version
         /\ \A g \in Grants :
              /\ Revoke(a, g) => \A x \in Resources : Allowed(x)' => Allowed(x)
              /\ Extend(a, g) /\ page[a].until > now =>
                   \A x \in Resources : Allowed(x) => Allowed(x)'
<1>1. ASSUME AccessInv, AccessInv', AccessNext
      PROVE  Informed
  <2>1. AccessTypeOK'
    BY <1>1 DEF AccessInv
  <2>2. QED
    BY <1>1, <2>1, VersionsAreSeen, RevokingOpensNothing, ExtendingClosesNothing
<1>2. AccessInv /\ AccessInv' /\ [AccessNext]_accessVars => [Informed]_accessVars
  BY <1>1
<1> HIDE DEF Informed
<1>3. AccessSpec => [][Informed]_accessVars
  BY <1>2, AccessIsKept, PTL DEF AccessSpec
<1>4. QED
  BY <1>3 DEF ChangesAreInformed, Informed

----------------------------------------------------------------------------
(* The academic hierarchy                                                  *)

\* A path whose records are there.
OnRecord(c) ==
    /\ c.standard # None => record[c.standard] # None /\ record[c.standard].parent = c.curriculum
    /\ c.stream # None => record[c.stream] # None /\ record[c.stream].parent = c.standard

\* What a request has read and validated.
Valued(a) ==
    /\ a.pc = "idle" => a = Resting
    /\ a.op = "record" => /\ a.record \in Records /\ a.body \in Row /\ Exists(a.body.parent)
                          /\ a.row # None => /\ a.row.parent = a.body.parent
                                             /\ record[a.record] # None
    /\ a.op \in {"profile", "create", "update"} => OnRecord(a.selection)
    /\ a.op = "profile" /\ a.pc = "locked" => a.old = profile
    /\ a.op = "update" => a.pc \in {"idle", "locked"}
    /\ a.op = "update" /\ a.pc = "locked" => a.old = class /\ class # None

RequestsValued == \A s \in Slots : Valued(act[s])

\* One request holds the account of the learner, and one the row of the course.
HoldersApart ==
    \A s, t \in Slots :
      act[s].pc = "locked" /\ act[t].pc = "locked" /\ act[s].op = act[t].op => s = t

PathsStand ==
    /\ profile # None => OnRecord(profile.selection)
    /\ class # None => OnRecord(class)

AcademicsInv == AcademicsTypeOK /\ RequestsValued /\ HoldersApart /\ PathsStand

LEMMA AcademicsStart ==
  ASSUME AcademicsInit
  PROVE  AcademicsInv
<1>1. PICK parent \in [Records \ Edited -> Curricula \cup Standards \cup {None}] :
         /\ \A x \in Records \ Edited : parent[x] \in ParentsOf(x) \ Edited
         /\ record = [x \in Records |-> IF x \in Edited THEN None
                                        ELSE [parent |-> parent[x], active |-> TRUE]]
  BY DEF AcademicsInit
<1>2. ASSUME NEW x \in Records
      PROVE  record[x] \in Row \cup {None} /\ (record[x] # None => Exists(record[x].parent))
  <2>1. CASE x \in Edited
    BY <1>1, <2>1
  <2>2. CASE x \notin Edited
    <3>1. record[x] = [parent |-> parent[x], active |-> TRUE]
      BY <1>1, <2>2
    <3>2. record[x] \in Row /\ record[x].parent = parent[x]
      BY <1>1, <2>2, <3>1 DEF Row
    <3>3. Exists(parent[x])
      <4>1. CASE parent[x] = None
        BY <4>1 DEF Exists
      <4>2. CASE parent[x] # None
        <5>1. parent[x] \in Records \ Edited
          BY <1>1, <2>2, <4>2 DEF Records
        <5>2. record[parent[x]] = [parent |-> parent[parent[x]], active |-> TRUE]
          BY <1>1, <5>1
        <5>3. record[parent[x]] \in Row
          BY <1>1, <5>1, <5>2 DEF Row
        <5>4. QED
          BY <5>3, NoneAssumption DEF Exists
      <4>3. QED
        BY <4>1, <4>2
    <3>4. QED
      BY <3>2, <3>3
  <2>3. QED
    BY <2>1, <2>2
<1>3. Resting \in Act
  BY DEF Resting, Act, Unclassified, Selection
<1>4. AcademicsTypeOK
  <2>1. record \in [Records -> Row \cup {None}]
    BY <1>1, <1>2
  <2>2. QED
    BY <1>2, <1>3, <2>1 DEF AcademicsInit, AcademicsTypeOK
<1>5. \A s \in Slots : act[s] = Resting
  BY DEF AcademicsInit
<1>6. RequestsValued /\ HoldersApart
  <2>1. Valued(Resting) /\ Resting.pc = "idle"
    BY DEF Valued, Resting
  <2>2. QED
    BY <1>5, <2>1 DEF RequestsValued, HoldersApart
<1>7. PathsStand
  BY DEF AcademicsInit, PathsStand
<1>8. QED
  BY <1>4, <1>6, <1>7 DEF AcademicsInv

\* The request s proceeds to a.
LEMMA ProceedKeeps ==
  ASSUME AcademicsInv, NEW s \in Slots, NEW a \in Act, Valued(a), Proceed(s, a),
         a.pc = "locked" =>
           \A t \in Slots \ {s} : act[t].op = a.op => act[t].pc # "locked"
  PROVE  AcademicsInv'
<1>1. /\ act \in [Slots -> Act] /\ act' = [act EXCEPT ![s] = a]
      /\ UNCHANGED <<record, profile, class>>
  BY DEF AcademicsInv, AcademicsTypeOK, Proceed
<1>2. AcademicsTypeOK'
  BY <1>1 DEF AcademicsInv, AcademicsTypeOK, Exists
<1>3. RequestsValued'
  BY <1>1 DEF AcademicsInv, RequestsValued, Valued, OnRecord, Exists
<1>4. HoldersApart'
  <2>1. act'[s] = a /\ \A t \in Slots \ {s} : act'[t] = act[t]
    BY <1>1
  <2>2. QED
    BY <2>1 DEF AcademicsInv, HoldersApart
<1>5. PathsStand'
  BY <1>1 DEF AcademicsInv, PathsStand, OnRecord
<1>6. QED
  BY <1>2, <1>3, <1>4, <1>5 DEF AcademicsInv

\* The request s ends; records stay with their parents.
LEMMA DoneKeeps ==
  ASSUME AcademicsInv, NEW s \in Slots, Done(s),
         record' \in [Records -> Row \cup {None}],
         \A x \in Records : record[x] # None => record'[x] # None /\ record'[x].parent = record[x].parent,
         \A x \in Records : record'[x] # None => record[x] # None \/ Exists(record'[x].parent),
         profile' \in Profile \cup {None}, class' \in Selection \cup {None},
         profile' # profile => act[s].op = "profile" /\ act[s].pc = "locked" /\ OnRecord(profile'.selection),
         class' # class => \/ class = None /\ OnRecord(class')
                           \/ act[s].op = "update" /\ act[s].pc = "locked" /\ OnRecord(class')
  PROVE  AcademicsInv'
<1>1. /\ act \in [Slots -> Act] /\ act' = [act EXCEPT ![s] = Resting] /\ Resting \in Act
      /\ act'[s] = Resting /\ \A t \in Slots \ {s} : act'[t] = act[t]
      /\ record \in [Records -> Row \cup {None}]
      /\ profile \in Profile \cup {None} /\ class \in Selection \cup {None}
  BY DEF AcademicsInv, AcademicsTypeOK, Done, Resting, Act, Unclassified, Selection
<1>2. \A c \in Selection : OnRecord(c) => OnRecord(c)'
  BY DEF OnRecord, Selection, Records
<1>3. \A x \in Curricula \cup Standards \cup {None} : Exists(x) => Exists(x)'
  BY DEF Exists, Records
<1>4. \A x \in Records : record'[x] # None => Exists(record[x].parent)'
  <2>1. ASSUME NEW x \in Records, record'[x] # None
        PROVE  Exists(record[x].parent)'
    <3>1. record'[x].parent \in Curricula \cup Standards \cup {None}
      BY <2>1 DEF Row
    <3>2. Exists(record'[x].parent)
      BY <1>1, <2>1 DEF AcademicsInv, AcademicsTypeOK
    <3>3. QED
      BY <3>1, <3>2 DEF Exists, Records
  <2>2. QED
    BY <2>1
<1>5. AcademicsTypeOK'
  <2>1. act' \in [Slots -> Act]
    BY <1>1
  <2>2. QED
    BY <1>4, <2>1 DEF AcademicsTypeOK
<1>6. ASSUME NEW t \in Slots
      PROVE  Valued(act[t])'
  <2>1. CASE t = s
    BY <1>1, <2>1 DEF Valued, Resting
  <2>2. CASE t # s
    <3>1. PICK a \in Act : Valued(a) /\ act[t] = a /\ act'[t] = a
      BY <1>1, <2>2 DEF AcademicsInv, RequestsValued
    <3>2. a.op = "record" => Exists(a.body.parent)' /\ (a.row # None => record'[a.record] # None)
      <4>1. a.op = "record" => a.body.parent \in Curricula \cup Standards \cup {None}
        BY <3>1 DEF Valued, Row
      <4>2. QED
        BY <1>3, <3>1, <4>1 DEF Valued
    <3>3. a.op \in {"profile", "create", "update"} => OnRecord(a.selection)'
      <4>1. a.selection \in Selection
        BY <3>1 DEF Act
      <4>2. QED
        BY <1>2, <3>1, <4>1 DEF Valued
    <3>4. a.op = "profile" /\ a.pc = "locked" => a.old = profile'
      BY <2>2, <3>1 DEF Valued, AcademicsInv, HoldersApart
    <3>5. a.op = "update" /\ a.pc = "locked" => a.old = class' /\ class' # None
      BY <2>2, <3>1 DEF Valued, AcademicsInv, HoldersApart
    <3>6. QED
      BY <3>1, <3>2, <3>3, <3>4, <3>5 DEF Valued, Exists, OnRecord
  <2>3. QED
    BY <2>1, <2>2
<1>7. RequestsValued'
  BY <1>6 DEF RequestsValued
<1>8. HoldersApart'
  <2>1. act'[s].pc = "idle"
    BY <1>1 DEF Resting
  <2>2. QED
    BY <1>1, <2>1 DEF AcademicsInv, HoldersApart
<1>9. PathsStand'
  <2>1. profile' # None => OnRecord(profile.selection)'
    <3>1. CASE profile' = profile
      <4>1. profile # None => profile.selection \in Selection
        BY <1>1 DEF Profile
      <4>2. QED
        BY <1>2, <3>1, <4>1 DEF AcademicsInv, PathsStand, OnRecord
    <3>2. CASE profile' # profile
      <4>1. profile' # None => profile'.selection \in Selection
        BY DEF Profile
      <4>2. QED
        BY <1>2, <3>2, <4>1 DEF OnRecord
    <3>3. QED
      BY <3>1, <3>2
  <2>2. class' # None => OnRecord(class)'
    <3>1. CASE class' = class
      BY <1>1, <1>2, <3>1 DEF AcademicsInv, PathsStand, OnRecord
    <3>2. CASE class' # class
      BY <1>2, <3>2 DEF OnRecord
    <3>3. QED
      BY <3>1, <3>2
  <2>3. QED
    BY <2>1, <2>2 DEF PathsStand
<1>10. QED
  BY <1>5, <1>7, <1>8, <1>9 DEF AcademicsInv

\* A path that is validated is on record.
LEMMA ValidIsOnRecord ==
  ASSUME NEW c \in Selection, ValidPath(c) \/ ValidClass(c)
  PROVE  OnRecord(c)
BY DEF ValidPath, ValidClass, Active, OnRecord, Unclassified

\* Writing the levels that differ from what is there writes the selection.
LEMMA MergeIsSelection ==
  ASSUME NEW c \in Selection, NEW d \in Selection
  PROVE  /\ [k \in DOMAIN c |-> IF c[k] = d[k] THEN d[k] ELSE c[k]] = c
         /\ [k \in DOMAIN d |-> IF c[k] = d[k] THEN d[k] ELSE c[k]] = c
<1>1. DOMAIN c = {"curriculum", "standard", "stream", "subject"} /\ DOMAIN d = DOMAIN c
  BY DEF Selection
<1>2. c = [k \in DOMAIN c |-> c[k]]
  BY DEF Selection
<1>3. \A k \in DOMAIN c : (IF c[k] = d[k] THEN d[k] ELSE c[k]) = c[k]
  OBVIOUS
<1>4. QED
  BY <1>1, <1>2, <1>3

LEMMA AcademicsKept ==
  ASSUME AcademicsInv, [AcademicsNext]_academicVars
  PROVE  AcademicsInv'
<1>0. /\ AcademicsTypeOK /\ RequestsValued /\ PathsStand
      /\ act \in [Slots -> Act] /\ record \in [Records -> Row \cup {None}]
      /\ profile \in Profile \cup {None} /\ class \in Selection \cup {None}
      /\ Resting.pc = "idle" /\ Resting.op = "none" /\ Resting \in Act
  BY DEF AcademicsInv, AcademicsTypeOK, Resting, Act, Unclassified, Selection
<1>1. ASSUME NEW s \in Slots, NEW x \in Edited, NEW p \in Curricula \cup Standards \cup {None},
             NEW b \in BOOLEAN, StartRecord(s, x, p, b)
      PROVE  AcademicsInv'
  <2> DEFINE a == [Resting EXCEPT !.pc = "write", !.op = "record", !.record = x,
                                  !.row = record[x], !.body = [parent |-> p, active |-> b]]
  <2>1. x \in Records /\ record[x] \in Row \cup {None}
    BY <1>0, AcademicsAssumption DEF Records
  <2>2. [parent |-> p, active |-> b] \in Row
    BY DEF Row
  <2>3. a \in Act
    BY <1>0, <2>1, <2>2 DEF Act
  <2>4. /\ a.pc = "write" /\ a.op = "record" /\ a.record = x /\ a.row = record[x]
        /\ a.body = [parent |-> p, active |-> b]
    BY DEF Resting
  <2>5. Exists(p) /\ StaysPut(x, p) /\ Proceed(s, a)
    BY <1>1 DEF StartRecord, Receive
  <2> HIDE DEF a
  <2>6. Valued(a)
    BY <2>1, <2>2, <2>4, <2>5 DEF Valued, StaysPut
  <2>7. QED
    BY <2>3, <2>4, <2>5, <2>6, ProceedKeeps
<1>2. ASSUME NEW s \in Slots, NEW c \in Selection, StartProfile(s, c)
      PROVE  AcademicsInv'
  <2> DEFINE a == [Resting EXCEPT !.pc = "wait", !.op = "profile", !.selection = c]
  <2>1. a \in Act /\ a.pc = "wait" /\ a.op = "profile" /\ a.selection = c
    BY <1>0 DEF Act
  <2>2. OnRecord(c) /\ Proceed(s, a)
    BY <1>2, ValidIsOnRecord DEF StartProfile, Receive
  <2> HIDE DEF a
  <2>3. Valued(a)
    BY <2>1, <2>2 DEF Valued
  <2>4. QED
    BY <2>1, <2>2, <2>3, ProceedKeeps
<1>3. ASSUME NEW s \in Slots, NEW c \in Selection, StartCourse(s, c)
      PROVE  AcademicsInv'
  <2> DEFINE a == [Resting EXCEPT !.pc = "write", !.op = "create", !.selection = c]
  <2>1. a \in Act /\ a.pc = "write" /\ a.op = "create" /\ a.selection = c
    BY <1>0 DEF Act
  <2>2. OnRecord(c) /\ Proceed(s, a)
    BY <1>3, ValidIsOnRecord DEF StartCourse, Receive
  <2> HIDE DEF a
  <2>3. Valued(a)
    BY <2>1, <2>2 DEF Valued
  <2>4. QED
    BY <2>1, <2>2, <2>3, ProceedKeeps
<1>4. ASSUME NEW s \in Slots, NEW c \in Selection, LockCourse(s, c)
      PROVE  AcademicsInv'
  <2> DEFINE a == [Resting EXCEPT !.pc = "locked", !.op = "update", !.selection = c, !.old = class]
  <2>1. class # None /\ class \in Selection
    BY <1>0, <1>4 DEF LockCourse
  <2>2. a \in Act /\ a.pc = "locked" /\ a.op = "update" /\ a.selection = c /\ a.old = class
    BY <1>0, <2>1 DEF Act
  <2>3. OnRecord(c) /\ Proceed(s, a) /\ CourseFree(s)
    BY <1>4, ValidIsOnRecord DEF LockCourse, Receive
  <2> HIDE DEF a
  <2>4. Valued(a)
    BY <2>1, <2>2, <2>3 DEF Valued
  <2>5. QED
    BY <2>2, <2>3, <2>4, ProceedKeeps DEF CourseFree
<1>5. ASSUME NEW s \in Slots, LockAccount(s)
      PROVE  AcademicsInv'
  <2> DEFINE a == [act[s] EXCEPT !.pc = "locked", !.old = profile]
  <2>1. act[s] \in Act /\ Valued(act[s]) /\ act[s].op = "profile"
    BY <1>0, <1>5 DEF RequestsValued, LockAccount
  <2>2. /\ a \in Act /\ a.pc = "locked" /\ a.op = "profile" /\ a.old = profile
        /\ a.selection = act[s].selection
    BY <1>0, <2>1 DEF Act
  <2>3. /\ Proceed(s, a)
        /\ \A t \in Slots \ {s} : act[t].op = "profile" => act[t].pc # "locked"
    BY <1>5 DEF LockAccount
  <2> HIDE DEF a
  <2>4. Valued(a)
    BY <2>1, <2>2 DEF Valued
  <2>5. QED
    BY <2>2, <2>3, <2>4, ProceedKeeps
<1>6. ASSUME NEW s \in Slots, WriteRecord(s)
      PROVE  AcademicsInv'
  <2> DEFINE a == act[s]
             x == a.record
             new == IF a.row = None THEN a.body
                    ELSE [parent |-> IF a.body.parent = a.row.parent THEN record[x].parent
                                     ELSE a.body.parent,
                          active |-> IF a.body.active = a.row.active THEN record[x].active
                                     ELSE a.body.active]
  <2>1. /\ a \in Act /\ Valued(a) /\ a.op = "record" /\ x \in Records /\ a.body \in Row
        /\ Exists(a.body.parent) /\ (a.row = None => record[x] = None)
        /\ (a.row # None => a.row.parent = a.body.parent /\ record[x] # None)
        /\ Done(s) /\ UNCHANGED <<profile, class>>
    BY <1>0, <1>6 DEF RequestsValued, Valued, WriteRecord
  <2>2. record' = [record EXCEPT ![x] = new]
    BY <1>0, <1>6, <2>1 DEF WriteRecord
  <2>3. a.row # None => record[x] \in Row /\ a.row \in Row
    BY <1>0, <2>1 DEF Act
  <2>4. new \in Row
    BY <2>1, <2>3 DEF Row
  <2>5. /\ record[x] # None => new.parent = record[x].parent
        /\ record[x] = None => Exists(new.parent)
    BY <2>1
  <2> HIDE DEF new, a, x
  <2>6. new # None
    BY <2>4, NoneAssumption
  <2>7. record' \in [Records -> Row \cup {None}]
    BY <1>0, <2>2, <2>4
  <2>8. record'[x] = new /\ \A y \in Records \ {x} : record'[y] = record[y]
    BY <1>0, <2>1, <2>2
  <2>9. \A y \in Records : record[y] # None => record'[y] # None /\ record'[y].parent = record[y].parent
    BY <2>5, <2>6, <2>8
  <2>10. \A y \in Records : record'[y] # None => record[y] # None \/ Exists(record'[y].parent)
    BY <2>5, <2>8
  <2>11. QED
    BY <1>0, <2>1, <2>7, <2>9, <2>10, DoneKeeps
<1>7. ASSUME NEW s \in Slots, SaveProfile(s)
      PROVE  AcademicsInv'
  <2> DEFINE a == act[s]
             c == a.selection
  <2>1. /\ a.op = "profile" /\ a.pc = "locked" /\ c \in Selection /\ OnRecord(c)
        /\ a.old = profile /\ Done(s) /\ UNCHANGED <<record, class>>
    BY <1>0, <1>7 DEF RequestsValued, Valued, SaveProfile, Act
  <2>2. profile' \in Profile \cup {None} /\ (profile' # profile => OnRecord(profile'.selection))
    <3>1. CASE profile = None
      <4>1. profile' = [selection |-> c, version |-> 1]
        BY <1>7, <2>1, <3>1 DEF SaveProfile
      <4>2. QED
        BY <2>1, <4>1 DEF Profile
    <3>2. CASE profile # None /\ profile.selection = c
      BY <1>0, <1>7, <2>1, <3>2 DEF SaveProfile
    <3>3. CASE profile # None /\ profile.selection # c
      <4> DEFINE d == profile.selection
      <4>1. profile \in Profile /\ d \in Selection /\ profile.version \in Nat
        BY <1>0, <3>3 DEF Profile
      <4>2. profile' = [selection |-> [k \in DOMAIN c |-> IF c[k] = d[k] THEN d[k] ELSE c[k]],
                        version |-> profile.version + 1]
        BY <1>7, <2>1, <3>3 DEF SaveProfile
      <4>3. [k \in DOMAIN c |-> IF c[k] = d[k] THEN d[k] ELSE c[k]] = c
        BY <2>1, <4>1, MergeIsSelection
      <4>4. profile' = [selection |-> c, version |-> profile.version + 1]
        BY <4>2, <4>3
      <4> HIDE DEF c
      <4>5. QED
        BY <2>1, <4>1, <4>4 DEF Profile
    <3>4. QED
      BY <3>1, <3>2, <3>3
  <2>3. QED
    BY <1>0, <2>1, <2>2, DoneKeeps DEF AcademicsTypeOK
<1>8. ASSUME NEW s \in Slots, InsertCourse(s)
      PROVE  AcademicsInv'
  <2>1. /\ class = None /\ class' = act[s].selection /\ class' \in Selection /\ OnRecord(class')
        /\ Done(s) /\ UNCHANGED <<record, profile>>
    BY <1>0, <1>8 DEF RequestsValued, Valued, InsertCourse, Act
  <2>2. QED
    BY <1>0, <2>1, DoneKeeps DEF AcademicsTypeOK
<1>9. ASSUME NEW s \in Slots, SaveCourse(s)
      PROVE  AcademicsInv'
  <2> DEFINE a == act[s]
             c == a.selection
  <2>1. /\ a.op = "update" /\ a.pc = "locked" /\ c \in Selection /\ OnRecord(c)
        /\ a.old = class /\ class \in Selection /\ Done(s) /\ UNCHANGED <<record, profile>>
    BY <1>0, <1>9 DEF RequestsValued, Valued, SaveCourse, Act
  <2>2. class' = [k \in DOMAIN class |-> IF c[k] = class[k] THEN class[k] ELSE c[k]]
    BY <1>9, <2>1 DEF SaveCourse
  <2>3. class' = c
    BY <2>1, <2>2, MergeIsSelection
  <2>4. QED
    BY <1>0, <2>1, <2>3, DoneKeeps DEF AcademicsTypeOK
<1>10. ASSUME NEW s \in Slots, Cancel(s)
       PROVE  AcademicsInv'
  <2>1. Done(s) /\ UNCHANGED <<record, profile, class>>
    BY <1>10 DEF Cancel
  <2>2. QED
    BY <1>0, <2>1, DoneKeeps DEF AcademicsTypeOK
<1>11. CASE UNCHANGED academicVars
  BY <1>11 DEF academicVars, AcademicsInv, AcademicsTypeOK, Exists, RequestsValued, Valued, OnRecord,
     HoldersApart, PathsStand
<1>12. QED
  BY <1>1, <1>2, <1>3, <1>4, <1>5, <1>6, <1>7, <1>8, <1>9, <1>10, <1>11 DEF AcademicsNext

\* The inductive invariant of the hierarchy: what a request has validated stays on record, and
\* what is locked is as it was read (save_taxonomy, put_profile, admin_update_course).
THEOREM AcademicsAreKept == AcademicsSpec => []AcademicsInv
<1>1. AcademicsInit => AcademicsInv
  BY AcademicsStart
<1>2. AcademicsInv /\ [AcademicsNext]_academicVars => AcademicsInv'
  BY AcademicsKept
<1>3. QED
  BY <1>1, <1>2, PTL DEF AcademicsSpec

\* What a learner has selected and what a course is classified as are paths of the hierarchy.
THEOREM SelectionsFollowPaths == AcademicsSpec => []SelectionsAreConsistent
<1>1. AcademicsInv => SelectionsAreConsistent
  BY DEF AcademicsInv, PathsStand, OnRecord, SelectionsAreConsistent, OnPath
<1>2. QED
  BY <1>1, AcademicsAreKept, PTL

----------------------------------------------------------------------------
(* The content of a lesson                                                 *)

\* Where requests of each kind can stand, and what they are about.
Formed(q) ==
    /\ q.pc = "idle" => q = Idle
    /\ q.pc = "writing" => q.op = "save"
    /\ q.pc = "list" => q.op = "order"
    /\ q.pc = "inspecting" => q.op = "upload"
    /\ q.pc \in {"locked", "guarded"} => q.op \in {"edit", "delete"}
    /\ q.pc \in {"attempting", "attempted"} => q.op = "attempt"
    /\ q.op = "save" => q.on \in Items /\ q.body \in Bodies
    /\ q.op = "upload" => q.on \in Videos
    /\ q.op \in {"edit", "delete", "attempt"} => q.on \in Assessments

\* A save under way has read the binding of its video, and changes what an item refers to
\* only where no video is.
SaveStands(q) ==
    q.pc = "writing" =>
      /\ q.body.type = "video" => video[q.body.of] # Nothing /\ q.bound = video[q.body.of].item
      /\ Changes(q.on, q.body) => There(video) = {}

\* No attempt has been made of an assessment that is about to be deleted.
DeletionStands(q) == q.op = "delete" /\ q.pc = "guarded" => q.on \notin attempts

RequestsStand ==
    \A r \in Requests : Formed(req[r]) /\ SaveStands(req[r]) /\ DeletionStands(req[r])

LessonApart == \A r, q \in Requests : HoldsLesson(r) /\ HoldsLesson(q) => r = q

\* Nothing refers to an assessment that is locked.
LockedIsUnreferred ==
    \A r, q \in Requests, a \in Assessments : Locks(r, a) => ~RefersTo(q, a)

\* A video that is bound is shown by a video item, and the other way round.
BindingsStand ==
    /\ \A i \in There(item) : item[i].type = "video" =>
         video[item[i].of] # Nothing /\ video[item[i].of].item = i
    /\ \A v \in There(video) : video[v].item # Nothing =>
         /\ item[video[v].item] # Nothing /\ item[video[v].item].type = "video"
         /\ item[video[v].item].of = v

ItemsAreBodies == \A i \in There(item) : item[i] \in Bodies

ContentInv ==
    /\ TypeOK /\ RequestsStand /\ LessonApart /\ LockedIsUnreferred /\ BindingsStand
    /\ ItemsAreBodies

LEMMA BodyFacts ==
  ASSUME NEW b \in Bodies
  PROVE  /\ b \in Content /\ b # Nothing /\ b \in ItemRow
         /\ b.type = "video" => b.of \in Videos
         /\ b.type = "quiz" => b.of \in Assessments
         /\ b.type \in {"note", "video", "quiz"}
BY NothingAssumption DEF Bodies, Content, ItemRow

LEMMA ContentStart ==
  ASSUME Init
  PROVE  ContentInv
<1>1. Idle \in Request
  BY LessonContentAssumption DEF Idle, Request, Phase, ItemRow
<1>2. There(item) = {} /\ There(video) = {}
  BY DEF Init, There
<1>3. TypeOK
  BY <1>1, <1>2, LessonContentAssumption DEF Init, TypeOK, ItemRow
<1>4. \A r \in Requests : req[r] = Idle
  BY DEF Init
<1>5. Formed(Idle) /\ SaveStands(Idle) /\ DeletionStands(Idle)
  BY DEF Formed, SaveStands, DeletionStands, Idle
<1>6. RequestsStand
  BY <1>4, <1>5 DEF RequestsStand
<1>7. LessonApart /\ LockedIsUnreferred
  BY <1>4 DEF LessonApart, LockedIsUnreferred, HoldsLesson, Locks, RefersTo, Idle
<1>8. BindingsStand /\ ItemsAreBodies
  BY <1>2 DEF BindingsStand, ItemsAreBodies
<1>9. QED
  BY <1>3, <1>6, <1>7, <1>8 DEF ContentInv

\* The request r goes on as q, and writes nothing.
LEMMA GotoKeeps ==
  ASSUME ContentInv, NEW r \in Requests, NEW q \in Request, Goto(r, q),
         Formed(q), SaveStands(q), DeletionStands(q),
         q.pc \in {"writing", "inspecting"} => HoldsLesson(r) \/ LessonFree(r),
         q.op \in {"edit", "delete"} /\ q.pc \in {"locked", "guarded"} =>
           Locks(r, q.on) \/ NothingRefers(r, q.on),
         q.pc = "attempted" => AssessmentFree(r, q.on)
  PROVE  ContentInv'
<1>1. /\ UNCHANGED <<course, item, video, assessment, attempts>>
      /\ req \in [Requests -> Request] /\ req' = [req EXCEPT ![r] = q]
  BY DEF Goto, ContentInv, TypeOK
<1>2. /\ req' \in [Requests -> Request]
      /\ req'[r] = q /\ \A p \in Requests \ {r} : req'[p] = req[p]
  BY <1>1
<1>3. TypeOK'
  BY <1>1, <1>2 DEF ContentInv, TypeOK, There
<1>4. RequestsStand'
  <2>1. ASSUME NEW p \in Requests
        PROVE  Formed(req[p])' /\ SaveStands(req[p])' /\ DeletionStands(req[p])'
    <3>1. PICK x \in Request : x = req'[p] /\ Formed(x) /\ SaveStands(x) /\ DeletionStands(x)
      BY <1>2 DEF ContentInv, TypeOK, RequestsStand
    <3>2. Formed(req[p])'
      BY <3>1 DEF Formed
    <3>3. SaveStands(req[p])'
      BY <1>1, <3>1 DEF SaveStands, Changes, There
    <3>4. DeletionStands(req[p])'
      BY <1>1, <3>1 DEF DeletionStands
    <3>5. QED
      BY <3>2, <3>3, <3>4
  <2>2. QED
    BY <2>1 DEF RequestsStand
<1>5. LessonApart'
  BY <1>2 DEF ContentInv, LessonApart, HoldsLesson, LessonFree, Others
<1>6. LockedIsUnreferred'
  BY <1>2 DEF ContentInv, LockedIsUnreferred, Locks, RefersTo, AssessmentFree, NothingRefers, Others
<1>7. BindingsStand' /\ ItemsAreBodies'
  BY <1>1 DEF ContentInv, BindingsStand, ItemsAreBodies, There
<1>8. QED
  BY <1>3, <1>4, <1>5, <1>6, <1>7 DEF ContentInv

\* Requests end or stay, and the tables are written.
LEMMA TablesKeep ==
  ASSUME ContentInv, TypeOK', BindingsStand', ItemsAreBodies',
         \A p \in Requests : req'[p] = req[p] \/ req'[p] = Idle,
         UNCHANGED <<item, video>> \/ \A p \in Requests : req'[p].pc # "writing",
         \A p \in Requests : \A a \in attempts' \ attempts : ~Locks(p, a)
  PROVE  ContentInv'
<1>1. RequestsStand'
  <2>1. ASSUME NEW p \in Requests
        PROVE  Formed(req[p])' /\ SaveStands(req[p])' /\ DeletionStands(req[p])'
    <3>1. PICK x : x = req'[p]
      OBVIOUS
    <3>2. Formed(x) /\ SaveStands(x) /\ DeletionStands(x) /\ (x = Idle \/ x = req[p])
      <4>1. Formed(Idle) /\ SaveStands(Idle) /\ DeletionStands(Idle)
        BY DEF Formed, SaveStands, DeletionStands, Idle
      <4>2. QED
        BY <3>1, <4>1 DEF ContentInv, RequestsStand
    <3>3. Formed(req[p])'
      BY <3>1, <3>2 DEF Formed
    <3>4. SaveStands(req[p])'
      BY <3>1, <3>2 DEF SaveStands, Changes, There
    <3>5. DeletionStands(req[p])'
      <4>1. CASE x.op = "delete" /\ x.pc = "guarded"
        <5>1. x = req[p] /\ x.on \in Assessments
          BY <3>2, <4>1 DEF Idle, Formed
        <5>2. Locks(p, x.on) /\ x.on \notin attempts
          BY <3>2, <4>1, <5>1 DEF Locks, DeletionStands
        <5>3. QED
          BY <3>1, <5>2 DEF DeletionStands
      <4>2. CASE ~(x.op = "delete" /\ x.pc = "guarded")
        BY <3>1, <4>2 DEF DeletionStands
      <4>3. QED
        BY <4>1, <4>2
    <3>6. QED
      BY <3>3, <3>4, <3>5
  <2>2. QED
    BY <2>1 DEF RequestsStand
<1>2. Idle.pc = "idle"
  BY DEF Idle
<1>3. LessonApart'
  BY <1>2 DEF ContentInv, LessonApart, HoldsLesson
<1>4. LockedIsUnreferred'
  BY <1>2 DEF ContentInv, LockedIsUnreferred, Locks, RefersTo
<1>5. QED
  BY <1>1, <1>3, <1>4 DEF ContentInv

\* Where the request r ends.
LEMMA EndFacts ==
  ASSUME ContentInv, NEW r \in Requests, End(r)
  PROVE  /\ req' \in [Requests -> Request]
         /\ \A p \in Requests : req'[p] = req[p] \/ req'[p] = Idle
         /\ HoldsLesson(r) \/ LessonFree(r) => \A p \in Requests : req'[p].pc # "writing"
<1>1. /\ req \in [Requests -> Request] /\ req' = [req EXCEPT ![r] = Idle]
      /\ Idle \in Request /\ Idle.pc = "idle"
  BY LessonContentAssumption DEF ContentInv, TypeOK, End, Idle, Request, Phase, ItemRow
<1>2. req'[r] = Idle /\ \A p \in Requests \ {r} : req'[p] = req[p]
  BY <1>1
<1>3. QED
  BY <1>1, <1>2 DEF ContentInv, LessonApart, HoldsLesson, LessonFree, Others

\* A list of all items gives each a number of its own.
LEMMA ListNumbers ==
  ASSUME NEW S \in SUBSET Items, NEW list \in SetToSeqs(S), NEW i \in S
  PROVE  LET n == CHOOSE n \in DOMAIN list : list[n] = i
         IN  n \in 1 .. Cardinality(Items) /\ list[n] = i
<1>1. IsFiniteSet(S) /\ Cardinality(S) \in Nat /\ Cardinality(S) <= Cardinality(Items)
      /\ Cardinality(Items) \in Nat
  BY LessonContentAssumption, FS_Subset, FS_CardinalityType
<1> DEFINE D == 1 .. Cardinality(S)
<1>2. list \in [D -> S] /\ \A m, n \in D : m # n => list[m] # list[n]
  BY DEF SetToSeqs
<1>3. list \in Injection(D, S)
  BY <1>2 DEF Injection, IsInjective
<1>4. IsFiniteSet(D) /\ Cardinality(D) = Cardinality(S)
  BY <1>1, FS_Interval
<1>5. list \in Surjection(D, S)
  BY <1>1, <1>3, <1>4, FS_Injection
<1>6. \E n \in DOMAIN list : list[n] = i
  BY <1>2, <1>5 DEF Surjection
<1>7. DOMAIN list \subseteq 1 .. Cardinality(Items)
  BY <1>1, <1>2
<1>8. QED
  BY <1>6, <1>7

\* What a new request starts from.
LEMMA IdleFacts ==
  /\ Idle \in Request
  /\ Idle.pc = "idle" /\ Idle.op = "none" /\ Idle.on = Nothing /\ Idle.body = Nothing
  /\ Idle.seen = {} /\ Idle.bound = Nothing /\ Idle.status = "draft"
BY LessonContentAssumption DEF Idle, Request, Phase, ItemRow

LEMMA SaveStarts ==
  ASSUME ContentInv, NEW r \in Requests, NEW i \in Items, NEW b \in Bodies, StartSave(r, i, b)
  PROVE  ContentInv'
<1> DEFINE bound == IF b.type = "video" THEN video[b.of].item ELSE Nothing
           q == [Idle EXCEPT !.on = i, !.body = b, !.bound = bound, !.op = "save",
                             !.pc = "writing"]
<1>1. LessonFree(r) /\ ReferenceFits(b) /\ MayBecome(i, b) /\ Goto(r, q)
  BY DEF StartSave, Begin
<1>2. bound \in Items \cup {Nothing}
  <2>1. CASE b.type = "video"
    <3>1. b.of \in Videos /\ video[b.of] # Nothing
      BY <1>1, <2>1, BodyFacts DEF ReferenceFits
    <3>2. video[b.of] \in VideoRow
      BY <3>1 DEF ContentInv, TypeOK
    <3>3. QED
      BY <2>1, <3>2 DEF VideoRow
  <2>2. QED
    BY <2>1
<1>3. /\ q \in Request /\ q.pc = "writing" /\ q.op = "save" /\ q.on = i /\ q.body = b
      /\ q.bound = bound
  <2>1. i \in Items \cup Videos \cup Assessments \cup {Nothing} /\ b \in ItemRow
    BY BodyFacts
  <2> HIDE DEF bound
  <2>2. QED
    BY <1>2, <2>1, IdleFacts DEF Request, Phase
<1>4. Formed(q)
  BY <1>3 DEF Formed
<1>5. SaveStands(q)
  <2>1. b.type = "video" => video[b.of] # Nothing /\ bound = video[b.of].item
    BY <1>1 DEF ReferenceFits
  <2>2. Changes(i, b) => There(video) = {}
    BY <1>1 DEF MayBecome, HasHistory
  <2> HIDE DEF bound, q
  <2>3. QED
    BY <1>3, <2>1, <2>2 DEF SaveStands
<1>6. DeletionStands(q)
  BY <1>3 DEF DeletionStands
<1> HIDE DEF q
<1>7. QED
  BY <1>1, <1>3, <1>4, <1>5, <1>6, GotoKeeps

LEMMA OrderStarts ==
  ASSUME ContentInv, NEW r \in Requests, StartOrder(r)
  PROVE  ContentInv'
<1> DEFINE q == [Idle EXCEPT !.seen = There(item), !.op = "order", !.pc = "list"]
<1>1. Goto(r, q)
  BY DEF StartOrder, Begin
<1>2. q \in Request /\ q.pc = "list" /\ q.op = "order"
  <2>1. There(item) \in SUBSET Items
    BY DEF ContentInv, TypeOK, There
  <2>2. QED
    BY <2>1, IdleFacts DEF Request, Phase
<1> HIDE DEF q
<1>3. Formed(q) /\ SaveStands(q) /\ DeletionStands(q)
  BY <1>2 DEF Formed, SaveStands, DeletionStands
<1>4. QED
  BY <1>1, <1>2, <1>3, GotoKeeps

LEMMA UploadStarts ==
  ASSUME ContentInv, NEW r \in Requests, NEW v \in Videos, StartUpload(r, v)
  PROVE  ContentInv'
<1> DEFINE q == [Idle EXCEPT !.on = v, !.op = "upload", !.pc = "inspecting"]
<1>1. LessonFree(r) /\ Goto(r, q)
  BY DEF StartUpload, Begin
<1>2. q \in Request /\ q.pc = "inspecting" /\ q.op = "upload" /\ q.on = v
  <2>1. v \in Items \cup Videos \cup Assessments \cup {Nothing}
    OBVIOUS
  <2>2. QED
    BY <2>1, IdleFacts DEF Request, Phase
<1> HIDE DEF q
<1>3. Formed(q) /\ SaveStands(q) /\ DeletionStands(q)
  BY <1>2 DEF Formed, SaveStands, DeletionStands
<1>4. QED
  BY <1>1, <1>2, <1>3, GotoKeeps

LEMMA EditStarts ==
  ASSUME ContentInv, NEW r \in Requests, NEW a \in Assessments, NEW s \in Statuses,
         StartEdit(r, a, s)
  PROVE  ContentInv'
<1> DEFINE e == [Idle EXCEPT !.on = a, !.status = s, !.op = "edit", !.pc = "locked"]
           d == [Idle EXCEPT !.on = a, !.op = "delete", !.pc = "locked"]
<1>1. NothingRefers(r, a) /\ (Goto(r, e) \/ Goto(r, d))
  BY DEF StartEdit, Begin
<1>2. /\ e \in Request /\ e.pc = "locked" /\ e.op = "edit" /\ e.on = a
      /\ d \in Request /\ d.pc = "locked" /\ d.op = "delete" /\ d.on = a
  <2>1. a \in Items \cup Videos \cup Assessments \cup {Nothing}
    OBVIOUS
  <2>2. QED
    BY <2>1, IdleFacts DEF Request, Phase
<1> HIDE DEF e, d
<1>3. Formed(e) /\ SaveStands(e) /\ DeletionStands(e)
  BY <1>2 DEF Formed, SaveStands, DeletionStands
<1>4. Formed(d) /\ SaveStands(d) /\ DeletionStands(d)
  BY <1>2 DEF Formed, SaveStands, DeletionStands
<1>5. CASE Goto(r, e)
  BY <1>1, <1>2, <1>3, <1>5, GotoKeeps
<1>6. CASE Goto(r, d)
  BY <1>1, <1>2, <1>4, <1>6, GotoKeeps
<1>7. QED
  BY <1>1, <1>5, <1>6

LEMMA AttemptStarts ==
  ASSUME ContentInv, NEW r \in Requests, NEW a \in Assessments, StartAttempt(r, a)
  PROVE  ContentInv'
<1> DEFINE q == [Idle EXCEPT !.on = a, !.op = "attempt", !.pc = "attempting"]
<1>1. Goto(r, q)
  BY DEF StartAttempt, Begin
<1>2. q \in Request /\ q.pc = "attempting" /\ q.op = "attempt" /\ q.on = a
  <2>1. a \in Items \cup Videos \cup Assessments \cup {Nothing}
    OBVIOUS
  <2>2. QED
    BY <2>1, IdleFacts DEF Request, Phase
<1> HIDE DEF q
<1>3. Formed(q) /\ SaveStands(q) /\ DeletionStands(q)
  BY <1>2 DEF Formed, SaveStands, DeletionStands
<1>4. QED
  BY <1>1, <1>2, <1>3, GotoKeeps

\* A request that ends without having written anything.
LEMMA AbortKeeps ==
  ASSUME ContentInv, NEW r \in Requests, Abort(r)
  PROVE  ContentInv'
<1>1. End(r) /\ UNCHANGED <<course, item, video, assessment, attempts>>
  BY DEF Abort
<1>2. req' \in [Requests -> Request] /\ \A p \in Requests : req'[p] = req[p] \/ req'[p] = Idle
  BY <1>1, EndFacts
<1>3. TypeOK' /\ BindingsStand' /\ ItemsAreBodies'
  BY <1>1, <1>2 DEF ContentInv, TypeOK, BindingsStand, ItemsAreBodies, There
<1>4. QED
  BY <1>1, <1>2, <1>3, TablesKeep

\* Its dependents counted under the lock, an assessment is refused or about to be deleted.
LEMMA GuardKeeps ==
  ASSUME ContentInv, NEW r \in Requests, GuardAssessment(r)
  PROVE  ContentInv'
<1> DEFINE q == [req[r] EXCEPT !.pc = "guarded"]
<1>1. /\ req[r] \in Request /\ Formed(req[r])
      /\ req[r].op = "delete" /\ req[r].pc = "locked"
  BY DEF GuardAssessment, ContentInv, TypeOK, RequestsStand
<1>2. CASE HasHistory \/ InUse(req[r].on)
  BY <1>2, AbortKeeps DEF GuardAssessment
<1>3. CASE ~(HasHistory \/ InUse(req[r].on))
  <2>1. Goto(r, q) /\ attempts = {}
    BY <1>3 DEF GuardAssessment, HasHistory
  <2>2. q \in Request /\ q.pc = "guarded" /\ q.op = "delete" /\ q.on = req[r].on
    BY <1>1 DEF Request, Phase
  <2>3. q.on \in Assessments /\ Locks(r, q.on)
    BY <1>1, <2>2 DEF Formed, Locks
  <2> HIDE DEF q
  <2>4. Formed(q) /\ SaveStands(q) /\ DeletionStands(q)
    BY <2>1, <2>2, <2>3 DEF Formed, SaveStands, DeletionStands
  <2>5. QED
    BY <2>1, <2>2, <2>3, <2>4, GotoKeeps
<1>4. QED
  BY <1>2, <1>3

LEMMA InsertKeeps ==
  ASSUME ContentInv, NEW r \in Requests, InsertAttempt(r)
  PROVE  ContentInv'
<1> DEFINE q == [req[r] EXCEPT !.pc = "attempted"]
<1>1. /\ req[r] \in Request /\ Formed(req[r]) /\ req[r].pc = "attempting"
      /\ AssessmentFree(r, req[r].on)
  BY DEF InsertAttempt, ContentInv, TypeOK, RequestsStand
<1>2. CASE assessment[req[r].on] = Nothing
  BY <1>2, AbortKeeps DEF InsertAttempt
<1>3. CASE assessment[req[r].on] # Nothing
  <2>1. Goto(r, q)
    BY <1>3 DEF InsertAttempt
  <2>2. q \in Request /\ q.pc = "attempted" /\ q.op = req[r].op /\ q.on = req[r].on
    BY <1>1 DEF Request, Phase
  <2> HIDE DEF q
  <2>3. Formed(q) /\ SaveStands(q) /\ DeletionStands(q)
    BY <1>1, <2>2 DEF Formed, SaveStands, DeletionStands
  <2>4. QED
    BY <1>1, <2>1, <2>2, <2>3, GotoKeeps
<1>4. QED
  BY <1>2, <1>3

\* An item is written while the lesson is held: the binding that the request has read is the
\* one there is, and what the item referred to before was no video.
LEMMA SaveKeeps ==
  ASSUME ContentInv, NEW r \in Requests, Save(r)
  PROVE  ContentInv'
<1>1. PICK i, b, q : /\ q = req[r] /\ i = q.on /\ b = q.body
  OBVIOUS
<1>2. /\ q.op = "save" /\ q.pc = "writing" /\ ConstraintsHold(b, i)
      /\ q.bound \in {Nothing, i} /\ item' = [item EXCEPT ![i] = b]
      /\ video' = IF b.type = "video" THEN [video EXCEPT ![b.of].item = i] ELSE video
      /\ End(r) /\ UNCHANGED <<course, assessment, attempts>>
  BY <1>1 DEF Save, CanWrite
<1>3. Formed(q) /\ SaveStands(q)
  BY <1>1 DEF ContentInv, RequestsStand
<1>4. i \in Items /\ b \in Bodies
  BY <1>1, <1>2, <1>3 DEF Formed
<1>5. /\ b \in Content /\ b # Nothing /\ b \in ItemRow
      /\ b.type = "video" => b.of \in Videos
      /\ b.type = "quiz" => b.of \in Assessments
  BY <1>4, BodyFacts
<1>6. b.type = "video" => video[b.of] # Nothing /\ video[b.of].item \in {Nothing, i}
  BY <1>1, <1>2, <1>3 DEF SaveStands
<1>7. /\ item \in [Items -> ItemRow] /\ item'[i] = b
      /\ \A j \in Items \ {i} : item'[j] = item[j]
      /\ item' \in [Items -> ItemRow]
  BY <1>2, <1>4, <1>5 DEF ContentInv, TypeOK
<1>8. video \in [Videos -> VideoRow \cup {Nothing}]
  BY DEF ContentInv, TypeOK
<1>9. ASSUME b.type = "video"
      PROVE  /\ video[b.of] \in VideoRow /\ video'[b.of] = [item |-> i]
             /\ video'[b.of] # Nothing /\ video'[b.of].item = i
             /\ \A v \in Videos \ {b.of} : video'[v] = video[v]
             /\ video' \in [Videos -> VideoRow \cup {Nothing}]
  <2>1. video' = [video EXCEPT ![b.of].item = i] /\ b.of \in Videos
    BY <1>2, <1>5, <1>9
  <2>2. video[b.of] \in VideoRow
    BY <1>6, <1>8, <1>9, <2>1
  <2>3. [video[b.of] EXCEPT !.item = i] = [item |-> i]
    BY <2>2 DEF VideoRow
  <2>4. [item |-> i] \in VideoRow
    BY <1>4 DEF VideoRow
  <2>5. [item |-> i] # Nothing
    BY <2>4, NothingAssumption
  <2>6. /\ video'[b.of] = [item |-> i] /\ \A v \in Videos \ {b.of} : video'[v] = video[v]
        /\ video' \in [Videos -> VideoRow \cup {Nothing}]
    BY <1>8, <2>1, <2>3, <2>4
  <2>7. QED
    BY <2>2, <2>5, <2>6
<1>10. /\ video' \in [Videos -> VideoRow \cup {Nothing}]
       /\ \A v \in Videos : (b.type = "video" /\ v = b.of) \/ video'[v] = video[v]
  BY <1>2, <1>8, <1>9
<1>11. Changes(i, b) => There(video) = {}
  BY <1>1, <1>2, <1>3 DEF SaveStands
<1>12. req' \in [Requests -> Request]
  BY <1>2, EndFacts
<1>13. TypeOK'
  <2>1. \A j, k \in There(item)' : j # k => item'[j].position # item'[k].position
    BY <1>2, <1>4, <1>7 DEF ContentInv, TypeOK, There, ConstraintsHold, PositionTaken
  <2>2. \A j \in There(item)' : item'[j].type = "quiz" => item'[j].of \in There(assessment)'
    BY <1>2, <1>4, <1>5, <1>7 DEF ContentInv, TypeOK, There, ConstraintsHold
  <2>3. QED
    BY <1>2, <1>7, <1>10, <1>12, <2>1, <2>2 DEF ContentInv, TypeOK
<1>14. BindingsStand'
  <2>1. ASSUME NEW j \in Items, item'[j] # Nothing, item'[j].type = "video"
        PROVE  video'[item'[j].of] # Nothing /\ video'[item'[j].of].item = j
    <3>1. CASE j = i
      BY <1>7, <1>9, <2>1, <3>1
    <3>2. CASE j # i
      <4>1. item'[j] = item[j] /\ j \in There(item)
        BY <1>7, <2>1, <3>2 DEF There
      <4>2. video[item[j].of] # Nothing /\ video[item[j].of].item = j
        BY <2>1, <4>1 DEF ContentInv, BindingsStand
      <4>3. item[j].of \in Videos
        BY <2>1, <4>1, BodyFacts DEF ContentInv, ItemsAreBodies
      <4>4. b.type = "video" => item[j].of # b.of
        BY <1>4, <1>6, <3>2, <4>2, LessonContentAssumption
      <4>5. QED
        BY <1>10, <4>1, <4>2, <4>3, <4>4
    <3>3. QED
      BY <3>1, <3>2
  <2>2. ASSUME NEW v \in Videos, video'[v] # Nothing, video'[v].item # Nothing
        PROVE  /\ item'[video'[v].item] # Nothing /\ item'[video'[v].item].type = "video"
               /\ item'[video'[v].item].of = v
    <3>1. CASE b.type = "video" /\ v = b.of
      BY <1>5, <1>7, <1>9, <3>1
    <3>2. CASE ~(b.type = "video" /\ v = b.of)
      <4>1. video'[v] = video[v] /\ v \in There(video)
        BY <1>8, <1>10, <2>2, <3>2 DEF There
      <4>2. PICK j : j = video[v].item
        OBVIOUS
      <4>3. item[j] # Nothing /\ item[j].type = "video" /\ item[j].of = v
        BY <2>2, <4>1, <4>2 DEF ContentInv, BindingsStand
      <4>4. j \in Items
        BY <1>8, <2>2, <4>1, <4>2 DEF VideoRow
      <4>5. j # i
        BY <1>11, <3>2, <4>1, <4>3 DEF Changes
      <4>6. QED
        BY <1>7, <4>1, <4>2, <4>3, <4>4, <4>5
    <3>3. QED
      BY <3>1, <3>2
  <2>3. QED
    BY <1>7, <1>10, <2>1, <2>2 DEF BindingsStand, There
<1>15. ItemsAreBodies'
  <2>1. \A j \in Items : item'[j] # Nothing => item'[j] \in Bodies
    BY <1>4, <1>7 DEF ContentInv, ItemsAreBodies, There
  <2>2. QED
    BY <1>7, <2>1 DEF ItemsAreBodies, There, Bodies
<1>16. HoldsLesson(r)
  BY <1>1, <1>2 DEF HoldsLesson
<1>17. /\ \A p \in Requests : req'[p] = req[p] \/ req'[p] = Idle
       /\ \A p \in Requests : req'[p].pc # "writing"
  BY <1>2, <1>16, EndFacts
<1>18. QED
  BY <1>2, <1>13, <1>14, <1>15, <1>17, TablesKeep

LEMMA UploadKeeps ==
  ASSUME ContentInv, NEW r \in Requests, CompleteUpload(r)
  PROVE  ContentInv'
<1>1. PICK v, row : /\ v = req[r].on
                    /\ row = IF video[v] = Nothing THEN [item |-> Nothing] ELSE video[v]
  OBVIOUS
<1>2. /\ req[r].pc = "inspecting" /\ video' = [video EXCEPT ![v] = row]
      /\ End(r) /\ UNCHANGED <<course, item, assessment, attempts>>
  BY <1>1 DEF CompleteUpload
<1>3. v \in Videos
  BY <1>1, <1>2 DEF ContentInv, RequestsStand, Formed
<1>4. video \in [Videos -> VideoRow \cup {Nothing}]
  BY DEF ContentInv, TypeOK
<1>5. /\ row \in VideoRow /\ row # Nothing
      /\ video[v] # Nothing => row = video[v]
      /\ video[v] = Nothing => row.item = Nothing
  <2>1. [item |-> Nothing] \in VideoRow
    BY DEF VideoRow
  <2>2. QED
    BY <1>1, <1>3, <1>4, <2>1, NothingAssumption
<1>6. /\ video' \in [Videos -> VideoRow \cup {Nothing}]
      /\ video'[v] = row /\ \A w \in Videos \ {v} : video'[w] = video[w]
  BY <1>2, <1>3, <1>4, <1>5
<1>7. req' \in [Requests -> Request]
  BY <1>2, EndFacts
<1>8. TypeOK'
  BY <1>2, <1>6, <1>7 DEF ContentInv, TypeOK, There
<1>9. ItemsAreBodies'
  BY <1>2 DEF ContentInv, ItemsAreBodies, There
<1>10. BindingsStand'
  <2>1. ASSUME NEW j \in There(item), item[j].type = "video"
        PROVE  video'[item[j].of] # Nothing /\ video'[item[j].of].item = j
    <3>1. video[item[j].of] # Nothing /\ video[item[j].of].item = j
      BY <2>1 DEF ContentInv, BindingsStand
    <3>2. item[j].of \in Videos
      BY <2>1, BodyFacts DEF ContentInv, ItemsAreBodies
    <3>3. QED
      BY <1>5, <1>6, <3>1, <3>2
  <2>2. ASSUME NEW w \in Videos, video'[w] # Nothing, video'[w].item # Nothing
        PROVE  /\ item[video'[w].item] # Nothing /\ item[video'[w].item].type = "video"
               /\ item[video'[w].item].of = w
    <3>1. video'[w] = video[w] /\ w \in There(video)
      BY <1>3, <1>4, <1>5, <1>6, <2>2 DEF There
    <3>2. QED
      BY <2>2, <3>1 DEF ContentInv, BindingsStand
  <2>3. QED
    BY <1>2, <1>6, <2>1, <2>2 DEF BindingsStand, There
<1>11. HoldsLesson(r)
  BY <1>2 DEF HoldsLesson
<1>12. /\ \A p \in Requests : req'[p] = req[p] \/ req'[p] = Idle
       /\ \A p \in Requests : req'[p].pc # "writing"
  BY <1>2, <1>11, EndFacts
<1>13. QED
  BY <1>2, <1>8, <1>9, <1>10, <1>12, TablesKeep

\* The items get the numbers of a list of all of them, and remain what they are.
LEMMA OrderKeeps ==
  ASSUME ContentInv, NEW r \in Requests, NEW list \in SetToSeqs(req[r].seen), Order(r, list)
  PROVE  ContentInv'
<1> DEFINE number(i) == CHOOSE n \in DOMAIN list : list[n] = i
           moved(i) == [item[i] EXCEPT !.position = number(i)]
<1>1. /\ LessonFree(r) /\ req[r].seen = There(item)
      /\ item' = [i \in Items |-> IF i \in There(item) THEN moved(i) ELSE Nothing]
      /\ End(r) /\ UNCHANGED <<course, video, assessment, attempts>>
  BY DEF Order
<1>2. item \in [Items -> ItemRow] /\ There(item) \in SUBSET Items
  BY DEF ContentInv, TypeOK, There
<1>3. \A i \in There(item) : number(i) \in 1 .. Cardinality(Items) /\ list[number(i)] = i
  BY <1>1, <1>2, ListNumbers
<1>4. \A i \in There(item) : item[i] \in Content /\ item[i] \in Bodies
  BY <1>2 DEF ContentInv, ItemsAreBodies, There, ItemRow
<1> HIDE DEF number
<1>5. \A i \in There(item) : /\ moved(i) \in Content /\ moved(i).position = number(i)
                             /\ moved(i).type = item[i].type /\ moved(i).of = item[i].of
  BY <1>3, <1>4 DEF Content
<1>6. \A i \in There(item) : moved(i) \in Bodies
  BY <1>4, <1>5 DEF Bodies
<1> HIDE DEF moved
<1>7. /\ item' \in [Items -> ItemRow] /\ There(item') = There(item)
      /\ \A i \in There(item) : item'[i] = moved(i)
      /\ \A i \in Items : item'[i] # Nothing <=> item[i] # Nothing
  BY <1>1, <1>2, <1>5, NothingAssumption DEF ItemRow, There
<1>8. req' \in [Requests -> Request]
  BY <1>1, EndFacts
<1>9. TypeOK'
  <2>1. \A i, j \in There(item') : i # j => item'[i].position # item'[j].position
    BY <1>3, <1>5, <1>7
  <2>2. \A i \in There(item') : item'[i].type = "quiz" => item'[i].of \in There(assessment)
    BY <1>5, <1>7 DEF ContentInv, TypeOK
  <2>3. There(assessment)' = There(assessment)
    BY <1>1 DEF There
  <2>4. QED
    BY <1>1, <1>7, <1>8, <2>1, <2>2, <2>3 DEF ContentInv, TypeOK
<1>10. BindingsStand'
  <2>1. \A i \in There(item') : item'[i].type = "video" =>
          video[item'[i].of] # Nothing /\ video[item'[i].of].item = i
    BY <1>5, <1>7 DEF ContentInv, BindingsStand
  <2>2. ASSUME NEW v \in There(video), video[v].item # Nothing
        PROVE  /\ item'[video[v].item] # Nothing /\ item'[video[v].item].type = "video"
               /\ item'[video[v].item].of = v
    <3>1. PICK i : i = video[v].item
      OBVIOUS
    <3>2. item[i] # Nothing /\ item[i].type = "video" /\ item[i].of = v
      BY <2>2, <3>1 DEF ContentInv, BindingsStand
    <3>3. i \in Items
      BY <2>2, <3>1 DEF ContentInv, TypeOK, There, VideoRow
    <3>4. i \in There(item)
      BY <1>2, <3>2, <3>3 DEF There
    <3>5. QED
      BY <1>5, <1>7, <3>1, <3>2, <3>3, <3>4
  <2>3. There(video)' = There(video)
    BY <1>1 DEF There
  <2>4. QED
    BY <1>1, <2>1, <2>2, <2>3 DEF BindingsStand
<1>11. ItemsAreBodies'
  BY <1>6, <1>7 DEF ItemsAreBodies, Bodies
<1>12. /\ \A p \in Requests : req'[p] = req[p] \/ req'[p] = Idle
       /\ \A p \in Requests : req'[p].pc # "writing"
  BY <1>1, EndFacts
<1>13. QED
  BY <1>1, <1>9, <1>10, <1>11, <1>12, TablesKeep

\* The assessments are written, and what refers to one that goes is not there.
LEMMA AssessmentsKeep ==
  ASSUME ContentInv, UNCHANGED <<course, item, video, attempts>>,
         NEW a \in Assessments, NEW s \in Statuses \cup {Nothing},
         assessment' = [assessment EXCEPT ![a] = s], s = Nothing => ~InUse(a),
         req' \in [Requests -> Request],
         \A p \in Requests : req'[p] = req[p] \/ req'[p] = Idle
  PROVE  ContentInv'
<1>1. /\ assessment \in [Assessments -> Statuses \cup {Nothing}]
      /\ assessment' \in [Assessments -> Statuses \cup {Nothing}]
      /\ assessment'[a] = s /\ \A c \in Assessments \ {a} : assessment'[c] = assessment[c]
  BY DEF ContentInv, TypeOK
<1>2. \A i \in There(item) : item[i].type = "quiz" => item[i].of \in There(assessment')
  BY <1>1 DEF ContentInv, TypeOK, There, InUse
<1>3. TypeOK'
  BY <1>1, <1>2 DEF ContentInv, TypeOK, There
<1>4. BindingsStand' /\ ItemsAreBodies'
  BY DEF ContentInv, BindingsStand, ItemsAreBodies, There
<1>5. QED
  BY <1>3, <1>4, TablesKeep

LEMMA CreateKeeps ==
  ASSUME ContentInv, NEW a \in Assessments, NEW s \in Statuses, CreateAssessment(a, s)
  PROVE  ContentInv'
<1>1. /\ assessment' = [assessment EXCEPT ![a] = s] /\ s # Nothing
      /\ UNCHANGED <<item, video, attempts, req, course>>
  BY NothingAssumption DEF CreateAssessment
<1>2. req' \in [Requests -> Request]
  BY <1>1 DEF ContentInv, TypeOK
<1>3. QED
  BY <1>1, <1>2, AssessmentsKeep

LEMMA UpdateKeeps ==
  ASSUME ContentInv, NEW r \in Requests, UpdateAssessment(r)
  PROVE  ContentInv'
<1>1. PICK a, s : a = req[r].on /\ s = req[r].status
  OBVIOUS
<1>2. /\ assessment' = [assessment EXCEPT ![a] = s] /\ req[r].op = "edit" /\ End(r)
      /\ UNCHANGED <<item, video, attempts, course>>
  BY <1>1 DEF UpdateAssessment
<1>3. a \in Assessments /\ s \in Statuses /\ s # Nothing
  BY <1>1, <1>2, NothingAssumption DEF ContentInv, TypeOK, RequestsStand, Formed, Request
<1>4. req' \in [Requests -> Request] /\ \A p \in Requests : req'[p] = req[p] \/ req'[p] = Idle
  BY <1>2, EndFacts
<1>5. QED
  BY <1>2, <1>3, <1>4, AssessmentsKeep

\* A deletion takes no attempt with it.
LEMMA DeletionTakesNone ==
  ASSUME ContentInv, NEW r \in Requests, DeleteAssessment(r)
  PROVE  attempts' = attempts
BY DEF DeleteAssessment, ContentInv, RequestsStand, DeletionStands

LEMMA DeleteKeeps ==
  ASSUME ContentInv, NEW r \in Requests, DeleteAssessment(r)
  PROVE  ContentInv'
<1>1. PICK a : a = req[r].on
  OBVIOUS
<1>2. /\ assessment' = [assessment EXCEPT ![a] = Nothing] /\ req[r].op = "delete" /\ End(r)
      /\ ~InUse(a) /\ UNCHANGED <<item, video, course>>
  BY <1>1 DEF DeleteAssessment
<1>3. a \in Assessments
  BY <1>1, <1>2 DEF ContentInv, RequestsStand, Formed
<1>4. attempts' = attempts
  BY DeletionTakesNone
<1>5. req' \in [Requests -> Request] /\ \A p \in Requests : req'[p] = req[p] \/ req'[p] = Idle
  BY <1>2, EndFacts
<1>6. QED
  BY <1>2, <1>3, <1>4, <1>5, AssessmentsKeep

\* The row of the attempt has kept its assessment from being locked.
LEMMA CommitKeeps ==
  ASSUME ContentInv, NEW r \in Requests, CommitAttempt(r)
  PROVE  ContentInv'
<1>1. PICK a : a = req[r].on
  OBVIOUS
<1>2. /\ req[r].pc = "attempted" /\ attempts' = attempts \cup {a} /\ End(r)
      /\ UNCHANGED <<course, item, video, assessment>>
  BY <1>1 DEF CommitAttempt
<1>3. a \in Assessments /\ RefersTo(r, a)
  BY <1>1, <1>2 DEF ContentInv, RequestsStand, Formed, RefersTo
<1>4. \A p \in Requests : ~Locks(p, a)
  BY <1>3 DEF ContentInv, LockedIsUnreferred
<1>5. req' \in [Requests -> Request] /\ \A p \in Requests : req'[p] = req[p] \/ req'[p] = Idle
  BY <1>2, EndFacts
<1>6. TypeOK'
  BY <1>2, <1>3, <1>5 DEF ContentInv, TypeOK, There
<1>7. BindingsStand' /\ ItemsAreBodies'
  BY <1>2 DEF ContentInv, BindingsStand, ItemsAreBodies, There
<1>8. QED
  BY <1>2, <1>4, <1>5, <1>6, <1>7, TablesKeep

LEMMA CourseKeeps ==
  ASSUME ContentInv, course' \in Statuses, UNCHANGED <<item, video, assessment, attempts, req>>
  PROVE  ContentInv'
<1>1. TypeOK' /\ BindingsStand' /\ ItemsAreBodies'
  BY DEF ContentInv, TypeOK, BindingsStand, ItemsAreBodies, There
<1>2. QED
  BY <1>1, TablesKeep

LEMMA ContentKept == ContentInv /\ [Next]_vars => ContentInv'
<1> SUFFICES ASSUME ContentInv, [Next]_vars PROVE ContentInv'
  OBVIOUS
<1>1. ASSUME NEW r \in Requests, NEW i \in Items, NEW b \in Bodies, StartSave(r, i, b)
      PROVE  ContentInv'
  BY <1>1, SaveStarts
<1>2. ASSUME NEW r \in Requests, Save(r) PROVE ContentInv'
  BY <1>2, SaveKeeps
<1>3. ASSUME NEW r \in Requests, CannotSave(r) \/ RefuseOrder(r) \/ Abort(r)
      PROVE  ContentInv'
  BY <1>3, AbortKeeps DEF CannotSave, RefuseOrder
<1>4. ASSUME NEW r \in Requests, StartOrder(r) PROVE ContentInv'
  BY <1>4, OrderStarts
<1>5. ASSUME NEW r \in Requests, NEW list \in SetToSeqs(req[r].seen), Order(r, list)
      PROVE  ContentInv'
  BY <1>5, OrderKeeps
<1>6. ASSUME NEW r \in Requests, NEW v \in Videos, StartUpload(r, v) PROVE ContentInv'
  BY <1>6, UploadStarts
<1>7. ASSUME NEW r \in Requests, CompleteUpload(r) PROVE ContentInv'
  BY <1>7, UploadKeeps
<1>8. ASSUME NEW r \in Requests, NEW a \in Assessments,
             StartAttempt(r, a) \/ \E s \in Statuses : StartEdit(r, a, s)
      PROVE  ContentInv'
  BY <1>8, AttemptStarts, EditStarts
<1>9. ASSUME NEW r \in Requests,
             UpdateAssessment(r) \/ GuardAssessment(r) \/ DeleteAssessment(r)
      PROVE  ContentInv'
  BY <1>9, UpdateKeeps, GuardKeeps, DeleteKeeps
<1>10. ASSUME NEW r \in Requests, InsertAttempt(r) \/ CommitAttempt(r) PROVE ContentInv'
  BY <1>10, InsertKeeps, CommitKeeps
<1>11. ASSUME NEW a \in Assessments, NEW s \in Statuses, CreateAssessment(a, s)
       PROVE  ContentInv'
  BY <1>11, CreateKeeps
<1>12. CASE Publish \/ Unpublish \/ \E s \in Statuses : SetStatus(s)
  <2>1. course' \in Statuses /\ UNCHANGED <<item, video, assessment, attempts, req>>
    BY <1>12, LessonContentAssumption DEF Publish, Unpublish, SetStatus
  <2>2. QED
    BY <2>1, CourseKeeps
<1>13. CASE UNCHANGED vars
  <2>1. course' \in Statuses /\ UNCHANGED <<item, video, assessment, attempts, req>>
    BY <1>13 DEF vars, ContentInv, TypeOK
  <2>2. QED
    BY <2>1, CourseKeeps
<1>14. QED
  BY <1>1, <1>2, <1>3, <1>4, <1>5, <1>6, <1>7, <1>8, <1>9, <1>10, <1>11, <1>12, <1>13 DEF Next

\* The inductive invariant of a lesson's content: the lesson is held by one request at a time,
\* which knows the bindings, and nothing refers to a locked assessment (save_content,
\* complete_upload, admin_delete_assessment, new_attempt).
THEOREM ContentIsKept == Spec => []ContentInv
<1>1. Init => ContentInv
  BY ContentStart
<1>2. ContentInv /\ [Next]_vars => ContentInv'
  BY ContentKept
<1>3. QED
  BY <1>1, <1>2, PTL DEF Spec

\* A video that an item shows is bound to that item, and a bound one is shown by its item.
THEOREM VideosStayBound == Spec => []VideosAreBound
<1>1. ContentInv => VideosAreBound
  BY DEF ContentInv, BindingsStand, VideosAreBound
<1>2. QED
  BY <1>1, ContentIsKept, PTL

\* The deletion of an assessment never takes an attempt with it.
THEOREM AttemptsStay == Spec => AttemptsAreKept
<1>1. ContentInv /\ [Next]_vars => [attempts \subseteq attempts']_vars
  <2> SUFFICES ASSUME ContentInv, [Next]_vars PROVE [attempts \subseteq attempts']_vars
    OBVIOUS
  <2>1. ASSUME NEW r \in Requests, DeleteAssessment(r) PROVE attempts \subseteq attempts'
    BY <2>1, DeletionTakesNone
  <2>2. ASSUME NEW r \in Requests, CommitAttempt(r) PROVE attempts \subseteq attempts'
    BY <2>2 DEF CommitAttempt
  <2>3. ASSUME NEW r \in Requests,
               \/ \E i \in Items, b \in Bodies : StartSave(r, i, b)
               \/ CannotSave(r) \/ StartOrder(r) \/ RefuseOrder(r)
               \/ \E v \in Videos : StartUpload(r, v)
               \/ \E a \in Assessments : StartAttempt(r, a) \/ \E s \in Statuses : StartEdit(r, a, s)
               \/ GuardAssessment(r) \/ InsertAttempt(r) \/ Abort(r)
        PROVE  attempts' = attempts
    BY <2>3 DEF StartSave, CannotSave, StartOrder, RefuseOrder, StartUpload, StartAttempt,
       StartEdit, GuardAssessment, InsertAttempt, Abort, Begin, Goto
  <2>4. ASSUME NEW r \in Requests,
               \/ Save(r) \/ (\E list \in SetToSeqs(req[r].seen) : Order(r, list))
               \/ CompleteUpload(r) \/ UpdateAssessment(r)
        PROVE  attempts' = attempts
    BY <2>4 DEF Save, Order, CompleteUpload, UpdateAssessment
  <2>5. CASE \/ \E a \in Assessments, s \in Statuses : CreateAssessment(a, s)
             \/ Publish \/ Unpublish \/ \E s \in Statuses : SetStatus(s)
    BY <2>5 DEF CreateAssessment, Publish, Unpublish, SetStatus
  <2>6. QED
    BY <2>1, <2>2, <2>3, <2>4, <2>5 DEF Next
<1>2. QED
  BY <1>1, ContentIsKept, PTL DEF Spec, AttemptsAreKept

----------------------------------------------------------------------------
(* The three together                                                      *)

\* What the managers of content, of the hierarchy and of access write has its type, whichever
\* of them works, and the constraints of the tables hold.
THEOREM AuthoringTypesHold == AuthoringSpec => []AuthoringTypeOK
<1> DEFINE Inv == ContentInv /\ AcademicsInv /\ AccessInv
<1>1. AuthoringInit => Inv
  BY ContentStart, AcademicsStart, AccessStart DEF AuthoringInit
<1>2. Inv /\ [AuthoringNext]_authoringVars => Inv'
  <2>1. AuthoringNext => [Next]_vars /\ [AcademicsNext]_academicVars /\ [AccessNext]_accessVars
    BY DEF AuthoringNext
  <2>2. UNCHANGED authoringVars =>
          [Next]_vars /\ [AcademicsNext]_academicVars /\ [AccessNext]_accessVars
    BY DEF authoringVars
  <2>3. QED
    BY <2>1, <2>2, ContentKept, AcademicsKept, AccessKept
<1>3. Inv => AuthoringTypeOK
  BY DEF ContentInv, AcademicsInv, AccessInv, AuthoringTypeOK
<1>4. QED
  BY <1>1, <1>2, <1>3, PTL DEF AuthoringSpec
=============================================================================
