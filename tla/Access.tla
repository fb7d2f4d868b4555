------------------------------- MODULE Access -------------------------------
(***************************************************************************)
(* What a learner may open (resolve_access in app/services.py): policies   *)
(* that lessons and modules inherit from their course, and grants. The     *)
(* grants that administrators give are extended and revoked, and switches  *)
(* of the platform set, by several of them (app/cms_operations.py): each   *)
(* works on a page that he has loaded, and sends the version it showed.    *)
(*                                                                         *)
(* One learner, one course with a module and a lesson. A request is cut    *)
(* where it holds the lock of its row. Unpublished courses and assessments *)
(* are not found, and left out. A grant starts when it is given, and one   *)
(* in its grace period counts as active.                                   *)
(***************************************************************************)
EXTENDS Naturals

CONSTANTS
    Course, Module, Lesson, Assessment,     \* ids
    Policies,       \* policies that authors give
    Sources,        \* sources of the grants
    Given,          \* types of the resources that administrators give access to
    Grants,         \* keys of the grants
    Switch,         \* key of a setting of the platform
    Admins,
    Nil,            \* no grant, no restriction, no page
    MaxTime, MaxChanges     \* bounds on the clock and on the changes of a row

PolicyKind == {"free", "premium", "preview", "inherit", "unavailable"}

PRECEDENCE == [admin_grant |-> 8, scholarship |-> 7, purchase |-> 6, bundle |-> 5,
               subscription |-> 4, promotion |-> 3, trial |-> 2, free |-> 1]

ASSUME AccessAssumption ==
    /\ Policies \subseteq PolicyKind
    /\ Sources \subseteq DOMAIN PRECEDENCE /\ "admin_grant" \in Sources
    /\ Switch \notin Grants
    /\ Nil \notin Grants \cup {Switch, Course, Module, Lesson, Assessment}
    /\ MaxTime \in Nat /\ MaxChanges \in Nat \ {0}

VARIABLES
    policy,     \* of the course, the module and the lesson (preview: its flag is set)
    now,
    grant,      \* the learner's entitlements
    setting,    \* the version of the switch's row; 0: there is none
    page        \* what an administrator has loaded, and the row that he has locked

accessVars == <<policy, now, grant, setting, page>>

ResourceType == {"course", "module", "lesson", "assessment", "certificate", "resource"}

\* A download belongs to its lesson; certificates have ids of their own.
Resources ==
    {[type |-> "course", id |-> Course], [type |-> "module", id |-> Module],
     [type |-> "lesson", id |-> Lesson], [type |-> "resource", id |-> Lesson],
     [type |-> "assessment", id |-> Assessment], [type |-> "certificate", id |-> Switch]}

\* No expiry, or one that is later than everything that is modelled.
Forever == MaxTime + 1

Grant == [source: Sources, status: {"active", "revoked"},
          type: ResourceType \cup {Nil}, id: {Course, Module, Lesson, Assessment, Switch, Nil},
          expires: 0 .. Forever, version: 1 .. MaxChanges]

ASSUME NilAssumption == Nil \notin Grant

\* until is the new expiry that an extension asks for; 0: it asks for none.
Page == [pc: {"none", "loaded", "locked"}, of: Grants \cup {Switch, Nil},
         version: 0 .. MaxChanges, until: 0 .. Forever]

NoPage == [pc |-> "none", of |-> Nil, version |-> 0, until |-> 0]

AccessTypeOK ==
    /\ policy \in [{Course, Module, Lesson} -> PolicyKind]
    /\ now \in 0 .. MaxTime
    /\ grant \in [Grants -> Grant \cup {Nil}]
    /\ setting \in 0 .. MaxChanges
    /\ page \in [Admins -> Page]

\* The learner may have bought the course, or subscribe to everything.
AccessInit ==
    /\ policy \in [{Course, Module, Lesson} -> Policies]
    /\ now = 0
    /\ grant \in [Grants -> {Nil} \cup
         [source: Sources \ {"admin_grant"}, status: {"active"}, type: {"course", Nil},
          id: {Course, Nil}, expires: {1, Forever}, version: {1}]]
    /\ \A g \in Grants : grant[g] # Nil => (grant[g].type = Nil <=> grant[g].id = Nil)
    /\ setting = 0
    /\ page = [a \in Admins |-> NoPage]

----------------------------------------------------------------------------
(* resolve_access                                                          *)

\* The first of the policies that is not inherited; without one, content is premium.
Effective(x) ==
    LET own(id) == policy[id] # "inherit"
    IN  CASE x.type \in {"lesson", "resource"} ->
               IF own(Lesson) THEN policy[Lesson]
               ELSE IF own(Module) THEN policy[Module] ELSE policy[Course]
          [] x.type = "module" -> IF own(Module) THEN policy[Module] ELSE policy[Course]
          [] x.type \in {"course", "assessment"} -> policy[Course]
          [] OTHER -> "premium"

CourseOf(x) == IF x.type = "certificate" THEN Nil ELSE Course

InForce(g) ==
    /\ grant[g] # Nil /\ grant[g].status = "active" /\ grant[g].expires > now

Names(g, x) == grant[g].id \in {Nil, x.id, CourseOf(x)}

\* A grant for a module does not open its lessons.
Covering(x) ==
    {g \in Grants : InForce(g) /\ Names(g, x) /\ grant[g].type \in {Nil, x.type, "course"}}

Best(S) == CHOOSE s \in S : \A t \in S : PRECEDENCE[s] >= PRECEDENCE[t]

\* How the resource is accessible, or why it is not.
Decision(x) ==
    IF Effective(x) \in {"unavailable", "free", "preview"} THEN Effective(x)
    ELSE IF Covering(x) # {} THEN Best({grant[g].source : g \in Covering(x)})
    ELSE IF \E g \in Grants : grant[g] # Nil /\ grant[g].expires <= now /\ Names(g, x)
         THEN "expired" ELSE "locked"

Allowed(x) == Decision(x) \notin {"unavailable", "expired", "locked"}

----------------------------------------------------------------------------
(* Administrators                                                          *)

VersionOf(k) == IF k = Switch THEN setting ELSE grant[k].version

TurnTo(a, p) == page' = [page EXCEPT ![a] = p]

\* The list of entitlements of a learner, or of the platform's settings.
Load(a, k) ==
    /\ page[a].pc = "none"
    /\ k \in Grants => grant[k] # Nil
    /\ TurnTo(a, [pc |-> "loaded", of |-> k, version |-> VersionOf(k), until |-> 0])
    /\ UNCHANGED <<policy, now, grant, setting>>

\* extend_entitlement: the new expiry is in the future when the request comes, which then
\* waits for the row. It may be earlier than the old one.
StartExtend(a, t) ==
    /\ page[a].pc = "loaded" /\ page[a].of \in Grants /\ page[a].until = 0
    /\ t > now
    /\ TurnTo(a, [page[a] EXCEPT !.until = t])
    /\ UNCHANGED <<policy, now, grant, setting>>

\* Mutant: nobody locks the row.
RowFreeAlways(a) == a \in Admins

\* A row that is not there is not locked.
RowFree(a) ==
    \A b \in Admins \ {a} : ~(/\ page[b].pc = "locked" /\ page[b].of = page[a].of
                              /\ VersionOf(page[a].of) > 0)

\* extend_entitlement, revoke_entitlement, update_platform_setting: the row is locked.
LockRow(a) ==
    LET p == page[a]
    IN  /\ p.pc = "loaded" /\ RowFree(a)
        /\ IF \/ p.version # VersionOf(p.of)                                    \* STALE_VERSION
              \/ p.of \in Grants /\ grant[p.of].source # "admin_grant"          \* PROVIDER_OWNED
           THEN TurnTo(a, NoPage) ELSE TurnTo(a, [p EXCEPT !.pc = "locked"])
        /\ UNCHANGED <<policy, now, grant, setting>>

Changing(a, k) == page[a].pc = "locked" /\ page[a].of = k /\ VersionOf(k) < MaxChanges

\* The expiry is written as it was asked for, though it may have passed since.
Extend(a, g) ==
    /\ Changing(a, g) /\ page[a].until # 0
    /\ grant' = [grant EXCEPT ![g].expires = page[a].until, ![g].version = @ + 1]
    /\ TurnTo(a, NoPage) /\ UNCHANGED <<policy, now, setting>>

Revoke(a, g) ==
    /\ Changing(a, g) /\ page[a].until = 0
    /\ grant' = [grant EXCEPT ![g].status = "revoked", ![g].version = @ + 1]
    /\ TurnTo(a, NoPage) /\ UNCHANGED <<policy, now, setting>>

\* update_platform_setting: of two first changes, one violates the primary key.
SetSwitch(a) ==
    /\ Changing(a, Switch)
    /\ page[a].version = 0 => setting = 0
    /\ setting' = setting + 1
    /\ TurnTo(a, NoPage) /\ UNCHANGED <<policy, now, grant>>

GiveUp(a) ==
    /\ page[a].pc # "none"
    /\ TurnTo(a, NoPage) /\ UNCHANGED <<policy, now, grant, setting>>

\* grant_entitlement
Give(g, x, t) ==
    /\ grant[g] = Nil /\ t > now
    /\ grant' = [grant EXCEPT ![g] = [source |-> "admin_grant", status |-> "active",
                                      type |-> x.type, id |-> x.id, expires |-> t, version |-> 1]]
    /\ UNCHANGED <<policy, now, setting, page>>

\* A refund, or its reversal (Commerce): the version stays.
Provider(g, status) ==
    /\ grant[g] # Nil /\ grant[g].source # "admin_grant"
    /\ grant' = [grant EXCEPT ![g].status = status]
    /\ UNCHANGED <<policy, now, setting, page>>

Pass ==
    /\ now < MaxTime
    /\ now' = now + 1
    /\ UNCHANGED <<policy, grant, setting, page>>

----------------------------------------------------------------------------
AccessNext ==
    \/ Pass
    \/ \E g \in Grants :
         \/ \E x \in Resources, t \in 1 .. Forever : x.type \in Given /\ Give(g, x, t)
         \/ \E s \in {"active", "revoked"} : Provider(g, s)
    \/ \E a \in Admins :
         \/ LockRow(a) \/ SetSwitch(a) \/ GiveUp(a)
         \/ \E k \in Grants \cup {Switch} : Load(a, k)
         \/ \E t \in 1 .. Forever : StartExtend(a, t)
         \/ \E g \in Grants : Revoke(a, g) \/ Extend(a, g)

AccessSpec == AccessInit /\ [][AccessNext]_accessVars
=============================================================================
