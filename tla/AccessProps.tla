---------------------------- MODULE AccessProps ----------------------------
(***************************************************************************)
(* What administrators are promised of access.                             *)
(***************************************************************************)
EXTENDS Access

\* An administrator changes only what he has seen: between the page that he loaded and
\* his change nobody else has changed the grant or the switch, and a change does what it
\* says. A revocation opens nothing, not even through a weaker source, and an extension to
\* a date that is still to come closes nothing. One whose date has passed while it waited
\* for the row does (extend_entitlement, revoke_entitlement, update_platform_setting,
\* resolve_access).
ChangesAreInformed ==
    [][\A a \in Admins :
         /\ \A k \in Grants \cup {Switch} :
              /\ page[a].pc = "locked" /\ page[a].of = k /\ page'[a].pc = "none"
              /\ VersionOf(k)' # VersionOf(k)
              => VersionOf(k) = page[a].version
         /\ \A g \in Grants :
              /\ Revoke(a, g) => \A x \in Resources : Allowed(x)' => Allowed(x)
              /\ Extend(a, g) /\ page[a].until > now =>
                   \A x \in Resources : Allowed(x) => Allowed(x)'
      ]_accessVars
=============================================================================
