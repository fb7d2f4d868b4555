---------------------------- MODULE LimiterProps ----------------------------
(***************************************************************************)
(* What the limit on attempts promises.                                    *)
(***************************************************************************)
EXTENDS RateLimiter

\* In no window's length is an identity admitted more than twice the limit less one by
\* Redis, or by a process that decides alone: however often Redis fails and comes back,
\* counts what nobody sees answered, or a table is full, a failure gives no fresh
\* allowance and nobody who is being counted is forgotten (enforce,
\* LocalRateLimiter.consume).
AdmissionsAreBounded ==
    \A m \in Processes \cup {Shared}, from \in 0 .. clock :
        MapThenSumSet(LAMBDA t : admitted[m][t],
                      {t \in 0 .. MaxClock : from <= t /\ t < from + Window}) <= 2 * Limit - 1

\* After a failure one call at most of a process asks Redis, and the mark that another does
\* is set exactly while there is one: it cannot stay and keep the process from Redis for
\* good (enforce).
OneProbe ==
    \A p \in Processes :
        LET probes == {c \in Calls : call[c].process = p /\ call[c].probe}
        IN  Cardinality(probes) = IF probing[p] THEN 1 ELSE 0
=============================================================================
