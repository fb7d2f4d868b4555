---------------------------- MODULE RateLimiter ----------------------------
(***************************************************************************)
(* The limit on what one identity may attempt (app/rate_limit.py): login,  *)
(* registration, password reset, the start of an assessment. Redis counts  *)
(* for all processes of the back end; a process that is configured to do   *)
(* without counts for itself as well, and decides alone when Redis fails.  *)
(*                                                                         *)
(* One policy. What runs between two awaits is one step: nothing awaits    *)
(* under the lock of the local table, so that enforce is one step until it *)
(* asks Redis. Redis may count a call whose answer is never seen. The heap *)
(* of expirations is an index of the local table and is left out, as is    *)
(* logging. A window is a whole number of ticks.                           *)
(***************************************************************************)
EXTENDS Naturals, FiniteSets, FiniteSetsExt

CONSTANTS
    Processes,      \* processes of the back end
    Identities,     \* accounts and addresses
    Watched,        \* the one whose admissions are recorded
    Calls,          \* slots of calls in flight
    Limit, Window,  \* the policy
    Cooldown,       \* time without Redis after a failure
    MaxEntries,     \* capacity of a local table
    Shared,         \* Redis, where it decides
    MaxClock        \* bound on the time

ASSUME RateLimiterAssumption ==
    /\ Limit \in Nat \ {0} /\ Window \in Nat \ {0} /\ Cooldown \in Nat /\ MaxEntries \in Nat
    /\ MaxClock \in Nat \ {0} /\ Shared \notin Processes /\ Watched \in Identities
    /\ IsFiniteSet(Identities) /\ IsFiniteSet(Calls)

VARIABLES
    required,   \* whether the processes are configured to do nothing without Redis
    clock,
    shared,     \* the counters in Redis
    local,      \* the counters of each process
    retryAt,    \* when a process may ask Redis again after a failure; 0 if there was none
    probing,    \* whether a process is asking Redis for the first time after a failure
    call,       \* the calls of Redis in flight
    admitted    \* how many of Watched's requests that were counted at a tick were admitted, by whom

limiterVars == <<required, clock, shared, local, retryAt, probing, call, admitted>>

Never == MaxClock + Window + 1

\* A counter stops above the limit (in Redis, a bound of the model).
Counter == [count: 0 .. Limit + 1, expiry: 0 .. Never]

Call == [process: Processes \cup {Shared}, who: Identities, probe: BOOLEAN,
         alone: 0 .. Limit + 1, at: 0 .. MaxClock,          \* counted by the process
         count: 0 .. Limit + 1, counted: 0 .. MaxClock]     \* counted by Redis, or 0

Free(c) == call[c].process = Shared

NoCall == [process |-> Shared, who |-> Watched, probe |-> FALSE,
           alone |-> 0, at |-> 0, count |-> 0, counted |-> 0]

LimiterTypeOK ==
    /\ required \in BOOLEAN
    /\ clock \in 0 .. MaxClock
    /\ shared \in [Identities -> Counter]
    /\ local \in [Processes -> [Identities -> Counter]]
    /\ retryAt \in [Processes -> 0 .. MaxClock + Cooldown]
    /\ probing \in [Processes -> BOOLEAN]
    /\ call \in [Calls -> Call]
    /\ admitted \in [Processes \cup {Shared} -> [0 .. MaxClock -> Nat]]
    /\ \A p \in Processes : Cardinality({i \in Identities : local[p][i].expiry > clock}) <= MaxEntries

NoCounter == [count |-> 0, expiry |-> 0]

\* Redis may hold counters without an expiry.
LimiterInit ==
    /\ required \in BOOLEAN
    /\ clock = 1
    /\ shared \in [Identities -> {NoCounter, [count |-> 1, expiry |-> Never]}]
    /\ local = [p \in Processes |-> [i \in Identities |-> NoCounter]]
    /\ retryAt = [p \in Processes |-> 0] /\ probing = [p \in Processes |-> FALSE]
    /\ call = [c \in Calls |-> NoCall]
    /\ admitted = [m \in Processes \cup {Shared} |-> [t \in 0 .. MaxClock |-> 0]]

Tick ==
    /\ clock < MaxClock
    /\ clock' = clock + 1
    /\ UNCHANGED <<required, shared, local, retryAt, probing, call, admitted>>

----------------------------------------------------------------------------
(* Counting                                                                *)

OneMore(n) == IF n > Limit THEN n ELSE n + 1

\* Mutant: a counter expires a tick early.
ActiveBriefly(p) ==
    [i \in Identities |-> IF local[p][i].expiry > clock + 1 THEN local[p][i] ELSE NoCounter]

\* What is left of the table of a process when those that have expired are removed.
Active(p) == [i \in Identities |-> IF local[p][i].expiry > clock THEN local[p][i] ELSE NoCounter]

Full(p, i) ==
    /\ Active(p)[i] = NoCounter
    /\ Cardinality({j \in Identities : Active(p)[j] # NoCounter}) >= MaxEntries

\* LocalRateLimiter.consume: the table with one more request; a full one is left alone.
Charged(p, i) ==
    IF Full(p, i) THEN Active(p)
    ELSE [Active(p) EXCEPT ![i] = [count |-> OneMore(@.count),
                                   expiry |-> IF @ = NoCounter THEN clock + Window ELSE @.expiry]]

\* A new identity at a full table is refused.
CountOf(p, i) == IF Full(p, i) THEN Limit + 1 ELSE Charged(p, i)[i].count

\* RATE_LIMIT_SCRIPT: a counter that has no expiry, a new one among them, is given one.
Incremented(i) ==
    LET old == IF shared[i].expiry > clock THEN shared[i] ELSE NoCounter
    IN  [count |-> OneMore(old.count),
         expiry |-> IF old = NoCounter \/ old.expiry = Never THEN clock + Window ELSE old.expiry]

\* The request passes if its number is within the limit.
Decide(m, i, n, t) ==
    admitted' = IF i = Watched /\ n <= Limit THEN [admitted EXCEPT ![m][t] = @ + 1] ELSE admitted

----------------------------------------------------------------------------
(* enforce                                                                 *)

Degraded(p) == ~required /\ retryAt[p] > 0 /\ (clock < retryAt[p] \/ probing[p])

\* The process does not ask Redis.
EnforceAlone(p, i) ==
    /\ Degraded(p)
    /\ local' = [local EXCEPT ![p] = Charged(p, i)]
    /\ Decide(p, i, CountOf(p, i), clock)
    /\ UNCHANGED <<required, clock, shared, retryAt, probing, call>>

\* It asks, and is the only one to ask after a failure.
Enforce(c, p, i) ==
    /\ Free(c) /\ ~Degraded(p)
    /\ LET alone == ~required
           probe == alone /\ retryAt[p] > 0
       IN  /\ local' = IF alone THEN [local EXCEPT ![p] = Charged(p, i)] ELSE local
           /\ probing' = [probing EXCEPT ![p] = @ \/ probe]
           /\ call' = [call EXCEPT ![c] =
                [NoCall EXCEPT !.process = p, !.who = i, !.probe = probe, !.at = clock,
                               !.alone = IF alone THEN CountOf(p, i) ELSE 0]]
    /\ UNCHANGED <<required, clock, shared, retryAt, admitted>>

\* Redis runs the script.
Count(c) ==
    LET i == call[c].who
    IN  /\ ~Free(c) /\ call[c].count = 0
        /\ shared' = [shared EXCEPT ![i] = Incremented(i)]
        /\ call' = [call EXCEPT ![c].count = Incremented(i).count, ![c].counted = clock]
        /\ UNCHANGED <<required, clock, local, retryAt, probing, admitted>>

\* Mutant: whoever comes back ends the probe.
ReleaseAll(c) ==
    /\ probing' = [probing EXCEPT ![call[c].process] = FALSE]
    /\ call' = [call EXCEPT ![c] = NoCall]

\* The call is over; if it was the probe, another may follow.
Release(c) ==
    /\ probing' = [probing EXCEPT ![call[c].process] = @ /\ ~call[c].probe]
    /\ call' = [call EXCEPT ![c] = NoCall]

Answer(c) ==
    LET q == call[c]
    IN  /\ ~Free(c) /\ q.count > 0
        /\ retryAt' = [retryAt EXCEPT ![q.process] = 0]
        /\ Decide(Shared, q.who, q.count, q.counted)
        /\ Release(c)
        /\ UNCHANGED <<required, clock, shared, local>>

\* Redis fails or does not answer in time, whether or not it has counted. Where it is
\* required, the request is refused, or passes uncounted where the policy fails open.
FailCall(c) ==
    LET q == call[c]
    IN  /\ ~Free(c)
        /\ IF required THEN UNCHANGED <<retryAt, admitted>>
           ELSE /\ retryAt' = [retryAt EXCEPT ![q.process] = clock + Cooldown]
                /\ Decide(q.process, q.who, q.alone, q.at)
        /\ Release(c)
        /\ UNCHANGED <<required, clock, shared, local>>

\* The client disconnects and the request is cancelled.
Disconnect(c) ==
    /\ ~Free(c)
    /\ Release(c)
    /\ UNCHANGED <<required, clock, shared, local, retryAt, admitted>>

----------------------------------------------------------------------------
LimiterNext ==
    \/ Tick
    \/ \E p \in Processes, i \in Identities :
         EnforceAlone(p, i) \/ \E c \in Calls : Enforce(c, p, i)
    \/ \E c \in Calls : Count(c) \/ Answer(c) \/ FailCall(c) \/ Disconnect(c)

LimiterSpec == LimiterInit /\ [][LimiterNext]_limiterVars
=============================================================================
