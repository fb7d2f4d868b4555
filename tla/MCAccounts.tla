----------------------------- MODULE MCAccounts -----------------------------
(***************************************************************************)
(* A founder and an account that registers, two requests at a time; and    *)
(* the limit that a request to sign in, to register or to reset a password *)
(* passes before it reaches an account. The limiter and the accounts share *)
(* no state, and a behaviour of one has no influence on the invariants of  *)
(* the other: one of them is explored at a time.                           *)
(*                                                                         *)
(* A behaviour of the accounts makes some of the requests only: most that  *)
(* learners make, those around a suspension, or all of them with a code    *)
(* and a session less. Sessions are issued with any key that is free, so   *)
(* that the order of keys is any.                                          *)
(***************************************************************************)
EXTENDS AccountProps, LimiterProps, TLC

VARIABLE part       \* the part that this behaviour is of

accountVars == <<vars, limiterVars, part>>

KindsOf == [learners |-> {"register", "login", "refresh", "reset", "change", "logout"},
            suspension |-> {"register", "login", "refresh", "suspend", "reactivate"},
            administrators |-> AllKinds]

MostSessions == [learners |-> Cardinality(Tokens), suspension |-> Cardinality(Tokens),
                 administrators |-> Cardinality(Founders) + 1]

AccountInit ==
    /\ Init /\ LimiterInit
    /\ part \in DOMAIN KindsOf \cup {"limiter"}
    /\ \A i \in Identities : i # Watched \/ part # "limiter" => shared[i] = NoCounter
    /\ part # "limiter" => required

InScope ==
    /\ \A r \in Requests : req[r].kind \in KindsOf[part] \cup {"none"}
    /\ \A t \in Tokens : session[t].user # Nobody => t <= MostSessions[part]
    /\ part # "learners" =>
         \A c \in Codes \ {CHOOSE one \in Codes : TRUE} : code[c].user = Nobody

AccountNext ==
    \/ part # "limiter" /\ Next /\ UNCHANGED <<limiterVars, part>> /\ InScope'
    \/ part = "limiter" /\ LimiterNext /\ UNCHANGED <<vars, part>>

AccountSpec == AccountInit /\ [][AccountNext]_accountVars

\* Every variable has its type: a live session has a user, and the table of a process
\* never holds more counters than its capacity.
AccountTypeOK == TypeOK /\ LimiterTypeOK

\* Calls of the limiter take the slots of requests.
Interchangeable == Permutations(Requests)
=============================================================================
