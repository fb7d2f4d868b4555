------------------------------ MODULE Commerce ------------------------------
(***************************************************************************)
(* The authoritative commerce back end: transaction verification, restore, *)
(* provider webhooks, reconciliation, cancellation and plan changes        *)
(* (app/commerce_services.py and the commerce routes of app/api.py).       *)
(*                                                                         *)
(* One request is one database transaction at READ COMMITTED. Verification *)
(* and restore call the provider in the middle of theirs, so they are run  *)
(* step by step and stage what they will write; the handlers that do not   *)
(* leave the database are one action, which the row locks they take        *)
(* justify. A request that is refused or replayed changes no table and is  *)
(* no action.                                                              *)
(***************************************************************************)
EXTENDS PaymentProvider

CONSTANTS
    Requests,      \* request slots: the requests the server runs at a time
    Calls,         \* the verify and restore calls that clients make
    Keys, NoKey,   \* values of the Idempotency-Key header, and its absence
    Coupons, NoCoupon,
    MaxRedemptions,\* Coupon.max_redemptions, by coupon
    ManagedLocally,\* TRUE iff the provider is the development mock, the only
                   \* one whose subscriptions may be changed from here
    Switchable     \* bound: whether administrators ever close purchases

Call == [kind: {"verify", "restore"}, learner: Learners, txs: SUBSET Txs,
         key: Keys \cup {NoKey}, coupon: Coupons \cup {NoCoupon}]

ASSUME CommerceAssumption ==
    /\ Calls \subseteq Call /\ Calls # {}
    /\ NoKey \notin Keys
    /\ NoCoupon \notin Coupons
    /\ \A c \in Calls :
          IF c.kind = "verify" THEN \E t \in Txs : c.txs = {t}
                               ELSE c.key = NoKey /\ c.coupon = NoCoupon
    /\ MaxRedemptions \in [Coupons -> Nat]
    /\ ManagedLocally \in BOOLEAN
    /\ Switchable \in BOOLEAN

VARIABLES
    payment,   \* payment_transactions: status and owner of each transaction
    purchase,  \* purchases, by the transaction that paid
    sub,       \* subscriptions, by original_transaction_id
    ent,       \* entitlements, by the transaction that granted them; the rows
               \* of one bundle are granted and revoked together
    redeemed,  \* coupon_redemptions: <<coupon, learner>>
    idem,      \* idempotency_records that were committed with a response
    recorded,  \* provider_events: the event ids on record
    applied,   \* the subscription or purchase each event was applied to; empty
               \* for an event recorded as ignored
    open,      \* purchases_enabled and no emergency_commerce_kill_switch
    req        \* the requests in flight

tables == <<payment, purchase, sub, ent, redeemed, idem>>
audit == <<recorded, applied>>
vars == <<clock, providerVars, tables, audit, open, req>>

SubStatus == {"none", "active", "trialing", "inGracePeriod", "billingRetry",
              "expired", "revoked"}
EntStatus == {"none", "active", "gracePeriod", "expired", "revoked"}

\* The statuses reconciliation looks at, and the active-subscription route.
LiveSub == {"active", "trialing", "inGracePeriod", "billingRetry"}

Phase == {"idle", "keying", "locking", "checking", "redeeming", "committing"}

\* ok, bad and until are the rows staged in the open transaction: verified
\* and rejected provider transactions, and the verified period ends.
Request == [pc: Phase, call: Calls, todo: SUBSET Txs, cur: Txs, ok: SUBSET Txs,
            bad: SUBSET Txs, until: [Txs -> Expiry], redeem: BOOLEAN,
            admitted: BOOLEAN]

\* One type invariant for the tables and the requests in flight.
TypeOK ==
    /\ ProviderTypeOK
    /\ payment \in [Txs -> [status: {"none", "failed", "success"}, owner: SUBSET Learners]]
    /\ purchase \in [Txs -> {"none", "completed", "refunded"}]
    /\ sub \in [Txs -> [status: SubStatus, end: Expiry, asOf: 0..MaxTime, cancel: BOOLEAN]]
    /\ ent \in [Txs -> [status: EntStatus, expires: Expiry]]
    /\ redeemed \subseteq (Coupons \cup {NoCoupon}) \X Learners
    /\ idem \subseteq [call: Calls, verified: BOOLEAN]
    /\ recorded \subseteq EventIds
    /\ applied \in [EventIds -> SUBSET Txs]
    /\ open \in BOOLEAN
    /\ req \in [Requests -> Request]

NoSub == [status |-> "none", end |-> 0, asOf |-> 0, cancel |-> FALSE]
NoEnt == [status |-> "none", expires |-> 0]

Idle == [pc |-> "idle", call |-> CHOOSE c \in Calls : TRUE, todo |-> {},
         cur |-> CHOOSE t \in Txs : TRUE, ok |-> {}, bad |-> {},
         until |-> [t \in Txs |-> 0], redeem |-> FALSE, admitted |-> FALSE]

Init ==
    /\ ProviderInit
    /\ payment = [t \in Txs |-> [status |-> "none", owner |-> {}]]
    /\ purchase = [t \in Txs |-> "none"]
    /\ sub = [t \in Txs |-> NoSub]
    /\ ent = [t \in Txs |-> NoEnt]
    /\ redeemed = {}
    /\ idem = {}
    /\ recorded = {}
    /\ applied = [i \in EventIds |-> {}]
    /\ open = TRUE
    /\ req = [r \in Requests |-> Idle]

----------------------------------------------------------------------------
(* Locks. Every one is held to the end of the database transaction.        *)

\* The uncommitted idempotency record of another request with the same key.
HoldsKey(q, c) ==
    /\ req[q].pc \notin {"idle", "keying"}
    /\ req[q].call.key = c.key
    /\ req[q].call.learner = c.learner

\* Mutant: a session-level lock, which nothing releases.
HoldsTxForEver(q, t) ==
    /\ t \in req[q].call.txs \ req[q].todo
    /\ ~(req[q].pc = "locking" /\ req[q].cur = t)

\* pg_advisory_xact_lock('commerce:<provider>:<transaction>').
HoldsTx(q, t) ==
    /\ req[q].pc # "idle"
    /\ t \in req[q].call.txs \ req[q].todo
    /\ ~(req[q].pc = "locking" /\ req[q].cur = t)

\* Mutant: the coupon is locked when the request begins, before its transaction.
HoldsCouponEarly(q, c) ==
    /\ req[q].pc \notin {"idle", "keying"}
    /\ req[q].call.coupon = c

\* The coupon row, SELECTed FOR UPDATE.
HoldsCoupon(q, c) ==
    /\ req[q].pc = "committing"
    /\ req[q].call.coupon = c
    /\ req[q].ok # {}

KeyFree(r) == \A q \in Requests \ {r} : ~HoldsKey(q, req[r].call)
\* Mutant: no advisory lock.
TxFreeAlways(r) == req[r].pc = "locking"
TxFree(r) == \A q \in Requests \ {r} : ~HoldsTx(q, req[r].cur)
\* Mutant: a plain SELECT, without FOR UPDATE.
CouponFreeAlways(r) == req[r].pc = "redeeming"
CouponFree(r) == \A q \in Requests \ {r} : ~HoldsCoupon(q, req[r].call.coupon)

WaitsFor(r, q) ==
    /\ r # q
    /\ \/ req[r].pc = "keying" /\ HoldsKey(q, req[r].call)
       \/ req[r].pc = "locking" /\ HoldsTx(q, req[r].cur)
       \/ req[r].pc = "redeeming" /\ HoldsCoupon(q, req[r].call.coupon)

\* Requests that wait for one another: PostgreSQL's deadlock detector ends it.
Deadlocked(S) == S # {} /\ \A r \in S : \E q \in S : WaitsFor(r, q)

----------------------------------------------------------------------------
(* POST /commerce/transactions/verify and POST /commerce/restore           *)

\* The session is closed without a commit.
Rollback(r) ==
    /\ req' = [req EXCEPT ![r] = Idle]
    /\ UNCHANGED <<clock, providerVars, tables, audit, open>>

\* The request goes on to one of the transactions left, in the client's
\* order, or to its commit.
Proceed(q) ==
    IF q.todo = {}
    THEN {[q EXCEPT !.pc = "committing"]}
    ELSE {[q EXCEPT !.pc = "locking", !.cur = t, !.todo = @ \ {t}] : t \in q.todo}

\* Mutant: the coupon is redeemed whatever the provider says.
BegunRedeeming(c) == [Idle EXCEPT !.call = c, !.todo = c.txs, !.admitted = open,
                                  !.redeem = c.coupon # NoCoupon]

Begun(c) == [Idle EXCEPT !.call = c, !.todo = c.txs, !.admitted = open]

\* The key is on record with its response: a retry replays it, and another
\* payload under the same key is a 409.
KeyRecorded(c) == \E i \in idem : i.call.learner = c.learner /\ i.call.key = c.key

StartVerify(r, c) ==
    /\ req[r].pc = "idle"
    /\ c.kind = "verify"
    /\ open
    /\ IF c.key = NoKey
       THEN \E q \in Proceed(Begun(c)) : req' = [req EXCEPT ![r] = q]
       ELSE /\ ~KeyRecorded(c)
            /\ req' = [req EXCEPT ![r] = [Begun(c) EXCEPT !.pc = "keying"]]
    /\ UNCHANGED <<clock, providerVars, tables, audit, open>>

\* The INSERT waits for a duplicate in flight; if that one committed, the
\* unique index refuses this one (409 IDEMPOTENCY_IN_PROGRESS).
InsertKey(r) ==
    /\ req[r].pc = "keying"
    /\ KeyFree(r)
    /\ IF KeyRecorded(req[r].call)
       THEN req' = [req EXCEPT ![r] = Idle]
       ELSE \E q \in Proceed(req[r]) : req' = [req EXCEPT ![r] = q]
    /\ UNCHANGED <<clock, providerVars, tables, audit, open>>

\* Restore consults neither the purchase flags nor an idempotency key.
StartRestore(r, c) ==
    /\ req[r].pc = "idle"
    /\ c.kind = "restore"
    /\ \E q \in Proceed(Begun(c)) : req' = [req EXCEPT ![r] = q]
    /\ UNCHANGED <<clock, providerVars, tables, audit, open>>

\* Mutant: a payment on record answers to whoever sends its identifier.
OwnsForAnyone(q, t) == payment[t].status # "none"

Owns(q, t) == q.call.learner \in payment[t].owner

\* With the transaction's lock held, a payment on record answers by itself; the
\* provider is asked only about one that is not. Another learner's payment
\* is a 409 that rolls the whole request back.
LockTx(r) ==
    LET t == req[r].cur
        q == req[r]
    IN  /\ q.pc = "locking"
        /\ TxFree(r)
        /\ IF payment[t].status = "none"
           THEN req' = [req EXCEPT ![r] = [q EXCEPT !.pc = "checking"]]
           ELSE IF Owns(q, t)
                THEN \E p \in Proceed(q) : req' = [req EXCEPT ![r] = p]
                ELSE req' = [req EXCEPT ![r] = Idle]
        /\ UNCHANGED <<clock, providerVars, tables, audit, open>>

\* Mutant: a payment that is not settled yet is taken for one.
VouchedForUnsettled(t) == charge[t] # "refunded"

Vouched(t) == charge[t] \notin {"unpaid", "refunded"}

\* The provider vouches for the transaction and for the account it is bound to.
CheckVerified(r) ==
    LET t == req[r].cur
        q == [req[r] EXCEPT !.ok = @ \cup {t}, !.until[t] = paidUntil[t]]
    IN  /\ req[r].pc = "checking"
        /\ Vouched(t)
        /\ req[r].call.learner \in Accounts[t]
        /\ IF req[r].call.coupon = NoCoupon
           THEN \E p \in Proceed(q) : req' = [req EXCEPT ![r] = p]
           ELSE req' = [req EXCEPT ![r] = [q EXCEPT !.pc = "redeeming"]]
        /\ UNCHANGED <<clock, providerVars, tables, audit, open>>

\* The provider reports a payment that is not settled, not active or revoked:
\* a failed payment is recorded.
CheckRejected(r) ==
    LET t == req[r].cur
    IN  /\ req[r].pc = "checking"
        /\ charge[t] \in {"unpaid", "retry", "lapsed", "refunded"}
        /\ \E p \in Proceed([req[r] EXCEPT !.bad = @ \cup {t}]) : req' = [req EXCEPT ![r] = p]
        /\ UNCHANGED <<clock, providerVars, tables, audit, open>>

\* The transaction is bound to another account (403).
AccountMismatch(r) ==
    /\ req[r].pc = "checking"
    /\ req[r].call.learner \notin Accounts[req[r].cur]
    /\ Rollback(r)

\* A coupon that is not valid any more is left out; the payment stands.
CouponValid(c) == Cardinality({x \in redeemed : x[1] = c}) < MaxRedemptions[c]

RedeemCoupon(r) ==
    /\ req[r].pc = "redeeming"
    /\ CouponFree(r)
    /\ \E p \in Proceed([req[r] EXCEPT !.redeem = CouponValid(req[r].call.coupon)]) :
          req' = [req EXCEPT ![r] = p]
    /\ UNCHANGED <<clock, providerVars, tables, audit, open>>

\* The unique indexes on (provider, transaction) and on (coupon, learner).
UniqueViolation(q) ==
    \/ \E t \in q.ok \cup q.bad : payment[t].status # "none"
    \/ q.redeem /\ <<q.call.coupon, q.call.learner>> \in redeemed

\* What a verified transaction is turned into.
GrantedSub(q, t) == [status |-> IF t \in Trials THEN "trialing" ELSE "active",
                     end |-> q.until[t], asOf |-> 0, cancel |-> FALSE]

\* Mutant: the entitlement copies the subscription's status.
GrantedEntCopied(q, t) == [status |-> GrantedSub(q, t).status, expires |-> q.until[t]]

GrantedEnt(q, t) == [status |-> "active",
                     expires |-> IF t \in Plans THEN q.until[t] ELSE Never]

\* Mutant: a replay turns a failed payment into a successful one.
JournalForgives(q) == [t \in Txs |->
    IF t \in q.call.txs \ q.bad THEN [status |-> "success", owner |-> {q.call.learner}]
    ELSE IF t \in q.bad THEN [status |-> "failed", owner |-> {q.call.learner}]
    ELSE payment[t]]

\* The payments with those of the request added.
Journal(q) == [t \in Txs |->
    IF t \in q.ok THEN [status |-> "success", owner |-> {q.call.learner}]
    ELSE IF t \in q.bad THEN [status |-> "failed", owner |-> {q.call.learner}]
    ELSE payment[t]]

Commit(r) ==
    LET q == req[r]
    IN  /\ q.pc = "committing"
        /\ ~UniqueViolation(q)
        /\ payment' = Journal(q)
        /\ sub' = [t \in Txs |-> IF t \in q.ok \cap Plans THEN GrantedSub(q, t) ELSE sub[t]]
        /\ purchase' = [t \in Txs |-> IF t \in q.ok \ Plans THEN "completed" ELSE purchase[t]]
        /\ ent' = [t \in Txs |-> IF t \in q.ok THEN GrantedEnt(q, t) ELSE ent[t]]
        /\ redeemed' = IF q.redeem THEN redeemed \cup {<<q.call.coupon, q.call.learner>>}
                                   ELSE redeemed
        /\ idem' = IF q.call.key = NoKey THEN idem
                   ELSE idem \cup {[call |-> q.call, verified |->
                            \A t \in q.call.txs : t \in q.ok \/ payment[t].status = "success"]}
        /\ req' = [req EXCEPT ![r] = Idle]
        /\ UNCHANGED <<clock, providerVars, audit, open>>

\* A violated unique index fails the flush (HTTP 500).
ConstraintError(r) == req[r].pc = "committing" /\ UniqueViolation(req[r]) /\ Rollback(r)

\* Anything else that ends the request early: the provider is unavailable, the
\* product is not mapped or not active, a lock wait exceeds the statement
\* timeout, the process dies.
Fail(r) == req[r].pc # "idle" /\ Rollback(r)

\* The database ends a deadlock by failing one of the requests in it.
AbortDeadlock(r) ==
    /\ \E S \in SUBSET Requests : r \in S /\ Deadlocked(S)
    /\ Rollback(r)

----------------------------------------------------------------------------
(* POST /commerce/webhooks/{provider}                                      *)

\* The subscription rows an event identifies, and the purchase rows it finds
\* when there is no such subscription.
SubsOf(e) == {s \in e.ids : sub[s].status # "none"}
PurchasesOf(e) == {t \in e.ids : purchase[t] # "none"}

\* Mutant: the event is compared with the time it is processed at.
OutOfOrderByReceipt(e, s) == sub[s].asOf # 0 /\ clock < e.at

OutOfOrder(e, s) == sub[s].asOf # 0 /\ e.at < sub[s].asOf

SubEffect(e, old) ==
    CASE e.type = "RENEWAL"       -> [old EXCEPT !.status = "active", !.end = e.exp]
      [] e.type = "EXPIRATION"    -> [old EXCEPT !.status = "expired"]
      [] e.type = "GRACE_PERIOD"  -> [old EXCEPT !.status = "inGracePeriod"]
      [] e.type = "BILLING_RETRY" -> [old EXCEPT !.status = "billingRetry"]
      [] e.type = "CANCELLATION"  -> [old EXCEPT !.cancel = TRUE]
      [] e.type = "REFUND"        -> [old EXCEPT !.status = "revoked"]

\* Mutants: a renewal that does not extend the entitlement, and a grace period
\* under the subscription's name for it.
EntEffectNotExtended(e, old) ==
    CASE e.type = "RENEWAL"      -> [old EXCEPT !.status = "active"]
      [] e.type = "EXPIRATION"   -> [old EXCEPT !.status = "expired"]
      [] e.type = "GRACE_PERIOD" -> [old EXCEPT !.status = "gracePeriod"]
      [] e.type = "REFUND"       -> [old EXCEPT !.status = "revoked"]
      [] OTHER                   -> old

EntEffectMisnamed(e, old) ==
    IF e.type = "GRACE_PERIOD" THEN [old EXCEPT !.status = "inGracePeriod"] ELSE old

EntEffect(e, old) ==
    CASE e.type = "RENEWAL"      -> [status |-> "active", expires |-> e.exp]
      [] e.type = "EXPIRATION"   -> [old EXCEPT !.status = "expired"]
      [] e.type = "GRACE_PERIOD" -> [old EXCEPT !.status = "gracePeriod"]
      [] e.type = "REFUND"       -> [old EXCEPT !.status = "revoked"]
      [] OTHER                   -> old

\* The event is delivered for the first time: a duplicate changes nothing.
Record(i) ==
    /\ i \in EventIds
    /\ i <= Len(feed)
    /\ i \notin recorded
    /\ recorded' = recorded \cup {i}

ApplyToSub(i) ==
    LET e == feed[i]
    IN  /\ Record(i)
        /\ \E s \in Txs :
              /\ SubsOf(e) = {s}
              /\ ~OutOfOrder(e, s)
              /\ sub' = [sub EXCEPT ![s] = SubEffect(e, [@ EXCEPT !.asOf = e.at])]
              /\ ent' = [ent EXCEPT ![s] = EntEffect(e, @)]
              /\ applied' = [applied EXCEPT ![i] = {s}]
        /\ UNCHANGED <<clock, providerVars, payment, purchase, redeemed, idem, open, req>>

\* Two subscriptions are a 409 that records nothing; one that has seen a later
\* event records this one as ignored.
IgnoreStale(i) ==
    LET e == feed[i]
    IN  /\ Record(i)
        /\ \E s \in Txs : SubsOf(e) = {s} /\ OutOfOrder(e, s)
        /\ UNCHANGED <<clock, providerVars, tables, applied, open, req>>

\* Mutant: the refund leaves the entitlements of the purchase alone.
RefundPurchaseOnly(i) ==
    /\ Record(i)
    /\ SubsOf(feed[i]) = {} /\ feed[i].type = "REFUND"
    /\ \E t \in PurchasesOf(feed[i]) :
          /\ purchase' = [purchase EXCEPT ![t] = "refunded"]
          /\ applied' = [applied EXCEPT ![i] = {t}]
    /\ UNCHANGED <<clock, providerVars, payment, sub, ent, redeemed, idem, open, req>>

RefundPurchase(i) ==
    LET e == feed[i]
    IN  /\ Record(i)
        /\ SubsOf(e) = {}
        /\ e.type = "REFUND"
        /\ \E t \in PurchasesOf(e) :
              /\ purchase' = [purchase EXCEPT ![t] = "refunded"]
              /\ ent' = [ent EXCEPT ![t].status = "revoked"]
              /\ applied' = [applied EXCEPT ![i] = {t}]
        /\ UNCHANGED <<clock, providerVars, payment, sub, redeemed, idem, open, req>>

\* Nothing the event is about is on record yet, or nothing it could change.
IgnoreUnmatched(i) ==
    LET e == feed[i]
    IN  /\ Record(i)
        /\ SubsOf(e) = {}
        /\ e.type # "REFUND" \/ PurchasesOf(e) = {}
        /\ UNCHANGED <<clock, providerVars, tables, applied, open, req>>

Webhook(i) == ApplyToSub(i) \/ IgnoreStale(i) \/ RefundPurchase(i) \/ IgnoreUnmatched(i)

----------------------------------------------------------------------------
(* The other handlers that write these tables.                             *)

\* POST /admin/commerce/reconcile expires, in one transaction, every live
\* subscription whose period is over, with its entitlements.
Due == {s \in Txs : sub[s].status \in LiveSub /\ sub[s].end <= clock}

Reconcile ==
    /\ Due # {}
    /\ sub' = [s \in Txs |-> IF s \in Due THEN [sub[s] EXCEPT !.status = "expired"] ELSE sub[s]]
    /\ ent' = [s \in Txs |-> IF s \in Due THEN [ent[s] EXCEPT !.status = "expired"] ELSE ent[s]]
    /\ UNCHANGED <<clock, providerVars, payment, purchase, redeemed, idem, audit, open, req>>

CancelSubscription(s) ==
    /\ ManagedLocally
    /\ sub[s].status # "none"
    /\ sub' = [sub EXCEPT ![s].cancel = TRUE]
    /\ UNCHANGED <<clock, providerVars, payment, purchase, ent, redeemed, idem, audit, open, req>>

\* The period starts over whatever the status; only an entitlement that is
\* active, not one in its grace period, follows.
ChangePlan(s) ==
    /\ ManagedLocally
    /\ sub[s].status # "none"
    /\ sub' = [sub EXCEPT ![s] = [@ EXCEPT !.end = clock + Period, !.cancel = FALSE]]
    /\ ent' = [ent EXCEPT ![s].expires = IF ent[s].status = "active" THEN clock + Period ELSE @]
    /\ UNCHANGED <<clock, providerVars, payment, purchase, redeemed, idem, audit, open, req>>

\* An administrator turns purchases off or on (PUT /admin/super/settings/{key}).
SetPurchasesOpen ==
    /\ Switchable
    /\ open' = ~open
    /\ UNCHANGED <<clock, providerVars, tables, audit, req>>

----------------------------------------------------------------------------
RequestStep(r) ==
    \/ InsertKey(r) \/ LockTx(r)
    \/ CheckVerified(r) \/ CheckRejected(r) \/ AccountMismatch(r)
    \/ RedeemCoupon(r) \/ Commit(r) \/ ConstraintError(r) \/ AbortDeadlock(r)

ClientNext ==
    \E r \in Requests :
        \/ RequestStep(r)
        \/ Fail(r)
        \/ \E c \in Calls : StartVerify(r, c) \/ StartRestore(r, c)

BackendNext ==
    \/ \E i \in EventIds : Webhook(i)
    \/ Reconcile
    \/ \E s \in Txs : CancelSubscription(s) \/ ChangePlan(s)
    \/ SetPurchasesOpen

World == (ProviderNext \/ Tick) /\ UNCHANGED <<tables, audit, open, req>>

Next == ClientNext \/ BackendNext \/ World

Spec == Init /\ [][Next]_vars

\* The event loop resumes a coroutine whose query or provider call has returned,
\* and PostgreSQL grants a lock to its waiters in turn.
FairSpec == Spec /\ \A r \in Requests : SF_vars(RequestStep(r))
=============================================================================
