--------------------------- MODULE CommerceProofs ---------------------------
(***************************************************************************)
(* Proofs about the commerce back end, for any number of learners,         *)
(* transactions, coupons, concurrent requests and notifications.           *)
(***************************************************************************)
EXTENDS CommerceProps, TLAPS

\* Constant-level facts about requests.
LEMMA IdleType == Idle \in Request /\ Idle.pc = "idle" /\ Idle.ok = {} /\ Idle.bad = {}
<1>1. (CHOOSE c \in Calls : TRUE) \in Calls
  BY CommerceAssumption
<1>2. (CHOOSE t \in Txs : TRUE) \in Txs
  BY ProviderAssumption
<1>3. 0 \in Expiry
  BY ProviderAssumption DEF Expiry, Never
<1>4. QED
  BY <1>1, <1>2, <1>3 DEF Idle, Request, Phase

\* What a request works on next is well formed.
LEMMA ProceedType ==
  ASSUME NEW q \in Request, NEW p \in Proceed(q)
  PROVE  /\ p \in Request
         /\ p.pc \in {"committing", "locking"}
         /\ p.call = q.call /\ p.ok = q.ok /\ p.bad = q.bad /\ p.redeem = q.redeem
         /\ p.until = q.until
<1>1. CASE q.todo = {}
  <2>1. p = [q EXCEPT !.pc = "committing"]
    BY <1>1 DEF Proceed
  <2>2. QED
    BY <2>1 DEF Request, Phase
<1>2. CASE q.todo # {}
  <2>1. PICK t \in q.todo : p = [q EXCEPT !.pc = "locking", !.cur = t, !.todo = @ \ {t}]
    BY <1>2 DEF Proceed
  <2>2. t \in Txs
    BY DEF Request
  <2>3. QED
    BY <2>1, <2>2 DEF Request, Phase
<1>3. QED
  BY <1>1, <1>2

\* A request that begins is well formed.
LEMMA BegunType ==
  ASSUME NEW c \in Calls, open \in BOOLEAN
  PROVE  /\ Begun(c) \in Request /\ [Begun(c) EXCEPT !.pc = "keying"] \in Request
         /\ Begun(c).ok = {} /\ Begun(c).bad = {} /\ Begun(c).call = c
         /\ Begun(c).redeem = FALSE
<1>1. c.txs \in SUBSET Txs
  BY CommerceAssumption DEF Call
<1>2. /\ Begun(c) \in Request
      /\ Begun(c).ok = {} /\ Begun(c).bad = {} /\ Begun(c).call = c
  BY <1>1, IdleType DEF Begun, Request
<1>3. Begun(c).redeem = FALSE
  BY <1>1, IdleType DEF Begun, Idle
<1>4. [Begun(c) EXCEPT !.pc = "keying"] \in Request
  BY <1>2 DEF Request, Phase
<1>5. QED
  BY <1>2, <1>3, <1>4

\* Times computed from the clock are expiries.
LEMMA ExpiryType ==
  ASSUME clock \in Now
  PROVE  clock + Period \in Expiry /\ clock \in Expiry /\ Never \in Expiry /\ clock \in 0..MaxTime
BY ProviderAssumption DEF Now, Expiry, Never

\* A notification written keeps the feed well typed.
LEMMA NotifyType ==
  ASSUME ProviderTypeOK, NEW type \in EventType, NEW ids \in SUBSET Txs, NEW exp \in Expiry,
         Notify(type, ids, exp)
  PROVE  /\ feed' \in Seq(Event) /\ Len(feed') <= MaxEvents
         /\ Len(feed') = Len(feed) + 1
         /\ \A i \in 1..Len(feed) : feed'[i] = feed[i]
<1>1. [type |-> type, ids |-> ids, at |-> clock, exp |-> exp] \in Event
  BY DEF Event, ProviderTypeOK
<1>2. QED
  BY <1>1, ProviderAssumption DEF Notify, ProviderTypeOK

----------------------------------------------------------------------------
(* Type correctness                                                        *)

\* Types at the start.
LEMMA TypeInit == Init => TypeOK
<1> SUFFICES ASSUME Init PROVE TypeOK
  OBVIOUS
<1>1. ProviderTypeOK
  <2>1. 0 \in Expiry /\ 1 \in Now
    BY ProviderAssumption DEF Expiry, Never, Now
  <2>2. QED
    BY <2>1, ProviderAssumption DEF Init, ProviderInit, ProviderTypeOK, ChargeState
<1>2. NoSub \in [status: SubStatus, end: Expiry, asOf: 0..MaxTime, cancel: BOOLEAN]
  BY ProviderAssumption DEF NoSub, SubStatus, Expiry, Never
<1>3. NoEnt \in [status: EntStatus, expires: Expiry]
  BY ProviderAssumption DEF NoEnt, EntStatus, Expiry, Never
<1>4. QED
  BY <1>1, <1>2, <1>3, IdleType DEF Init, TypeOK

\* The provider's own steps.
LEMMA TypeProvider ==
  ASSUME TypeOK, ProviderNext \/ Tick
  PROVE  ProviderTypeOK'
<1> USE DEF TypeOK
<1>1. CASE Tick
  BY <1>1, ProviderAssumption DEF Tick, ProviderTypeOK, Now, providerVars
<1>2. ASSUME NEW t \in Txs, Charge(t) PROVE ProviderTypeOK'
  BY <1>2, ExpiryType DEF Charge, ProviderTypeOK, ChargeState
<1>3. ASSUME NEW t \in Txs, Refund(t) PROVE ProviderTypeOK'
  <2>1. Notify("REFUND", {t, RenewalOf[t]}, clock) /\ clock \in Expiry
    BY <1>3, ExpiryType DEF Refund, ProviderTypeOK
  <2>2. {t, RenewalOf[t]} \in SUBSET Txs /\ "REFUND" \in EventType
    BY ProviderAssumption DEF EventType
  <2>3. feed' \in Seq(Event) /\ Len(feed') <= MaxEvents
    BY <2>1, <2>2, NotifyType
  <2>4. QED
    BY <1>3, <2>3 DEF Refund, ProviderTypeOK, ChargeState
<1>4. ASSUME NEW o \in Txs, NEW n \in Txs, Renew(o, n) PROVE ProviderTypeOK'
  <2>1. Notify("RENEWAL", {o, n}, clock + Period) /\ clock + Period \in Expiry
    BY <1>4, ExpiryType DEF Renew, ProviderTypeOK
  <2>2. {o, n} \in SUBSET Txs /\ "RENEWAL" \in EventType
    BY DEF EventType
  <2>3. feed' \in Seq(Event) /\ Len(feed') <= MaxEvents
    BY <2>1, <2>2, NotifyType
  <2>4. QED
    BY <1>4, <2>1, <2>3 DEF Renew, ProviderTypeOK, ChargeState
<1>5. ASSUME NEW o \in Txs, EnterGrace(o) \/ EnterRetry(o) \/ Lapse(o) \/ StopRenewal(o)
      PROVE ProviderTypeOK'
  <2>1. ASSUME NEW from, NEW to \in ChargeState, NEW type \in EventType, Slip(o, from, to, type)
        PROVE  ProviderTypeOK'
    <3>1. Notify(type, {o}, clock) /\ clock \in Expiry
      BY <2>1, ExpiryType DEF Slip, ProviderTypeOK
    <3>2. feed' \in Seq(Event) /\ Len(feed') <= MaxEvents
      BY <3>1, NotifyType
    <3>3. QED
      BY <2>1, <3>2 DEF Slip, ProviderTypeOK
  <2>2. QED
    BY <1>5, <2>1 DEF EnterGrace, EnterRetry, Lapse, StopRenewal, ChargeState, EventType
<1>6. QED
  BY <1>1, <1>2, <1>3, <1>4, <1>5 DEF ProviderNext

\* The steps of a request that leave the tables alone keep req well typed.
LEMMA TypeRequest ==
  ASSUME TypeOK, NEW r \in Requests,
         \/ InsertKey(r) \/ LockTx(r) \/ CheckVerified(r) \/ CheckRejected(r)
         \/ AccountMismatch(r) \/ RedeemCoupon(r) \/ ConstraintError(r)
         \/ AbortDeadlock(r) \/ Fail(r)
         \/ \E c \in Calls : StartVerify(r, c) \/ StartRestore(r, c)
  PROVE  req' \in [Requests -> Request]
<1> USE DEF TypeOK
<1>1. req[r] \in Request
  OBVIOUS
<1>2. ASSUME Rollback(r) PROVE req' \in [Requests -> Request]
  BY <1>2, IdleType DEF Rollback
<1>3. ASSUME NEW c \in Calls, StartVerify(r, c) PROVE req' \in [Requests -> Request]
  <2>1. CASE c.key = NoKey
    <3>1. PICK q \in Proceed(Begun(c)) : req' = [req EXCEPT ![r] = q]
      BY <1>3, <2>1 DEF StartVerify
    <3>2. q \in Request
      BY BegunType, ProceedType
    <3>3. QED
      BY <3>1, <3>2
  <2>2. CASE c.key # NoKey
    <3>1. req' = [req EXCEPT ![r] = [Begun(c) EXCEPT !.pc = "keying"]]
      BY <1>3, <2>2 DEF StartVerify
    <3>2. QED
      BY <3>1, BegunType
  <2>3. QED
    BY <2>1, <2>2
<1>4. ASSUME NEW c \in Calls, StartRestore(r, c) PROVE req' \in [Requests -> Request]
  <2>1. PICK q \in Proceed(Begun(c)) : req' = [req EXCEPT ![r] = q]
    BY <1>4 DEF StartRestore
  <2>2. q \in Request
    BY BegunType, ProceedType
  <2>3. QED
    BY <2>1, <2>2
<1>5. CASE InsertKey(r)
  BY <1>1, <1>5, IdleType, ProceedType DEF InsertKey
<1>6. CASE LockTx(r)
  <2>1. [req[r] EXCEPT !.pc = "checking"] \in Request
    BY <1>1 DEF Request, Phase
  <2>2. ASSUME NEW p \in Proceed(req[r]), req' = [req EXCEPT ![r] = p]
        PROVE  req' \in [Requests -> Request]
    BY <1>1, <2>2, ProceedType
  <2>3. \/ req' = [req EXCEPT ![r] = [req[r] EXCEPT !.pc = "checking"]]
        \/ \E p \in Proceed(req[r]) : req' = [req EXCEPT ![r] = p]
        \/ req' = [req EXCEPT ![r] = Idle]
    BY <1>6 DEF LockTx
  <2>4. QED
    BY <2>1, <2>2, <2>3, IdleType
<1>7. CASE CheckVerified(r)
  <2> DEFINE t == req[r].cur
             q == [req[r] EXCEPT !.ok = @ \cup {t}, !.until[t] = paidUntil[t]]
  <2>1. t \in Txs /\ paidUntil[t] \in Expiry
    BY <1>1 DEF Request, ProviderTypeOK
  <2>2. q \in Request
    BY <1>1, <2>1 DEF Request
  <2>3. [q EXCEPT !.pc = "redeeming"] \in Request
    BY <2>2 DEF Request, Phase
  <2>4. QED
    BY <1>7, <2>2, <2>3, ProceedType DEF CheckVerified
<1>8. CASE CheckRejected(r)
  <2> DEFINE q == [req[r] EXCEPT !.bad = @ \cup {req[r].cur}]
  <2>1. q \in Request
    BY <1>1 DEF Request
  <2>2. QED
    BY <1>8, <2>1, ProceedType DEF CheckRejected
<1>9. CASE RedeemCoupon(r)
  <2> DEFINE q == [req[r] EXCEPT !.redeem = CouponValid(req[r].call.coupon)]
  <2>1. CouponValid(req[r].call.coupon) \in BOOLEAN
    BY DEF CouponValid
  <2>2. q \in Request
    BY <1>1, <2>1 DEF Request
  <2>3. QED
    BY <1>9, <2>2, ProceedType DEF RedeemCoupon
<1>10. QED
  BY <1>2, <1>3, <1>4, <1>5, <1>6, <1>7, <1>8, <1>9
  DEF AccountMismatch, ConstraintError, AbortDeadlock, Fail

\* Types over the commit of a request.
LEMMA TypeCommit ==
  ASSUME TypeOK, NEW r \in Requests, Commit(r)
  PROVE  TypeOK'
<1> USE DEF TypeOK
<1> DEFINE q == req[r]
<1>1. q \in Request
  OBVIOUS
<1>2. /\ q.call \in Calls /\ q.call.learner \in Learners
      /\ q.ok \subseteq Txs /\ q.bad \subseteq Txs /\ q.until \in [Txs -> Expiry]
  BY <1>1, CommerceAssumption DEF Request, Call
<1>3. payment' \in [Txs -> [status: {"none", "failed", "success"}, owner: SUBSET Learners]]
  BY <1>2 DEF Commit, Journal
<1>4. sub' \in [Txs -> [status: SubStatus, end: Expiry, asOf: 0..MaxTime, cancel: BOOLEAN]]
  <2>1. \A t \in Txs : GrantedSub(q, t) \in
           [status: SubStatus, end: Expiry, asOf: 0..MaxTime, cancel: BOOLEAN]
    BY <1>2, ProviderAssumption DEF GrantedSub, SubStatus
  <2>2. QED
    BY <2>1 DEF Commit
<1>5. ent' \in [Txs -> [status: EntStatus, expires: Expiry]]
  <2>1. \A t \in Txs : GrantedEnt(q, t) \in [status: EntStatus, expires: Expiry]
    BY <1>2, ExpiryType DEF GrantedEnt, EntStatus, ProviderTypeOK
  <2>2. QED
    BY <2>1 DEF Commit
<1>6. purchase' \in [Txs -> {"none", "completed", "refunded"}]
  BY DEF Commit
<1>7. redeemed' \subseteq (Coupons \cup {NoCoupon}) \X Learners
  <2>1. q.call.coupon \in Coupons \cup {NoCoupon}
    BY <1>2, CommerceAssumption DEF Call
  <2>2. <<q.call.coupon, q.call.learner>> \in (Coupons \cup {NoCoupon}) \X Learners
    BY <1>2, <2>1
  <2>3. redeemed' = redeemed \/ redeemed' = redeemed \cup {<<q.call.coupon, q.call.learner>>}
    BY DEF Commit
  <2>4. QED
    BY <2>2, <2>3
<1>8. idem' \subseteq [call: Calls, verified: BOOLEAN]
  <2> DEFINE v == \A t \in q.call.txs : t \in q.ok \/ payment[t].status = "success"
  <2>1. [call |-> q.call, verified |-> v] \in [call: Calls, verified: BOOLEAN]
    BY <1>2
  <2>2. idem' = idem \/ idem' = idem \cup {[call |-> q.call, verified |-> v]}
    BY DEF Commit
  <2>3. QED
    BY <2>1, <2>2
<1>9. req' \in [Requests -> Request]
  BY IdleType DEF Commit
<1>10. UNCHANGED <<clock, charge, paidUntil, feed, recorded, applied, open>>
  BY DEF Commit, providerVars, audit
<1>11. QED
  BY <1>3, <1>4, <1>5, <1>6, <1>7, <1>8, <1>9, <1>10 DEF ProviderTypeOK

\* An event on the feed is well typed.
LEMMA EventTyped ==
  ASSUME TypeOK, NEW i \in EventIds, Record(i)
  PROVE  /\ i \in 1..Len(feed)
         /\ feed[i] \in Event
         /\ feed[i].at \in 1..MaxTime /\ feed[i].exp \in Expiry /\ feed[i].ids \subseteq Txs
         /\ recorded' \subseteq EventIds
<1>1. i \in 1..Len(feed)
  BY DEF TypeOK, ProviderTypeOK, Record, EventIds
<1>2. feed[i] \in Event
  BY <1>1 DEF TypeOK, ProviderTypeOK
<1>3. QED
  BY <1>1, <1>2 DEF Event, Now, TypeOK, Record

\* Types over a notification.
LEMMA TypeWebhook ==
  ASSUME TypeOK, NEW i \in EventIds, Webhook(i)
  PROVE  TypeOK'
<1> USE DEF TypeOK
<1> DEFINE e == feed[i]
<1>1. CASE ApplyToSub(i)
  <2>1. Record(i) /\ e \in Event /\ e.at \in 0..MaxTime /\ e.exp \in Expiry
    BY <1>1, EventTyped DEF ApplyToSub
  <2>2. PICK s \in Txs :
           /\ sub' = [sub EXCEPT ![s] = SubEffect(e, [@ EXCEPT !.asOf = e.at])]
           /\ ent' = [ent EXCEPT ![s] = EntEffect(e, @)]
           /\ applied' = [applied EXCEPT ![i] = {s}]
    BY <1>1 DEF ApplyToSub
  <2> DEFINE old == [sub[s] EXCEPT !.asOf = e.at]
  <2>3. old \in [status: SubStatus, end: Expiry, asOf: 0..MaxTime, cancel: BOOLEAN]
    BY <2>1
  <2>4. SubEffect(e, old) \in [status: SubStatus, end: Expiry, asOf: 0..MaxTime, cancel: BOOLEAN]
    BY <2>1, <2>3 DEF SubEffect, SubStatus, Event, EventType
  <2>5. EntEffect(e, ent[s]) \in [status: EntStatus, expires: Expiry]
    BY <2>1 DEF EntEffect, EntStatus, Event, EventType
  <2>6. UNCHANGED <<clock, charge, paidUntil, feed, payment, purchase, redeemed, idem, open, req>>
    BY <1>1 DEF ApplyToSub, providerVars
  <2>7. QED
    BY <2>1, <2>2, <2>4, <2>5, <2>6, EventTyped DEF ProviderTypeOK
<1>2. CASE IgnoreStale(i) \/ IgnoreUnmatched(i)
  BY <1>2, EventTyped DEF IgnoreStale, IgnoreUnmatched, tables, providerVars, ProviderTypeOK
<1>3. CASE RefundPurchase(i)
  <2>1. Record(i)
    BY <1>3 DEF RefundPurchase
  <2>2. PICK t \in PurchasesOf(e) :
              /\ purchase' = [purchase EXCEPT ![t] = "refunded"]
              /\ ent' = [ent EXCEPT ![t].status = "revoked"]
              /\ applied' = [applied EXCEPT ![i] = {t}]
    BY <1>3 DEF RefundPurchase
  <2>3. t \in Txs
    BY <2>1, <2>2, EventTyped DEF PurchasesOf
  <2>4. UNCHANGED <<clock, charge, paidUntil, feed, payment, sub, redeemed, idem, open, req>>
    BY <1>3 DEF RefundPurchase, providerVars
  <2>5. QED
    BY <2>1, <2>2, <2>3, <2>4, EventTyped DEF EntStatus, ProviderTypeOK
<1>4. QED
  BY <1>1, <1>2, <1>3 DEF Webhook

\* Types over the remaining steps.
LEMMA TypeOther ==
  ASSUME TypeOK,
         Reconcile \/ (\E s \in Txs : CancelSubscription(s) \/ ChangePlan(s)) \/ SetPurchasesOpen
  PROVE  TypeOK'
<1> USE DEF TypeOK
<1>1. CASE Reconcile
  <2>1. UNCHANGED <<clock, charge, paidUntil, feed, payment, purchase, redeemed, idem,
                    recorded, applied, open, req>>
    BY <1>1 DEF Reconcile, providerVars, audit
  <2>2. QED
    BY <1>1, <2>1 DEF Reconcile, SubStatus, EntStatus, ProviderTypeOK
<1>2. ASSUME NEW s \in Txs, CancelSubscription(s) PROVE TypeOK'
  BY <1>2 DEF CancelSubscription, providerVars, audit, ProviderTypeOK
<1>3. ASSUME NEW s \in Txs, ChangePlan(s) PROVE TypeOK'
  <2>1. UNCHANGED <<clock, charge, paidUntil, feed, payment, purchase, redeemed, idem,
                    recorded, applied, open, req>>
    BY <1>3 DEF ChangePlan, providerVars, audit
  <2>2. clock + Period \in Expiry
    BY ExpiryType DEF ProviderTypeOK
  <2>3. sub' \in [Txs -> [status: SubStatus, end: Expiry, asOf: 0..MaxTime, cancel: BOOLEAN]]
    BY <1>3, <2>2 DEF ChangePlan
  <2>4. ent' \in [Txs -> [status: EntStatus, expires: Expiry]]
    <3> DEFINE v == IF ent[s].status = "active" THEN clock + Period ELSE ent[s].expires
    <3>1. v \in Expiry
      BY <2>2
    <3>2. ent' = [ent EXCEPT ![s].expires = v]
      BY <1>3 DEF ChangePlan
    <3> HIDE DEF v
    <3>3. QED
      BY <3>1, <3>2
  <2>5. QED
    BY <2>1, <2>3, <2>4 DEF ProviderTypeOK
<1>4. CASE SetPurchasesOpen
  BY <1>4 DEF SetPurchasesOpen, providerVars, tables, audit, ProviderTypeOK
<1>5. QED
  BY <1>1, <1>2, <1>3, <1>4

\* Types over every step.
LEMMA TypeNext == TypeOK /\ [Next]_vars => TypeOK'
<1> SUFFICES ASSUME TypeOK, [Next]_vars PROVE TypeOK'
  OBVIOUS
<1>1. CASE UNCHANGED vars
  BY <1>1 DEF vars, providerVars, tables, audit, TypeOK, ProviderTypeOK
<1>2. CASE World
  <2>1. UNCHANGED <<tables, audit, open, req>> /\ ProviderTypeOK'
    BY <1>2, TypeProvider DEF World
  <2>2. QED
    BY <2>1 DEF tables, audit, TypeOK
<1>3. CASE BackendNext
  BY <1>3, TypeWebhook, TypeOther DEF BackendNext
<1>4. ASSUME NEW r \in Requests, Commit(r) PROVE TypeOK'
  BY <1>4, TypeCommit
<1>5. ASSUME NEW r \in Requests,
             \/ InsertKey(r) \/ LockTx(r) \/ CheckVerified(r) \/ CheckRejected(r)
             \/ AccountMismatch(r) \/ RedeemCoupon(r) \/ ConstraintError(r)
             \/ AbortDeadlock(r) \/ Fail(r)
             \/ \E c \in Calls : StartVerify(r, c) \/ StartRestore(r, c)
      PROVE TypeOK'
  <2>1. req' \in [Requests -> Request]
    BY <1>5, TypeRequest
  <2>2. UNCHANGED <<clock, providerVars, tables, audit, open>>
    BY <1>5 DEF InsertKey, LockTx, CheckVerified, CheckRejected, AccountMismatch, RedeemCoupon,
                ConstraintError, AbortDeadlock, Fail, Rollback, StartVerify, StartRestore
  <2>3. QED
    BY <2>1, <2>2 DEF providerVars, tables, audit, TypeOK, ProviderTypeOK
<1>6. QED
  BY <1>1, <1>2, <1>3, <1>4, <1>5 DEF Next, ClientNext, RequestStep

\* Every table and every request in flight stays well typed: no expiry
\* computed by a verification, a renewal or a plan change leaves the range.
THEOREM TypeCorrect == Spec => []TypeOK
BY TypeInit, TypeNext, PTL DEF Spec

----------------------------------------------------------------------------
(* A subscription and its entitlement agree                                *)

\* A refund only reaches the entitlement of a subscription through the
\* subscription, since a plan transaction never has a purchase row.
PlansAreNotPurchased == \A t \in Plans : purchase[t] = "none"

LedgerInv == TypeOK /\ PlansAreNotPurchased /\ AccessFollowsSubscription

\* The ledger invariant at the start.
LEMMA LedgerInit == Init => LedgerInv
<1> SUFFICES ASSUME Init PROVE LedgerInv
  OBVIOUS
<1>1. TypeOK
  BY TypeInit
<1>2. PlansAreNotPurchased /\ AccessFollowsSubscription
  BY ProviderAssumption
  DEF Init, NoSub, NoEnt, PlansAreNotPurchased, AccessFollowsSubscription, EntitlementOf
<1>3. QED
  BY <1>1, <1>2 DEF LedgerInv

\* The ledger invariant over every step.
LEMMA LedgerNext == LedgerInv /\ [Next]_vars => LedgerInv'
<1> SUFFICES ASSUME LedgerInv, [Next]_vars PROVE LedgerInv'
  OBVIOUS
<1> USE DEF LedgerInv
<1>1. TypeOK'
  BY TypeNext
<1>2. Plans \subseteq Txs
  BY ProviderAssumption
<1>3. ASSUME UNCHANGED <<sub, ent, purchase>> PROVE LedgerInv'
  BY <1>1, <1>3 DEF PlansAreNotPurchased, AccessFollowsSubscription
<1>4. ASSUME NEW r \in Requests, Commit(r) PROVE LedgerInv'
  <2> DEFINE q == req[r]
  <2>1. PlansAreNotPurchased'
    BY <1>2, <1>4 DEF Commit, PlansAreNotPurchased
  <2>2. ASSUME NEW s \in Plans
        PROVE  /\ sub'[s].status # "billingRetry" => ent'[s].status = EntitlementOf(sub'[s].status)
               /\ ent'[s].status = "active" => ent'[s].expires = sub'[s].end
    <3>1. CASE s \in q.ok
      <4>1. sub'[s] = GrantedSub(q, s) /\ ent'[s] = GrantedEnt(q, s)
        BY <1>2, <1>4, <3>1 DEF Commit
      <4>2. QED
        BY <4>1 DEF GrantedSub, GrantedEnt, EntitlementOf
    <3>2. CASE s \notin q.ok
      <4>1. sub'[s] = sub[s] /\ ent'[s] = ent[s]
        BY <1>2, <1>4, <3>2 DEF Commit
      <4>2. QED
        BY <4>1 DEF AccessFollowsSubscription
    <3>3. QED
      BY <3>1, <3>2
  <2>3. QED
    BY <1>1, <2>1, <2>2 DEF AccessFollowsSubscription
<1>5. ASSUME NEW i \in EventIds, ApplyToSub(i) PROVE LedgerInv'
  <2> DEFINE e == feed[i]
  <2>1. PICK s \in Txs :
           /\ SubsOf(e) = {s}
           /\ sub' = [sub EXCEPT ![s] = SubEffect(e, [@ EXCEPT !.asOf = e.at])]
           /\ ent' = [ent EXCEPT ![s] = EntEffect(e, @)]
    BY <1>5 DEF ApplyToSub
  <2> DEFINE old == [sub[s] EXCEPT !.asOf = e.at]
  <2>2. e.type \in EventType /\ sub[s].status # "none"
    BY <1>5, <2>1, EventTyped DEF ApplyToSub, Event, SubsOf
  <2>3. sub'[s] = SubEffect(e, old) /\ ent'[s] = EntEffect(e, ent[s])
    BY <2>1 DEF TypeOK
  <2>4. /\ ent[s] \in [status: EntStatus, expires: Expiry]
        /\ sub[s] \in [status: SubStatus, end: Expiry, asOf: 0..MaxTime, cancel: BOOLEAN]
        /\ old.status = sub[s].status /\ old.end = sub[s].end
        /\ DOMAIN old = {"status", "end", "asOf", "cancel"}
        /\ old = [status |-> sub[s].status, end |-> sub[s].end, asOf |-> e.at,
                  cancel |-> sub[s].cancel]
    <3>1. /\ ent[s] \in [status: EntStatus, expires: Expiry]
          /\ sub[s] \in [status: SubStatus, end: Expiry, asOf: 0..MaxTime, cancel: BOOLEAN]
      BY DEF TypeOK
    <3>2. QED
      BY <3>1
  <2> HIDE DEF e, old
  <2>5. ASSUME s \in Plans
        PROVE  /\ sub'[s].status # "billingRetry" => ent'[s].status = EntitlementOf(sub'[s].status)
               /\ ent'[s].status = "active" => ent'[s].expires = sub'[s].end
    <3>1. /\ sub[s].status # "billingRetry" => ent[s].status = EntitlementOf(sub[s].status)
          /\ ent[s].status = "active" => ent[s].expires = sub[s].end
      BY <2>5 DEF AccessFollowsSubscription
    <3>2. CASE e.type = "RENEWAL"
      <4>1. sub'[s] = [old EXCEPT !.status = "active", !.end = e.exp]
        BY <2>3, <3>2 DEF SubEffect
      <4>2. sub'[s].status = "active" /\ sub'[s].end = e.exp
        BY <2>4, <4>1
      <4>3. ent'[s] = [status |-> "active", expires |-> e.exp]
        BY <2>3, <3>2 DEF EntEffect
      <4>4. QED
        BY <4>2, <4>3 DEF EntitlementOf
    <3>3. CASE e.type \in {"EXPIRATION", "GRACE_PERIOD", "REFUND"}
      BY <2>3, <2>4, <3>3 DEF SubEffect, EntEffect, EntitlementOf
    <3>4. CASE e.type \in {"BILLING_RETRY", "CANCELLATION"}
      BY <2>3, <2>4, <3>1, <3>4 DEF SubEffect, EntEffect
    <3>5. QED
      BY <2>2, <3>2, <3>3, <3>4 DEF EventType
  <2>6. \A t \in Plans \ {s} : sub'[t] = sub[t] /\ ent'[t] = ent[t]
    BY <1>2, <2>1 DEF TypeOK
  <2>7. AccessFollowsSubscription'
    BY <2>5, <2>6 DEF AccessFollowsSubscription
  <2>8. PlansAreNotPurchased'
    BY <1>5 DEF ApplyToSub, PlansAreNotPurchased
  <2>9. QED
    BY <1>1, <2>7, <2>8
<1>6. ASSUME NEW i \in EventIds, RefundPurchase(i) PROVE LedgerInv'
  <2>1. PICK t \in PurchasesOf(feed[i]) :
              /\ purchase' = [purchase EXCEPT ![t] = "refunded"]
              /\ ent' = [ent EXCEPT ![t].status = "revoked"]
    BY <1>6 DEF RefundPurchase
  <2>2. t \notin Plans
    BY <2>1 DEF PurchasesOf, PlansAreNotPurchased
  <2>3. \A s \in Plans : purchase'[s] = purchase[s] /\ ent'[s] = ent[s] /\ sub'[s] = sub[s]
    BY <1>2, <1>6, <2>1, <2>2 DEF RefundPurchase, TypeOK
  <2>4. QED
    BY <1>1, <2>3 DEF PlansAreNotPurchased, AccessFollowsSubscription
<1>7. CASE Reconcile
  BY <1>1, <1>2, <1>7
  DEF Reconcile, TypeOK, Due, PlansAreNotPurchased, AccessFollowsSubscription, EntitlementOf
<1>8. ASSUME NEW s \in Txs, CancelSubscription(s) PROVE LedgerInv'
  BY <1>1, <1>2, <1>8
  DEF CancelSubscription, TypeOK, PlansAreNotPurchased, AccessFollowsSubscription
<1>9. ASSUME NEW s \in Txs, ChangePlan(s) PROVE LedgerInv'
  <2>1. /\ sub'[s].status = sub[s].status /\ sub'[s].end = clock + Period
        /\ \A t \in Txs \ {s} : sub'[t] = sub[t]
    BY <1>9 DEF ChangePlan, TypeOK
  <2>2. /\ ent'[s].status = ent[s].status
        /\ ent[s].status = "active" => ent'[s].expires = clock + Period
        /\ \A t \in Txs \ {s} : ent'[t] = ent[t]
    <3> DEFINE v == IF ent[s].status = "active" THEN clock + Period ELSE ent[s].expires
    <3>1. ent' = [ent EXCEPT ![s].expires = v]
      BY <1>9 DEF ChangePlan
    <3>2. ent[s].status = "active" => v = clock + Period
      OBVIOUS
    <3> HIDE DEF v
    <3>3. QED
      BY <3>1, <3>2 DEF TypeOK
  <2>3. AccessFollowsSubscription'
    BY <1>2, <2>1, <2>2 DEF AccessFollowsSubscription
  <2>4. purchase' = purchase
    BY <1>9 DEF ChangePlan
  <2>5. QED
    BY <1>1, <2>3, <2>4 DEF PlansAreNotPurchased
<1>10. ASSUME NEW r \in Requests, RequestStep(r), ~Commit(r) PROVE LedgerInv'
  <2>1. UNCHANGED tables
    BY <1>10 DEF RequestStep, InsertKey, LockTx, CheckVerified, CheckRejected, AccountMismatch,
                RedeemCoupon, ConstraintError, AbortDeadlock, Rollback
  <2>2. QED
    BY <2>1, <1>3 DEF tables
<1>11. ASSUME NEW r \in Requests, Fail(r) \/ \E c \in Calls : StartVerify(r, c) \/ StartRestore(r, c)
       PROVE LedgerInv'
  <2>1. UNCHANGED tables
    BY <1>11 DEF Fail, Rollback, StartVerify, StartRestore
  <2>2. QED
    BY <2>1, <1>3 DEF tables
<1>12. CASE ClientNext
  BY <1>12, <1>4, <1>10, <1>11 DEF ClientNext
<1>13. ASSUME NEW i \in EventIds, IgnoreStale(i) \/ IgnoreUnmatched(i) PROVE LedgerInv'
  BY <1>13, <1>3 DEF IgnoreStale, IgnoreUnmatched, tables
<1>14. CASE SetPurchasesOpen \/ World \/ UNCHANGED vars
  BY <1>14, <1>3 DEF SetPurchasesOpen, World, vars, tables
<1>15. QED
  BY <1>5, <1>6, <1>7, <1>8, <1>9, <1>12, <1>13, <1>14 DEF Next, BackendNext, Webhook

\* Whatever order notifications, reconciliation, cancellations and plan changes
\* come in, a subscription's entitlement carries the status and the expiry
\* of the subscription.
THEOREM SubscriptionAndAccessAgree == Spec => []AccessFollowsSubscription
<1>1. Spec => []LedgerInv
  BY LedgerInit, LedgerNext, PTL DEF Spec
<1>2. LedgerInv => AccessFollowsSubscription
  BY DEF LedgerInv
<1>3. QED
  BY <1>1, <1>2, PTL

----------------------------------------------------------------------------
(* Access is granted only for what has been paid                           *)

\* Rows that follow from a payment, and what a payment on record says.
Backed ==
    \A t \in Txs :
       /\ sub[t].status # "none" => t \in Plans /\ payment[t].status = "success"
       /\ purchase[t] # "none" => payment[t].status = "success"
       /\ ent[t].status # "none" => payment[t].status = "success"
       /\ payment[t].status = "success" =>
            charge[t] # "unpaid" /\ payment[t].owner # {} /\ payment[t].owner \subseteq Accounts[t]

\* What a request has staged as verified was charged to its learner.
Staged(q) == \A t \in q.ok : charge[t] # "unpaid" /\ q.call.learner \in Accounts[t]

GrantInv == TypeOK /\ Backed /\ \A r \in Requests : Staged(req[r])

\* What has been charged remains so, and what the provider has written remains as it is.
LEMMA ProviderMoves ==
  ASSUME ProviderTypeOK, ProviderNext \/ Tick
  PROVE  /\ \A t \in Txs : charge[t] # "unpaid" => charge'[t] # "unpaid"
         /\ Len(feed) <= Len(feed') /\ \A i \in 1 .. Len(feed) : feed'[i] = feed[i]
<1>1. charge \in [Txs -> ChargeState] /\ Len(feed) \in Nat
  BY DEF ProviderTypeOK
<1>2. ASSUME NEW type \in EventType, NEW ids \in SUBSET Txs, NEW exp \in Expiry,
             Notify(type, ids, exp)
      PROVE  Len(feed) <= Len(feed') /\ \A i \in 1 .. Len(feed) : feed'[i] = feed[i]
  BY <1>1, <1>2, NotifyType
<1>3. clock \in Expiry /\ clock + Period \in Expiry
  BY ExpiryType DEF ProviderTypeOK
<1>4. CASE Tick
  BY <1>1, <1>4 DEF Tick, providerVars
<1>5. ASSUME NEW t \in Txs, Charge(t)
      PROVE  feed' = feed /\ \A u \in Txs : charge[u] # "unpaid" => charge'[u] # "unpaid"
  BY <1>1, <1>5 DEF Charge
<1>6. ASSUME NEW t \in Txs, Refund(t)
      PROVE  /\ Len(feed) <= Len(feed') /\ \A i \in 1 .. Len(feed) : feed'[i] = feed[i]
             /\ \A u \in Txs : charge[u] # "unpaid" => charge'[u] # "unpaid"
  <2>1. {t, RenewalOf[t]} \in SUBSET Txs /\ "REFUND" \in EventType
    BY ProviderAssumption DEF EventType
  <2>2. QED
    BY <1>1, <1>2, <1>3, <1>6, <2>1 DEF Refund
<1>7. ASSUME NEW o \in Txs, NEW n \in Txs, Renew(o, n)
      PROVE  /\ Len(feed) <= Len(feed') /\ \A i \in 1 .. Len(feed) : feed'[i] = feed[i]
             /\ \A u \in Txs : charge[u] # "unpaid" => charge'[u] # "unpaid"
  <2>1. {o, n} \in SUBSET Txs /\ "RENEWAL" \in EventType
    BY DEF EventType
  <2>2. QED
    BY <1>1, <1>2, <1>3, <1>7, <2>1 DEF Renew
<1>8. ASSUME NEW o \in Txs, EnterGrace(o) \/ EnterRetry(o) \/ Lapse(o) \/ StopRenewal(o)
      PROVE  /\ Len(feed) <= Len(feed') /\ \A i \in 1 .. Len(feed) : feed'[i] = feed[i]
             /\ \A u \in Txs : charge[u] # "unpaid" => charge'[u] # "unpaid"
  <2>1. ASSUME NEW from, NEW to \in ChargeState \ {"unpaid"}, NEW type \in EventType,
               Slip(o, from, to, type)
        PROVE  /\ Len(feed) <= Len(feed') /\ \A i \in 1 .. Len(feed) : feed'[i] = feed[i]
               /\ \A u \in Txs : charge[u] # "unpaid" => charge'[u] # "unpaid"
    <3>1. Notify(type, {o}, clock) /\ {o} \in SUBSET Txs
      BY <2>1 DEF Slip
    <3>2. QED
      BY <1>1, <1>2, <1>3, <2>1, <3>1 DEF Slip
  <2>2. QED
    BY <1>8, <2>1 DEF EnterGrace, EnterRetry, Lapse, StopRenewal, ChargeState, EventType
<1>9. QED
  BY <1>1, <1>4, <1>5, <1>6, <1>7, <1>8 DEF ProviderNext

\* A request stages as verified what the provider vouches for.
LEMMA StagedStays ==
  ASSUME GrantInv, NEW r \in Requests,
         \/ InsertKey(r) \/ LockTx(r) \/ CheckVerified(r) \/ CheckRejected(r)
         \/ AccountMismatch(r) \/ RedeemCoupon(r) \/ ConstraintError(r)
         \/ AbortDeadlock(r) \/ Fail(r)
         \/ \E c \in Calls : StartVerify(r, c) \/ StartRestore(r, c)
  PROVE  \A o \in Requests : Staged(req'[o])
<1> DEFINE q == req[r]
<1>1. q \in Request /\ Staged(q) /\ req \in [Requests -> Request] /\ open \in BOOLEAN
  BY DEF GrantInv, TypeOK
<1>2. ASSUME NEW p, Staged(p), req' = [req EXCEPT ![r] = p]
      PROVE  \A o \in Requests : Staged(req'[o])
  BY <1>1, <1>2 DEF GrantInv
<1>3. ASSUME NEW b \in Request, NEW p \in Proceed(b), Staged(b) PROVE Staged(p)
  BY <1>3, ProceedType DEF Staged
<1>4. Staged(Idle)
  BY IdleType DEF Staged
<1>5. CASE Rollback(r)
  BY <1>2, <1>4, <1>5 DEF Rollback
<1>6. ASSUME NEW c \in Calls, StartVerify(r, c) \/ StartRestore(r, c)
      PROVE  \A o \in Requests : Staged(req'[o])
  <2> DEFINE b == Begun(c)
             k == [Begun(c) EXCEPT !.pc = "keying"]
  <2>1. b \in Request /\ b.ok = {}
    BY <1>1, BegunType
  <2>2. k.ok = {}
    BY <2>1 DEF Request
  <2>3. Staged(b) /\ Staged(k)
    BY <2>1, <2>2 DEF Staged
  <2>4. (\E p \in Proceed(b) : req' = [req EXCEPT ![r] = p]) \/ req' = [req EXCEPT ![r] = k]
    BY <1>6 DEF StartVerify, StartRestore
  <2> HIDE DEF b, k
  <2>5. QED
    BY <1>2, <1>3, <2>1, <2>3, <2>4
<1>7. CASE InsertKey(r)
  BY <1>1, <1>2, <1>3, <1>4, <1>7 DEF InsertKey
<1>8. CASE LockTx(r)
  <2> DEFINE k == [q EXCEPT !.pc = "checking"]
  <2>1. Staged(k)
    BY <1>1 DEF Staged, Request
  <2>2. \/ req' = [req EXCEPT ![r] = k] \/ req' = [req EXCEPT ![r] = Idle]
        \/ \E p \in Proceed(q) : req' = [req EXCEPT ![r] = p]
    BY <1>8 DEF LockTx
  <2> HIDE DEF k, q
  <2>3. QED
    BY <1>1, <1>2, <1>3, <1>4, <2>1, <2>2
<1>9. CASE CheckVerified(r)
  <2> DEFINE t == q.cur
             v == [q EXCEPT !.ok = @ \cup {t}, !.until[t] = paidUntil[t]]
             k == [v EXCEPT !.pc = "redeeming"]
  <2>1. t \in Txs /\ paidUntil[t] \in Expiry
    BY <1>1 DEF Request, GrantInv, TypeOK, ProviderTypeOK
  <2>2. v \in Request /\ v.ok = q.ok \cup {t} /\ v.call = q.call
    BY <1>1, <2>1 DEF Request
  <2>3. charge[t] # "unpaid" /\ q.call.learner \in Accounts[t]
    BY <1>9 DEF CheckVerified, Vouched
  <2>4. (\E p \in Proceed(v) : req' = [req EXCEPT ![r] = p]) \/ req' = [req EXCEPT ![r] = k]
    BY <1>9 DEF CheckVerified
  <2> HIDE DEF v, t
  <2>5. Staged(v)
    BY <1>1, <2>2, <2>3 DEF Staged
  <2>6. Staged(k)
    BY <2>2, <2>5 DEF Staged, Request
  <2> HIDE DEF k
  <2>7. QED
    BY <1>2, <1>3, <2>2, <2>4, <2>5, <2>6
<1>10. CASE CheckRejected(r)
  <2> DEFINE w == [q EXCEPT !.bad = @ \cup {q.cur}]
  <2>1. w \in Request /\ w.ok = q.ok /\ w.call = q.call
    BY <1>1 DEF Request
  <2>2. \E p \in Proceed(w) : req' = [req EXCEPT ![r] = p]
    BY <1>10 DEF CheckRejected
  <2> HIDE DEF w
  <2>3. QED
    BY <1>1, <1>2, <1>3, <2>1, <2>2 DEF Staged
<1>11. CASE RedeemCoupon(r)
  <2> DEFINE w == [q EXCEPT !.redeem = CouponValid(q.call.coupon)]
  <2>1. CouponValid(q.call.coupon) \in BOOLEAN
    BY DEF CouponValid
  <2>2. w \in Request /\ w.ok = q.ok /\ w.call = q.call
    BY <1>1, <2>1 DEF Request
  <2>3. \E p \in Proceed(w) : req' = [req EXCEPT ![r] = p]
    BY <1>11 DEF RedeemCoupon
  <2> HIDE DEF w
  <2>4. QED
    BY <1>1, <1>2, <1>3, <2>2, <2>3 DEF Staged
<1>12. QED
  BY <1>5, <1>6, <1>7, <1>8, <1>9, <1>10, <1>11 DEF AccountMismatch, ConstraintError, AbortDeadlock, Fail

\* Access and payments over the commit of a request.
LEMMA GrantCommits ==
  ASSUME GrantInv, TypeOK', NEW r \in Requests, Commit(r)
  PROVE  GrantInv'
<1>1. PICK q \in Request : q = req[r] /\ Staged(q)
  BY DEF GrantInv, TypeOK
<1>2. /\ payment' = Journal(q)
      /\ sub' = [t \in Txs |-> IF t \in q.ok \cap Plans THEN GrantedSub(q, t) ELSE sub[t]]
      /\ purchase' = [t \in Txs |-> IF t \in q.ok \ Plans THEN "completed" ELSE purchase[t]]
      /\ ent' = [t \in Txs |-> IF t \in q.ok THEN GrantedEnt(q, t) ELSE ent[t]]
      /\ req' = [req EXCEPT ![r] = Idle] /\ charge' = charge /\ ~UniqueViolation(q)
  BY <1>1 DEF Commit, providerVars
<1>3. \A o \in Requests : Staged(req'[o])
  <2>1. Staged(Idle)
    BY IdleType DEF Staged
  <2>2. QED
    BY <1>2, <2>1 DEF GrantInv, TypeOK
<1>4. \A o \in Requests : Staged(req[o])'
  BY <1>2, <1>3 DEF Staged
<1>5. ASSUME NEW t \in Txs
      PROVE  /\ sub'[t].status # "none" => t \in Plans /\ payment'[t].status = "success"
             /\ purchase'[t] # "none" => payment'[t].status = "success"
             /\ ent'[t].status # "none" => payment'[t].status = "success"
             /\ payment'[t].status = "success" =>
                  /\ charge'[t] # "unpaid" /\ payment'[t].owner # {}
                  /\ payment'[t].owner \subseteq Accounts[t]
  <2>1. CASE t \in q.ok
    <3>1. payment'[t] = [status |-> "success", owner |-> {q.call.learner}]
      BY <1>2, <2>1 DEF Journal
    <3>2. charge[t] # "unpaid" /\ q.call.learner \in Accounts[t]
      BY <1>1, <2>1 DEF Staged
    <3>3. sub'[t].status # "none" => t \in Plans
      BY <1>2, <2>1 DEF GrantInv, Backed
    <3>4. QED
      BY <1>2, <3>1, <3>2, <3>3
  <2>2. CASE t \in q.bad \ q.ok
    <3>1. payment[t].status = "none"
      BY <1>2, <2>2 DEF UniqueViolation
    <3>2. sub[t].status = "none" /\ purchase[t] = "none" /\ ent[t].status = "none"
      BY <3>1 DEF GrantInv, Backed
    <3>3. payment'[t].status = "failed"
      BY <1>2, <2>2 DEF Journal
    <3>4. QED
      BY <1>2, <2>2, <3>2, <3>3
  <2>3. CASE t \notin q.ok \cup q.bad
    <3>1. payment'[t] = payment[t] /\ sub'[t] = sub[t] /\ purchase'[t] = purchase[t]
          /\ ent'[t] = ent[t]
      BY <1>2, <2>3 DEF Journal
    <3>2. QED
      BY <1>2, <3>1 DEF GrantInv, Backed
  <2>4. QED
    BY <2>1, <2>2, <2>3
<1>6. Backed'
  BY <1>5 DEF Backed
<1>7. QED
  BY <1>4, <1>6 DEF GrantInv

\* Access and payments where only rows that are there change.
LEMMA GrantStays ==
  ASSUME GrantInv, TypeOK', UNCHANGED <<payment, charge, req>>,
         \A t \in Txs : sub'[t].status # "none" => sub[t].status # "none",
         \A t \in Txs : purchase'[t] # "none" => purchase[t] # "none",
         \A t \in Txs : ent'[t].status # "none" =>
            ent[t].status # "none" \/ sub[t].status # "none" \/ purchase[t] # "none"
  PROVE  GrantInv'
<1>1. Backed'
  BY DEF GrantInv, Backed
<1>2. QED
  BY <1>1 DEF GrantInv, Staged

\* Notifications, reconciliation, cancellation and changes of plan change rows that are there.
LEMMA RowsAreFound ==
  ASSUME TypeOK,
         \/ \E i \in EventIds : Webhook(i)
         \/ Reconcile \/ \E s \in Txs : CancelSubscription(s) \/ ChangePlan(s)
  PROVE  /\ UNCHANGED <<clock, providerVars, payment, open, req>>
         /\ \A t \in Txs : sub'[t].status # "none" => sub[t].status # "none"
         /\ \A t \in Txs : purchase'[t] # "none" => purchase[t] # "none"
         /\ \A t \in Txs : ent'[t].status # "none" =>
               ent[t].status # "none" \/ sub[t].status # "none" \/ purchase[t] # "none"
<1> USE DEF TypeOK
<1>1. ASSUME NEW i \in EventIds, ApplyToSub(i)
      PROVE  \A t \in Txs : (sub'[t] = sub[t] /\ ent'[t] = ent[t]) \/ sub[t].status # "none"
  BY <1>1 DEF ApplyToSub, SubsOf
<1>2. ASSUME NEW i \in EventIds, ApplyToSub(i)
      PROVE  UNCHANGED <<clock, providerVars, payment, purchase, open, req>>
  BY <1>2 DEF ApplyToSub
<1>3. ASSUME NEW i \in EventIds, RefundPurchase(i)
      PROVE  /\ \A t \in Txs : (purchase'[t] = purchase[t] /\ ent'[t] = ent[t]) \/ purchase[t] # "none"
             /\ UNCHANGED <<clock, providerVars, payment, sub, open, req>>
  BY <1>3 DEF RefundPurchase, PurchasesOf
<1>4. ASSUME NEW i \in EventIds, IgnoreStale(i) \/ IgnoreUnmatched(i)
      PROVE  UNCHANGED <<clock, providerVars, tables, open, req>>
  BY <1>4 DEF IgnoreStale, IgnoreUnmatched
<1>5. CASE Reconcile
  <2>1. /\ \A t \in Txs : (sub'[t] = sub[t] /\ ent'[t] = ent[t]) \/ sub[t].status # "none"
        /\ UNCHANGED <<clock, providerVars, payment, purchase, open, req>>
    BY <1>5 DEF Reconcile, Due, LiveSub
  <2>2. QED
    BY <2>1
<1>6. ASSUME NEW s \in Txs, CancelSubscription(s) \/ ChangePlan(s)
      PROVE  /\ \A t \in Txs : (sub'[t] = sub[t] /\ ent'[t] = ent[t]) \/ sub[t].status # "none"
             /\ UNCHANGED <<clock, providerVars, payment, purchase, open, req>>
  BY <1>6 DEF CancelSubscription, ChangePlan
<1>7. QED
  BY <1>1, <1>2, <1>3, <1>4, <1>5, <1>6 DEF Webhook, tables

\* Access and payments over every step.
LEMMA GrantNext == GrantInv /\ [Next]_vars => GrantInv'
<1> SUFFICES ASSUME GrantInv, [Next]_vars PROVE GrantInv'
  OBVIOUS
<1>1. TypeOK /\ TypeOK'
  BY TypeNext DEF GrantInv
<1>2. ASSUME NEW r \in Requests, Commit(r) PROVE GrantInv'
  BY <1>1, <1>2, GrantCommits
<1>3. ASSUME NEW r \in Requests,
             \/ InsertKey(r) \/ LockTx(r) \/ CheckVerified(r) \/ CheckRejected(r)
             \/ AccountMismatch(r) \/ RedeemCoupon(r) \/ ConstraintError(r)
             \/ AbortDeadlock(r) \/ Fail(r)
             \/ \E c \in Calls : StartVerify(r, c) \/ StartRestore(r, c)
      PROVE GrantInv'
  <2>1. \A o \in Requests : Staged(req'[o])
    BY <1>3, StagedStays
  <2>2. UNCHANGED <<charge, payment, purchase, sub, ent>>
    BY <1>3 DEF InsertKey, LockTx, CheckVerified, CheckRejected, AccountMismatch, RedeemCoupon,
                ConstraintError, AbortDeadlock, Fail, Rollback, StartVerify, StartRestore,
                providerVars, tables
  <2>3. QED
    BY <1>1, <2>1, <2>2 DEF GrantInv, Backed, Staged
<1>4. CASE BackendNext /\ ~SetPurchasesOpen
  <2>1. UNCHANGED charge
    BY <1>1, <1>4, RowsAreFound DEF BackendNext, providerVars
  <2>2. QED
    BY <1>1, <1>4, <2>1, RowsAreFound, GrantStays DEF BackendNext
<1>5. CASE SetPurchasesOpen \/ UNCHANGED vars
  <2>1. UNCHANGED <<charge, payment, purchase, sub, ent, req>>
    BY <1>5 DEF SetPurchasesOpen, vars, providerVars, tables
  <2>2. QED
    BY <1>1, <2>1, GrantStays
<1>6. CASE World
  <2>1. UNCHANGED <<payment, purchase, sub, ent, req>>
    BY <1>6 DEF World, tables
  <2>2. \A t \in Txs : charge[t] # "unpaid" => charge'[t] # "unpaid"
    BY <1>1, <1>6, ProviderMoves DEF World, TypeOK
  <2>3. \A r \in Requests : req[r].ok \subseteq Txs
    BY <1>1 DEF TypeOK, Request
  <2>4. QED
    BY <1>1, <2>1, <2>2, <2>3 DEF GrantInv, Backed, Staged
<1>7. QED
  BY <1>2, <1>3, <1>4, <1>5, <1>6 DEF Next, ClientNext, RequestStep

LEMMA GrantInit == Init => GrantInv
<1> SUFFICES ASSUME Init PROVE GrantInv
  OBVIOUS
<1>1. Backed
  BY DEF Init, Backed, NoSub, NoEnt
<1>2. \A r \in Requests : Staged(req[r])
  BY IdleType DEF Init, Staged
<1>3. QED
  BY <1>1, <1>2, TypeInit DEF GrantInv

\* Access is granted only for what was charged, and to a learner whom the provider binds the
\* transaction to, whatever is verified, restored, notified and reconciled at once.
THEOREM GrantsArePaid == Spec => []EveryGrantIsPaid
<1>1. GrantInv => EveryGrantIsPaid
  BY DEF GrantInv, Backed, EveryGrantIsPaid, IsLive
<1>2. QED
  BY <1>1, GrantInit, GrantNext, PTL DEF Spec

----------------------------------------------------------------------------
(* The newest event rules, and purchases end with their refunds            *)

\* An event that was applied is on record and on the feed; a subscription has seen the events
\* applied to it, and what one was applied to is there.
Audited ==
    /\ recorded \subseteq 1 .. Len(feed)
    /\ \A i \in EventIds : applied[i] # {} => i \in recorded
    /\ \A i \in EventIds, t \in Txs : applied[i] = {t} =>
          IF t \in Plans THEN sub[t].status # "none" /\ feed[i].at <= sub[t].asOf
          ELSE purchase[t] # "none"

HistoryInv ==
    /\ LedgerInv /\ GrantInv /\ Audited
    /\ NewestEventRules /\ PurchaseEndsWithItsRefund

SubRow == [status: SubStatus, end: Expiry, asOf: 0 .. MaxTime, cancel: BOOLEAN]

\* The status that an event sets, whatever the subscription was.
Says(e) ==
    CASE e.type = "RENEWAL"       -> "active"
      [] e.type = "EXPIRATION"    -> "expired"
      [] e.type = "GRACE_PERIOD"  -> "inGracePeriod"
      [] e.type = "BILLING_RETRY" -> "billingRetry"
      [] e.type = "REFUND"        -> "revoked"

LEMMA EffectIsSaid ==
  ASSUME NEW e \in Event, NEW old \in SubRow
  PROVE  /\ e.type # "CANCELLATION" => SubEffect(e, old).status = Says(e)
         /\ e.type = "CANCELLATION" => SubEffect(e, old).status = old.status
         /\ SubEffect(e, old).asOf = old.asOf
<1>1. e.type \in EventType
  BY DEF Event
<1>2. CASE e.type = "RENEWAL"
  BY <1>2 DEF SubEffect, Says, SubRow
<1>3. CASE e.type = "EXPIRATION"
  BY <1>3 DEF SubEffect, Says, SubRow
<1>4. CASE e.type = "GRACE_PERIOD"
  BY <1>4 DEF SubEffect, Says, SubRow
<1>5. CASE e.type = "BILLING_RETRY"
  BY <1>5 DEF SubEffect, Says, SubRow
<1>6. CASE e.type = "CANCELLATION"
  BY <1>6 DEF SubEffect, SubRow
<1>7. CASE e.type = "REFUND"
  BY <1>7 DEF SubEffect, Says, SubRow
<1>8. QED
  BY <1>1, <1>2, <1>3, <1>4, <1>5, <1>6, <1>7 DEF EventType

\* What rules a subscription, with what each event says for its effect.
Ruled(s) ==
    \E i \in Newest(s) :
       sub[s].status = Says(feed[i]) \/ (Says(feed[i]) \in LiveSub /\ sub[s].status = "expired")

Rules == \A s \in Plans : StatusEvents(s) # {} => Ruled(s)

LEMMA RulesRestated == TypeOK /\ Audited => (NewestEventRules <=> Rules)
<1> SUFFICES ASSUME TypeOK, Audited PROVE NewestEventRules <=> Rules
  OBVIOUS
<1>1. ASSUME NEW s \in Plans, NEW i \in StatusEvents(s)
      PROVE  SubEffect(feed[i], sub[s]).status = Says(feed[i])
  <2>1. i \in 1 .. Len(feed) /\ feed[i].type # "CANCELLATION"
    BY DEF StatusEvents, Audited
  <2>2. feed[i] \in Event
    BY <2>1 DEF TypeOK, ProviderTypeOK
  <2>3. sub[s] \in SubRow
    BY ProviderAssumption DEF TypeOK, SubRow
  <2>4. QED
    BY <2>1, <2>2, <2>3, EffectIsSaid
<1>2. \A s \in Plans : Newest(s) \subseteq StatusEvents(s)
  BY DEF Newest
<1>3. QED
  BY <1>1, <1>2 DEF NewestEventRules, Rules, Ruled

\* Where no event is applied, statuses stay or expire, and no purchase changes.
LEMMA HistoryStays ==
  ASSUME HistoryInv, LedgerInv', GrantInv', UNCHANGED applied,
         recorded \subseteq recorded', recorded' \subseteq 1 .. Len(feed'),
         \A i \in 1 .. Len(feed) : feed'[i] = feed[i],
         \A t \in Plans : sub[t].status # "none" =>
            /\ sub'[t].asOf = sub[t].asOf
            /\ \/ sub'[t].status = sub[t].status
               \/ sub[t].status \in LiveSub /\ sub'[t].status = "expired",
         \A t \in OneOffs : purchase[t] # "none" => purchase'[t] = purchase[t] /\ ent'[t] = ent[t],
         \A t \in OneOffs : purchase[t] = "none" /\ purchase'[t] # "none" =>
            purchase'[t] = "completed" /\ ent'[t] = [status |-> "active", expires |-> Never]
  PROVE  HistoryInv'
<1>1. TypeOK /\ TypeOK' /\ Plans \subseteq Txs
  BY ProviderAssumption DEF HistoryInv, GrantInv
<1>2. \A i \in EventIds : applied[i] # {} => i \in 1 .. Len(feed) /\ feed'[i] = feed[i]
  BY DEF HistoryInv, Audited
<1>3. Audited'
  <2>1. ASSUME NEW i \in EventIds, NEW t \in Txs, applied[i] = {t}
        PROVE  IF t \in Plans THEN sub'[t].status # "none" /\ feed'[i].at <= sub'[t].asOf
               ELSE purchase'[t] # "none"
    <3>1. CASE t \in Plans
      BY <1>2, <2>1, <3>1 DEF HistoryInv, Audited, LiveSub
    <3>2. CASE t \notin Plans
      BY <1>2, <2>1, <3>2 DEF HistoryInv, Audited, OneOffs
    <3>3. QED
      BY <3>1, <3>2
  <2>2. QED
    BY <2>1 DEF HistoryInv, Audited
<1>4. NewestEventRules'
  <2>1. ASSUME NEW s \in Plans
        PROVE  StatusEvents(s)' = StatusEvents(s) /\ Newest(s)' = Newest(s)
    <3>1. StatusEvents(s)' = StatusEvents(s)
      BY <1>2 DEF StatusEvents
    <3>2. \A i \in StatusEvents(s) : feed'[i] = feed[i]
      BY <1>2 DEF StatusEvents
    <3>3. QED
      BY <3>1, <3>2 DEF Newest
  <2>2. ASSUME NEW s \in Plans, StatusEvents(s) # {} PROVE Ruled(s)'
    <3>1. PICK i \in Newest(s) :
             \/ sub[s].status = Says(feed[i])
             \/ Says(feed[i]) \in LiveSub /\ sub[s].status = "expired"
      BY <1>1, <2>2, RulesRestated DEF HistoryInv, Rules, Ruled
    <3>2. i \in EventIds /\ applied[i] = {s}
      BY <3>1 DEF Newest, StatusEvents
    <3>3. feed'[i] = feed[i] /\ sub[s].status # "none"
      BY <1>1, <1>2, <3>2 DEF HistoryInv, Audited
    <3>4. Says(feed[i])' = Says(feed[i])
      BY <3>3 DEF Says
    <3>5. \/ sub'[s].status = Says(feed[i])
          \/ Says(feed[i]) \in LiveSub /\ sub'[s].status = "expired"
      BY <3>1, <3>3 DEF LiveSub
    <3>6. QED
      BY <2>1, <3>1, <3>4, <3>5 DEF Ruled
  <2>3. Rules'
    BY <2>1, <2>2 DEF Rules
  <2>4. (TypeOK /\ Audited => (NewestEventRules <=> Rules))'
    BY RulesRestated, PTL
  <2>5. QED
    BY <1>1, <1>3, <2>3, <2>4
<1>5. PurchaseEndsWithItsRefund'
  <2>1. ASSUME NEW t \in OneOffs, purchase'[t] # "none"
        PROVE  IF \E i \in EventIds : applied'[i] = {t}
               THEN purchase'[t] = "refunded" /\ ent'[t].status = "revoked"
               ELSE purchase'[t] = "completed" /\ ent'[t] = [status |-> "active", expires |-> Never]
    <3>1. CASE purchase[t] # "none"
      BY <2>1, <3>1 DEF HistoryInv, PurchaseEndsWithItsRefund
    <3>2. CASE purchase[t] = "none"
      <4>1. \A i \in EventIds : applied[i] # {t}
        BY <3>2 DEF HistoryInv, Audited, OneOffs
      <4>2. QED
        BY <2>1, <3>2, <4>1
    <3>3. QED
      BY <3>1, <3>2
  <2>2. QED
    BY <2>1 DEF PurchaseEndsWithItsRefund
<1>6. QED
  BY <1>3, <1>4, <1>5 DEF HistoryInv

\* The history over the commit of a request: what it has verified was on no record.
LEMMA HistoryCommits ==
  ASSUME HistoryInv, LedgerInv', GrantInv', NEW r \in Requests, Commit(r)
  PROVE  HistoryInv'
<1>1. PICK q : q = req[r]
  OBVIOUS
<1>2. /\ sub' = [t \in Txs |-> IF t \in q.ok \cap Plans THEN GrantedSub(q, t) ELSE sub[t]]
      /\ purchase' = [t \in Txs |-> IF t \in q.ok \ Plans THEN "completed" ELSE purchase[t]]
      /\ ent' = [t \in Txs |-> IF t \in q.ok THEN GrantedEnt(q, t) ELSE ent[t]]
      /\ ~UniqueViolation(q) /\ UNCHANGED <<feed, recorded, applied>>
  BY <1>1 DEF Commit, providerVars, audit
<1>3. Plans \subseteq Txs
  BY ProviderAssumption
<1>4. \A t \in q.ok : payment[t].status = "none"
  BY <1>2 DEF UniqueViolation
<1>5. \A t \in Plans : sub[t].status # "none" => sub'[t] = sub[t]
  BY <1>2, <1>3, <1>4 DEF HistoryInv, GrantInv, Backed
<1>6. \A t \in OneOffs : purchase[t] # "none" => purchase'[t] = purchase[t] /\ ent'[t] = ent[t]
  BY <1>2, <1>4 DEF HistoryInv, GrantInv, Backed, OneOffs
<1>7. \A t \in OneOffs : purchase[t] = "none" /\ purchase'[t] # "none" =>
         purchase'[t] = "completed" /\ ent'[t] = [status |-> "active", expires |-> Never]
  BY <1>2 DEF OneOffs, GrantedEnt
<1>8. recorded' \subseteq 1 .. Len(feed') /\ recorded \subseteq recorded'
  BY <1>2 DEF HistoryInv, Audited
<1>9. QED
  BY <1>2, <1>5, <1>6, <1>7, <1>8, HistoryStays

\* ... over an event applied to a subscription: it is no older than those applied before it.
LEMMA HistoryApplies ==
  ASSUME HistoryInv, LedgerInv', GrantInv', NEW i \in EventIds, ApplyToSub(i)
  PROVE  HistoryInv'
<1>1. TypeOK /\ Plans \subseteq Txs
  BY ProviderAssumption DEF HistoryInv, GrantInv
<1>2. PICK e, s : /\ e = feed[i] /\ s \in Txs /\ SubsOf(e) = {s} /\ ~OutOfOrder(e, s)
                  /\ sub' = [sub EXCEPT ![s] = SubEffect(e, [@ EXCEPT !.asOf = e.at])]
                  /\ ent' = [ent EXCEPT ![s] = EntEffect(e, @)]
                  /\ applied' = [applied EXCEPT ![i] = {s}]
  BY DEF ApplyToSub
<1>3. PICK old : old = [sub[s] EXCEPT !.asOf = e.at]
  OBVIOUS
<1>4. /\ i \in 1 .. Len(feed) /\ i \notin recorded /\ recorded' = recorded \cup {i}
      /\ e \in Event /\ e.at \in 1 .. MaxTime /\ MaxTime \in Nat
      /\ UNCHANGED <<feed, purchase>>
  BY <1>1, <1>2, EventTyped, ProviderAssumption DEF ApplyToSub, Record, providerVars
<1>5. sub[s] \in SubRow /\ old \in SubRow /\ old.asOf = e.at /\ old.status = sub[s].status
  <2>1. sub[s] \in SubRow
    BY <1>1, <1>2 DEF TypeOK, SubRow
  <2>2. e.at \in 0 .. MaxTime
    BY <1>4
  <2>3. QED
    BY <1>3, <2>1, <2>2 DEF SubRow
<1>6. s \in Plans /\ sub[s].status # "none"
  BY <1>2 DEF SubsOf, HistoryInv, GrantInv, Backed
<1>7. /\ sub'[s] = SubEffect(e, old) /\ sub'[s].asOf = e.at
      /\ e.type # "CANCELLATION" => sub'[s].status = Says(e)
      /\ e.type = "CANCELLATION" => sub'[s].status = sub[s].status
      /\ \A t \in Txs \ {s} : sub'[t] = sub[t] /\ ent'[t] = ent[t]
  BY <1>1, <1>2, <1>3, <1>4, <1>5, EffectIsSaid DEF TypeOK
<1>8. /\ applied[i] = {} /\ applied'[i] = {s} /\ \A j \in EventIds \ {i} : applied'[j] = applied[j]
  BY <1>1, <1>2, <1>4 DEF HistoryInv, Audited, TypeOK
<1>9. ASSUME NEW j \in EventIds, applied[j] = {s} PROVE feed[j].at <= e.at
  <2>1. j \in 1 .. Len(feed) /\ feed[j].at <= sub[s].asOf
    BY <1>2, <1>6, <1>9 DEF HistoryInv, Audited
  <2>2. feed[j] \in Event
    BY <1>1, <2>1 DEF TypeOK, ProviderTypeOK
  <2>3. feed[j].at \in 1 .. MaxTime /\ sub[s].asOf \in 0 .. MaxTime
    BY <1>5, <2>2 DEF Event, Now, SubRow
  <2>4. sub[s].asOf = 0 \/ sub[s].asOf <= e.at
    BY <1>2, <1>4, <2>3 DEF OutOfOrder
  <2>5. QED
    BY <1>4, <2>1, <2>3, <2>4
<1>10. Audited'
  <2>1. recorded' \subseteq 1 .. Len(feed')
    BY <1>4 DEF HistoryInv, Audited
  <2>2. \A j \in EventIds : applied'[j] # {} => j \in recorded'
    BY <1>4, <1>8 DEF HistoryInv, Audited
  <2>3. ASSUME NEW j \in EventIds, NEW t \in Txs, applied'[j] = {t}
        PROVE  IF t \in Plans THEN sub'[t].status # "none" /\ feed'[j].at <= sub'[t].asOf
               ELSE purchase'[t] # "none"
    <3>1. CASE t = s
      <4>1. feed[j].at <= e.at
        BY <1>2, <1>4, <1>8, <1>9, <2>3, <3>1
      <4>2. sub'[s].status # "none"
        BY <1>6, <1>7, <1>4 DEF Says, Event, EventType
      <4>3. QED
        BY <1>4, <1>6, <1>7, <3>1, <4>1, <4>2
    <3>2. CASE t # s
      <4>1. applied[j] = {t}
        BY <1>8, <2>3, <3>2
      <4>2. QED
        BY <1>4, <1>7, <3>2, <4>1 DEF HistoryInv, Audited
    <3>3. QED
      BY <3>1, <3>2
  <2>4. QED
    BY <2>1, <2>2, <2>3 DEF Audited
<1>11. Rules
  BY <1>1, RulesRestated DEF HistoryInv
<1>12. ASSUME NEW t \in Plans, StatusEvents(t)' # {} PROVE Ruled(t)'
  <2>1. CASE t # s \/ e.type = "CANCELLATION"
    <3>1. StatusEvents(t)' = StatusEvents(t)
      BY <1>2, <1>4, <1>8, <2>1 DEF StatusEvents
    <3>2. Newest(t)' = Newest(t)
      BY <1>4, <3>1 DEF Newest
    <3>3. sub'[t].status = sub[t].status
      BY <1>1, <1>7, <2>1
    <3>4. Ruled(t)
      BY <1>11, <1>12, <3>1 DEF Rules
    <3>5. PICK j \in Newest(t) :
             \/ sub[t].status = Says(feed[j])
             \/ Says(feed[j]) \in LiveSub /\ sub[t].status = "expired"
      BY <3>4 DEF Ruled
    <3>6. Says(feed[j])' = Says(feed[j])
      BY <1>4 DEF Says
    <3>7. QED
      BY <3>2, <3>3, <3>5, <3>6 DEF Ruled
  <2>2. CASE t = s /\ e.type # "CANCELLATION"
    <3>1. i \in StatusEvents(s)'
      BY <1>2, <1>4, <1>8, <2>2 DEF StatusEvents
    <3>2. \A j \in StatusEvents(s)' : feed'[j].at <= feed'[i].at
      BY <1>2, <1>4, <1>8, <1>9 DEF StatusEvents
    <3>3. i \in Newest(s)'
      BY <3>1, <3>2 DEF Newest
    <3>4. Says(feed[i])' = Says(e)
      BY <1>2, <1>4 DEF Says
    <3>5. QED
      BY <1>7, <2>2, <3>3, <3>4 DEF Ruled
  <2>3. QED
    BY <2>1, <2>2
<1>13. NewestEventRules'
  <2>1. Rules'
    BY <1>12 DEF Rules
  <2>2. (TypeOK /\ Audited => (NewestEventRules <=> Rules))'
    BY RulesRestated, PTL
  <2>3. QED
    BY <1>10, <2>1, <2>2 DEF GrantInv
<1>14. PurchaseEndsWithItsRefund'
  <2>1. \A t \in OneOffs : t # s /\ t \in Txs
    BY <1>6 DEF OneOffs
  <2>2. \A t \in OneOffs, j \in EventIds : applied'[j] = {t} <=> applied[j] = {t}
    BY <1>8, <2>1
  <2>3. QED
    BY <1>4, <1>7, <2>1, <2>2 DEF HistoryInv, PurchaseEndsWithItsRefund
<1>15. QED
  BY <1>10, <1>13, <1>14 DEF HistoryInv

\* ... over the refund of a purchase.
LEMMA HistoryRefunds ==
  ASSUME HistoryInv, LedgerInv', GrantInv', NEW i \in EventIds, RefundPurchase(i)
  PROVE  HistoryInv'
<1>1. TypeOK /\ Plans \subseteq Txs
  BY ProviderAssumption DEF HistoryInv, GrantInv
<1>2. PICK t \in PurchasesOf(feed[i]) :
         /\ purchase' = [purchase EXCEPT ![t] = "refunded"]
         /\ ent' = [ent EXCEPT ![t].status = "revoked"]
         /\ applied' = [applied EXCEPT ![i] = {t}]
  BY DEF RefundPurchase
<1>3. /\ i \in 1 .. Len(feed) /\ i \notin recorded /\ recorded' = recorded \cup {i}
      /\ feed[i].ids \subseteq Txs /\ UNCHANGED <<feed, sub>>
  BY <1>1, EventTyped DEF RefundPurchase, Record, providerVars
<1>4. t \in Txs /\ purchase[t] # "none" /\ t \notin Plans
  BY <1>2, <1>3 DEF PurchasesOf, HistoryInv, LedgerInv, PlansAreNotPurchased
<1>5. /\ purchase'[t] = "refunded" /\ ent'[t].status = "revoked"
      /\ \A u \in Txs \ {t} : purchase'[u] = purchase[u] /\ ent'[u] = ent[u]
  BY <1>1, <1>2, <1>4 DEF TypeOK
<1>6. /\ applied[i] = {} /\ applied'[i] = {t} /\ \A j \in EventIds \ {i} : applied'[j] = applied[j]
  BY <1>1, <1>2, <1>3 DEF HistoryInv, Audited, TypeOK
<1>7. Audited'
  <2>1. recorded' \subseteq 1 .. Len(feed') /\ \A j \in EventIds : applied'[j] # {} => j \in recorded'
    BY <1>3, <1>6 DEF HistoryInv, Audited
  <2>2. ASSUME NEW j \in EventIds, NEW u \in Txs, applied'[j] = {u}
        PROVE  IF u \in Plans THEN sub'[u].status # "none" /\ feed'[j].at <= sub'[u].asOf
               ELSE purchase'[u] # "none"
    <3>1. CASE u = t
      BY <1>4, <1>5, <3>1
    <3>2. CASE u # t
      <4>1. applied[j] = {u}
        BY <1>6, <2>2, <3>2
      <4>2. QED
        BY <1>3, <1>5, <3>2, <4>1 DEF HistoryInv, Audited
    <3>3. QED
      BY <3>1, <3>2
  <2>3. QED
    BY <2>1, <2>2 DEF Audited
<1>8. NewestEventRules'
  <2>1. \A s \in Plans, j \in EventIds : applied'[j] = {s} <=> applied[j] = {s}
    BY <1>4, <1>6
  <2>2. \A s \in Plans : StatusEvents(s)' = StatusEvents(s)
    BY <1>3, <2>1 DEF StatusEvents
  <2>3. \A s \in Plans : Newest(s)' = Newest(s)
    BY <1>3, <2>2 DEF Newest
  <2>4. QED
    BY <1>3, <2>2, <2>3 DEF HistoryInv, NewestEventRules, SubEffect
<1>9. PurchaseEndsWithItsRefund'
  <2>1. \A u \in OneOffs \ {t}, j \in EventIds : applied'[j] = {u} <=> applied[j] = {u}
    BY <1>6
  <2>2. ASSUME NEW u \in OneOffs, purchase'[u] # "none"
        PROVE  IF \E j \in EventIds : applied'[j] = {u}
               THEN purchase'[u] = "refunded" /\ ent'[u].status = "revoked"
               ELSE purchase'[u] = "completed" /\ ent'[u] = [status |-> "active", expires |-> Never]
    <3>1. CASE u = t
      BY <1>5, <1>6, <3>1
    <3>2. CASE u # t
      BY <1>5, <2>1, <2>2, <3>2 DEF HistoryInv, PurchaseEndsWithItsRefund, OneOffs
    <3>3. QED
      BY <3>1, <3>2
  <2>3. QED
    BY <2>2 DEF PurchaseEndsWithItsRefund
<1>10. QED
  BY <1>7, <1>8, <1>9 DEF HistoryInv

\* ... over reconciliation, cancellation and changes of plan, which are of subscriptions only.
LEMMA HistoryKeeps ==
  ASSUME HistoryInv, LedgerInv', GrantInv',
         Reconcile \/ \E s \in Txs : CancelSubscription(s) \/ ChangePlan(s)
  PROVE  HistoryInv'
<1>1. TypeOK /\ Plans \subseteq Txs
  BY ProviderAssumption DEF HistoryInv, GrantInv
<1>2. \A t \in OneOffs : sub[t].status = "none" /\ t \in Txs
  BY DEF OneOffs, HistoryInv, GrantInv, Backed
<1>3. /\ \A t \in Txs : /\ sub'[t].asOf = sub[t].asOf
                        /\ \/ sub'[t].status = sub[t].status
                           \/ sub[t].status \in LiveSub /\ sub'[t].status = "expired"
      /\ \A t \in Txs : sub[t].status # "none" \/ ent'[t] = ent[t]
      /\ UNCHANGED <<feed, purchase, recorded, applied>>
  <2>1. CASE Reconcile
    BY <1>1, <2>1 DEF Reconcile, Due, LiveSub, TypeOK, providerVars, audit
  <2>2. ASSUME NEW s \in Txs, CancelSubscription(s)
        PROVE  /\ \A t \in Txs : sub'[t].asOf = sub[t].asOf /\ sub'[t].status = sub[t].status
               /\ UNCHANGED <<feed, purchase, recorded, applied, ent>>
    BY <1>1, <2>2 DEF CancelSubscription, TypeOK, providerVars, audit
  <2>3. ASSUME NEW s \in Txs, ChangePlan(s)
        PROVE  /\ \A t \in Txs : sub'[t].asOf = sub[t].asOf /\ sub'[t].status = sub[t].status
               /\ \A t \in Txs : sub[t].status # "none" \/ ent'[t] = ent[t]
               /\ UNCHANGED <<feed, purchase, recorded, applied>>
    <3>1. /\ sub[s].status # "none"
          /\ sub' = [sub EXCEPT ![s] = [@ EXCEPT !.end = clock + Period, !.cancel = FALSE]]
          /\ UNCHANGED <<feed, purchase, recorded, applied>>
      BY <2>3 DEF ChangePlan, providerVars, audit
    <3>2. \A t \in Txs : sub'[t].asOf = sub[t].asOf /\ sub'[t].status = sub[t].status
      BY <1>1, <3>1 DEF TypeOK
    <3>3. \A t \in Txs \ {s} : ent'[t] = ent[t]
      BY <1>1, <2>3 DEF ChangePlan, TypeOK
    <3>4. QED
      BY <3>1, <3>2, <3>3
  <2>4. QED
    BY <2>1, <2>2, <2>3
<1>4. recorded' \subseteq 1 .. Len(feed') /\ recorded \subseteq recorded'
  BY <1>3 DEF HistoryInv, Audited
<1>5. QED
  BY <1>1, <1>2, <1>3, <1>4, HistoryStays

\* The history over every step.
LEMMA HistoryNext == HistoryInv /\ [Next]_vars => HistoryInv'
<1> SUFFICES ASSUME HistoryInv, [Next]_vars PROVE HistoryInv'
  OBVIOUS
<1>1. /\ TypeOK /\ recorded \subseteq 1 .. Len(feed) /\ LedgerInv' /\ GrantInv'
  BY LedgerNext, GrantNext DEF HistoryInv, GrantInv, Audited
<1>2. ASSUME NEW r \in Requests, Commit(r) PROVE HistoryInv'
  BY <1>1, <1>2, HistoryCommits
<1>3. ASSUME UNCHANGED <<sub, ent, purchase, applied>>,
             recorded \subseteq recorded', recorded' \subseteq 1 .. Len(feed'),
             \A i \in 1 .. Len(feed) : feed'[i] = feed[i]
      PROVE  HistoryInv'
  BY <1>1, <1>3, HistoryStays
<1>4. ASSUME NEW r \in Requests,
             \/ RequestStep(r) /\ ~Commit(r)
             \/ Fail(r) \/ \E c \in Calls : StartVerify(r, c) \/ StartRestore(r, c)
      PROVE  HistoryInv'
  <2>1. UNCHANGED <<providerVars, tables, audit>>
    BY <1>4 DEF RequestStep, InsertKey, LockTx, CheckVerified, CheckRejected, AccountMismatch,
                RedeemCoupon, ConstraintError, AbortDeadlock, Fail, Rollback, StartVerify,
                StartRestore
  <2>2. QED
    BY <1>1, <1>3, <2>1 DEF providerVars, tables, audit
<1>5. ASSUME NEW i \in EventIds, Webhook(i) PROVE HistoryInv'
  <2>1. CASE IgnoreStale(i) \/ IgnoreUnmatched(i)
    <3>1. /\ UNCHANGED <<feed, sub, ent, purchase, applied>> /\ i \in 1 .. Len(feed)
          /\ recorded' = recorded \cup {i}
      BY <1>1, <2>1, EventTyped DEF IgnoreStale, IgnoreUnmatched, providerVars, tables, Record
    <3>2. QED
      BY <1>1, <1>3, <3>1
  <2>2. QED
    BY <1>1, <1>5, <2>1, HistoryApplies, HistoryRefunds DEF Webhook
<1>6. CASE World
  <2>1. UNCHANGED <<sub, ent, purchase, applied, recorded>>
    BY <1>6 DEF World, tables, audit
  <2>2. Len(feed) <= Len(feed') /\ \A i \in 1 .. Len(feed) : feed'[i] = feed[i]
    BY <1>1, <1>6, ProviderMoves DEF World, TypeOK
  <2>3. Len(feed) \in Nat /\ Len(feed') \in Nat
    BY <1>1 DEF TypeOK, ProviderTypeOK, GrantInv
  <2>4. QED
    BY <1>1, <1>3, <2>1, <2>2, <2>3
<1>7. CASE SetPurchasesOpen \/ UNCHANGED vars
  BY <1>1, <1>3, <1>7 DEF SetPurchasesOpen, vars, providerVars, tables, audit
<1>8. QED
  BY <1>1, <1>2, <1>4, <1>5, <1>6, <1>7, HistoryKeeps DEF Next, ClientNext, BackendNext

LEMMA HistoryInit == Init => HistoryInv
<1> SUFFICES ASSUME Init PROVE HistoryInv
  OBVIOUS
<1>1. Audited
  BY DEF Init, Audited
<1>2. \A s \in Plans : StatusEvents(s) = {}
  BY DEF Init, StatusEvents
<1>3. NewestEventRules /\ PurchaseEndsWithItsRefund
  BY <1>2 DEF Init, NewestEventRules, PurchaseEndsWithItsRefund, OneOffs
<1>4. QED
  BY <1>1, <1>3, LedgerInit, GrantInit DEF HistoryInv

LEMMA HistoryIsKept == Spec => []HistoryInv
BY HistoryInit, HistoryNext, PTL DEF Spec

\* The status of a subscription is what the newest event applied to it says, or it has expired
\* by reconciliation: no stale event, restore, cancellation or change of plan undoes it.
THEOREM NewestEventsRule == Spec => []NewestEventRules
<1>1. HistoryInv => NewestEventRules
  BY DEF HistoryInv
<1>2. QED
  BY <1>1, HistoryIsKept, PTL

\* A course bought individually is open until its own refund, and closed for good after it.
THEOREM PurchasesEndWithRefunds == Spec => []PurchaseEndsWithItsRefund
<1>1. HistoryInv => PurchaseEndsWithItsRefund
  BY DEF HistoryInv
<1>2. QED
  BY <1>1, HistoryIsKept, PTL
=============================================================================
