----------------------- MODULE CommerceRequestProofs -----------------------
(***************************************************************************)
(* Concurrent verification and restore: the advisory locks keep every two  *)
(* requests apart, whatever number of them runs. RequestInv is inductive;  *)
(* the safety properties of CommerceProps about requests follow from it.   *)
(***************************************************************************)
EXTENDS CommerceProofs, FiniteSetTheorems

\* The transactions whose advisory lock a request has.
Holds(q) == IF q.pc = "idle" THEN {}
            ELSE {t \in q.call.txs \ q.todo : ~(q.pc = "locking" /\ q.cur = t)}

\* The transactions a request has found without a payment and relies on.
Claims(q) == q.ok \cup q.bad \cup (IF q.pc = "checking" THEN {q.cur} ELSE {})

\* The transactions a request is done with.
Done(q) == {t \in q.call.txs \ q.todo : ~(q.pc \in {"locking", "checking"} /\ q.cur = t)}

\* A request by itself: what it has yet to do, is doing and has done.
InOrder(q) == q.pc # "idle" =>
    /\ q.todo \subseteq q.call.txs
    /\ q.ok \cup q.bad \subseteq Done(q)
    /\ q.pc = "keying" => q.todo = q.call.txs /\ q.call.kind = "verify"
    /\ q.pc \in {"locking", "checking", "redeeming"} => q.cur \in q.call.txs \ q.todo
    /\ q.pc = "redeeming" => q.cur \in q.ok /\ q.call.coupon # NoCoupon
    /\ q.pc = "committing" => q.todo = {}
    /\ q.redeem => q.call.txs \subseteq q.ok

\* A request and the ledger: the payments it relies on are still to be
\* recorded, and what it has replayed is on record as its learner's.
Grounded(q) == q.pc # "idle" =>
    /\ \A t \in Claims(q) : payment[t].status = "none"
    /\ \A t \in Done(q) \ (q.ok \cup q.bad) : q.call.learner \in payment[t].owner

Exclusive == \A r, q \in Requests : r # q => Holds(req[r]) \cap Holds(req[q]) = {}

OwnedIsRecorded == \A t \in Txs : payment[t].owner # {} => payment[t].status # "none"

RequestInv ==
    /\ TypeOK
    /\ \A r \in Requests : InOrder(req[r]) /\ Grounded(req[r])
    /\ Exclusive
    /\ OwnedIsRecorded
    /\ StoredResponseIsTrue
    /\ RedemptionIsPaid

----------------------------------------------------------------------------
(* One request on its own                                                  *)

\* A verify call is about one transaction, and only verify calls have keys and
\* coupons.
LEMMA CallShape ==
  ASSUME NEW c \in Calls
  PROVE  /\ c.txs \subseteq Txs
         /\ c.kind \in {"verify", "restore"}
         /\ c.kind = "verify" => \E t \in Txs : c.txs = {t}
         /\ c.kind = "restore" => c.key = NoKey /\ c.coupon = NoCoupon
<1>1. c \in Call
  BY CommerceAssumption
<1>2. c.txs \subseteq Txs /\ c.kind \in {"verify", "restore"}
  BY <1>1 DEF Call
<1>3. /\ c.kind = "verify" => \E t \in Txs : c.txs = {t}
      /\ c.kind = "restore" => c.key = NoKey /\ c.coupon = NoCoupon
  BY <1>2, CommerceAssumption
<1>4. QED
  BY <1>2, <1>3

\* Going on to the next transaction takes no lock and stages nothing.
LEMMA ProceedKeeps ==
  ASSUME NEW q \in Request, NEW p \in Proceed(q),
         q.todo \subseteq q.call.txs,
         q.ok \cup q.bad \subseteq q.call.txs \ q.todo,
         q.redeem => q.call.txs \subseteq q.ok
  PROVE  /\ InOrder(p) /\ p.pc # "idle"
         /\ Holds(p) = q.call.txs \ q.todo
         /\ Done(p) = q.call.txs \ q.todo
         /\ Claims(p) = q.ok \cup q.bad
<1>1. p.pc # "idle" /\ p.pc # "checking" /\ p.pc # "redeeming" /\ p.pc # "keying"
      /\ p.call = q.call /\ p.ok = q.ok /\ p.bad = q.bad /\ p.redeem = q.redeem
  BY ProceedType
<1>2. Claims(p) = q.ok \cup q.bad
  BY <1>1 DEF Claims
<1>3. CASE q.todo = {}
  <2>1. p = [q EXCEPT !.pc = "committing"]
    BY <1>3 DEF Proceed
  <2>2. p.todo = {} /\ p.pc = "committing"
    BY <1>3, <2>1 DEF Request
  <2>3. Holds(p) = q.call.txs \ q.todo /\ Done(p) = q.call.txs \ q.todo
    BY <1>1, <1>3, <2>2 DEF Holds, Done
  <2>4. QED
    BY <1>1, <1>2, <2>2, <2>3 DEF InOrder
<1>4. CASE q.todo # {}
  <2>1. PICK t \in q.todo : p = [q EXCEPT !.pc = "locking", !.cur = t, !.todo = @ \ {t}]
    BY <1>4 DEF Proceed
  <2>2. p.todo = q.todo \ {t} /\ p.pc = "locking" /\ p.cur = t
    BY <2>1 DEF Request
  <2>3. Holds(p) = q.call.txs \ q.todo /\ Done(p) = q.call.txs \ q.todo
    BY <1>1, <2>2 DEF Holds, Done
  <2>4. QED
    BY <1>1, <1>2, <2>2, <2>3 DEF InOrder
<1>5. QED
  BY <1>3, <1>4

\* What a request has when it begins.
LEMMA BegunKeeps ==
  ASSUME NEW c \in Calls, open \in BOOLEAN
  PROVE  LET q == Begun(c)
             k == [Begun(c) EXCEPT !.pc = "keying"]
         IN  /\ q.todo = c.txs /\ k.todo = c.txs
             /\ k.call = c /\ k.ok = {} /\ k.bad = {} /\ k.redeem = FALSE /\ k.pc = "keying"
BY CallShape, IdleType DEF Begun, Idle

\* What a request relies on is what it has locked.
LEMMA ClaimsAreHeld ==
  ASSUME NEW q \in Request, InOrder(q), q.pc # "idle"
  PROVE  Claims(q) \subseteq Holds(q)
BY DEF InOrder, Claims, Holds, Done

----------------------------------------------------------------------------
(* The steps                                                               *)

\* The request invariant at the start.
LEMMA RequestInit == Init => RequestInv
<1> SUFFICES ASSUME Init PROVE RequestInv
  OBVIOUS
<1>1. \A r \in Requests : req[r].pc = "idle"
  BY IdleType DEF Init
<1>2. /\ \A r \in Requests : InOrder(req[r]) /\ Grounded(req[r])
      /\ Exclusive
  BY <1>1 DEF InOrder, Grounded, Exclusive, Holds
<1>3. OwnedIsRecorded /\ StoredResponseIsTrue /\ RedemptionIsPaid
  BY DEF Init, OwnedIsRecorded, StoredResponseIsTrue, RedemptionIsPaid
<1>4. QED
  BY <1>1, <1>2, <1>3, TypeInit DEF RequestInv

\* A step of one request that changes no table, gains no lock but lockable
\* ones, and relies only on what is true.
LEMMA RequestMoves ==
  ASSUME RequestInv, TypeOK', NEW r \in Requests, NEW p \in Request,
         req' = [req EXCEPT ![r] = p],
         UNCHANGED <<payment, redeemed, idem>>,
         InOrder(p), Grounded(p),
         \A q \in Requests \ {r} : Holds(p) \cap Holds(req[q]) = {}
  PROVE  RequestInv'
<1> USE DEF RequestInv
<1>1. \A q \in Requests : req'[q] = IF q = r THEN p ELSE req[q]
  BY DEF TypeOK
<1>2. (\A q \in Requests : InOrder(req[q]) /\ Grounded(req[q]))'
  BY <1>1 DEF InOrder, Grounded
<1>3. Exclusive'
  BY <1>1 DEF Exclusive
<1>4. OwnedIsRecorded' /\ StoredResponseIsTrue' /\ RedemptionIsPaid'
  BY DEF OwnedIsRecorded, StoredResponseIsTrue, RedemptionIsPaid
<1>5. QED
  BY <1>2, <1>3, <1>4

\* The same for a step that goes on to the next transaction from q: a version of
\* the request that has staged or replayed the current one.
LEMMA RequestProceeds ==
  ASSUME RequestInv, TypeOK', NEW r \in Requests, NEW q \in Request, NEW p \in Proceed(q),
         req' = [req EXCEPT ![r] = p],
         UNCHANGED <<payment, redeemed, idem>>,
         q.todo \subseteq q.call.txs,
         q.ok \cup q.bad \subseteq q.call.txs \ q.todo,
         q.redeem => q.call.txs \subseteq q.ok,
         \A t \in q.ok \cup q.bad : payment[t].status = "none",
         \A t \in (q.call.txs \ q.todo) \ (q.ok \cup q.bad) : q.call.learner \in payment[t].owner,
         \A o \in Requests \ {r} : (q.call.txs \ q.todo) \cap Holds(req[o]) = {}
  PROVE  RequestInv'
<1>1. /\ p \in Request /\ p.call = q.call /\ p.ok = q.ok /\ p.bad = q.bad
      /\ InOrder(p) /\ p.pc # "idle"
      /\ Holds(p) = q.call.txs \ q.todo
      /\ Done(p) = q.call.txs \ q.todo
      /\ Claims(p) = q.ok \cup q.bad
  BY ProceedType, ProceedKeeps
<1>2. Grounded(p)
  BY <1>1 DEF Grounded
<1>3. QED
  BY <1>1, <1>2, RequestMoves

\* The request invariant when a request ends without a commit.
LEMMA RequestGivesUp ==
  ASSUME RequestInv, TypeOK', NEW r \in Requests, Rollback(r)
  PROVE  RequestInv'
<1>1. req' = [req EXCEPT ![r] = Idle] /\ UNCHANGED <<payment, redeemed, idem>>
  BY DEF Rollback, tables
<1>2. InOrder(Idle) /\ Grounded(Idle) /\ Holds(Idle) = {}
  BY IdleType DEF InOrder, Grounded, Holds
<1>3. QED
  BY <1>1, <1>2, IdleType, RequestMoves

\* ... when one begins.
LEMMA RequestBegins ==
  ASSUME RequestInv, TypeOK', NEW r \in Requests, NEW c \in Calls,
         StartVerify(r, c) \/ StartRestore(r, c)
  PROVE  RequestInv'
<1> DEFINE b == Begun(c)
           k == [Begun(c) EXCEPT !.pc = "keying"]
<1>1. open \in BOOLEAN
  BY DEF RequestInv, TypeOK
<1>2. /\ b \in Request /\ b.ok = {} /\ b.bad = {} /\ b.call = c /\ b.redeem = FALSE
      /\ b.todo = c.txs /\ k \in Request
      /\ k.todo = c.txs /\ k.call = c /\ k.ok = {} /\ k.bad = {} /\ k.redeem = FALSE
      /\ k.pc = "keying"
  BY <1>1, BegunType, BegunKeeps
<1>3. UNCHANGED <<payment, redeemed, idem>>
  BY DEF StartVerify, StartRestore, tables
<1> HIDE DEF b, k
<1>4. ASSUME NEW p \in Proceed(b), req' = [req EXCEPT ![r] = p] PROVE RequestInv'
  BY <1>2, <1>3, <1>4, RequestProceeds
<1>5. ASSUME c.kind = "verify", req' = [req EXCEPT ![r] = k] PROVE RequestInv'
  <2>1. InOrder(k) /\ Grounded(k) /\ Holds(k) = {}
    BY <1>2, <1>5 DEF InOrder, Grounded, Holds, Claims, Done
  <2>2. QED
    BY <1>2, <1>3, <1>5, <2>1, RequestMoves
<1>6. CASE StartVerify(r, c)
  BY <1>4, <1>5, <1>6 DEF StartVerify, b, k
<1>7. CASE StartRestore(r, c)
  BY <1>4, <1>7 DEF StartRestore, b
<1>8. QED
  BY <1>6, <1>7

\* The lock that TxFree finds free is one nobody else has.
LEMMA LockIsFree ==
  ASSUME RequestInv, NEW r \in Requests, req[r].pc = "locking", TxFree(r)
  PROVE  \A q \in Requests \ {r} :
            (req[r].call.txs \ req[r].todo) \cap Holds(req[q]) = {}
<1> SUFFICES ASSUME NEW q \in Requests \ {r}, NEW t \in req[r].call.txs \ req[r].todo,
                    t \in Holds(req[q])
             PROVE  FALSE
  OBVIOUS
<1>1. CASE t = req[r].cur
  <2>1. ~HoldsTx(q, t)
    BY <1>1 DEF TxFree
  <2>2. QED
    BY <2>1 DEF HoldsTx, Holds
<1>2. CASE t # req[r].cur
  BY <1>2 DEF RequestInv, Exclusive, Holds
<1>3. QED
  BY <1>1, <1>2

\* ... when one inserts its idempotency key.
LEMMA RequestInsertsKey ==
  ASSUME RequestInv, TypeOK', NEW r \in Requests, InsertKey(r)
  PROVE  RequestInv'
<1>1. /\ req[r] \in Request /\ InOrder(req[r]) /\ Grounded(req[r])
      /\ req[r].pc = "keying" /\ UNCHANGED <<payment, redeemed, idem>>
  BY DEF RequestInv, TypeOK, InsertKey, tables
<1>2. CASE req' = [req EXCEPT ![r] = Idle]
  BY <1>2, RequestGivesUp DEF InsertKey, Rollback, audit
<1>3. ASSUME NEW p \in Proceed(req[r]), req' = [req EXCEPT ![r] = p] PROVE RequestInv'
  <2>1. /\ req[r].todo = req[r].call.txs
        /\ req[r].ok = {} /\ req[r].bad = {}
        /\ req[r].redeem => req[r].call.txs \subseteq req[r].ok
    BY <1>1 DEF InOrder, Done
  <2>2. QED
    BY <1>1, <1>3, <2>1, RequestProceeds
<1>4. QED
  BY <1>2, <1>3 DEF InsertKey

\* ... when one locks a transaction and looks it up.
LEMMA RequestLocks ==
  ASSUME RequestInv, TypeOK', NEW r \in Requests, LockTx(r)
  PROVE  RequestInv'
<1> DEFINE q == req[r]
           t == q.cur
           k == [q EXCEPT !.pc = "checking"]
<1>1. /\ q \in Request /\ InOrder(q) /\ Grounded(q) /\ OwnedIsRecorded
      /\ q.pc = "locking" /\ TxFree(r) /\ UNCHANGED <<payment, redeemed, idem>>
  BY DEF RequestInv, TypeOK, LockTx, tables
<1>2. \A o \in Requests \ {r} : (q.call.txs \ q.todo) \cap Holds(req[o]) = {}
  BY <1>1, LockIsFree
<1>3. /\ q.todo \subseteq q.call.txs
      /\ q.ok \cup q.bad \subseteq (q.call.txs \ q.todo) \ {t}
      /\ t \in q.call.txs \ q.todo
      /\ q.redeem => q.call.txs \subseteq q.ok
      /\ Done(q) = (q.call.txs \ q.todo) \ {t}
  BY <1>1 DEF InOrder, Done
<1>4. /\ \A u \in q.ok \cup q.bad : payment[u].status = "none"
      /\ \A u \in Done(q) \ (q.ok \cup q.bad) : q.call.learner \in payment[u].owner
  BY <1>1 DEF Grounded, Claims
<1>5. CASE payment[t].status = "none"
  <2>1. req' = [req EXCEPT ![r] = k]
    BY <1>5 DEF LockTx
  <2>2. /\ k \in Request /\ k.pc = "checking" /\ k.call = q.call /\ k.cur = t /\ k.todo = q.todo
        /\ k.ok = q.ok /\ k.bad = q.bad /\ k.redeem = q.redeem
    BY <1>1 DEF Request, Phase
  <2> HIDE DEF k
  <2>3. InOrder(k)
    BY <1>3, <2>2 DEF InOrder, Done
  <2>4. Grounded(k)
    BY <1>3, <1>4, <1>5, <2>2 DEF Grounded, Claims, Done
  <2>5. Holds(k) = q.call.txs \ q.todo
    BY <2>2 DEF Holds
  <2>6. QED
    BY <1>1, <1>2, <2>1, <2>2, <2>3, <2>4, <2>5, RequestMoves
<1>6. ASSUME NEW p \in Proceed(q), req' = [req EXCEPT ![r] = p],
             q.call.learner \in payment[t].owner
      PROVE  RequestInv'
  BY <1>1, <1>2, <1>3, <1>4, <1>6, RequestProceeds
<1>7. CASE req' = [req EXCEPT ![r] = Idle]
  BY <1>7, RequestGivesUp DEF LockTx, Rollback, audit
<1>8. QED
  BY <1>5, <1>6, <1>7 DEF LockTx, Owns

\* ... when the provider has answered.
LEMMA RequestChecks ==
  ASSUME RequestInv, TypeOK', NEW r \in Requests, CheckVerified(r) \/ CheckRejected(r)
  PROVE  RequestInv'
<1> DEFINE q == req[r]
           t == q.cur
           v == [q EXCEPT !.ok = @ \cup {t}, !.until[t] = paidUntil[t]]
           k == [v EXCEPT !.pc = "redeeming"]
           w == [q EXCEPT !.bad = @ \cup {t}]
<1>1. /\ q \in Request /\ InOrder(q) /\ Grounded(q)
      /\ q.pc = "checking" /\ UNCHANGED <<payment, redeemed, idem>>
  BY DEF RequestInv, TypeOK, CheckVerified, CheckRejected, tables
<1>2. /\ q.todo \subseteq q.call.txs
      /\ q.ok \cup q.bad \subseteq (q.call.txs \ q.todo) \ {t}
      /\ t \in q.call.txs \ q.todo
      /\ q.redeem => q.call.txs \subseteq q.ok
      /\ Done(q) = (q.call.txs \ q.todo) \ {t}
  BY <1>1 DEF InOrder, Done
<1>3. /\ \A u \in q.ok \cup q.bad \cup {t} : payment[u].status = "none"
      /\ \A u \in Done(q) \ (q.ok \cup q.bad) : q.call.learner \in payment[u].owner
  BY <1>1 DEF Grounded, Claims
<1>4. \A o \in Requests \ {r} : (q.call.txs \ q.todo) \cap Holds(req[o]) = {}
  BY <1>1 DEF RequestInv, Exclusive, Holds
<1>5. /\ w \in Request /\ w.call = q.call /\ w.todo = q.todo /\ w.ok = q.ok
      /\ w.bad = q.bad \cup {t} /\ w.redeem = q.redeem
  BY <1>1 DEF Request
<1>6. paidUntil[t] \in Expiry /\ t \in Txs
  BY <1>1 DEF RequestInv, TypeOK, ProviderTypeOK, Request
<1>7. /\ v \in Request /\ v.call = q.call /\ v.todo = q.todo /\ v.ok = q.ok \cup {t}
      /\ v.bad = q.bad /\ v.redeem = q.redeem /\ v.cur = t
  BY <1>1, <1>6 DEF Request
<1> HIDE DEF v, w
<1>8. /\ k \in Request /\ k.call = v.call /\ k.todo = v.todo /\ k.ok = v.ok
      /\ k.bad = v.bad /\ k.redeem = v.redeem /\ k.cur = t /\ k.pc = "redeeming"
  BY <1>7 DEF Request, Phase
<1> HIDE DEF k
<1>9. ASSUME NEW p \in Proceed(w), req' = [req EXCEPT ![r] = p] PROVE RequestInv'
  <2>1. /\ w.todo \subseteq w.call.txs
        /\ w.ok \cup w.bad \subseteq w.call.txs \ w.todo
        /\ w.redeem => w.call.txs \subseteq w.ok
    BY <1>2, <1>3, <1>4, <1>5
  <2>2. \A u \in w.ok \cup w.bad : payment[u].status = "none"
    BY <1>2, <1>3, <1>4, <1>5
  <2>3. \A u \in (w.call.txs \ w.todo) \ (w.ok \cup w.bad) :
            w.call.learner \in payment[u].owner
    BY <1>2, <1>3, <1>4, <1>5
  <2>4. \A o \in Requests \ {r} : (w.call.txs \ w.todo) \cap Holds(req[o]) = {}
    BY <1>2, <1>3, <1>4, <1>5
  <2>5. QED
    BY <1>1, <1>5, <1>9, <2>1, <2>2, <2>3, <2>4, RequestProceeds
<1>10. ASSUME NEW p \in Proceed(v), req' = [req EXCEPT ![r] = p] PROVE RequestInv'
  <2>1. /\ v.todo \subseteq v.call.txs
        /\ v.ok \cup v.bad \subseteq v.call.txs \ v.todo
        /\ v.redeem => v.call.txs \subseteq v.ok
    BY <1>2, <1>3, <1>4, <1>7
  <2>2. \A u \in v.ok \cup v.bad : payment[u].status = "none"
    BY <1>2, <1>3, <1>4, <1>7
  <2>3. \A u \in (v.call.txs \ v.todo) \ (v.ok \cup v.bad) :
            v.call.learner \in payment[u].owner
    BY <1>2, <1>3, <1>4, <1>7
  <2>4. \A o \in Requests \ {r} : (v.call.txs \ v.todo) \cap Holds(req[o]) = {}
    BY <1>2, <1>3, <1>4, <1>7
  <2>5. QED
    BY <1>1, <1>7, <1>10, <2>1, <2>2, <2>3, <2>4, RequestProceeds
<1>11. ASSUME q.call.coupon # NoCoupon, req' = [req EXCEPT ![r] = k] PROVE RequestInv'
  <2>1. InOrder(k)
    BY <1>2, <1>7, <1>8, <1>11 DEF InOrder, Done
  <2>2. Grounded(k)
    BY <1>2, <1>3, <1>7, <1>8 DEF Grounded, Claims, Done
  <2>3. Holds(k) = q.call.txs \ q.todo
    BY <1>7, <1>8 DEF Holds
  <2>4. QED
    BY <1>1, <1>4, <1>8, <1>11, <2>1, <2>2, <2>3, RequestMoves
<1>12. CASE CheckVerified(r)
  <2>1. IF q.call.coupon = NoCoupon THEN \E p \in Proceed(v) : req' = [req EXCEPT ![r] = p]
        ELSE req' = [req EXCEPT ![r] = k]
    BY <1>12 DEF CheckVerified, v, k
  <2>2. QED
    BY <1>10, <1>11, <2>1
<1>13. CASE CheckRejected(r)
  <2>1. \E p \in Proceed(w) : req' = [req EXCEPT ![r] = p]
    BY <1>13 DEF CheckRejected, w
  <2>2. QED
    BY <1>9, <2>1
<1>14. QED
  BY <1>12, <1>13

\* ... when one redeems its coupon.
LEMMA RequestRedeems ==
  ASSUME RequestInv, TypeOK', NEW r \in Requests, RedeemCoupon(r)
  PROVE  RequestInv'
<1> DEFINE q == req[r]
           t == q.cur
           v == [q EXCEPT !.redeem = CouponValid(q.call.coupon)]
<1>1. /\ q \in Request /\ InOrder(q) /\ Grounded(q)
      /\ q.pc = "redeeming" /\ UNCHANGED <<payment, redeemed, idem>>
  BY DEF RequestInv, TypeOK, RedeemCoupon, tables
<1>2. q.call.txs = {t}
  <2>1. q.call \in Calls /\ q.call.coupon # NoCoupon /\ t \in q.call.txs
    BY <1>1 DEF InOrder, Request
  <2>2. q.call.kind = "verify"
    BY <2>1, CallShape
  <2>3. QED
    BY <2>1, <2>2, CallShape
<1>3. /\ q.todo \subseteq q.call.txs
      /\ q.ok \cup q.bad \subseteq q.call.txs \ q.todo
      /\ t \in q.ok
      /\ Done(q) = q.call.txs \ q.todo
  BY <1>1 DEF InOrder, Done
<1>4. /\ \A u \in q.ok \cup q.bad : payment[u].status = "none"
      /\ \A u \in Done(q) \ (q.ok \cup q.bad) : q.call.learner \in payment[u].owner
  BY <1>1 DEF Grounded, Claims
<1>5. \A o \in Requests \ {r} : (q.call.txs \ q.todo) \cap Holds(req[o]) = {}
  BY <1>1 DEF RequestInv, Exclusive, Holds
<1>6. CouponValid(q.call.coupon) \in BOOLEAN
  BY DEF CouponValid
<1>7. /\ v \in Request /\ v.call = q.call /\ v.todo = q.todo /\ v.ok = q.ok /\ v.bad = q.bad
  BY <1>1, <1>6 DEF Request
<1>8. PICK p \in Proceed(v) : req' = [req EXCEPT ![r] = p]
  BY DEF RedeemCoupon
<1> HIDE DEF v
<1>9. QED
  <2>1. /\ v.todo \subseteq v.call.txs
        /\ v.ok \cup v.bad \subseteq v.call.txs \ v.todo
        /\ v.redeem => v.call.txs \subseteq v.ok
    BY <1>2, <1>3, <1>4, <1>5, <1>7
  <2>2. \A u \in v.ok \cup v.bad : payment[u].status = "none"
    BY <1>2, <1>3, <1>4, <1>5, <1>7
  <2>3. \A u \in (v.call.txs \ v.todo) \ (v.ok \cup v.bad) :
            v.call.learner \in payment[u].owner
    BY <1>2, <1>3, <1>4, <1>5, <1>7
  <2>4. \A o \in Requests \ {r} : (v.call.txs \ v.todo) \cap Holds(req[o]) = {}
    BY <1>2, <1>3, <1>4, <1>5, <1>7
  <2>5. QED
    BY <1>1, <1>7, <1>8, <2>1, <2>2, <2>3, <2>4, RequestProceeds

\* What a commit writes to the ledger: rows for the transactions it
\* locked, and no other row.
LEMMA CommitWrites ==
  ASSUME TypeOK, NEW r \in Requests, Commit(r), NEW t \in Txs
  PROVE  /\ payment[t].status # "none" => payment'[t] = payment[t]
         /\ t \notin req[r].ok \cup req[r].bad => payment'[t] = payment[t]
         /\ t \in req[r].ok =>
               payment'[t] = [status |-> "success", owner |-> {req[r].call.learner}]
         /\ t \in req[r].bad \ req[r].ok =>
               payment'[t] = [status |-> "failed", owner |-> {req[r].call.learner}]
         /\ t \in req[r].ok \cup req[r].bad =>
               /\ req[r].call.learner \in payment'[t].owner
               /\ payment'[t].status # "none"
               /\ payment'[t].status = "success" <=> t \in req[r].ok
<1>1. /\ payment[t].status # "none" => payment'[t] = payment[t]
      /\ t \notin req[r].ok \cup req[r].bad => payment'[t] = payment[t]
  BY DEF Commit, Journal, UniqueViolation
<1>2. t \in req[r].ok => payment'[t] = [status |-> "success", owner |-> {req[r].call.learner}]
  BY DEF Commit, Journal
<1>3. t \in req[r].bad \ req[r].ok =>
         payment'[t] = [status |-> "failed", owner |-> {req[r].call.learner}]
  BY DEF Commit, Journal
<1>4. QED
  BY <1>1, <1>2, <1>3

\* ... when one commits.
LEMMA RequestCommits ==
  ASSUME RequestInv, TypeOK', NEW r \in Requests, Commit(r)
  PROVE  RequestInv'
<1> DEFINE q == req[r]
<1> USE DEF RequestInv
<1>1. /\ q \in Request /\ q.call \in Calls /\ q.pc = "committing" /\ q.todo = {}
      /\ InOrder(q) /\ Grounded(q) /\ Done(q) = q.call.txs /\ q.call.txs \subseteq Txs
  <2>1. q \in Request /\ q.pc = "committing" /\ InOrder(q) /\ Grounded(q)
    BY DEF TypeOK, Commit
  <2>2. QED
    BY <2>1, CallShape DEF InOrder, Done, Request
<1>2. \A o \in Requests : req'[o] = IF o = r THEN Idle ELSE req[o]
  BY DEF Commit, TypeOK
<1>3. \A t \in Txs : payment[t].status # "none" => payment'[t] = payment[t]
  BY CommitWrites
<1>4. OwnedIsRecorded'
  <2> SUFFICES ASSUME NEW t \in Txs, payment'[t].owner # {} PROVE payment'[t].status # "none"
    BY DEF OwnedIsRecorded
  <2>1. CASE t \in req[r].ok \cup req[r].bad
    BY <2>1, CommitWrites
  <2>2. CASE t \notin req[r].ok \cup req[r].bad
    BY <2>2, CommitWrites DEF OwnedIsRecorded
  <2>3. QED
    BY <2>1, <2>2
<1>5. ASSUME NEW o \in Requests PROVE InOrder(req'[o]) /\ Grounded(req[o])' /\ Holds(req'[o]) \subseteq Holds(req[o])
  <2>1. CASE o = r
    BY <1>2, <2>1, IdleType DEF InOrder, Grounded, Holds
  <2>2. CASE o # r
    <3> DEFINE p == req[o]
    <3>1. req'[o] = p /\ p \in Request /\ InOrder(p) /\ Grounded(p)
      BY <1>2, <2>2 DEF TypeOK
    <3>2. ASSUME p.pc # "idle", NEW t \in Claims(p) PROVE payment'[t].status = "none"
      <4>1. t \in Holds(p) /\ payment[t].status = "none" /\ t \in Txs
        BY <3>1, <3>2, ClaimsAreHeld DEF Grounded, Claims, Request
      <4>2. Holds(q) = q.call.txs
        BY <1>1 DEF Holds
      <4>3. t \notin q.ok \cup q.bad
        BY <1>1, <2>2, <4>1, <4>2 DEF Exclusive, InOrder
      <4>4. QED
        BY <4>1, <4>3, CommitWrites
    <3>3. ASSUME p.pc # "idle", NEW t \in Done(p) \ (p.ok \cup p.bad)
          PROVE  p.call.learner \in payment'[t].owner
      <4>1. p.call \in Calls
        BY <3>1 DEF Request
      <4>2. t \in Txs /\ p.call.learner \in payment[t].owner
        BY <3>1, <3>3, <4>1, CallShape DEF Grounded, Done
      <4>3. QED
        BY <4>2, <1>3 DEF OwnedIsRecorded
    <3>4. QED
      BY <3>1, <3>2, <3>3 DEF Grounded
  <2>3. QED
    BY <2>1, <2>2
<1>6. Exclusive'
  BY <1>5 DEF Exclusive
<1>7. StoredResponseIsTrue'
  <2> SUFFICES ASSUME NEW i \in idem', NEW t \in i.call.txs
               PROVE  /\ i.call.learner \in payment'[t].owner
                      /\ i.verified <=> payment'[t].status = "success"
    BY DEF StoredResponseIsTrue
  <2>1. CASE i \in idem
    <3>1. t \in Txs
      BY <2>1, CallShape DEF TypeOK
    <3>2. i.call.learner \in payment[t].owner /\ (i.verified <=> payment[t].status = "success")
      BY <2>1 DEF StoredResponseIsTrue
    <3>3. QED
      BY <1>3, <3>1, <3>2 DEF OwnedIsRecorded
  <2>2. CASE i \notin idem
    <3> DEFINE v == \A u \in q.call.txs : u \in q.ok \/ payment[u].status = "success"
    <3>1. q.call.key # NoKey /\ i = [call |-> q.call, verified |-> v]
      BY <2>2 DEF Commit
    <3>2. q.call.txs = {t}
      BY <1>1, <3>1, CallShape
    <3>3. t \in Txs /\ (v <=> t \in q.ok \/ payment[t].status = "success")
      BY <1>1, <3>2
    <3>4. t \in q.ok \cup q.bad => payment[t].status = "none"
      BY <1>1 DEF Grounded, Claims
    <3>5. t \notin q.ok \cup q.bad => q.call.learner \in payment[t].owner
      BY <1>1, <3>2 DEF Grounded
    <3> HIDE DEF v
    <3>6. i.call = q.call /\ i.verified = v
      BY <3>1
    <3>7. CASE t \in q.ok
      BY <3>3, <3>6, <3>7, CommitWrites
    <3>8. CASE t \in q.bad \ q.ok
      BY <3>3, <3>4, <3>6, <3>8, CommitWrites
    <3>9. CASE t \notin q.ok \cup q.bad
      BY <3>3, <3>5, <3>6, <3>9, CommitWrites
    <3>10. QED
      BY <3>7, <3>8, <3>9
  <2>3. QED
    BY <2>1, <2>2
<1>8. RedemptionIsPaid'
  <2> SUFFICES ASSUME NEW x \in redeemed'
               PROVE  \E c \in Calls :
                         /\ c.coupon = x[1] /\ c.learner = x[2]
                         /\ \A t \in c.txs :
                               payment'[t] = [status |-> "success", owner |-> {x[2]}]
    BY DEF RedemptionIsPaid
  <2>1. CASE x \in redeemed
    <3>1. PICK c \in Calls :
             /\ c.coupon = x[1] /\ c.learner = x[2]
             /\ \A t \in c.txs : payment[t] = [status |-> "success", owner |-> {x[2]}]
      BY <2>1 DEF RedemptionIsPaid
    <3>2. \A t \in c.txs : payment'[t] = payment[t]
      BY <1>3, <3>1, CallShape
    <3>3. QED
      BY <3>1, <3>2
  <2>2. CASE x \notin redeemed
    <3>1. q.redeem /\ x = <<q.call.coupon, q.call.learner>>
      BY <2>2 DEF Commit
    <3>2. q.call.txs \subseteq q.ok
      BY <1>1, <3>1 DEF InOrder
    <3>3. \A t \in q.call.txs :
             payment'[t] = [status |-> "success", owner |-> {q.call.learner}]
      BY <1>1, <3>2, CommitWrites
    <3>4. QED
      BY <1>1, <3>1, <3>3
  <2>3. QED
    BY <2>1, <2>2
<1>9. QED
  BY <1>4, <1>5, <1>6, <1>7, <1>8

\* ... and so over every step.
LEMMA RequestNext == RequestInv /\ [Next]_vars => RequestInv'
<1> SUFFICES ASSUME RequestInv, [Next]_vars PROVE RequestInv'
  OBVIOUS
<1>1. TypeOK'
  BY TypeNext DEF RequestInv
<1>2. ASSUME UNCHANGED <<payment, redeemed, idem, req>> PROVE RequestInv'
  BY <1>1, <1>2 DEF RequestInv, InOrder, Grounded, Exclusive, OwnedIsRecorded,
                    StoredResponseIsTrue, RedemptionIsPaid
<1>3. ASSUME NEW r \in Requests, RequestStep(r) PROVE RequestInv'
  <2>1. CASE InsertKey(r)
    BY <1>1, <2>1, RequestInsertsKey
  <2>2. CASE LockTx(r)
    BY <1>1, <2>2, RequestLocks
  <2>3. CASE CheckVerified(r) \/ CheckRejected(r)
    BY <1>1, <2>3, RequestChecks
  <2>4. CASE RedeemCoupon(r)
    BY <1>1, <2>4, RequestRedeems
  <2>5. CASE Commit(r)
    BY <1>1, <2>5, RequestCommits
  <2>6. CASE AccountMismatch(r) \/ ConstraintError(r) \/ AbortDeadlock(r)
    BY <1>1, <2>6, RequestGivesUp DEF AccountMismatch, ConstraintError, AbortDeadlock
  <2>7. QED
    BY <1>3, <2>1, <2>2, <2>3, <2>4, <2>5, <2>6 DEF RequestStep
<1>4. ASSUME NEW r \in Requests, Fail(r) PROVE RequestInv'
  BY <1>1, <1>4, RequestGivesUp DEF Fail
<1>5. ASSUME NEW r \in Requests, NEW c \in Calls, StartVerify(r, c) \/ StartRestore(r, c)
      PROVE  RequestInv'
  BY <1>1, <1>5, RequestBegins
<1>6. CASE BackendNext
  <2>1. UNCHANGED <<payment, redeemed, idem, req>>
    BY <1>6 DEF BackendNext, Webhook, ApplyToSub, IgnoreStale, RefundPurchase, IgnoreUnmatched,
                Reconcile, CancelSubscription, ChangePlan, SetPurchasesOpen, tables
  <2>2. QED
    BY <1>2, <2>1
<1>7. CASE World \/ UNCHANGED vars
  BY <1>2, <1>7 DEF World, vars, tables
<1>8. QED
  BY <1>3, <1>4, <1>5, <1>6, <1>7 DEF Next, ClientNext

\* The request invariant always holds.
LEMMA RequestInvariant == Spec => []RequestInv
BY RequestInit, RequestNext, PTL DEF Spec

\* However many requests verify or restore the same transactions at once, each
\* payment a request has staged is still to be recorded when it commits:
\* verify_and_process_transaction's advisory lock lets only one stage it.
THEOREM StagedPaymentsStayNew == Spec => []StagedPaymentIsNew
<1>1. RequestInv => StagedPaymentIsNew
  BY DEF RequestInv, Grounded, Claims, StagedPaymentIsNew
<1>2. QED
  BY <1>1, RequestInvariant, PTL

\* A response stored for an Idempotency-Key stays true of the ledger for ever.
THEOREM StoredResponsesStayTrue == Spec => []StoredResponseIsTrue
<1>1. RequestInv => StoredResponseIsTrue
  BY DEF RequestInv
<1>2. QED
  BY <1>1, RequestInvariant, PTL

\* A coupon redemption never outlives the rollback of its payment.
THEOREM RedemptionsArePaid == Spec => []RedemptionIsPaid
<1>1. RequestInv => RedemptionIsPaid
  BY DEF RequestInv
<1>2. QED
  BY <1>1, RequestInvariant, PTL

\* No step of any handler rewrites a payment row or gives it another owner.
THEOREM PaymentsAreImmutable == Spec => JournalIsImmutable
<1>1. RequestInv /\ [Next]_vars =>
         [\A t \in Txs : payment[t].status # "none" => payment'[t] = payment[t]]_vars
  <2> SUFFICES ASSUME RequestInv, Next, NEW t \in Txs, payment[t].status # "none"
               PROVE  payment'[t] = payment[t]
    BY DEF vars
  <2>1. ASSUME NEW r \in Requests, Commit(r) PROVE payment'[t] = payment[t]
    BY <2>1, CommitWrites DEF RequestInv
  <2>2. ASSUME NEW r \in Requests, ~Commit(r),
               RequestStep(r) \/ Fail(r) \/ \E c \in Calls : StartVerify(r, c) \/ StartRestore(r, c)
        PROVE  UNCHANGED payment
    BY <2>2 DEF RequestStep, InsertKey, LockTx, CheckVerified, CheckRejected, AccountMismatch,
                RedeemCoupon, ConstraintError, AbortDeadlock, Fail, Rollback, StartVerify,
                StartRestore, tables
  <2>3. CASE BackendNext \/ World
    BY <2>3 DEF BackendNext, Webhook, ApplyToSub, IgnoreStale, RefundPurchase, IgnoreUnmatched,
                Reconcile, CancelSubscription, ChangePlan, SetPurchasesOpen, World, tables
  <2>4. QED
    BY <2>1, <2>2, <2>3 DEF Next, ClientNext
<1>2. QED
  BY <1>1, RequestInvariant, PTL DEF Spec, JournalIsImmutable

----------------------------------------------------------------------------
(* Deadlock                                                                *)

\* Requests that wait for each other in a circle hold transactions that others
\* of the circle wait for, and only a restore asks for one while it holds one.
LEMMA OnlyRestoresWaitInCircles == RequestInv => OnlyRestoresDeadlock
<1> SUFFICES ASSUME RequestInv, NEW S \in SUBSET Requests, Deadlocked(S)
             PROVE  \E r, q \in S : /\ r # q
                                   /\ req[r].call.kind = "restore"
                                   /\ req[q].call.kind = "restore"
  BY DEF OnlyRestoresDeadlock
<1>1. \A r \in S : \E q \in S : WaitsFor(r, q)
  BY DEF Deadlocked
<1>2. \A r \in S : /\ req[r] \in Request /\ InOrder(req[r]) /\ req[r].call \in Calls
  BY DEF RequestInv, TypeOK, Request
<1>3. \A r \in S : req[r].pc \in {"keying", "locking", "redeeming"}
  BY <1>1 DEF WaitsFor
\* Whoever has the coupon is committing, and waits for nobody.
<1>4. \A r \in S : req[r].pc \in {"keying", "locking"}
  BY <1>1, <1>3 DEF WaitsFor, HoldsCoupon
\* Whoever has a transaction and is still locking wants another one.
<1>5. ASSUME NEW r \in S, NEW t, HoldsTx(r, t) PROVE req[r].call.kind = "restore"
  <2>1. /\ req[r].pc = "locking" /\ t \in req[r].call.txs \ req[r].todo /\ req[r].cur # t
    BY <1>2, <1>4, <1>5 DEF HoldsTx, InOrder
  <2>2. req[r].cur \in req[r].call.txs
    BY <1>2, <2>1 DEF InOrder
  <2>3. QED
    BY <1>2, <2>1, <2>2, CallShape
<1>6. ASSUME NEW r \in S, req[r].pc = "locking"
      PROVE  \E q \in S : r # q /\ req[q].call.kind = "restore"
  <2>1. PICK q \in S : r # q /\ HoldsTx(q, req[r].cur)
    BY <1>1, <1>6 DEF WaitsFor
  <2>2. QED
    BY <1>5, <2>1
<1>7. PICK r \in S : req[r].pc = "locking"
  <2>1. PICK o \in S : TRUE
    BY DEF Deadlocked
  <2>2. CASE req[o].pc = "keying"
    <3>1. PICK q \in S : HoldsKey(q, req[o].call)
      BY <1>1, <2>2 DEF WaitsFor
    <3>2. QED
      BY <1>4, <3>1 DEF HoldsKey
  <2>3. QED
    BY <1>4, <2>1, <2>2
<1>8. PICK q \in S : req[q].call.kind = "restore"
  BY <1>6, <1>7
<1>9. req[q].pc = "locking"
  BY <1>2, <1>4, <1>8 DEF InOrder
<1>10. QED
  BY <1>6, <1>8, <1>9

\* Keys, transactions and coupons are locked in this order, so any
\* circle of waiting requests goes through two restores, which lock
\* their transactions in the order the client sent them.
THEOREM DeadlocksNeedTwoRestores == Spec => []OnlyRestoresDeadlock
BY OnlyRestoresWaitInCircles, RequestInvariant, PTL

----------------------------------------------------------------------------
(* The coupon limit                                                        *)

\* At most one request is about to record a redemption of a coupon, and it
\* has counted the redemptions on record.
MayRedeem(q) == q.redeem = TRUE =>
    /\ q.pc = "committing" /\ q.ok # {} /\ q.call.coupon # NoCoupon
    /\ CouponValid(q.call.coupon)

OneRedeems == \A r, q \in Requests :
    /\ r # q /\ req[r].call.coupon # NoCoupon
    /\ HoldsCoupon(r, req[r].call.coupon)
    => ~HoldsCoupon(q, req[r].call.coupon)

CouponInv ==
    /\ IsFiniteSet(redeemed)
    /\ CouponCap
    /\ \A r \in Requests : MayRedeem(req[r])
    /\ OneRedeems

\* The coupon invariant at the start.
LEMMA CouponInit == Init => CouponInv
<1> SUFFICES ASSUME Init PROVE CouponInv
  OBVIOUS
<1>1. redeemed = {} /\ \A r \in Requests : req[r] = Idle
  BY DEF Init
<1>2. Idle.pc = "idle" /\ Idle.redeem = FALSE
  BY DEF Idle
<1>3. IsFiniteSet(redeemed)
  BY <1>1, FS_EmptySet
<1>4. CouponCap
  <2> SUFFICES ASSUME NEW c \in Coupons
               PROVE  Cardinality({x \in redeemed : x[1] = c}) <= MaxRedemptions[c]
    BY DEF CouponCap
  <2>1. {x \in redeemed : x[1] = c} = {}
    BY <1>1
  <2>2. Cardinality({x \in redeemed : x[1] = c}) = 0
    BY <2>1, FS_EmptySet
  <2>3. QED
    <3>1. MaxRedemptions[c] \in Nat
      BY CommerceAssumption
    <3>2. QED
      BY <2>2, <3>1
<1>5. QED
  BY <1>1, <1>2, <1>3, <1>4 DEF CouponInv, MayRedeem, OneRedeems, HoldsCoupon

\* A step of one request that ends it or takes it on without the coupon's row.
LEMMA CouponMoves ==
  ASSUME RequestInv, CouponInv, NEW r \in Requests, NEW p \in Request,
         req' = [req EXCEPT ![r] = p], UNCHANGED redeemed,
         p.redeem = FALSE, p.pc = "committing" => p.ok = {} \/ p.call.coupon = NoCoupon
  PROVE  CouponInv'
<1>1. \A q \in Requests : req'[q] = IF q = r THEN p ELSE req[q]
  BY DEF RequestInv, TypeOK
<1>2. ASSUME NEW q \in Requests, q # r
      PROVE  /\ req'[q] = req[q]
             /\ \A c : HoldsCoupon(q, c)' <=> HoldsCoupon(q, c)
  BY <1>1, <1>2 DEF HoldsCoupon
<1>3. \A c : HoldsCoupon(r, c)' => c = NoCoupon
  BY <1>1 DEF HoldsCoupon
<1>4. IsFiniteSet(redeemed') /\ CouponCap'
  BY DEF CouponInv, CouponCap
<1>5. ASSUME NEW q \in Requests PROVE MayRedeem(req[q])'
  <2>1. CASE q = r
    BY <1>1, <2>1 DEF MayRedeem
  <2>2. CASE q # r
    BY <1>2, <2>2 DEF CouponInv, MayRedeem, CouponValid
  <2>3. QED
    BY <2>1, <2>2
<1>6. ASSUME NEW o \in Requests, NEW q \in Requests, o # q, req'[o].call.coupon # NoCoupon,
             HoldsCoupon(o, req[o].call.coupon)'
      PROVE  ~HoldsCoupon(q, req[o].call.coupon)'
  <2>1. o # r /\ req'[o] = req[o]
    BY <1>1, <1>3, <1>6
  <2>2. CASE q = r
    BY <1>3, <1>6, <2>2
  <2>3. CASE q # r
    <3>1. HoldsCoupon(o, req[o].call.coupon) /\ req[o].call.coupon # NoCoupon
      BY <1>2, <1>6, <2>1
    <3>2. ~HoldsCoupon(q, req[o].call.coupon)
      BY <1>6, <3>1 DEF CouponInv, OneRedeems
    <3>3. QED
      BY <1>2, <2>1, <2>3, <3>2
  <2>4. QED
    BY <2>2, <2>3
<1>7. OneRedeems'
  BY <1>6 DEF OneRedeems
<1>8. QED
  BY <1>4, <1>5, <1>7 DEF CouponInv

\* Going on to the next transaction with nothing verified so far.
LEMMA CouponProceeds ==
  ASSUME RequestInv, CouponInv, NEW r \in Requests, NEW q \in Request, NEW p \in Proceed(q),
         req' = [req EXCEPT ![r] = p], UNCHANGED redeemed,
         q.redeem = FALSE, q.ok = {} \/ q.call.coupon = NoCoupon
  PROVE  CouponInv'
<1>1. p \in Request /\ p.call = q.call /\ p.ok = q.ok /\ p.redeem = FALSE
  BY ProceedType
<1>2. QED
  BY <1>1, CouponMoves

\* The coupon invariant when a request ends without a commit.
LEMMA CouponGivesUp ==
  ASSUME RequestInv, CouponInv, NEW r \in Requests, Rollback(r)
  PROVE  CouponInv'
<1>1. req' = [req EXCEPT ![r] = Idle] /\ UNCHANGED redeemed
  BY DEF Rollback, tables
<1>2. Idle.redeem = FALSE /\ Idle.pc = "idle"
  BY DEF Idle
<1>3. QED
  BY <1>1, <1>2, IdleType, CouponMoves

\* ... when one begins.
LEMMA CouponBegins ==
  ASSUME RequestInv, CouponInv, NEW r \in Requests, NEW c \in Calls,
         StartVerify(r, c) \/ StartRestore(r, c)
  PROVE  CouponInv'
<1> DEFINE b == Begun(c)
           k == [Begun(c) EXCEPT !.pc = "keying"]
<1>1. open \in BOOLEAN
  BY DEF RequestInv, TypeOK
<1>2. /\ b \in Request /\ b.ok = {} /\ b.redeem = FALSE
      /\ k \in Request /\ k.ok = {} /\ k.redeem = FALSE
  BY <1>1, BegunType, BegunKeeps
<1>3. UNCHANGED redeemed
  BY DEF StartVerify, StartRestore, tables
<1> HIDE DEF b, k
<1>4. ASSUME NEW p \in Proceed(b), req' = [req EXCEPT ![r] = p] PROVE CouponInv'
  BY <1>2, <1>3, <1>4, CouponProceeds
<1>5. ASSUME req' = [req EXCEPT ![r] = k] PROVE CouponInv'
  BY <1>2, <1>3, <1>5, CouponMoves
<1>6. CASE StartVerify(r, c)
  BY <1>4, <1>5, <1>6 DEF StartVerify, b, k
<1>7. CASE StartRestore(r, c)
  BY <1>4, <1>7 DEF StartRestore, b
<1>8. QED
  BY <1>6, <1>7

\* A request that is locking or checking its transaction has verified nothing yet,
\* unless it is a restore, which has no coupon.
LEMMA NothingVerifiedYet ==
  ASSUME RequestInv, NEW r \in Requests, req[r].pc \in {"keying", "locking", "checking"}
  PROVE  req[r].ok = {} \/ req[r].call.coupon = NoCoupon
<1> DEFINE q == req[r]
<1>1. q \in Request /\ InOrder(q) /\ q.call \in Calls
  BY DEF RequestInv, TypeOK, Request
<1>2. CASE q.pc = "keying"
  BY <1>1, <1>2 DEF InOrder, Done
<1>3. CASE q.pc \in {"locking", "checking"}
  <2>1. q.cur \in q.call.txs /\ q.ok \subseteq q.call.txs \ {q.cur}
    BY <1>1, <1>3 DEF InOrder, Done
  <2>2. CASE q.call.kind = "verify"
    BY <1>1, <2>1, <2>2, CallShape
  <2>3. CASE q.call.kind = "restore"
    BY <1>1, <2>3, CallShape
  <2>4. QED
    BY <1>1, <2>2, <2>3, CallShape
<1>4. QED
  BY <1>2, <1>3

\* ... when one redeems its coupon.
LEMMA CouponRedeems ==
  ASSUME RequestInv, CouponInv, NEW r \in Requests, RedeemCoupon(r)
  PROVE  CouponInv'
<1> DEFINE q == req[r]
           c == q.call.coupon
           v == [q EXCEPT !.redeem = CouponValid(c)]
<1>1. PICK p \in Proceed(v) : req' = [req EXCEPT ![r] = p]
  BY DEF RedeemCoupon
<1>2. /\ q \in Request /\ InOrder(q) /\ q.call \in Calls /\ q.pc = "redeeming"
      /\ CouponFree(r) /\ UNCHANGED redeemed
  BY DEF RequestInv, TypeOK, Request, RedeemCoupon, tables
<1>3. /\ v \in Request /\ v.call = q.call /\ v.todo = q.todo /\ v.ok = q.ok
      /\ v.redeem = CouponValid(c)
  <2>1. CouponValid(c) \in BOOLEAN
    BY DEF CouponValid
  <2>2. QED
    BY <1>2, <2>1 DEF Request
<1> HIDE DEF v
<1>4. p \in Request /\ p.call = q.call /\ p.ok = q.ok /\ p.redeem = CouponValid(c)
  BY <1>1, <1>3, ProceedType
<1>5. q.call.kind = "verify" /\ q.cur \in q.ok /\ q.todo = {} /\ c # NoCoupon
  <2>1. c # NoCoupon /\ q.cur \in q.ok /\ q.cur \in q.call.txs \ q.todo
        /\ q.todo \subseteq q.call.txs
    BY <1>2 DEF InOrder
  <2>2. q.call.kind = "verify"
    BY <1>2, <2>1, CallShape
  <2>3. QED
    BY <1>2, <2>1, <2>2, CallShape
<1>6. p.pc = "committing"
  BY <1>1, <1>3, <1>5 DEF Proceed, Request
<1>7. \A o \in Requests : req'[o] = IF o = r THEN p ELSE req[o]
  BY <1>1 DEF RequestInv, TypeOK
<1>8. IsFiniteSet(redeemed') /\ CouponCap'
  BY <1>2 DEF CouponInv, CouponCap
<1>9. ASSUME NEW o \in Requests PROVE MayRedeem(req[o])'
  <2>1. CASE o = r
    BY <1>2, <1>4, <1>5, <1>6, <1>7, <2>1 DEF MayRedeem, CouponValid
  <2>2. CASE o # r
    BY <1>2, <1>7, <2>2 DEF CouponInv, MayRedeem, CouponValid
  <2>3. QED
    BY <2>1, <2>2
<1>10. ASSUME NEW o \in Requests, o # r
       PROVE  /\ req'[o] = req[o] /\ \A d : HoldsCoupon(o, d)' <=> HoldsCoupon(o, d)
              /\ ~HoldsCoupon(o, c)
  BY <1>2, <1>7, <1>10 DEF CouponFree, HoldsCoupon
<1>11. \A d : HoldsCoupon(r, d)' => d = c
  BY <1>4, <1>7 DEF HoldsCoupon
<1>12. ASSUME NEW o \in Requests, NEW u \in Requests, o # u, req'[o].call.coupon # NoCoupon,
              HoldsCoupon(o, req[o].call.coupon)'
       PROVE  ~HoldsCoupon(u, req[o].call.coupon)'
  <2>1. CASE o = r
    BY <1>10, <1>11, <1>12, <2>1
  <2>2. CASE u = r
    BY <1>10, <1>11, <1>12, <2>2
  <2>3. CASE o # r /\ u # r
    <3>1. HoldsCoupon(o, req[o].call.coupon) /\ req[o].call.coupon # NoCoupon
      BY <1>10, <1>12, <2>3
    <3>2. ~HoldsCoupon(u, req[o].call.coupon)
      BY <1>12, <3>1 DEF CouponInv, OneRedeems
    <3>3. QED
      BY <1>10, <2>3, <3>2
  <2>4. QED
    BY <2>1, <2>2, <2>3
<1>13. OneRedeems'
  BY <1>12 DEF OneRedeems
<1>14. QED
  BY <1>8, <1>9, <1>13 DEF CouponInv

\* The steps up to the provider's answer.
LEMMA CouponChecks ==
  ASSUME RequestInv, CouponInv, NEW r \in Requests,
         InsertKey(r) \/ LockTx(r) \/ CheckVerified(r) \/ CheckRejected(r)
  PROVE  CouponInv'
<1> DEFINE q == req[r]
           t == q.cur
           k == [q EXCEPT !.pc = "checking"]
           v == [q EXCEPT !.ok = @ \cup {t}, !.until[t] = paidUntil[t]]
           n == [v EXCEPT !.pc = "redeeming"]
           w == [q EXCEPT !.bad = @ \cup {t}]
<1>1. /\ q \in Request /\ q.pc \in {"keying", "locking", "checking"} /\ UNCHANGED redeemed
      /\ paidUntil[t] \in Expiry /\ t \in Txs
  BY DEF RequestInv, TypeOK, ProviderTypeOK, Request, InsertKey, LockTx, CheckVerified,
         CheckRejected, tables
<1>2. q.redeem = FALSE
  <2>1. q.redeem \in BOOLEAN
    BY <1>1 DEF Request
  <2>2. q.redeem # TRUE
    BY <1>1 DEF CouponInv, MayRedeem
  <2>3. QED
    BY <2>1, <2>2
<1>3. q.ok = {} \/ q.call.coupon = NoCoupon
  BY <1>1, NothingVerifiedYet
<1>4. k \in Request /\ k.redeem = FALSE /\ k.pc # "committing"
  BY <1>1, <1>2 DEF Request, Phase
<1>5. w \in Request /\ w.redeem = FALSE /\ w.ok = q.ok /\ w.call = q.call
  BY <1>1, <1>2 DEF Request
<1>6. v \in Request /\ v.redeem = FALSE /\ v.call = q.call
  BY <1>1, <1>2 DEF Request
<1> HIDE DEF v, w, k
<1>7. n \in Request /\ n.redeem = FALSE /\ n.pc # "committing"
  BY <1>6 DEF Request, Phase
<1> HIDE DEF n
<1>8. ASSUME NEW p \in Proceed(q), req' = [req EXCEPT ![r] = p] PROVE CouponInv'
  BY <1>1, <1>2, <1>3, <1>8, CouponProceeds
<1>9. ASSUME req' = [req EXCEPT ![r] = Idle] PROVE CouponInv'
  <2>1. Idle.redeem = FALSE /\ Idle.pc = "idle"
    BY DEF Idle
  <2>2. QED
    BY <1>1, <1>9, <2>1, IdleType, CouponMoves
<1>10. CASE InsertKey(r)
  <2>1. req' = [req EXCEPT ![r] = Idle] \/ \E p \in Proceed(q) : req' = [req EXCEPT ![r] = p]
    BY <1>10 DEF InsertKey
  <2>2. QED
    BY <1>8, <1>9, <2>1
<1>11. CASE LockTx(r)
  <2>1. \/ req' = [req EXCEPT ![r] = Idle] \/ \E p \in Proceed(q) : req' = [req EXCEPT ![r] = p]
        \/ req' = [req EXCEPT ![r] = k]
    BY <1>11 DEF LockTx, k
  <2>2. ASSUME req' = [req EXCEPT ![r] = k] PROVE CouponInv'
    BY <1>1, <1>4, <2>2, CouponMoves
  <2>3. QED
    BY <1>8, <1>9, <2>1, <2>2
<1>12. CASE CheckVerified(r)
  <2>1. IF q.call.coupon = NoCoupon THEN \E p \in Proceed(v) : req' = [req EXCEPT ![r] = p]
        ELSE req' = [req EXCEPT ![r] = n]
    BY <1>12 DEF CheckVerified, v, n
  <2>2. ASSUME NEW p \in Proceed(v), req' = [req EXCEPT ![r] = p], q.call.coupon = NoCoupon
        PROVE  CouponInv'
    BY <1>1, <1>6, <2>2, CouponProceeds
  <2>3. ASSUME req' = [req EXCEPT ![r] = n] PROVE CouponInv'
    BY <1>1, <1>7, <2>3, CouponMoves
  <2>4. QED
    BY <2>1, <2>2, <2>3
<1>13. CASE CheckRejected(r)
  <2>1. \E p \in Proceed(w) : req' = [req EXCEPT ![r] = p]
    BY <1>13 DEF CheckRejected, w
  <2>2. ASSUME NEW p \in Proceed(w), req' = [req EXCEPT ![r] = p] PROVE CouponInv'
    BY <1>1, <1>3, <1>5, <2>2, CouponProceeds
  <2>3. QED
    BY <2>1, <2>2
<1>14. QED
  BY <1>10, <1>11, <1>12, <1>13

\* ... when one commits.
LEMMA CouponCommits ==
  ASSUME RequestInv, CouponInv, NEW r \in Requests, Commit(r)
  PROVE  CouponInv'
<1> DEFINE q == req[r]
           d == q.call.coupon
           Of(c) == {x \in redeemed : x[1] = c}
<1>1. \A o \in Requests : req'[o] = IF o = r THEN Idle ELSE req[o]
  BY DEF Commit, RequestInv, TypeOK
<1>2. Idle.redeem = FALSE /\ Idle.pc = "idle"
  BY DEF Idle
<1>3. OneRedeems'
  <2> SUFFICES ASSUME NEW o \in Requests, NEW u \in Requests, o # u,
                      req'[o].call.coupon # NoCoupon, HoldsCoupon(o, req[o].call.coupon)'
               PROVE  ~HoldsCoupon(u, req[o].call.coupon)'
    BY DEF OneRedeems
  <2>1. o # r
    BY <1>1, <1>2 DEF HoldsCoupon
  <2>2. CASE u = r
    BY <1>1, <1>2, <2>2 DEF HoldsCoupon
  <2>3. CASE u # r
    BY <1>1, <2>1, <2>3 DEF CouponInv, OneRedeems, HoldsCoupon
  <2>4. QED
    BY <2>2, <2>3
<1>4. CASE q.redeem = FALSE
  <2>1. redeemed' = redeemed
    BY <1>4 DEF Commit
  <2>2. ASSUME NEW o \in Requests PROVE MayRedeem(req[o])'
    BY <1>1, <1>2, <2>1 DEF CouponInv, MayRedeem, CouponValid
  <2>3. QED
    BY <1>3, <2>1, <2>2 DEF CouponInv, CouponCap
<1>5. CASE q.redeem = TRUE
  <2> DEFINE x == <<d, q.call.learner>>
  <2>1. redeemed' = redeemed \cup {x} /\ q.pc = "committing"
    BY <1>5 DEF Commit
  <2>2. IsFiniteSet(redeemed')
    BY <2>1, FS_AddElement DEF CouponInv
  <2>3. ASSUME NEW c, c # d PROVE {y \in redeemed' : y[1] = c} = Of(c)
    BY <2>1, <2>3
  <2>4. {y \in redeemed' : y[1] = d} = Of(d) \cup {x}
    BY <2>1
  <2>5. IsFiniteSet(Of(d))
    <3>1. Of(d) \subseteq redeemed
      OBVIOUS
    <3>2. QED
      BY <3>1, FS_Subset DEF CouponInv
  <2>6. Cardinality(Of(d)) < MaxRedemptions[d] /\ Cardinality(Of(d)) \in Nat
        /\ q.ok # {} /\ d # NoCoupon
    BY <1>5, <2>5, FS_CardinalityType DEF CouponInv, MayRedeem, CouponValid
  <2>7. Cardinality(Of(d) \cup {x}) <= MaxRedemptions[d]
    <3>1. Cardinality(Of(d) \cup {x}) =
             IF x \in Of(d) THEN Cardinality(Of(d)) ELSE Cardinality(Of(d)) + 1
      BY <2>5, FS_AddElement
    <3>2. d \in Coupons
      <4>1. q.call \in Call
        BY CommerceAssumption DEF RequestInv, TypeOK, Request
      <4>2. QED
        BY <2>6, <4>1 DEF Call
    <3>3. MaxRedemptions[d] \in Nat
      BY <3>2, CommerceAssumption
    <3>4. QED
      BY <2>6, <3>1, <3>3
  <2>8. CouponCap'
    <3> SUFFICES ASSUME NEW c \in Coupons
                 PROVE  Cardinality({y \in redeemed' : y[1] = c}) <= MaxRedemptions[c]
      BY DEF CouponCap
    <3>1. CASE c = d
      BY <2>4, <2>7, <3>1
    <3>2. CASE c # d
      BY <2>3, <3>2 DEF CouponInv, CouponCap
    <3>3. QED
      BY <3>1, <3>2
  <2>9. ASSUME NEW o \in Requests PROVE MayRedeem(req[o])'
    <3>1. CASE o = r
      BY <1>1, <1>2, <3>1 DEF MayRedeem
    <3>2. CASE o # r
      <4>1. req'[o] = req[o] /\ MayRedeem(req[o])
        BY <1>1, <3>2 DEF CouponInv
      <4>2. CASE req[o].redeem # TRUE
        BY <4>1, <4>2 DEF MayRedeem
      <4>3. CASE req[o].redeem = TRUE
        <5>1. HoldsCoupon(r, d)
          BY <2>1, <2>6 DEF HoldsCoupon
        <5>2. req[o].call.coupon # d
          BY <2>6, <3>2, <4>1, <4>3, <5>1 DEF CouponInv, OneRedeems, MayRedeem, HoldsCoupon
        <5>3. CouponValid(req[o].call.coupon)'
          BY <2>3, <4>1, <4>3, <5>2 DEF MayRedeem, CouponValid
        <5>4. QED
          BY <4>1, <4>3, <5>3 DEF MayRedeem
      <4>4. QED
        BY <4>2, <4>3
    <3>3. QED
      BY <3>1, <3>2
  <2>10. QED
    BY <1>3, <2>2, <2>8, <2>9 DEF CouponInv
<1>6. q.redeem \in BOOLEAN
  BY DEF RequestInv, TypeOK, Request
<1>7. QED
  BY <1>4, <1>5, <1>6

\* ... and so over every step.
LEMMA CouponNext == RequestInv /\ CouponInv /\ [Next]_vars => CouponInv'
<1> SUFFICES ASSUME RequestInv, CouponInv, [Next]_vars PROVE CouponInv'
  OBVIOUS
<1>1. ASSUME UNCHANGED <<redeemed, req>> PROVE CouponInv'
  BY <1>1 DEF CouponInv, CouponCap, MayRedeem, CouponValid, OneRedeems, HoldsCoupon
<1>2. ASSUME NEW r \in Requests, RequestStep(r) PROVE CouponInv'
  <2>1. CASE InsertKey(r) \/ LockTx(r) \/ CheckVerified(r) \/ CheckRejected(r)
    BY <2>1, CouponChecks
  <2>2. CASE RedeemCoupon(r) \/ Commit(r)
    BY <2>2, CouponRedeems, CouponCommits
  <2>3. CASE AccountMismatch(r) \/ ConstraintError(r) \/ AbortDeadlock(r)
    BY <2>3, CouponGivesUp DEF AccountMismatch, ConstraintError, AbortDeadlock
  <2>4. QED
    BY <1>2, <2>1, <2>2, <2>3 DEF RequestStep
<1>3. ASSUME NEW r \in Requests, Fail(r) PROVE CouponInv'
  BY <1>3, CouponGivesUp DEF Fail
<1>4. ASSUME NEW r \in Requests, NEW c \in Calls, StartVerify(r, c) \/ StartRestore(r, c)
      PROVE  CouponInv'
  BY <1>4, CouponBegins
<1>5. CASE BackendNext
  <2>1. UNCHANGED <<redeemed, req>>
    BY <1>5 DEF BackendNext, Webhook, ApplyToSub, IgnoreStale, RefundPurchase, IgnoreUnmatched,
                Reconcile, CancelSubscription, ChangePlan, SetPurchasesOpen, tables
  <2>2. QED
    BY <1>1, <2>1
<1>6. CASE World \/ UNCHANGED vars
  BY <1>1, <1>6 DEF World, vars, tables
<1>7. QED
  BY <1>2, <1>3, <1>4, <1>5, <1>6 DEF Next, ClientNext

\* However many verifications redeem a coupon at once, the coupon's row lock keeps
\* the redemptions on record within max_redemptions.
THEOREM CouponsAreCapped == Spec => []CouponCap
<1>1. Spec => [](RequestInv /\ CouponInv)
  <2>1. Init => RequestInv /\ CouponInv
    BY RequestInit, CouponInit
  <2>2. RequestInv /\ CouponInv /\ [Next]_vars => (RequestInv /\ CouponInv)'
    BY RequestNext, CouponNext
  <2>3. QED
    BY <2>1, <2>2, PTL DEF Spec
<1>2. RequestInv /\ CouponInv => CouponCap
  BY DEF CouponInv
<1>3. QED
  BY <1>1, <1>2, PTL
=============================================================================
