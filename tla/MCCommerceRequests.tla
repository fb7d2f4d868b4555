------------------------- MODULE MCCommerceRequests -------------------------
(***************************************************************************)
(* Requests in competition: two learners and two request slots over one  *)
(* course transaction that either learner may claim (as the mock provider  *)
(* allows) and one plan transaction in trial, a coupon with one redemption *)
(* left and one with two, an idempotency key that different payloads       *)
(* share, and a learner who sends another's transaction.                   *)
(***************************************************************************)
EXTENDS CommerceProps

CONSTANTS l1, l2, course, plan, k1, c1, c2

MCLearners == {l1, l2}
MCTxs == {course, plan}
MCPlans == {plan}
MCRenewalOf == [t \in MCTxs |-> t]
MCAccounts == [t \in MCTxs |-> IF t = course THEN {l1, l2} ELSE {l1}]

Verify(l, t, k, c) == [kind |-> "verify", learner |-> l, txs |-> {t}, key |-> k, coupon |-> c]
Restore(l, ts) == [kind |-> "restore", learner |-> l, txs |-> ts,
                   key |-> NoKey, coupon |-> NoCoupon]

MCMaxRedemptions == [c \in {c1, c2} |-> IF c = c1 THEN 1 ELSE 2]

MCCalls == {Verify(l1, course, k1, c2), Verify(l1, plan, k1, NoCoupon),
            Verify(l1, plan, NoKey, c1), Verify(l1, plan, NoKey, c2),
            Verify(l2, course, k1, c1), Verify(l2, plan, NoKey, NoCoupon),
            Restore(l1, {course, plan})}
=============================================================================
