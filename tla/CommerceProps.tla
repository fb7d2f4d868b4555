--------------------------- MODULE CommerceProps ---------------------------
(***************************************************************************)
(* What the commerce back end promises.                                    *)
(***************************************************************************)
EXTENDS Commerce

IsLive(e) == e.status \in {"active", "gracePeriod"}
OneOffs == Txs \ Plans

----------------------------------------------------------------------------
(* Concurrent verification and restore                                     *)

\* A request that has staged a payment finds no row for that transaction when it
\* commits: duplicates in flight are replayed, and never fail on the
\* unique index (verify_and_process_transaction's advisory lock).
StagedPaymentIsNew ==
    \A r \in Requests : req[r].pc # "idle" =>
        \A t \in req[r].ok \cup req[r].bad : payment[t].status = "none"

\* The response stored for an idempotency key tells the truth about the
\* ledger, whatever was verified, restored or refunded since: it says
\* "verified" only of a payment on record as this learner's.
StoredResponseIsTrue ==
    \A i \in idem : \A t \in i.call.txs :
        /\ i.call.learner \in payment[t].owner
        /\ i.verified <=> payment[t].status = "success"

\* No coupon is redeemed more often than max_redemptions allows, however many
\* verifications redeem it at once (validate_coupon_logic's row lock).
CouponCap == \A c \in Coupons : Cardinality({x \in redeemed : x[1] = c}) <= MaxRedemptions[c]

\* A redemption is only ever recorded with a payment of the learner's that
\* a call with this coupon verified: a request that rolls back gives its
\* redemption back.
RedemptionIsPaid ==
    \A x \in redeemed : \E c \in Calls :
        /\ c.coupon = x[1] /\ c.learner = x[2]
        /\ \A t \in c.txs : payment[t] = [status |-> "success", owner |-> {x[2]}]

\* payment_transactions is an immutable journal: no later verification,
\* restore, event or refund rewrites a row or hands it to another learner.
JournalIsImmutable ==
    [][\A t \in Txs : payment[t].status # "none" => payment'[t] = payment[t]]_vars

\* Key, transaction and coupon are always locked in this order, so requests
\* can only wait for one another in a circle when two of them are restores.
OnlyRestoresDeadlock ==
    \A S \in SUBSET Requests : Deadlocked(S) =>
        \E r, q \in S : r # q /\ req[r].call.kind = "restore" /\ req[q].call.kind = "restore"

\* Every verification and every restore comes to an end.
RequestsEnd == \A r \in Requests : req[r].pc # "idle" ~> req[r].pc = "idle"

----------------------------------------------------------------------------
(* The life of subscriptions and purchases                                 *)

\* A subscription and its entitlement agree, whatever order notifications,
\* reconciliation, cancellation and plan changes come in. Only billing retry
\* leaves the entitlement as it was.
EntitlementOf(status) ==
    CASE status \in {"active", "trialing"} -> "active"
      [] status = "inGracePeriod"          -> "gracePeriod"
      [] OTHER                             -> status

AccessFollowsSubscription ==
    \A s \in Plans :
        /\ sub[s].status # "billingRetry" => ent[s].status = EntitlementOf(sub[s].status)
        /\ ent[s].status = "active" => ent[s].expires = sub[s].end

\* Access is granted only for what the provider has charged, to a learner
\* the provider binds the transaction to.
EveryGrantIsPaid ==
    \A t \in Txs : IsLive(ent[t]) =>
        /\ charge[t] # "unpaid"
        /\ payment[t].status = "success"
        /\ payment[t].owner # {} /\ payment[t].owner \subseteq Accounts[t]

\* Among the events applied to a subscription those that set a status, and
\* of them the latest by the provider's date.
StatusEvents(s) == {i \in EventIds : applied[i] = {s} /\ feed[i].type # "CANCELLATION"}
Newest(s) == {i \in StatusEvents(s) : \A j \in StatusEvents(s) : feed[j].at <= feed[i].at}

\* The newest event applied rules: a stale or repeated event, a restore, a
\* cancellation or a plan change never takes its status away, and a refund
\* is undone only by an event at least as new. Reconciliation may
\* expire what that event left live.
NewestEventRules ==
    \A s \in Plans : StatusEvents(s) # {} =>
        \E i \in Newest(s) :
            LET said == SubEffect(feed[i], sub[s]).status
            IN  sub[s].status = said \/ (said \in LiveSub /\ sub[s].status = "expired")

\* An individual purchase ends with its own refund and with nothing else:
\* "revoking or cancelling a subscription preserves perpetual access to
\* courses purchased individually", and no replay of the
\* purchase brings a refunded one back.
PurchaseEndsWithItsRefund ==
    \A t \in OneOffs : purchase[t] # "none" =>
        IF \E i \in EventIds : applied[i] = {t}
        THEN purchase[t] = "refunded" /\ ent[t].status = "revoked"
        ELSE purchase[t] = "completed" /\ ent[t] = [status |-> "active", expires |-> Never]

----------------------------------------------------------------------------
(* What the repository says and the code does not keep                     *)

Settled == /\ \A r \in Requests : req[r].pc = "idle"
           /\ \A i \in 1..Len(feed) : i \in recorded

\* ARCHITECTURE.md:157, "out-of-order and replayed events are audited and
\* handled safely without race conditions", for a refund: once every
\* notification is on record and no request is in flight, a
\* refunded transaction gives no access.
RefundsAreHonoured ==
    Settled => \A t \in OneOffs : charge[t] = "refunded" => ~IsLive(ent[t])

\* The same sentence for a renewal: a notification is only ignored as out of
\* order if the later state covers it, so an active subscription that
\* ignores a renewal already runs as long as the renewal says.
IgnoredRenewalIsCovered ==
    [][\A i \in recorded' \ recorded : \A s \in feed[i].ids :
          /\ feed[i].type = "RENEWAL" /\ sub[s].status = "active"
          /\ applied'[i] = {}
          => sub[s].end >= feed[i].exp]_vars
=============================================================================
