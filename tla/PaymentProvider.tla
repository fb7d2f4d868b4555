-------------------------- MODULE PaymentProvider --------------------------
(***************************************************************************)
(* The payment provider (App Store, Google Play, Stripe or the development *)
(* mock) as the commerce back end sees it: it charges learners, runs each  *)
(* subscription through its billing life, and writes notifications that    *)
(* the back end may receive late, twice, in another order or never.        *)
(* Everything here is external to the repository and is modelled from what *)
(* app/commerce_providers.py reads of it.                                  *)
(***************************************************************************)
EXTENDS Integers, Sequences, FiniteSets

CONSTANTS
    Learners,    \* learners that hold an account
    Txs,         \* provider transaction identifiers
    Plans,       \* the transactions that pay for a subscription plan
    Trials,      \* the plan transactions the provider reports as trials
    RenewalOf,   \* the original transaction a transaction renews, or itself
    Accounts,    \* the learners a transaction may be bound to
    Period,      \* length of a billing period
    MaxTime,     \* bound on the clock
    MaxEvents    \* bound on the notifications written

ASSUME ProviderAssumption ==
    /\ Txs # {}
    /\ Plans \subseteq Txs
    /\ Trials \subseteq Plans
    /\ RenewalOf \in [Txs -> Txs]
    /\ \A t \in Txs : /\ RenewalOf[RenewalOf[t]] = RenewalOf[t]
                      /\ RenewalOf[t] # t => {t, RenewalOf[t]} \subseteq Plans
    /\ Accounts \in [Txs -> SUBSET Learners]
    /\ Period \in Nat \ {0}
    /\ MaxTime \in Nat \ {0}
    /\ MaxEvents \in Nat

VARIABLES
    clock,       \* the time every component reads
    charge,      \* what the provider says of each transaction
    paidUntil,   \* the end of the period the provider has been paid for
    feed         \* the notifications written so far; an event id is an index

providerVars == <<charge, paidUntil, feed>>

Now == 1..MaxTime
Never == MaxTime + Period + 1        \* an expiry later than any clock
Expiry == 0..Never
EventIds == 1..MaxEvents

ChargeState == {"unpaid", "paid", "grace", "retry", "lapsed", "refunded"}
EventType == {"RENEWAL", "EXPIRATION", "GRACE_PERIOD", "BILLING_RETRY",
              "CANCELLATION", "REFUND"}
Event == [type: EventType, ids: SUBSET Txs, at: Now, exp: Expiry]

Originals == {t \in Txs : RenewalOf[t] = t}

ProviderTypeOK ==
    /\ clock \in Now
    /\ charge \in [Txs -> ChargeState]
    /\ paidUntil \in [Txs -> Expiry]
    /\ feed \in Seq(Event)
    /\ Len(feed) <= MaxEvents

ProviderInit ==
    /\ clock = 1
    /\ charge = [t \in Txs |-> "unpaid"]
    /\ paidUntil = [t \in Txs |-> 0]
    /\ feed = <<>>

----------------------------------------------------------------------------
\* A notification carries both identifiers of the transaction it is about
\* and is dated by the provider's clock.
Notify(type, ids, exp) ==
    /\ Len(feed) < MaxEvents
    /\ feed' = Append(feed, [type |-> type, ids |-> ids, at |-> clock, exp |-> exp])

\* A first charge is settled. The back end hears of it from the learner's
\* device, not from a notification.
Charge(t) ==
    /\ t \in Originals
    /\ charge[t] = "unpaid"
    /\ charge' = [charge EXCEPT ![t] = "paid"]
    /\ paidUntil' = [paidUntil EXCEPT ![t] = IF t \in Plans THEN clock + Period ELSE Never]
    /\ UNCHANGED <<clock, feed>>

\* A new period of subscription o is charged, under the transaction n: one of
\* o's renewal transactions, or one that no client ever reports (n = o).
Renew(o, n) ==
    /\ o \in Originals \cap Plans
    /\ charge[o] \in {"paid", "grace", "retry", "lapsed"}
    /\ paidUntil[o] < clock + Period
    /\ n = o \/ (RenewalOf[n] = o /\ charge[n] = "unpaid")
    /\ charge' = [charge EXCEPT ![o] = "paid", ![n] = "paid"]
    /\ paidUntil' = [paidUntil EXCEPT ![o] = clock + Period, ![n] = clock + Period]
    /\ Notify("RENEWAL", {o, n}, clock + Period)
    /\ UNCHANGED clock

\* A step of the subscription's billing life other than a renewal.
Slip(o, from, to, type) ==
    /\ o \in Originals \cap Plans
    /\ charge[o] \in from
    /\ charge' = [charge EXCEPT ![o] = to]
    /\ Notify(type, {o}, clock)
    /\ UNCHANGED <<clock, paidUntil>>

EnterGrace(o) == Slip(o, {"paid"}, "grace", "GRACE_PERIOD")
EnterRetry(o) == Slip(o, {"paid", "grace"}, "retry", "BILLING_RETRY")
Lapse(o)      == Slip(o, {"paid", "grace", "retry"}, "lapsed", "EXPIRATION")
StopRenewal(o) == Slip(o, {"paid"}, "paid", "CANCELLATION")

Refund(t) ==
    /\ charge[t] \notin {"unpaid", "refunded"}
    /\ charge' = [charge EXCEPT ![t] = "refunded"]
    /\ Notify("REFUND", {t, RenewalOf[t]}, clock)
    /\ UNCHANGED <<clock, paidUntil>>

ProviderNext ==
    \/ \E t \in Txs : Charge(t) \/ Refund(t)
    \/ \E o, n \in Txs : Renew(o, n)
    \/ \E o \in Txs : EnterGrace(o) \/ EnterRetry(o) \/ Lapse(o) \/ StopRenewal(o)

Tick ==
    /\ clock < MaxTime
    /\ clock' = clock + 1
    /\ UNCHANGED providerVars
=============================================================================
