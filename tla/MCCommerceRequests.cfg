SPECIFICATION FairSpec
CONSTANTS
    l1 = l1
    l2 = l2
    course = course
    plan = plan
    k1 = k1
    c1 = c1
    c2 = c2
    NoKey = NoKey
    NoCoupon = NoCoupon
    Learners <- MCLearners
    Txs <- MCTxs
    Plans <- MCPlans
    Trials <- MCPlans
    RenewalOf <- MCRenewalOf
    Accounts <- MCAccounts
    Period = 1
    MaxTime = 1
    MaxEvents = 0
    Requests = {r1, r2}
    Calls <- MCCalls
    Keys = {k1}
    Coupons = {c1, c2}
    MaxRedemptions <- MCMaxRedemptions
    Switchable = TRUE
    ManagedLocally = FALSE
INVARIANTS
    TypeOK
    StoredResponseIsTrue
    CouponCap
    RedemptionIsPaid
    OnlyRestoresDeadlock
PROPERTIES
    JournalIsImmutable
    RequestsEnd
CHECK_DEADLOCK FALSE
