SPECIFICATION Spec
CONSTANTS
    l1 = l1
    course = course
    plan = plan
    NoKey = NoKey
    NoCoupon = NoCoupon
    Learners = {l1}
    Txs <- MCTxs
    Plans = {plan}
    Trials = {}
    RenewalOf <- MCRenewalOf
    Accounts <- MCAccounts
    Period = 1
    MaxTime = 2
    MaxEvents = 1
    Requests = {r1}
    Calls <- MCCalls
    Keys = {}
    Coupons = {}
    MaxRedemptions <- MCMaxRedemptions
    Switchable = FALSE
    ManagedLocally = FALSE
INVARIANTS
    RefundsAreHonoured
CHECK_DEADLOCK FALSE
