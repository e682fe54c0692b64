\* One withdraw-only partner, two sales, a shared cost, two requests that
\* compete for the same rows, one reviewer.
SPECIFICATION Spec
CONSTANTS
    p1 = p1
    w1 = w1
    w2 = w2
    None = None
    Partners = {p1}
    LastOrder = 2
    Costs = {k1}
    Requests = {w1, w2}
    Admins = {a1}
    RequestedBy <- MCRequestedBy
    AmountRequested <- MCAmountRequested
    MinWithdrawal = 1
    CommissionAmount <- MCCommissionAmount
    ShareAmount <- MCShareAmount
    WithdrawOnly = {p1}
    Earlier <- MCEarlier
    Toggled = {p1}
INVARIANTS
    PendingIsFunded
    WithdrawnBacksStandingPayout
    NeverOverpaid
PROPERTY
    ImplementsPayout
CHECK_DEADLOCK FALSE
