\* Two affiliates, three sales, two handlings at once, two requests.
SPECIFICATION Spec
CONSTANTS
    a1 = a1
    a2 = a2
    w1 = w1
    w2 = w2
    None = None
    Affiliates = {a1, a2}
    LastOrder = 3
    Deliveries = {d1, d2}
    Requests = {w1, w2}
    Admins = {r1}
    ReferredBy <- MCReferredBy
    RequestedBy <- MCRequestedBy
    AmountRequested <- MCAmountRequested
    MinWithdrawal = 1
    NetAmount <- MCNetAmount
    Toggled = {a1}
    Overlapping = FALSE
INVARIANTS
    OneCommissionPerSale
    NeverOverpaid
PROPERTIES
    ImplementsPayout
CHECK_DEADLOCK FALSE
