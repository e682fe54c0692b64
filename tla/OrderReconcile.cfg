\* Two requests at a time and the nightly reconciliation on one order of an
\* unknown buyer: events lost or late, handled at once, a fault at any query.
SPECIFICATION FairSpec
CONSTANTS
    b1 = b1
    o1 = o1
    o2 = o2
    Orders = {o1}
    Buyers = {b1}
    BuyerOf <- MCBuyerOf
    Coproduced = {o1}
    Couponed = {}
    ByToken = {}
    MaxUses = 1
    Leads = {}
    Referred = {}
    Workers = {k1, k2}
    GatewayReachable = TRUE
    Reconciling = TRUE
    Overlapping = TRUE
    MaxFaults = 1
    MaxRepeats = 0
INVARIANTS
    RecordedSaleHasAccess
PROPERTIES
    PaidGetsAccess
CHECK_DEADLOCK FALSE
