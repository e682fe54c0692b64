\* One request at a time: two orders with one fault at any query and one repeat, or one
\* order with two of each and the nightly reconciliation; a gateway that does not always
\* answer.
SPECIFICATION Spec
CONSTRAINT Bounds
CONSTANTS
    b1 = b1
    o1 = o1
    o2 = o2
    Orders = {o1, o2}
    Buyers = {b1}
    BuyerOf <- MCBuyerOf
    Coproduced = {}
    Couponed = {o1}
    ByToken = {}
    MaxUses = 1
    Leads = {b1}
    Referred = {b1}
    Workers = {k1}
    GatewayReachable = FALSE
    Reconciling = TRUE
    Overlapping = FALSE
    MaxFaults = 2
    MaxRepeats = 2
INVARIANTS
    RenewalHasEarlierSale
    ExclusiveSplit
PROPERTY
    NeverDowngraded
CHECK_DEADLOCK FALSE
