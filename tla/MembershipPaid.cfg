\* A member whose account the daily check deactivated pays through Stripe again.
SPECIFICATION Spec
CONSTANTS
    Members = {m1}
    Handlers = {h1}
    Carried = {"session", "invoice"}
    Period = 0
    MaxCharges = 2
    MaxFailures = 1
INVARIANTS
    PaidIsLetIn
CHECK_DEADLOCK FALSE
