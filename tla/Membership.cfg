\* One member and one handling at a time, two charges, one handling that fails
\* half way; the daily check runs between any two of its steps.
SPECIFICATION Spec
CONSTANTS
    Members = {m1}
    Handlers = {h1}
    Carried = {"session", "invoice"}
    Period = 0
    MaxCharges = 2
    MaxFailures = 1
INVARIANTS
    ChargeRecordedOnce
PROPERTIES
    ExpiredIsBlocked
CHECK_DEADLOCK FALSE
