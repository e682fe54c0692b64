SPECIFICATION Spec
CONSTANTS
    People = {a1, a2}
    Shared = {a1}
    Team = {}
    Stuck = {}
    BatchSize = 3
    MaxAttempts = 2
    MaxRestarts = 0
    Nobody = Nobody
PROPERTY RenewedStays
CHECK_DEADLOCK FALSE
