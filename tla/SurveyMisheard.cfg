\* One buyer whose survey ran out before the request for suggestions, and one
\* reply at a time.
SPECIFICATION Spec
CONSTANTS
    Processes = {p1}
    Texts = {t1}
    Votes = {}
    Questions = 2
    Punctual = FALSE
    MaxFaults = 0
INVARIANT YesHeard
CHECK_DEADLOCK FALSE
