\* Three people, the first of whom reads contents, the second of whom may buy and the
\* third of whom cannot be reached; one tick of the welcome at a time.
SPECIFICATION MCSpec
CONSTANTS
    Size = 3
    Unreachable = {3}
    Readers = {1}
    Buyers = {2}
    Processes = {p1}
    WelcomeTicks = {t1}
    Overlapping = FALSE
    PerRun = 2
    MaxAsked = 3
    MaxUnsure = 1
    MaxBreaks = 1
    None = None
INVARIANTS
    ContactedOnce
PROPERTY
    QueueRecovered
CHECK_DEADLOCK FALSE
