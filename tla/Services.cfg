\* A broadcast to two people by two processes, one account to deliver by two
\* ticks, one page and one message for the group, and one survey; two requests of
\* an account, two codes and a link; one call to Komunika, repeated once; a course
\* of two modules edited by one user.
SPECIFICATION MCSpec
CONSTANTS
    Recipients = {r1, r2}
    Processes = {p1, p2}
    None = None
    BadPhone = {r2}
    MaxCrashes = 1
    Users = {u1}
    Unmailable = {}
    Limit = 1
    Overlapping = FALSE
    MaxJobs = 2
    Messages = {m1}
    Pages = {n1}
    Nothing = Nothing
    Lifetime = 1
    MaxAttempts = 2
    LastTime = 4
    MaxFaults = 1
    Sweepers = {s1}
    Texts = {t1, t2}
    Votes = {v1}
    Questions = 2
    Backends = {b1}
    Handlers = {h1, h2}
    Ttl = 1
    LastPassword = 1
    LastSecond = 2
    MaxIssued = 2
    CodeAttempts = 1
    Links = {l1}
    LastCode = 2
    MaxTyped = 3
    Calls = {c1}
    MaxRetries = 1
    LastPeriod = 3
    MaxEvents = 5
    Requests = {q1}
    LastItem = 4
    LastDraft = 1
    LastOrder = 2
INVARIANTS
    MCTypeOK
    MessagedOnce
    EndToldOnce
    NobodyLockedOut
    PostedOnce
    MannersKept
    SessionsFollowAccount
    CodesRunOut
    TenantFollowsAccount
    OrderIsSaved
PROPERTY
    ImplementsLifecycle
CHECK_DEADLOCK FALSE
