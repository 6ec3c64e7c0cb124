\* Normal operation: every caller keeps to its timeout, none dies, nobody retries.
\* As with the defaults (50 requests of 10 s, a lease of 120 s), the lease covers
\* some requests of a batch and not all.
SPECIFICATION OutboxesSpec
CONSTANTS
    e1 = e1
    e2 = e2
    c1 = c1
    c2 = c2
    NoEvent = NoEvent
    Events = {e1, e2}
    Callers = {c1, c2}
    Limit = 2
    MaxAttempts = 2
    Lease = 1
    Timeout = 1
    MaxDelay = 1
    MaxRuns = 0
    MaxLosses = 0
    PunctualCallers = TRUE
    f1 = f1
    n1 = n1
    s1 = s1
    s2 = s2
    NoItem = NoItem
    Creations = {f1}
    Notices = {n1}
    Senders = {s1, s2}
    BatchLimit = 2
    SendAttempts = 2
    SendLease = 1
    SendDelay = 1
    MaxRequeues = 1
    MaxDeaths = 1
    Subjects = {"batches"}
INVARIANTS
    NoConcurrentDelivery
