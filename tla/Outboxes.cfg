SPECIFICATION OutboxesSpec
CONSTANTS
    e1 = e1
    e2 = e2
    c1 = c1
    c2 = c2
    NoEvent = NoEvent
    Events = {e1, e2}
    Callers = {c1, c2}
    Limit = 2
    MaxAttempts = 2
    Lease = 1
    Timeout = 1
    MaxDelay = 1
    MaxRuns = 1
    MaxLosses = 1
    PunctualCallers = FALSE
    f1 = f1
    n1 = n1
    s1 = s1
    s2 = s2
    NoItem = NoItem
    Creations = {f1}
    Notices = {n1}
    Senders = {s1, s2}
    BatchLimit = 2
    SendAttempts = 2
    SendLease = 1
    SendDelay = 1
    MaxRequeues = 1
    MaxDeaths = 1
    Subjects = {"an event", "a batch", "an item", "items"}
INVARIANTS
    SharedIsOverrun
    IssuesOwed
PROPERTIES
    ReopenedIsOverrun
    EveryEventSettles
    EveryItemSettles
