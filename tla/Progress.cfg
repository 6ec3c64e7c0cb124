\* The queue: one job, two workers, one of them mortal, and no timing.  Findings:
\* one, of two scanners, one operator editing besides the requests, the imports
\* and the maintenance.
SPECIFICATION ProgressSpec
CONSTANTS
    j1 = j1
    w1 = w1
    w2 = w2
    NoWorker = NoWorker
    NoKey = NoKey
    NoJob = NoJob
    Jobs = {j1}
    Workers = {w1, w2}
    Mortal = {w1}
    ImportJobs = {j1}
    Faults = TRUE
    ImportsAge = TRUE
    Timely = FALSE
    BeatEvery = 1
    Keys = {}
    Priorities <- OnePriority
    MaxAttempts = 2
    Lease = 1
    MaxDelay = 1
    MaxRuns = 0
    p1 = p1
    p2 = p2
    i1 = i1
    i2 = i2
    Nobody = Nobody
    NoProc = NoProc
    f1 = f1
    s1 = s1
    s2 = s2
    c1 = c1
    Findings = {f1}
    Sources = {s1, s2}
    Callers = {c1}
    Threshold = 2
    ExpiryDays = 0
INVARIANTS
    ImportAppliedOnce
    VerifiedAsRequested
    AcceptedAsRequested
    GuardedEditIsLegal
PROPERTIES
    SettledAsClaimed
    EverySubmittedJobSettles
    LeaderReturns
    AcceptancesSettle
