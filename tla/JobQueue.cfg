\* One job with two workers and two attempts, or two jobs that may share a key:
\* every interleaving of claims, late calls, cancellations, retries and replays.
SPECIFICATION TableSpec
CONSTANTS
    j1 = j1
    j2 = j2
    w1 = w1
    w2 = w2
    k1 = k1
    NoWorker = NoWorker
    NoKey = NoKey
    Jobs = {j1, j2}
    Workers = {w1, w2}
    Keys = {k1}
    Priorities <- OnePriority
    MaxAttempts = 2
    Lease = 1
    MaxDelay = 2
    MaxRuns = 2
INVARIANTS
    NoStrandedJob
    CancelHonoured
PROPERTIES
    ImplementsLifecycle
