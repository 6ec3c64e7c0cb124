SPECIFICATION ContentionSpec
CONSTANTS
    m1 = m1
    m2 = m2
    c1 = c1
    c2 = c2
    t1 = t1
    t2 = t2
    n1 = n1
    n2 = n2
    k1 = k1
    k2 = k2
    d1 = d1
    d2 = d2
    NoCve = NoCve
    Matches = {m1, m2}
    Cves = {c1, c2}
    Scans = {j1}
    Attempts = {t1, t2}
    People = {n1, n2}
    MaxDecisions = 3
    MaxEdits = 1
    Keys = {k1, k2}
    Embedded = {}
    Uploads = {d1, d2}
    MaxRevisions = 2
    MaxReviews = 2
    p1 = p1
    p2 = p2
    i1 = i1
    i2 = i2
    f1 = f1
    f2 = f2
    q1 = q1
    q2 = q2
    a1 = a1
    r1 = r1
    g1 = g1
    g2 = g2
    u1 = u1
    u2 = u2
    x1 = x1
    x2 = x2
    Nobody = Nobody
    NoProc = NoProc
    NoOne = NoOne
    NoWorker = NoWorker
    NoKey = NoKey
    NoJob = NoJob
    Ids = {i1, i2}
    Procs = {p1, p2}
    IdOf <- SharedId
    LeaseTTL = 1
    InstanceTTL = 1
    BeatEvery = 1
    Interval = 2
    MaxToken = 2
    LastFault = 1
    Immortal = {}
    Prompt = {}
    Timely = TRUE
    Faulty = {p1}
    Jobs = {j1}
    Workers = {p1, p2}
    Policies = {q1, q2}
    ScoredFindings = {f1, f2}
    Approvers = {a1}
    Rescorers = {r1}
    First = q1
    Changes = {g1, g2}
    Actors = {u1, u2}
    Configs = {x1, x2}
    MaxBaselines = 3
INVARIANTS
    ConfirmedIsTracked
    ExportsAreOrdered
    
    NoOverlap
    AppliedIsGoverned
PROPERTIES
    ActivatedAsAnalysed
