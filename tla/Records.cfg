SPECIFICATION RecordsSpec
CONSTANTS
    e1 = e1
    e2 = e2
    p1 = p1
    p2 = p2
    NoEvidence = NoEvidence
    NoProc = NoProc
    Evidence = {e1, e2}
    Procs = {p1, p2}
    MaxSeq = 2
    MaxCrashes = 1
    MaxBundles = 1
    MaxRestores = 1
    MaxBackups = 5
    Workers = 2
    Keep = 3
    RemoteKeep = 3
    MaxLosses = 1
    MaxTrees = 3
    Retain = 1
    MaxLines = 20
    MaxOps = 4
    MaxAborts = 1
    MaxDamages = 1
    MaxEvents = 4
    MaxPoints = 1
    MaxClock = 1
    Acceptors = {p1, p2}
    Checkpointers = {keeper}
    ExternalRequests = {e1, e2}
    MaxReceipts = 3
    MaxRollbacks = 1
    Installers = {p1, p2}
    Marks = {e1, e2}
    MaxGenerations = 3
    Foreign = Foreign
    Nothing = Nothing
    MaxEdits = 2
    MaxRuns = 3
    MaxOthers = 2
    Registrars = {p1, p2}
    Witnesses = {e1, e2}
    Mirrors = {keeper}
    MaxKeyChanges = 1
    MaxPins = 2
    MaxAttested = 2
    MaxPublished = 1
SYMMETRY Symmetric
INVARIANTS
    HealthyIsConsistent
    EvidenceKept
    ProtectedStays
    HistoryVerifies
    TreeKept
    ChainWhole
    AlarmIsOverlap
    AcceptedOnce
    ReplicaIsOneChain
    PublishedAsStaged
    ProofIsFresh
    ProofIsWitnessed
