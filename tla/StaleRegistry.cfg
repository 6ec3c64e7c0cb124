\* Two processes that pin the registry, one change of keys, one proof.
SPECIFICATION RecordsSpec
CONSTANTS
    e1 = e1
    e2 = e2
    p1 = p1
    p2 = p2
    NoEvidence = NoEvidence
    NoProc = NoProc
    Evidence = {}
    Procs = {p1}
    MaxSeq = 1
    MaxCrashes = 0
    MaxBundles = 0
    MaxRestores = 0
    MaxBackups = 0
    Workers = 1
    Keep = 1
    RemoteKeep = 1
    MaxLosses = 0
    MaxTrees = 1
    Retain = 1
    MaxLines = 20
    MaxOps = 0
    MaxAborts = 0
    MaxDamages = 0
    MaxEvents = 0
    MaxPoints = 0
    MaxClock = 0
    Acceptors = {}
    Checkpointers = {}
    ExternalRequests = {}
    MaxReceipts = 0
    MaxRollbacks = 0
    Installers = {p1}
    Marks = {e1}
    MaxGenerations = 1
    Foreign = Foreign
    Nothing = Nothing
    MaxEdits = 1
    MaxRuns = 0
    MaxOthers = 0
    Registrars = {p1, p2}
    Witnesses = {e1}
    Mirrors = {}
    MaxKeyChanges = 1
    MaxPins = 2
    MaxAttested = 0
    MaxPublished = 0
INVARIANTS
    HigherIsNewer
