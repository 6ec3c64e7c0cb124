SPECIFICATION AdministrationSpec
CONSTANTS
    na = na
    nb = nb
    nc = nc
    v1 = v1
    v2 = v2
    NoAsset = NoAsset
    Names = {na, nb, nc}
    Authoritative = {na, nb}
    Vulnerabilities = {v1, v2}
    RowOrder <- ScannedRows
    MaxWrites = 0
    MaxMerges = 0
    i1 = i1
    i2 = i2
    i3 = i3
    r1 = r1
    b1 = b1
    Nobody = Nobody
    Instances = {i1, i2}
    Requests = {r1}
    Jobs = {b1}
    LeaseTTL = 2
    ActivityTTL = 1
    MaxToken = 2
    Reliable = {i1, i2, r1}
    a1 = a1
    a2 = a2
    u1 = u1
    p1 = p1
    c1 = c1
    NoProject = NoProject
    NoBundle = NoBundle
    Users = {a1, a2, u1}
    Admins = {a1, a2}
    Projects = {p1}
    Clients = {c1}
    SessionLimit = 1
    MaxChanges = 0
    s1 = s1
    s2 = s2
    d1 = d1
    d2 = d2
    NoFile = NoFile
    Starters = {s1, s2}
    Directories = {d1, d2}
    MaxWork = 2
    MaxKills = 2
    MaxStops = 0
INVARIANTS
    NoJobDuringRestore
