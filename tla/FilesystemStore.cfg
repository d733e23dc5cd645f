\* Two hosts of one run, and two runs of one tenant, in either store.
SPECIFICATION StoreSpec
CONSTANTS
    r1 = r1
    r2 = r2
    c1 = c1
    c2 = c2
    Runs = {r1, r2}
    Clients = {c1, c2}
    TenantOf <- OneTenant
    MaxTime = 2
    TTLs = {1}
    MaxTokens = 2
    MaxRevision = 2
    Starts = {0}
    BatchSizes = {1, 2}
    Retains = {0, 1}
    Absent = Absent
    Idle = Idle
    Unknown = Unknown
    Conns = {k1, k2}
    NoConn = NoConn
    MaxBigint = 2
CONSTRAINT Scene
SYMMETRY Symmetry
INVARIANTS LogFenced RecordsKept
PROPERTIES ImplementsLedger
