SPECIFICATION BackendSpec
CONSTANTS
    Foci = {"index", "deliver", "admit", "settle", "collect", "ready"}
    Subscriptions = {s1}
    Events = {1, 2, 3}
    Wanted <- NoFilter
    Dispatchers = {w1, w2}
    MAX_RETRIES = 1
    Backoff <- Schedule
    LeaseTicks = 1
    BatchLimit = 2
    MaxCrashes = 1
    Indexers = {i1, i2}
    Lifecycle = {1, 3}
    PageSize = 2
    MaxAborts = 1
    NoCursor = NoCursor
    Threads = {t1, t2, t3}
    Identities = {c1, c2}
    max_concurrent = 1
    max_queue = 1
    max_per_identity = 2
    k1 = k1
    k2 = k2
    t1 = t1
    t2 = t2
    p1 = p1
    Keys = {k1, k2}
    TxOf <- Transactions
    ProofOf <- OneProof
    Reconcilers = {r1, r2}
    WorkerLoops = {r1}
    Horizons = 1
    MinConfirmations = 2
    PendingLimit = 1
    PurgeBatch = 1
    MaxDay = 0
    MaxLedger = 2
    MaxRows = 2
    NoTx = NoTx
    Blobs = {1, 2}
    Tenants = {ta, tb}
    GcBatch = 1
    MaxRefs = 2
    MaxInserts = 2
    MaxGcFaults = 1
    Checkers = {c1, c2}
    MaxAttempts = 2
    MaxTurns = 1
INVARIANTS TypesOK SettledWithCause IndexedOnce CapacityExact 
PROPERTIES  WorkersCatchUp
CHECK_DEADLOCK FALSE
