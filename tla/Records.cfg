SPECIFICATION RecordsSpec
CONSTANTS
    Foci = {"register", "reconcile", "jobs", "directory", "migrations", "lineage", "uploads"}
    c1 = c1
    ka = ka
    kb = kb
    t1 = t1
    p1 = p1
    da = da
    db = db
    Keys = {ka, kb}
    TxOf <- Transactions
    ProofOf <- OneProof
    Reconcilers = {r1, r2}
    WorkerLoops = {r1}
    Horizons = 1
    MinConfirmations = 2
    PendingLimit = 1
    PurgeBatch = 1
    MaxDay = 1
    MaxLedger = 2
    MaxRows = 2
    NoTx = NoTx
    Clients = {c1, c2}
    Digests = {da, db}
    RequestOf <- Requests
    Scoped = {c1}
    MaxFaults = 1
    JobIds = {1, 2}
    MaxBorn = 3
    JobTtl = 1
    MaxJobDay = 2
    MaxShutdowns = 2
    NoJob = NoJob
    NoFile = NoFile
    IssuerKeys = {k1, k2}
    Views = {v1, v2}
    MaxEvents = 2
    MaxTime = 1
    MaxManifests = 1
    Open = Open
    MIGRATIONS <- MigrationColumns
    LedgerColumns <- MigrationsTable
    Starters = {s1, s2}
    Releases = {"a", "b", "c"}
    LastMigration <- LastMigrations
    Edited <- EditedMigrations
    MaxStarts = 3
    Registrants = {g1, g2}
    Artifacts = {1, 2, 3}
    ParentLists <- ListsOfParents
    MaxFanout = 2
    MaxLineage = 3
    ChunkRequests = {u1, u2}
    CommitRequests = {m1, m2}
    ChunkIndexes = {0, 1}
    NoUpload = nf
    MaxVersions = 3
INVARIANTS
    VerdictsMatchChain
    DeletionsAreReceipted
    EffectsAtMostOnce
    
    

    
CHECK_DEADLOCK FALSE
