SPECIFICATION ServiceSpec
CONSTANTS
    Foci = {"guard", "auth", "telemetry", "exports", "media", "build", "generate", "bench", "deploy"}
    Callers = {c1, c2}
    Nonces = {n1, n2}
    SessionTags = {"s1"}
    NonceTtl = 2
    ReplayWindow = 1
    MaxNonces = 2
    MaxSessionEvents = 1
    MaxPrune = 1
    MaxDelay = 1
    MaxGuardTime = 5
    ApiKeys = {"k1", "k2", "k3"}
    ScopedTokens = {"t1"}
    OwnerOf <- TokenOwners
    Addresses = {"o1", "o2"}
    Expiries = {1, 6}
    Deployed = {c1}
    Unset = ""
    Overlap = 2
    MaxAuthTime = 5
    Workers = {w1, w2}
    Accounts = {a1}
    NoAccount = NoAccount
    EventNames = {"proof", "other"}
    ListedNames = {"proof"}
    Features = {"allowlist", "consent", "replay", "sampling", "redaction"}
    RateOf <- SamplingRates
    BucketOf <- SamplingBuckets
    BucketMax = 2
    GracePeriod = 1
    PruneLimit = 1
    MaxTelemetryTime = 2
    MaxEventsSeen = 1
    MaxDecisions = 2
    NoConsent = NoConsent
    NoEvent = NoEvent
    EntryKeys = {k1, k2}
    Faults = {f1}
    MaxLogEntries = 2
    DuplicateWindow = 1
    MaxPerExport = 2
    MaxArtifacts = 2
    ShadowExports = TRUE
    MaxEntriesSeen = 3
    MaxExports = 4
    Families = {"MP4", "AVI"}
    ExtLen = 3
    NameCap = 4
    MaxStem = 5
    Circuits = {"w", "v"}
    BuildOrder <- WitnessFirst
    VkCircuits = {"w"}
    Required = {"w"}
    Published = {"w"}
    Hosts = {1, 2}
    NoArtifact = NoArtifact
    Unreadable = Unreadable
    NoArtifactManifest = NoArtifactManifest
    MaxSourceEdits = 2
    MaxBuilds = 2
    Runs = {g1, g2}
    Packages = {"single", "batch"}
    ProofInputs = {v1, v2}
    Sample = sample
    NoInput = none
    PhaseLists <- ProveThenVerify
    BenchTargets = {"ci", "soroban_adjacent"}
    ColdSamples = 1
    WarmDiscard = 1
    WarmSamples = 1
    Timings = {1, 3}
    MaxMs <- PhaseLimits
    NoReport = NoReport
    Deploys = {d1, d2}
    ReleaseTags = {"r1", "r2"}
    NoRegistry = NoRegistry
    Stopped = Stopped
INVARIANTS
    NonceAcceptedOnce
    
    
    
PROPERTY
    GracePeriodsHold
CHECK_DEADLOCK FALSE
