SPECIFICATION FocusedSpec
CONSTANTS
    None = None
    a1 = a1
    a2 = a2
    x1 = x1
    x2 = x2
    n1 = n1
    n2 = n2
    Foci = {"tier1"}
    Address = {a1}
    AdminCandidates = {}
    IssuerCandidates = {}
    IssuerMetadata = {m1}
    GraceInputs = {}
    CouncilInputs = {}
    DelayInputs = {1}
    DEFAULT_ISSUER_ROTATION_GRACE_SECS = 1
    MAX_ISSUER_ROTATION_GRACE_SECS = 3
    DEFAULT_TIMELOCK_MIN_DELAY_SECS = 1
    MAX_TIMELOCK_MIN_DELAY_SECS = 3
    MAX_SIGNERS = 2
    Verifiers = {v1, v2}
    ActivationInputs = {}
    RollbackInputs = {}
    WindowInputs <- Windows
    MIN_SUPPORTED_CIRCUIT_VERSION = 1
    MAX_SUPPORTED_CIRCUIT_VERSION = 2
    Roots = {r1}
    LegacyRoots = {}
    TtlInputs = {}
    Scopes = {s1}
    EpochInputs = {1}
    RevocationRoots = {rr1}
    StageInputs = {}
    MAX_ROOTS_BACKFILL_BATCH = 1
    MaxQueue = 0
    GuardianCandidates = {}
    DomainInputs <- FirstDomain
    PauseDurations = {1}
    MAX_PAUSE_DURATION_SECS = 2
    MAX_GUARDIAN_PAUSE_DURATION_SECS = 1
    Grantors = {}
    ScopeInputs = {}
    DelegationDurations = {}
    MAX_DELEGATION_DURATION_SECS = 2
    MAX_DELEGATIONS_PER_GRANTOR = 1
    ProofIds = {0, 1}
    Videos = {x1, x2}
    MetadataHashes = {z}
    ZeroHash = z
    Nullifiers = {n1, n2, n3}
    VersionInputs = {}
    RevokeInputs = {}
    METADATA_ENVELOPE_VERSION_MAX = 2
    MAX_REVOKE_PROOFS_BATCH_SIZE = 2
    MAX_HISTORY_ENTRIES_PER_PROOF = 1
    LegacyNullifiers = {n3}
    Frames = {"demo", "v1", "v2", "browser"}
    Sources = {a1}
    ElementId <- XorIds
    BatchInputs <- Batches
    SourceRoots = {sr1}
    SourceCounts = {0, 1, 3}
    Schemas <- OneSchema
    MAX_AGGREGATION_SIZE = 2
    MIN_SOURCE_BATCH_COUNT = 1
    MAX_SOURCE_BATCH_COUNT = 2
    MaxChecks = 2
    MaxTime = 2
INVARIANT
    NullifierNeverReused
