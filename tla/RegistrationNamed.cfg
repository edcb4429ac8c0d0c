SPECIFICATION FocusedSpec
CONSTANTS
    None = None
    a1 = a1
    a2 = a2
    x1 = x1
    x2 = x2
    n1 = n1
    n2 = n2
    Foci = {"named", "lifecycle"}
    Address = {a1, a2}
    AdminCandidates = {}
    IssuerCandidates = {a2}
    IssuerMetadata = {m1}
    GraceInputs = {}
    CouncilInputs = {}
    DelayInputs = {1}
    DEFAULT_ISSUER_ROTATION_GRACE_SECS = 1
    MAX_ISSUER_ROTATION_GRACE_SECS = 3
    DEFAULT_TIMELOCK_MIN_DELAY_SECS = 1
    MAX_TIMELOCK_MIN_DELAY_SECS = 3
    MAX_SIGNERS = 2
    Verifiers = {}
    ActivationInputs = {}
    RollbackInputs = {}
    WindowInputs = {}
    MIN_SUPPORTED_CIRCUIT_VERSION = 1
    MAX_SUPPORTED_CIRCUIT_VERSION = 2
    Roots = {}
    LegacyRoots = {}
    TtlInputs = {1, 2}
    Scopes = {}
    EpochInputs = {}
    RevocationRoots = {}
    StageInputs = {}
    MAX_ROOTS_BACKFILL_BATCH = 1
    MaxQueue = 0
    GuardianCandidates = {}
    DomainInputs <- NamedDomains
    PauseDurations = {1}
    MAX_PAUSE_DURATION_SECS = 2
    MAX_GUARDIAN_PAUSE_DURATION_SECS = 1
    Grantors = {a2}
    ScopeInputs <- BothScopes
    DelegationDurations = {1, 2}
    MAX_DELEGATION_DURATION_SECS = 2
    MAX_DELEGATIONS_PER_GRANTOR = 1
    ProofIds = {0, 1}
    Videos = {x1, x2}
    MetadataHashes = {z, m1}
    ZeroHash = z
    Nullifiers = {}
    VersionInputs = {0, 1, 2, 3}
    RevokeInputs <- RevokePair
    METADATA_ENVELOPE_VERSION_MAX = 2
    MAX_REVOKE_PROOFS_BATCH_SIZE = 2
    MAX_HISTORY_ENTRIES_PER_PROOF = 3
    LegacyNullifiers = {}
    Frames = {}
    Sources = {a2}
    ElementId <- XorIds
    BatchInputs = {}
    SourceRoots = {}
    SourceCounts = {}
    Schemas = {}
    MAX_AGGREGATION_SIZE = 2
    MIN_SOURCE_BATCH_COUNT = 1
    MAX_SOURCE_BATCH_COUNT = 2
    MaxChecks = 0
    MaxTime = 4
INVARIANTS
    HistoryExplainsStatus
    EnvelopeMatchesProof
    DelegatedProofLapses
PROPERTIES
    LossesAreFinal
    ImplementsLife
