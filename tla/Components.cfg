SPECIFICATION FocusedSpec
CONSTANTS
    None = None
    a1 = a1
    a2 = a2
    a3 = a3
    r1 = r1
    r2 = r2
    r3 = r3
    d1 = d1
    d2 = d2
    d3 = d3
    h1 = h1
    p1 = p1
    Foci = {"authority", "verifier", "roots", "policy", "pause", "delegation", "disputes", "timestamps"}
    Stored = {p1, p2}
    Address = {a1, a2, a3}
    AdminCandidates = {a1, a2, a3}
    IssuerCandidates = {a1, a2, a3}
    IssuerMetadata = {m1, m2}
    GraceInputs = {0, 2, 4}
    CouncilInputs <- Councils
    DelayInputs = {0, 2, 4}
    DEFAULT_ISSUER_ROTATION_GRACE_SECS = 1
    MAX_ISSUER_ROTATION_GRACE_SECS = 3
    DEFAULT_TIMELOCK_MIN_DELAY_SECS = 1
    MAX_TIMELOCK_MIN_DELAY_SECS = 3
    MAX_SIGNERS = 2
    Verifiers = {v1, v2, v3}
    ActivationInputs = {1, 3}
    RollbackInputs = {0, 1}
    WindowInputs <- Windows
    MIN_SUPPORTED_CIRCUIT_VERSION = 1
    MAX_SUPPORTED_CIRCUIT_VERSION = 2
    Roots = {r1, r2, r3}
    LegacyRoots = {r1}
    TtlInputs = {2}
    Scopes = {s1}
    EpochInputs = {1, 2}
    RevocationRoots = {}
    StageInputs <- Stages
    MAX_ROOTS_BACKFILL_BATCH = 2
    MaxQueue = 3
    GuardianCandidates = {a2, a3}
    DomainInputs <- Domains
    PauseDurations = {0, 2, 3, 4}
    MAX_PAUSE_DURATION_SECS = 3
    MAX_GUARDIAN_PAUSE_DURATION_SECS = 2
    Grantors = {a1, a2}
    ScopeInputs <- DelegationScopes
    DelegationDurations = {0, 1, 2, 3}
    MAX_DELEGATION_DURATION_SECS = 2
    MAX_DELEGATIONS_PER_GRANTOR = 1
    ProofIds = {p1, p2}
    Videos = {p1, p2}
    MetadataHashes = {z}
    ZeroHash = z
    Nullifiers = {}
    VersionInputs = {}
    RevokeInputs = {}
    METADATA_ENVELOPE_VERSION_MAX = 2
    MAX_REVOKE_PROOFS_BATCH_SIZE = 2
    MAX_HISTORY_ENTRIES_PER_PROOF = 1
    DisputeIds = {d1, d2, d3}
    ReporterHashes = {h1, h2}
    MAX_OPEN_DISPUTES_PER_PROOF = 2
    MAX_OPEN_DISPUTES_PER_REPORTER = 2
    MAX_PROOF_DISPUTES_PAGE = 2
    REPORTER_COOLDOWN_SECS = 1
    RESPOND_DEADLINE_SECS = 1
    RESOLVE_DEADLINE_SECS = 1
    ClaimedTimes = {0, 1, 4}
    Rfc3161Commitments = {z, c1, c2}
    MAX_TIMESTAMP_FUTURE_DRIFT_SECS = 1
    MaxTime = 4
INVARIANTS
    TypesOK
    RoleSeparation
    RevokedNeverVerifiable
    WithdrawnRootRefused
    DerivedStateAgrees
    DisputesKeepToTheClock
PROPERTIES
    ActiveCouncilPermanent
    GuardianPauseBounded
    AnchoredClaimIsFinal
