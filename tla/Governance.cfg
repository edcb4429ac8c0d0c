SPECIFICATION FocusedSpec
CONSTANTS
    None = None
    a1 = a1
    a2 = a2
    a3 = a3
    v2 = v2
    r1 = r1
    wasm = wasm
    Address = {a1, a2, a3}
    AdminCandidates = {}
    IssuerCandidates = {a2, a3}
    IssuerMetadata = {m1}
    GraceInputs = {2}
    CouncilInputs <- Councils
    DelayInputs = {1}
    DEFAULT_ISSUER_ROTATION_GRACE_SECS = 1
    MAX_ISSUER_ROTATION_GRACE_SECS = 3
    DEFAULT_TIMELOCK_MIN_DELAY_SECS = 1
    MAX_TIMELOCK_MIN_DELAY_SECS = 3
    MAX_SIGNERS = 2
    Verifiers = {v1, v2}
    ActivationInputs = {2}
    RollbackInputs = {1}
    WindowInputs = {}
    MIN_SUPPORTED_CIRCUIT_VERSION = 1
    MAX_SUPPORTED_CIRCUIT_VERSION = 2
    Roots = {r1}
    LegacyRoots = {}
    TtlInputs = {}
    Scopes = {}
    EpochInputs = {}
    RevocationRoots = {r1}
    StageInputs = {}
    MAX_ROOTS_BACKFILL_BATCH = 1
    MaxQueue = 0
    TimelockInputs <- Timelocks
    CouncilActionInputs <- CouncilActions
    MAX_PENDING_TIMELOCK_PROPOSALS = 1
    DEFAULT_APPROVAL_TTL_SECS = 1
    MaxProposals = 2
    MaxCouncilProposals = 1
    MaxTime = 3
INVARIANTS
    RotationAgreesWithVerifier
    ExecutedHadQuorum
PROPERTY
    ProposalsAreHonoured
