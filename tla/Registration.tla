---------------------------- MODULE Registration ----------------------------
(***************************************************************************)
(* The registry contract's registration entry points, composed with every  *)
(* component they read: the verifier and its circuit-version window, the   *)
(* credential roots and scope epochs, the pauses, the delegations and the  *)
(* issuers.  The external verifier's answer is not modelled: a call is     *)
(* taken to carry a proof it accepts, and a refused call changes nothing.  *)
(***************************************************************************)
EXTENDS VerifierConfig, Credentials, PauseControl, Delegation, ProofStore

CONSTANTS
    LegacyNullifiers,   \* nullifiers an older release left under DataKey::Nullifier
    Frames,             \* inputs: public-input frames submitted, see below
    Sources,            \* inputs: accounts that register as a source
    ElementId,          \* element ids of each batch id, by index from 0
    BatchInputs,        \* inputs: sequences of [video_hash, nullifier]
    SourceRoots,        \* inputs: roots of source batches
    SourceCounts,       \* inputs: count of a source batch
    Schemas,            \* inputs: [hash, issuer_namespace, version, attribute_count]
    MAX_AGGREGATION_SIZE,
    MIN_SOURCE_BATCH_COUNT,
    MAX_SOURCE_BATCH_COUNT,
    MaxChecks           \* bound on non-revocation checks, for model checking only

TIER_SILENT_WITNESS == 1
TIER_CONSISTENT_SOURCE == 2
TIER_PUBLIC_SEAL == 3
PAUSE_DOMAIN_TIER1_REGISTRATION == 1
PAUSE_DOMAIN_TIER2_REGISTRATION == 2
PAUSE_DOMAIN_TIER3_REGISTRATION == 4

CIRCUIT_VERSION_SILENT_WITNESS_V1 == 1
CIRCUIT_VERSION_SILENT_WITNESS_V2 == 2
CIRCUIT_VERSION_REVOCATION_WITNESS == 1
CIRCUIT_VERSION_AGGREGATION == 1
CIRCUIT_VERSION_SELECTIVE_DISCLOSURE == 1

\* `verifier` is the verifier in force, `batch` the batch and `until` the
\* delegation expiry the proof was registered under.
Origin ==
    [frame : {"demo", "v1", "v2", "browser", "batch", "none"},
     verifier : Verifiers \cup {None}, batch : ProofIds \cup {None},
     until : Nat \cup {None}]

SourceBatchRecord ==
    [source : Sources, count : MIN_SOURCE_BATCH_COUNT .. MAX_SOURCE_BATCH_COUNT]

\* A batch's first element has the batch's own id; its elements' ids differ.
ASSUME RegistrationAssumption ==
    /\ LegacyNullifiers \subseteq Nullifiers
    /\ None \notin Nullifiers
    /\ None \notin Origin
    /\ Sources \subseteq Address
    /\ ElementId \in [ProofIds -> [0 .. MAX_AGGREGATION_SIZE - 1 -> ProofIds]]
    /\ \A b \in ProofIds :
         /\ ElementId[b][0] = b
         /\ \A i, j \in 0 .. MAX_AGGREGATION_SIZE - 1 :
              ElementId[b][i] = ElementId[b][j] => i = j
    /\ \A s \in BatchInputs : s \in Seq([video_hash : Videos, nullifier : Nullifiers])
    /\ MAX_AGGREGATION_SIZE \in Nat \ {0}

VARIABLES
    nullifiers,     \* the pairs with a DataKey::VerifierNullifier
    sourceBatch,    \* DataKey::SourceBatch(root)
    schema,         \* DataKey::Schema(hash)
    checked,        \* auxiliary: the NonRevocationChecked events, oldest first
    origin          \* auxiliary: how each proof was registered

registrationVars == <<nullifiers, sourceBatch, schema, checked, origin>>
vars == <<now, authorityVars, verifierVars, credentialVars, pauseVars,
          delegationVars, storeVars, registrationVars>>

RegistrationInit ==
    /\ nullifiers = {}
    /\ sourceBatch = [r \in SourceRoots |-> None]
    /\ schema = [h \in {s.hash : s \in Schemas} |-> None]
    /\ checked = <<>>
    /\ origin = [p \in ProofIds |-> None]

---------------------------------------------------------------------------
(* Silent Witness registration (tier 1).                                   *)

\* Mutant of has_nullifier: only the legacy key is read.
has_nullifier_legacy(v, n) == n \in LegacyNullifiers

has_nullifier(v, n) == <<v, n>> \in nullifiers \/ n \in LegacyNullifiers

compute_expires_at == IF proofTtl = 0 THEN 0 ELSE now + proofTtl

SilentRecord(v, m, n) ==
    [video_hash |-> v, metadata_hash |-> m, tier |-> TIER_SILENT_WITNESS,
     status |-> Registered, expires_at |-> compute_expires_at,
     subject |-> None, nullifier |-> n]

\* The nullifier is spent with the active verifier and the record saved.
RegisterSilently(frame, p, v, m, n) ==
    /\ nullifiers' = nullifiers \cup {<<verifier, n>>}
    /\ save_record(p, SilentRecord(v, m, n), None)
    /\ origin' = [origin EXCEPT ![p] =
         [frame |-> frame, verifier |-> verifier, batch |-> None, until |-> None]]
    /\ UNCHANGED <<sourceBatch, schema, checked>>

register_anonymous(p, v, m, n, root) ==
    /\ ~domain_is_paused(PAUSE_DOMAIN_TIER1_REGISTRATION)
    /\ require_unique(p, v)
    /\ verifier # None
    /\ ~has_nullifier(verifier, n)
    /\ require_active_credential_root(root)
    /\ RegisterSilently("demo", p, v, m, n)

\* The branch of each public-input frame: the scoped v2 frame also commits to
\* an epoch; the four-field browser frame is not checked for a spent nullifier.
FrameAccepted(frame, n, scope, epoch) ==
    \/ /\ frame = "v2"
       /\ epoch = scopeEpoch[scope]
       /\ ~has_nullifier(verifier, n)
       /\ is_supported_circuit_version(CIRCUIT_VERSION_SILENT_WITNESS_V2)
    \/ /\ frame = "v1"
       /\ ~has_nullifier(verifier, n)
       /\ is_supported_circuit_version(CIRCUIT_VERSION_SILENT_WITNESS_V1)
    \/ /\ frame = "browser"
       /\ is_supported_circuit_version(CIRCUIT_VERSION_SILENT_WITNESS_V1)

register_anonymous_verified(frame, p, v, m, n, root, scope, epoch) ==
    /\ ~domain_is_paused(PAUSE_DOMAIN_TIER1_REGISTRATION)
    /\ require_unique(p, v)
    /\ verifier # None
    /\ require_active_credential_root(root)
    /\ FrameAccepted(frame, n, scope, epoch)
    /\ RegisterSilently(frame, p, v, m, n)

derive_element_proof_id(batch_id, index) == ElementId[batch_id][index]

\* Every element is checked against storage before any is saved; elements are
\* not checked against each other, and no pause is consulted.
register_batch_verified(batch_id, m, root, elements) ==
    LET ids == [i \in DOMAIN elements |-> derive_element_proof_id(batch_id, i - 1)]
    IN  /\ Len(elements) \in 1 .. MAX_AGGREGATION_SIZE
        /\ verifier # None
        /\ is_supported_circuit_version(CIRCUIT_VERSION_AGGREGATION)
        /\ require_active_credential_root(root)
        /\ \A i \in DOMAIN elements :
             /\ require_unique(ids[i], elements[i].video_hash)
             /\ ~has_nullifier(verifier, elements[i].nullifier)
        /\ nullifiers' = nullifiers \cup
             {<<verifier, elements[i].nullifier>> : i \in DOMAIN elements}
        /\ SaveBatch(ids, [i \in DOMAIN elements |->
             SilentRecord(elements[i].video_hash, m, elements[i].nullifier)])
        /\ origin' = [p \in ProofIds |->
             IF \E i \in DOMAIN ids : ids[i] = p
             THEN [frame |-> "batch", verifier |-> verifier, batch |-> batch_id,
                   until |-> None]
             ELSE origin[p]]
        /\ UNCHANGED <<sourceBatch, schema, checked>>

---------------------------------------------------------------------------
(* Source (tier 2) and seal (tier 3) registration, direct and delegated.   *)

\* The subject signs off on the record, or a delegate does until `until`.
RegisterNamed(tier, subject, p, v, m, expires_at, actor, until) ==
    /\ save_record(p,
         [video_hash |-> v, metadata_hash |-> m, tier |-> tier,
          status |-> Registered, expires_at |-> expires_at,
          subject |-> subject, nullifier |-> None], actor)
    /\ origin' = [origin EXCEPT ![p] =
         [frame |-> "none", verifier |-> None, batch |-> None, until |-> until]]
    /\ UNCHANGED <<nullifiers, sourceBatch, schema, checked>>

register_source(source, p, v, m) ==
    /\ require_initialized
    /\ ~domain_is_paused(PAUSE_DOMAIN_TIER2_REGISTRATION)
    /\ require_unique(p, v)
    /\ RegisterNamed(TIER_CONSISTENT_SOURCE, source, p, v, m, compute_expires_at,
                     source, None)

register_seal(i, p, v, m) ==
    /\ ~domain_is_paused(PAUSE_DOMAIN_TIER3_REGISTRATION)
    /\ require_issuer_role_available(i)
    /\ require_unique(p, v)
    /\ is_active_issuer(i)
    /\ RegisterNamed(TIER_PUBLIC_SEAL, i, p, v, m, compute_expires_at, i, None)

\* Mutant of bounded_delegated_expiry: an eternal proof stays eternal.
bounded_delegated_expiry_eternal(until) ==
    IF compute_expires_at = 0 \/ compute_expires_at < until
    THEN compute_expires_at ELSE until

\* A delegated proof expires with its delegation at the latest.
bounded_delegated_expiry(until) ==
    IF compute_expires_at # 0 /\ compute_expires_at < until
    THEN compute_expires_at ELSE until

register_source_delegated(delegate, source, p, v, m) ==
    /\ ~domain_is_paused(PAUSE_DOMAIN_TIER2_REGISTRATION)
    /\ is_delegation_active(source, delegate, DELEGATION_SCOPE_REGISTER_SOURCE)
    /\ require_unique(p, v)
    /\ RegisterNamed(TIER_CONSISTENT_SOURCE, source, p, v, m,
         bounded_delegated_expiry(delegation[source][delegate].expires_at),
         delegate, delegation[source][delegate].expires_at)

register_seal_delegated(delegate, i, p, v, m) ==
    /\ ~domain_is_paused(PAUSE_DOMAIN_TIER3_REGISTRATION)
    /\ is_delegation_active(i, delegate, DELEGATION_SCOPE_REGISTER_SEAL)
    /\ require_unique(p, v)
    /\ is_active_issuer(i)
    /\ RegisterNamed(TIER_PUBLIC_SEAL, i, p, v, m,
         bounded_delegated_expiry(delegation[i][delegate].expires_at),
         delegate, delegation[i][delegate].expires_at)

register_source_batch_root(source, root, count) ==
    /\ require_initialized
    /\ ~domain_is_paused(PAUSE_DOMAIN_TIER2_REGISTRATION)
    /\ count \in MIN_SOURCE_BATCH_COUNT .. MAX_SOURCE_BATCH_COUNT
    /\ sourceBatch[root] = None
    /\ sourceBatch' = [sourceBatch EXCEPT ![root] = [source |-> source, count |-> count]]
    /\ UNCHANGED <<nullifiers, schema, checked, origin, storeVars>>
---------------------------------------------------------------------------
(* Non-revocation checks and selective disclosure: they register nothing   *)
(* but spend nullifiers of the same space.                                 *)

\* Accepted against the published revocation root.  The nullifier is spent but
\* not checked first.
check_non_revocation(revocation_root, n, root) ==
    /\ revocationRoot # None
    /\ revocation_root = revocationRoot
    /\ require_active_credential_root(root)
    /\ verifier # None
    /\ is_supported_circuit_version(CIRCUIT_VERSION_REVOCATION_WITNESS)
    /\ Len(checked) < MaxChecks
    /\ nullifiers' = nullifiers \cup {<<verifier, n>>}
    /\ checked' = Append(checked, <<verifier, n>>)
    /\ UNCHANGED <<sourceBatch, schema, origin, storeVars>>

add_schema(caller, s) ==
    /\ require_admin(caller)
    /\ schema[s.hash] = None
    /\ s.attribute_count \in 1 .. 16
    /\ schema' = [schema EXCEPT ![s.hash] =
         [issuer_namespace |-> s.issuer_namespace, version |-> s.version, active |-> TRUE]]
    /\ UNCHANGED <<nullifiers, sourceBatch, checked, origin, storeVars>>

deprecate_schema(caller, h) ==
    /\ require_admin(caller)
    /\ schema[h] # None
    /\ schema' = [schema EXCEPT ![h].active = FALSE]
    /\ UNCHANGED <<nullifiers, sourceBatch, checked, origin, storeVars>>

verify_selective_disclosure(s, n, root) ==
    /\ schema[s.hash] = [issuer_namespace |-> s.issuer_namespace,
                         version |-> s.version, active |-> TRUE]
    /\ require_active_credential_root(root)
    /\ verifier # None
    /\ is_supported_circuit_version(CIRCUIT_VERSION_SELECTIVE_DISCLOSURE)
    /\ nullifiers' = nullifiers \cup {<<verifier, n>>}
    /\ UNCHANGED <<sourceBatch, schema, checked, origin, storeVars>>

---------------------------------------------------------------------------
(* The whole contract: any account calls any entry point at any time.      *)

RegistrationStep ==
    \/ \E p \in ProofIds, v \in Videos, m \in MetadataHashes :
         \/ \E n \in Nullifiers, root \in Roots :
              \/ "demo" \in Frames /\ register_anonymous(p, v, m, n, root)
              \/ \E frame \in Frames, scope \in Scopes, epoch \in {0} \cup EpochInputs :
                    register_anonymous_verified(frame, p, v, m, n, root, scope, epoch)
         \/ \E a \in Sources : register_source(a, p, v, m)
         \/ \E i \in IssuerCandidates : register_seal(i, p, v, m)
         \/ \E d \in Address, g \in Grantors :
              \/ register_source_delegated(d, g, p, v, m)
              \/ register_seal_delegated(d, g, p, v, m)
    \/ \E b \in ProofIds, m \in MetadataHashes, root \in Roots, s \in BatchInputs :
         register_batch_verified(b, m, root, s)

OtherStep ==
    \/ \E a \in Sources, r \in SourceRoots, k \in SourceCounts :
         register_source_batch_root(a, r, k)
    \/ \E rr \in RevocationRoots, n \in Nullifiers, root \in Roots :
         check_non_revocation(rr, n, root)
    \/ \E a \in Address, s \in Schemas : add_schema(a, s) \/ deprecate_schema(a, s.hash)
    \/ \E s \in Schemas, n \in Nullifiers, root \in Roots :
         verify_selective_disclosure(s, n, root)

componentVars == <<authorityVars, verifierVars, credentialVars, pauseVars, delegationVars>>

Next ==
    \/ /\ RegistrationStep \/ OtherStep
       /\ UNCHANGED <<now, componentVars>>
    \/ /\ LifecycleStep
       /\ UNCHANGED <<now, componentVars, registrationVars>>
    \/ /\ AuthorityStep
       /\ UNCHANGED <<now, verifierVars, credentialVars, pauseVars, delegationVars,
                      storeVars, registrationVars>>
    \/ /\ VerifierStep
       /\ UNCHANGED <<now, authorityVars, credentialVars, pauseVars, delegationVars,
                      storeVars, registrationVars>>
    \/ /\ CredentialsStep
       /\ UNCHANGED <<now, authorityVars, verifierVars, pauseVars, delegationVars,
                      storeVars, registrationVars>>
    \/ /\ \E a \in Address : upgrade_storage(a)
       /\ UNCHANGED <<now, verifierVars, pauseVars, delegationVars, storeVars,
                      registrationVars>>
    \/ /\ PauseStep
       /\ UNCHANGED <<now, authorityVars, verifierVars, credentialVars, delegationVars,
                      storeVars, registrationVars>>
    \/ /\ DelegationStep
       /\ UNCHANGED <<now, authorityVars, verifierVars, credentialVars, pauseVars,
                      storeVars, registrationVars>>
    \/ /\ CloseLedger
       /\ UNCHANGED <<componentVars, storeVars, registrationVars>>

Init ==
    /\ LedgerInit /\ AuthorityInit /\ VerifierInit /\ CredentialsInit
    /\ PauseInit /\ DelegationInit /\ StoreInit /\ RegistrationInit

Spec == Init /\ [][Next]_vars

---------------------------------------------------------------------------
(* Properties.                                                             *)

\* Every key of the registration state holds a value of its type, and exactly
\* the registered proofs have an origin.
RegistrationTypeOK ==
    /\ nullifiers \subseteq Verifiers \X Nullifiers
    /\ sourceBatch \in [SourceRoots -> SourceBatchRecord \cup {None}]
    /\ checked \in Seq(Verifiers \X Nullifiers)
    /\ origin \in [ProofIds -> Origin \cup {None}]
    /\ \A p \in ProofIds : origin[p] = None <=> proof[p] = None

SameUse(p, q) ==
    /\ p # q
    /\ proof[p] # None /\ proof[q] # None
    /\ proof[p].nullifier # None
    /\ proof[p].nullifier = proof[q].nullifier
    /\ origin[p].verifier = origin[q].verifier

\* A nullifier buys one registration per verifier: two proofs that spent the
\* same one with the same verifier are of one batch, or one came through the
\* browser frame.  Verifier rotations, windows and the other spenders of
\* nullifiers interleave with the four entry points.
NullifierSpentOnce ==
    \A p, q \in ProofIds :
      SameUse(p, q) =>
        \/ "browser" \in {origin[p].frame, origin[q].frame}
        \/ origin[p].batch # None /\ origin[p].batch = origin[q].batch

\* A proof's nullifier is recorded as spent with the verifier that accepted it,
\* so no later frame that looks can spend it again.
RegisteredNullifierIsSpent ==
    \A p \in ProofIds :
      proof[p] # None /\ proof[p].nullifier # None
        => <<origin[p].verifier, proof[p].nullifier>> \in nullifiers

\* Two proofs share a video only if one batch registered both.
VideoSharedOnlyInBatch ==
    \A p, q \in ProofIds :
      p # q /\ proof[p] # None /\ proof[q] # None
          /\ proof[p].video_hash = proof[q].video_hash
        => origin[p].batch # None /\ origin[p].batch = origin[q].batch

\* A delegated proof is never reported valid once its delegation's expiry, as it
\* stood at registration, has passed; renewing or revoking the delegation, or
\* changing the proof TTL, does not stretch it.
DelegatedProofLapses ==
    \A p \in ProofIds :
      origin[p] # None /\ origin[p].until # None /\ get_proof_status(p) = "Valid"
        => now <= origin[p].until

\* A proof that stopped being valid, by revocation, by an explicit expiry or by
\* the clock, is never valid again.
ValidityIsLostForGood ==
    \A p \in ProofIds :
      get_proof_status(p) \in {Revoked, Expired}
        => get_proof_status(p)' \in {Revoked, Expired}

\* What is lost or recorded stays so: validity never returns, and records, envelope
\* versions and histories only move forward.
LossesAreFinal == [][ValidityIsLostForGood /\ RecordsAreFinal]_vars

\* The refinement mapping: the life of a record, and the videos in the index.
LifeOf(record) ==
    IF record = None THEN "absent"
    ELSE IF record.status = Revoked THEN "revoked"
    ELSE IF record.status = Expired THEN "expired" ELSE "registered"

lifeBar == [p \in ProofIds |-> LifeOf(proof[p])]
claimedBar == {v \in Videos : video[v] # None}

Life == INSTANCE EvidenceLife WITH
    Ids <- ProofIds, Contents <- Videos, life <- lifeBar, claimed <- claimedBar

\* The contract keeps the promise of EvidenceLife: every registration entry
\* point, single or batched, registers fresh ids under unclaimed videos, and
\* every lifecycle entry point moves a proof's life forward.
ImplementsLife == Life!LifeSpec

\* As contracts/README.md states it of register_anonymous_verified: a nullifier
\* is not reused.
NullifierNeverReused ==
    \A p, q \in ProofIds :
      SameUse(p, q) => "batch" \in {origin[p].frame, origin[q].frame}

=============================================================================
