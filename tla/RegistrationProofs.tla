------------------------- MODULE RegistrationProofs -------------------------
(***************************************************************************)
(* The whole contract keeps its proof store consistent and lets a          *)
(* nullifier and a video buy one registration, for any number of accounts, *)
(* proofs, videos, nullifiers and verifiers and any protocol limits. The   *)
(* invariant of the whole contract comes first, with the lemmas about one  *)
(* registration and about a batch of them.  The contract implements        *)
(* EvidenceLife: each entry point maps to one step of the abstract life of *)
(* evidence, or to none.  What it has recorded or withdrawn stays so:      *)
(* records, histories and envelopes only move forward, lost validity never *)
(* returns, a delegated proof lapses with its delegation, and a guardian's *)
(* pause with the guardian's cap.                                          *)
(***************************************************************************)
EXTENDS Registration, ProofStoreProofs

\* What the registrations read of the other components, as far as the types of
\* what they write depend on it.
ContextTypeOK ==
    /\ now \in Nat
    /\ proofTtl \in Nat
    /\ delegation \in [Address -> [Address -> DelegationRecord \cup {None}]]
    /\ VerifierTypeOK

\* Who used which nullifier and which video.
UseInv ==
    /\ RegisteredNullifierIsSpent
    /\ NullifierSpentOnce
    /\ VideoSharedOnlyInBatch

RegistrationInv ==
    /\ ContextTypeOK
    /\ RegistrationTypeOK
    /\ StoreInv
    /\ UseInv

---------------------------------------------------------------------------
(* The life of a proof, and times.                                         *)

LifeStep == Life!LifeNext \/ UNCHANGED <<lifeBar, claimedBar>>

\* The life of a record under each status.
LEMMA Lives ==
    /\ LifeOf(None) = "absent"
    /\ \A r \in ProofRecord :
         /\ LifeOf(r) # "absent"
         /\ LifeOf(r) = "revoked" <=> r.status = Revoked
         /\ LifeOf(r) = "expired" <=> r.status = Expired
         /\ LifeOf(r) = "registered" <=> r.status = Registered
  BY ProofStoreAssumption, ZenonT(30) DEF LifeOf, ProofRecord, ProofStatus, Registered, Revoked, Expired

\* A step that leaves every status and the video index alone is a stutter.
LEMMA SameLives ==
    ASSUME UNCHANGED video, \A p \in ProofIds : LifeOf(proof'[p]) = LifeOf(proof[p])
    PROVE  LifeStep
  BY ZenonT(30) DEF LifeStep, lifeBar, claimedBar

\* What makes a step a Register of the given ids and contents.
LEMMA RegisterWitness ==
    ASSUME NEW ids \in SUBSET ProofIds, NEW content \in [ids -> Videos], ids # {},
           \A p \in ids : proof[p] = None /\ video[content[p]] = None,
           \A p \in ids : LifeOf(proof'[p]) = "registered",
           \A p \in ProofIds \ ids : proof'[p] = proof[p],
           \A v \in Videos : video'[v] # None <=> video[v] # None \/ \E p \in ids : content[p] = v
    PROVE  LifeStep
  <1>1. ids \in (SUBSET ProofIds) \ {{}}
    BY Zenon
  <1>2. \A p \in ids : lifeBar[p] = "absent" /\ content[p] \notin claimedBar
    BY Lives DEF lifeBar, claimedBar
  <1>3. lifeBar' = [p \in ProofIds |-> IF p \in ids THEN "registered" ELSE lifeBar[p]]
    BY DEF lifeBar
  <1>4. claimedBar' = claimedBar \cup {content[p] : p \in ids}
    BY DEF claimedBar
  <1>5. Life!Register
    BY <1>1, <1>2, <1>3, <1>4 DEF Life!Register
  <1> QED BY <1>5, ZenonT(30) DEF LifeStep, Life!LifeNext

\* A stored record keeps its expiry.
LEMMA ExpiryIsKept ==
    ASSUME RecordsAreFinal, NEW p \in ProofIds, proof[p] # None
    PROVE  /\ proof'[p] # None /\ proof'[p].expires_at = proof[p].expires_at
           /\ proof[p].status = Revoked => proof'[p].status = Revoked
  <1>1. \A r, st, m : WithMetadata(WithStatus(r, st), m).expires_at = r.expires_at
    BY ZenonT(30) DEF WithMetadata, WithStatus
  <1>2. /\ proof'[p] # None
        /\ proof'[p] = WithMetadata(WithStatus(proof[p], proof'[p].status),
                                    proof'[p].metadata_hash)
        /\ proof[p].status = Revoked => proof'[p].status = Revoked
    BY DEF RecordsAreFinal
  <1> QED BY <1>1, <1>2

\* What makes a function a sequence.
LEMMA SequenceOf ==
    ASSUME NEW S, NEW n \in Nat, NEW f, f = [i \in 1 .. n |-> f[i]], \A i \in 1 .. n : f[i] \in S
    PROVE  f \in Seq(S) /\ Len(f) = n
  OBVIOUS

\* Sums and bounds of times.
LEMMA TimeBounds ==
    /\ \A n, a, b \in Nat : a <= b => n + a <= n + b
    /\ \A n, a, b \in Nat : ~(n > a) /\ a <= b => n <= b
  OBVIOUS

\* A pause of someone other than the admin is within the guardian's cap.
LEMMA PauseWithinCap ==
    ASSUME now \in Nat, NEW a, NEW ds, NEW t \in PauseDurations, pause(a, ds, t),
           NEW d \in PAUSE_DOMAIN_SINGLE_BITS, pauses'[d] # pauses[d],
           pauses'[d].paused_by # admin
    PROVE  pauses'[d].expires_at <= now + MAX_GUARDIAN_PAUSE_DURATION_SECS
  <1>1. pauses'[d] = [paused_by |-> a, paused_at |-> now, expires_at |-> now + t]
    BY Zenon DEF pause
  <1>2. t <= MaxPause(a)
    BY Zenon DEF pause
  <1>3. t <= MAX_GUARDIAN_PAUSE_DURATION_SECS
    <2>1. a # admin
      BY <1>1
    <2> QED BY <1>2, <2>1, Zenon DEF MaxPause
  <1>4. t \in Nat /\ MAX_GUARDIAN_PAUSE_DURATION_SECS \in Nat
    BY PauseAssumption, Zenon
  <1>5. pauses'[d].expires_at = now + t
    BY <1>1
  <1> QED BY <1>3, <1>4, <1>5, TimeBounds, Zenon

\* The expiry computed for a proof is a time.
LEMMA TypedExpiry ==
    ASSUME ContextTypeOK
    PROVE  now \in Nat /\ compute_expires_at \in Nat
  BY DEF ContextTypeOK, compute_expires_at

\* A delegated proof expires, and with its delegation at the latest.
LEMMA DelegatedExpiry ==
    ASSUME now \in Nat, compute_expires_at \in Nat, NEW until \in Nat, now < until
    PROVE  bounded_delegated_expiry(until) > 0 /\ bounded_delegated_expiry(until) <= until
  BY DEF bounded_delegated_expiry

---------------------------------------------------------------------------
(* The components the registrations read.                                  *)

\* Delegations stay typed through grants and revocations.
LEMMA DelegationStepTyped ==
    ASSUME ContextTypeOK, DelegationStep
    PROVE  delegation' \in [Address -> [Address -> DelegationRecord \cup {None}]]
  <1>1. ASSUME NEW g \in Address, NEW d \in Address, NEW r \in DelegationRecord \cup {None},
               delegation' = WithDelegate(g, d, r)
        PROVE  delegation' \in [Address -> [Address -> DelegationRecord \cup {None}]]
    <2> DEFINE row == [e \in Address |-> IF e = d THEN r ELSE delegation[g][e]]
    <2>1. row \in [Address -> DelegationRecord \cup {None}]
      BY Zenon DEF ContextTypeOK
    <2>2. delegation' = [delegation EXCEPT ![g] = row]
      BY <1>1, Zenon DEF WithDelegate
    <2> HIDE DEF row
    <2> QED BY <2>1, <2>2, Zenon DEF ContextTypeOK
  <1>2. ASSUME NEW g \in Grantors, NEW d \in Address, NEW s \in ScopeInputs,
               NEW t \in DelegationDurations, grant_delegation(g, d, s, t)
        PROVE  delegation' \in [Address -> [Address -> DelegationRecord \cup {None}]]
    <2>1. [scope |-> s, expires_at |-> now + t] \in DelegationRecord
      BY <1>2, DelegationAssumption
      DEF ContextTypeOK, DelegationRecord, grant_delegation, validate_delegation_scope
    <2> QED BY <1>1, <1>2, <2>1, DelegationAssumption, Zenon DEF grant_delegation
  <1>3. ASSUME NEW g \in Grantors, NEW d \in Address, NEW a \in Address,
               revoke_delegation(a, g, d)
        PROVE  delegation' \in [Address -> [Address -> DelegationRecord \cup {None}]]
    <2>1. CASE UNCHANGED delegationVars
      BY <2>1, Zenon DEF delegationVars, ContextTypeOK
    <2>2. CASE delegation' = WithDelegate(g, d, None)
      BY <1>1, <2>2, DelegationAssumption, Zenon
    <2> QED BY <1>3, <2>1, <2>2, Zenon DEF revoke_delegation
  <1> QED BY <1>2, <1>3, Zenon DEF DelegationStep

\* The verifier, its rotation and its window stay typed.
LEMMA VerifierStepTyped ==
    ASSUME ContextTypeOK, VerifierStep
    PROVE  VerifierTypeOK'
  <1> USE VerifierAssumption DEF ContextTypeOK, VerifierTypeOK
  <1>1. ASSUME NEW a \in Address, NEW v \in Verifiers, set_verifier(a, v)
        PROVE  VerifierTypeOK'
    BY <1>1, Zenon DEF set_verifier, ReplaceVerifier
  <1>2. ASSUME NEW a \in Address, NEW w \in WindowInputs, set_verifier_circuit_versions(a, w)
        PROVE  VerifierTypeOK'
    <2>1. w[1] \in SupportedVersions /\ w[2] \in SupportedVersions
      BY <1>2 DEF set_verifier_circuit_versions, SupportedVersions
    <2> QED BY <1>2, <2>1, Zenon DEF set_verifier_circuit_versions, VerifierCircuitVersions
  <1>3. ASSUME NEW a \in Address, NEW v \in Verifiers, NEW l \in ActivationInputs,
               NEW w \in RollbackInputs, schedule_verifier_rotation(a, v, l, w)
        PROVE  VerifierTypeOK'
    <2>1. l + w \in Nat
      OBVIOUS
    <2> QED BY <1>3, <2>1, Zenon DEF schedule_verifier_rotation, ScheduleEffect, VerifierState
  <1>4. ASSUME NEW a \in Address, activate_verifier_rotation(a)
        PROVE  VerifierTypeOK'
    <2>1. verifierState \in VerifierState /\ verifierState.pending_verifier \in Verifiers
      BY <1>4, Zenon DEF activate_verifier_rotation, ActivateEffect, VerifierState
    <2>2. now + verifierState.rollback_window \in Nat
      BY <2>1 DEF VerifierState
    <2> QED BY <1>4, <2>1, <2>2, Zenon DEF activate_verifier_rotation, ActivateEffect, VerifierState
  <1>5. ASSUME NEW a \in Address, rollback_verifier_rotation(a)
        PROVE  VerifierTypeOK'
    BY <1>5, Zenon DEF rollback_verifier_rotation, RollbackEffect, ReplaceVerifier, VerifierState
  <1> QED BY <1>1, <1>2, <1>3, <1>4, <1>5, Zenon DEF VerifierStep

\* A configured TTL is a number.
LEMMA CredentialsStepTyped ==
    ASSUME ContextTypeOK, CredentialsStep
    PROVE  proofTtl' \in Nat
  BY CredentialsAssumption, Zenon
  DEF ContextTypeOK, CredentialsStep, add_credential_root, revoke_credential_root,
      RevokeRootEffect, expire_credential_root, SetRootStatus,
      stage_credential_roots_for_backfill, set_proof_ttl, set_scope_epoch,
      set_revocation_root, policyVars

---------------------------------------------------------------------------
(* Uses of nullifiers and videos.                                          *)

\* Steps that register nothing keep the uses, whatever nullifiers they spend.
LEMMA UsesKept ==
    ASSUME UseInv, UNCHANGED origin, nullifiers \subseteq nullifiers',
           \A p \in ProofIds :
             /\ proof'[p] = None <=> proof[p] = None
             /\ proof[p] # None => /\ proof'[p].nullifier = proof[p].nullifier
                                   /\ proof'[p].video_hash = proof[p].video_hash
    PROVE  UseInv'
  <1>1. RegisteredNullifierIsSpent'
    BY Zenon DEF UseInv, RegisteredNullifierIsSpent
  <1>2. NullifierSpentOnce'
    BY DEF UseInv, NullifierSpentOnce, SameUse
  <1>3. VideoSharedOnlyInBatch'
    BY ZenonT(30) DEF UseInv, VideoSharedOnlyInBatch
  <1> QED BY <1>1, <1>2, <1>3, Zenon DEF UseInv

\* The lifecycle entry points keep the nullifier and the video of every record.
LEMMA LifecycleKeepsIdentity ==
    ASSUME StoreInv, LifecycleStep, NEW p \in ProofIds
    PROVE  /\ proof'[p] = None <=> proof[p] = None
           /\ proof[p] # None => /\ proof'[p].nullifier = proof[p].nullifier
                                 /\ proof'[p].video_hash = proof[p].video_hash
  <1> DEFINE Same == /\ proof'[p] = None <=> proof[p] = None
                     /\ proof[p] # None => /\ proof'[p].nullifier = proof[p].nullifier
                                           /\ proof'[p].video_hash = proof[p].video_hash
  <1>0. proof \in [ProofIds -> ProofRecord \cup {None}]
    BY Zenon DEF StoreInv, StoreTypeOK
  <1>1. \A q \in ProofIds, st \in ProofStatus : proof[q] # None =>
          /\ WithStatus(proof[q], st) # None
          /\ WithStatus(proof[q], st).nullifier = proof[q].nullifier
          /\ WithStatus(proof[q], st).video_hash = proof[q].video_hash
    <2> SUFFICES ASSUME NEW q \in ProofIds, NEW st \in ProofStatus, proof[q] # None
                 PROVE  /\ WithStatus(proof[q], st) # None
                        /\ WithStatus(proof[q], st).nullifier = proof[q].nullifier
                        /\ WithStatus(proof[q], st).video_hash = proof[q].video_hash
      BY Zenon
    <2>1. WithStatus(proof[q], st) \in ProofRecord
      BY <1>0, StatusChanged, Zenon
    <2> QED BY <2>1, ProofStoreAssumption, Zenon DEF WithStatus
  <1>2. \A q \in ProofIds, m \in MetadataHashes : proof[q] # None =>
          /\ WithMetadata(proof[q], m) # None
          /\ WithMetadata(proof[q], m).nullifier = proof[q].nullifier
          /\ WithMetadata(proof[q], m).video_hash = proof[q].video_hash
    <2> SUFFICES ASSUME NEW q \in ProofIds, NEW m \in MetadataHashes, proof[q] # None
                 PROVE  /\ WithMetadata(proof[q], m) # None
                        /\ WithMetadata(proof[q], m).nullifier = proof[q].nullifier
                        /\ WithMetadata(proof[q], m).video_hash = proof[q].video_hash
      BY Zenon
    <2>1. WithMetadata(proof[q], m) \in ProofRecord
      BY <1>0, MetadataChanged, Zenon
    <2> QED BY <2>1, ProofStoreAssumption, Zenon DEF WithMetadata
  <1>3. Revoked \in ProofStatus /\ Expired \in ProofStatus
    BY Zenon DEF ProofStatus
  <1>4. ASSUME NEW a \in Address, NEW q \in ProofIds, revoke_proof(a, q) PROVE Same
    BY <1>0, <1>1, <1>3, <1>4, Zenon DEF revoke_proof
  <1>5. ASSUME NEW a \in Address, NEW q \in ProofIds, expire_proof(a, q) PROVE Same
    BY <1>0, <1>1, <1>3, <1>5, Zenon DEF expire_proof
  <1>6. ASSUME NEW a \in Address, NEW q \in ProofIds, NEW m \in MetadataHashes,
               correct_proof(a, q, m)
        PROVE  Same
    BY <1>0, <1>2, <1>6, Zenon DEF correct_proof
  <1>7. ASSUME NEW a \in Address, NEW ids \in RevokeInputs, revoke_proofs(a, ids) PROVE Same
    BY <1>0, <1>1, <1>3, <1>7, Zenon DEF revoke_proofs
  <1>8. ASSUME UNCHANGED proof PROVE Same
    BY <1>8, Zenon
  <1> QED BY <1>4, <1>5, <1>6, <1>7, <1>8, Zenon
          DEF LifecycleStep, verify_proof, bind_metadata_envelope

\* A single registration: p is fresh, its video unclaimed and, unless it came
\* through the browser frame, its nullifier unspent with that verifier.
LEMMA SingleRegistration ==
    ASSUME RegistrationInv, NEW p \in ProofIds, NEW r \in ProofRecord,
           NEW a \in Address \cup {None}, NEW o \in Origin,
           r.status = Registered, require_unique(p, r.video_hash), save_record(p, r, a),
           origin' = [origin EXCEPT ![p] = o],
           nullifiers \subseteq nullifiers',
           nullifiers' \subseteq Verifiers \X Nullifiers,
           r.nullifier # None =>
             /\ <<o.verifier, r.nullifier>> \in nullifiers'
             /\ o.frame = "browser" \/ <<o.verifier, r.nullifier>> \notin nullifiers,
           UNCHANGED <<sourceBatch, checked>>
    PROVE  RegistrationTypeOK' /\ StoreInv' /\ UseInv'
  <1>1. StoreInv'
    BY SaveRecordKeepsStore, Zenon DEF RegistrationInv
  <1>2. /\ proof[p] = None /\ video[r.video_hash] = None
        /\ r # None /\ o # None
        /\ proof'[p] = r /\ \A q \in ProofIds \ {p} : proof'[q] = proof[q]
        /\ origin'[p] = o /\ \A q \in ProofIds \ {p} : origin'[q] = origin[q]
    <2>1. /\ proof \in [ProofIds -> ProofRecord \cup {None}]
          /\ origin \in [ProofIds -> Origin \cup {None}]
      BY Zenon DEF RegistrationInv, RegistrationTypeOK, StoreInv, StoreTypeOK
    <2>2. proof' = [proof EXCEPT ![p] = r] /\ proof[p] = None /\ video[r.video_hash] = None
      BY Zenon DEF require_unique, save_record
    <2>3. r # None /\ o # None
      BY ProofStoreAssumption, RegistrationAssumption, Zenon
    <2> QED BY <2>1, <2>2, <2>3, Zenon
  <1>3. RegistrationTypeOK'
    BY <1>2, Zenon DEF RegistrationInv, RegistrationTypeOK
  <1>4. RegisteredNullifierIsSpent'
    BY <1>2, Zenon DEF RegistrationInv, UseInv, RegisteredNullifierIsSpent
  <1>5. NullifierSpentOnce'
    <2> SUFFICES ASSUME NEW x \in ProofIds, NEW y \in ProofIds, SameUse(x, y)'
                 PROVE  \/ "browser" \in {origin'[x].frame, origin'[y].frame}
                        \/ origin'[x].batch # None /\ origin'[x].batch = origin'[y].batch
      BY Zenon DEF NullifierSpentOnce
    <2>1. CASE x # p /\ y # p
      BY <1>2, <2>1 DEF RegistrationInv, UseInv, NullifierSpentOnce, SameUse
    <2>2. CASE x = p
      BY <1>2, <2>2, ZenonT(30) DEF RegistrationInv, UseInv, RegisteredNullifierIsSpent, SameUse
    <2>3. CASE y = p
      BY <1>2, <2>3 DEF RegistrationInv, UseInv, RegisteredNullifierIsSpent, SameUse
    <2> QED BY <2>1, <2>2, <2>3, Zenon
  <1>6. VideoSharedOnlyInBatch'
    <2>1. \A q \in ProofIds : proof[q] # None => proof[q].video_hash # r.video_hash
      BY <1>2, Zenon DEF RegistrationInv, StoreInv, RegisteredVideoIsTaken
    <2> SUFFICES ASSUME NEW x \in ProofIds, NEW y \in ProofIds, x # y,
                        proof'[x] # None, proof'[y] # None,
                        proof'[x].video_hash = proof'[y].video_hash
                 PROVE  origin'[x].batch # None /\ origin'[x].batch = origin'[y].batch
      BY Zenon DEF VideoSharedOnlyInBatch
    <2>2. x # p /\ y # p
      BY <1>2, <2>1, Zenon
    <2> QED BY <1>2, <2>2, ZenonT(30) DEF RegistrationInv, UseInv, VideoSharedOnlyInBatch
  <1> QED BY <1>1, <1>3, <1>4, <1>5, <1>6, Zenon DEF UseInv

---------------------------------------------------------------------------
(* Batches: register_batch_verified keeps the invariant.                   *)

\* The ids and the records of a batch.
BatchIds(b, s) == [i \in DOMAIN s |-> derive_element_proof_id(b, i - 1)]
BatchRecords(m, s) ==
    [i \in DOMAIN s |-> SilentRecord(s[i].video_hash, m, s[i].nullifier)]

\* What register_batch_verified has established of the elements when it saves them.
BatchChecked(b, m, s) ==
    /\ verifier \in Verifiers /\ DOMAIN s # {}
    /\ BatchIds(b, s) \in Seq(ProofIds) /\ BatchRecords(m, s) \in Seq(ProofRecord)
    /\ Len(BatchRecords(m, s)) = Len(BatchIds(b, s))
    /\ DOMAIN BatchIds(b, s) = DOMAIN s
    /\ \A i \in DOMAIN s : BatchIds(b, s)[i] \in ProofIds
    /\ \A i, j \in DOMAIN s : BatchIds(b, s)[i] = BatchIds(b, s)[j] => i = j
    /\ \A i \in DOMAIN s :
         /\ BatchRecords(m, s)[i] \in ProofRecord
         /\ BatchRecords(m, s)[i].status = Registered
         /\ BatchRecords(m, s)[i].nullifier = s[i].nullifier
         /\ s[i].nullifier \in Nullifiers
         /\ require_unique(BatchIds(b, s)[i], BatchRecords(m, s)[i].video_hash)
         /\ <<verifier, s[i].nullifier>> \notin nullifiers
    /\ SaveBatch(BatchIds(b, s), BatchRecords(m, s))

\* The entry point makes those checks, and an element's record has its type.
LEMMA BatchElements ==
    ASSUME RegistrationInv, NEW b \in ProofIds, NEW m \in MetadataHashes,
           NEW root \in Roots, NEW s \in BatchInputs,
           register_batch_verified(b, m, root, s)
    PROVE  BatchChecked(b, m, s)
  <1> DEFINE ids == BatchIds(b, s)
             recs == BatchRecords(m, s)
  <1> USE DEF BatchIds, BatchRecords
  <1>1. /\ s \in Seq([video_hash : Videos, nullifier : Nullifiers])
        /\ DOMAIN s = 1 .. Len(s) /\ Len(s) \in 1 .. MAX_AGGREGATION_SIZE /\ Len(s) \in Nat
        /\ verifier \in Verifiers
    <2>1. s \in Seq([video_hash : Videos, nullifier : Nullifiers])
      BY RegistrationAssumption, Zenon
    <2>2. DOMAIN s = 1 .. Len(s) /\ Len(s) \in Nat
      BY <2>1
    <2>3. Len(s) \in 1 .. MAX_AGGREGATION_SIZE /\ verifier # None
      BY Zenon DEF register_batch_verified
    <2> QED BY <2>1, <2>2, <2>3, Zenon DEF RegistrationInv, ContextTypeOK, VerifierTypeOK
  <1>2. /\ \A i \in DOMAIN s : ids[i] \in ProofIds /\ i - 1 \in 0 .. MAX_AGGREGATION_SIZE - 1
        /\ \A i, j \in DOMAIN s : ids[i] = ids[j] => i = j
    <2>1. \A i \in DOMAIN s : i \in Int /\ i - 1 \in 0 .. MAX_AGGREGATION_SIZE - 1
      BY <1>1, RegistrationAssumption, SMTT(30)
    <2>2. \A i \in DOMAIN s : ids[i] = ElementId[b][i - 1]
      BY Zenon DEF derive_element_proof_id
    <2>3. \A i \in DOMAIN s : ids[i] \in ProofIds
      BY <2>1, <2>2, RegistrationAssumption
    <2>5. \A i, j \in 0 .. MAX_AGGREGATION_SIZE - 1 :
            ElementId[b][i] = ElementId[b][j] => i = j
      BY RegistrationAssumption, Zenon
    <2> HIDE DEF ids
    <2>4. \A i, j \in DOMAIN s : ids[i] = ids[j] => i - 1 = j - 1
      BY <2>1, <2>2, <2>5, ZenonT(30)
    <2> QED BY <2>1, <2>3, <2>4
  <1>3. \A i \in DOMAIN s :
          /\ recs[i] \in ProofRecord /\ recs[i].status = Registered
          /\ recs[i].video_hash = s[i].video_hash /\ recs[i].nullifier = s[i].nullifier
          /\ s[i].nullifier \in Nullifiers
    <2>1. compute_expires_at \in Nat
      BY DEF compute_expires_at, RegistrationInv, ContextTypeOK
    <2>2. \A i \in DOMAIN s : s[i].video_hash \in Videos /\ s[i].nullifier \in Nullifiers
      <3> DEFINE E == [video_hash : Videos, nullifier : Nullifiers]
      <3>1. s \in Seq(E)
        BY <1>1, Zenon
      <3>2. \A e \in E : e.video_hash \in Videos /\ e.nullifier \in Nullifiers
        BY Zenon
      <3> HIDE DEF E
      <3>3. ASSUME NEW i \in DOMAIN s PROVE s[i] \in E
        BY <3>1
      <3> QED BY <3>2, <3>3, Zenon
    <2>3. ASSUME NEW v \in Videos, NEW n \in Nullifiers
          PROVE  /\ SilentRecord(v, m, n) \in ProofRecord
                 /\ SilentRecord(v, m, n).status = Registered
                 /\ SilentRecord(v, m, n).video_hash = v /\ SilentRecord(v, m, n).nullifier = n
      BY <2>1 DEF SilentRecord, ProofRecord, ProofStatus, Tiers, TIER_SILENT_WITNESS
    <2>4. \A i \in DOMAIN s : recs[i] = SilentRecord(s[i].video_hash, m, s[i].nullifier)
      BY Zenon
    <2> HIDE DEF recs
    <2>5. ASSUME NEW i \in DOMAIN s
          PROVE  /\ recs[i] \in ProofRecord /\ recs[i].status = Registered
                 /\ recs[i].video_hash = s[i].video_hash /\ recs[i].nullifier = s[i].nullifier
      <3>1. PICK v \in Videos, n \in Nullifiers : v = s[i].video_hash /\ n = s[i].nullifier
        BY <2>2, Zenon
      <3>2. recs[i] = SilentRecord(v, m, n)
        BY <2>4, <3>1, Zenon
      <3> QED BY <2>3, <3>1, <3>2
    <2> QED BY <2>2, <2>5, Zenon
  <1>4. /\ ids \in Seq(ProofIds) /\ recs \in Seq(ProofRecord)
        /\ Len(ids) = Len(s) /\ Len(recs) = Len(s)
    <2>1. ids = [i \in 1 .. Len(s) |-> ids[i]] /\ recs = [i \in 1 .. Len(s) |-> recs[i]]
      BY <1>1, ZenonT(30)
    <2> HIDE DEF ids, recs
    <2> QED BY <1>1, <1>2, <1>3, <2>1, SequenceOf, Zenon
  <1>5. /\ \A i \in DOMAIN s : /\ require_unique(ids[i], recs[i].video_hash)
                               /\ <<verifier, s[i].nullifier>> \notin nullifiers
        /\ SaveBatch(ids, recs)
    BY <1>3, Zenon DEF register_batch_verified, has_nullifier
  <1>6. DOMAIN ids = DOMAIN s /\ DOMAIN s # {}
    BY <1>1
  <1> HIDE DEF BatchIds, BatchRecords
  <1> QED BY <1>1, <1>2, <1>3, <1>4, <1>5, <1>6, Zenon DEF BatchChecked

\* A batched registration: the ids are fresh and differ, the videos unclaimed and
\* the nullifiers unspent; nothing is asked of the elements among each other.
LEMMA BatchRegistration ==
    ASSUME RegistrationInv, NEW b \in ProofIds, NEW m \in MetadataHashes,
           NEW root \in Roots, NEW s \in BatchInputs,
           register_batch_verified(b, m, root, s)
    PROVE  RegistrationTypeOK' /\ StoreInv' /\ UseInv'
  <1> DEFINE ids == BatchIds(b, s)
             recs == BatchRecords(m, s)
             o == [frame |-> "batch", verifier |-> verifier, batch |-> b, until |-> None]
             Saved(p) == \E i \in DOMAIN ids : ids[i] = p
             ix(p) == CHOOSE i \in DOMAIN ids : ids[i] = p
  <1>0. BatchChecked(b, m, s)
    BY BatchElements, Zenon
  <1>1. verifier \in Verifiers
    BY <1>0, Zenon DEF BatchChecked
  <1>2. \A i, j \in DOMAIN s : ids[i] = ids[j] => i = j
    BY <1>0, Zenon DEF BatchChecked
  <1>3. \A i \in DOMAIN s :
          /\ recs[i] \in ProofRecord /\ recs[i].status = Registered
          /\ recs[i].nullifier = s[i].nullifier /\ s[i].nullifier \in Nullifiers
    BY <1>0, ZenonT(30) DEF BatchChecked
  <1>4. ids \in Seq(ProofIds) /\ recs \in Seq(ProofRecord) /\ Len(recs) = Len(ids)
    BY <1>0, ZenonT(30) DEF BatchChecked
  <1>d. DOMAIN ids = DOMAIN s
    BY <1>0, Zenon DEF BatchChecked
  <1>5. /\ \A i \in DOMAIN s : /\ require_unique(ids[i], recs[i].video_hash)
                               /\ <<verifier, s[i].nullifier>> \notin nullifiers
        /\ SaveBatch(ids, recs)
        /\ nullifiers' = nullifiers \cup {<<verifier, s[i].nullifier>> : i \in DOMAIN s}
        /\ origin' = [p \in ProofIds |-> IF Saved(p) THEN o ELSE origin[p]]
        /\ UNCHANGED <<sourceBatch, schema, checked>>
    <2>1. /\ \A i \in DOMAIN s : /\ require_unique(ids[i], recs[i].video_hash)
                                 /\ <<verifier, s[i].nullifier>> \notin nullifiers
          /\ SaveBatch(ids, recs)
      BY <1>0, Zenon DEF BatchChecked
    <2> QED BY <2>1, Zenon DEF register_batch_verified, BatchIds
  <1>n. nullifiers' = nullifiers \cup {<<verifier, s[i].nullifier>> : i \in DOMAIN s}
    BY <1>5, ZenonT(30)
  <1> HIDE DEF ids, recs
  <1>6. StoreInv'
    BY <1>2, <1>3, <1>4, <1>5, <1>d, SaveBatchKeepsStore, ZenonT(30) DEF RegistrationInv
  <1>7. \A p \in ProofIds : Saved(p) =>
          /\ proof[p] = None /\ proof'[p] = recs[ix(p)] /\ proof'[p] # None
          /\ ix(p) \in DOMAIN s /\ ids[ix(p)] = p /\ origin'[p] = o
    <2> SUFFICES ASSUME NEW p \in ProofIds, Saved(p)
                 PROVE  /\ proof[p] = None /\ proof'[p] = recs[ix(p)] /\ proof'[p] # None
                        /\ ix(p) \in DOMAIN s /\ ids[ix(p)] = p /\ origin'[p] = o
      BY Zenon
    <2>1. ix(p) \in DOMAIN s /\ ids[ix(p)] = p
      BY <1>d, Zenon
    <2>2. proof'[p] = recs[ix(p)]
      BY <1>5, ZenonT(30) DEF SaveBatch
    <2>3. recs[ix(p)] # None /\ proof[p] = None
      BY <1>3, <1>5, <2>1, ProofStoreAssumption, ZenonT(30) DEF require_unique
    <2>4. origin'[p] = o
      BY <1>5, Zenon
    <2> QED BY <2>1, <2>2, <2>3, <2>4, Zenon
  <1>8. \A p \in ProofIds : ~Saved(p) => proof'[p] = proof[p] /\ origin'[p] = origin[p]
    BY <1>5, Zenon DEF SaveBatch
  <1>9. o \in Origin /\ o # None /\ o.batch = b /\ o.verifier = verifier /\ b # None
    BY <1>1, ProofStoreAssumption, RegistrationAssumption, SMTT(30) DEF Origin
  <1> HIDE DEF Saved, ix, o
  <1>10. RegistrationTypeOK'
    <2>1. nullifiers' \subseteq Verifiers \X Nullifiers
      <3>1. nullifiers \subseteq Verifiers \X Nullifiers
        BY Zenon DEF RegistrationInv, RegistrationTypeOK
      <3> QED BY <1>1, <1>3, <1>n, <3>1
    <2>2. origin' \in [ProofIds -> Origin \cup {None}]
      BY <1>5, <1>9, ZenonT(30) DEF RegistrationInv, RegistrationTypeOK
    <2>3. \A p \in ProofIds : origin'[p] = None <=> proof'[p] = None
      BY <1>7, <1>8, <1>9, ZenonT(30) DEF RegistrationInv, RegistrationTypeOK
    <2> QED BY <1>5, <2>1, <2>2, <2>3, ZenonT(30) DEF RegistrationInv, RegistrationTypeOK
  <1>11. \A p \in ProofIds : Saved(p) =>
           /\ proof'[p].nullifier # None
           /\ <<verifier, proof'[p].nullifier>> \in nullifiers'
           /\ <<verifier, proof'[p].nullifier>> \notin nullifiers
           /\ proof'[p].video_hash \in Videos /\ video[proof'[p].video_hash] = None
    <2> SUFFICES ASSUME NEW p \in ProofIds, Saved(p)
                 PROVE  /\ proof'[p].nullifier # None
                        /\ <<verifier, proof'[p].nullifier>> \in nullifiers'
                        /\ <<verifier, proof'[p].nullifier>> \notin nullifiers
                        /\ proof'[p].video_hash \in Videos
                        /\ video[proof'[p].video_hash] = None
      BY ZenonT(30)
    <2>1. /\ ix(p) \in DOMAIN s /\ proof'[p].nullifier = s[ix(p)].nullifier
          /\ proof'[p].video_hash = recs[ix(p)].video_hash
          /\ s[ix(p)].nullifier \in Nullifiers
      BY <1>3, <1>7, Zenon
    <2>2. recs[ix(p)].video_hash \in Videos
      BY <1>3, <2>1, Zenon DEF ProofRecord
    <2>3. /\ require_unique(ids[ix(p)], recs[ix(p)].video_hash)
          /\ <<verifier, s[ix(p)].nullifier>> \notin nullifiers
      BY <1>5, <2>1, Zenon
    <2>4. video[recs[ix(p)].video_hash] = None
      BY <2>3, Zenon DEF require_unique
    <2>5. <<verifier, s[ix(p)].nullifier>> \in nullifiers'
      BY <1>n, <2>1, Zenon
    <2>6. s[ix(p)].nullifier # None
      BY <2>1, RegistrationAssumption, Zenon
    <2> QED BY <2>1, <2>2, <2>3, <2>4, <2>5, <2>6, ZenonT(30)
  <1>o. \A p \in ProofIds : ~Saved(p) /\ proof'[p] # None =>
           /\ proof'[p].nullifier # None =>
                <<origin'[p].verifier, proof'[p].nullifier>> \in nullifiers
           /\ video[proof'[p].video_hash] # None
    BY <1>8, Zenon DEF RegistrationInv, UseInv, RegisteredNullifierIsSpent, StoreInv,
                RegisteredVideoIsTaken
  <1>12. RegisteredNullifierIsSpent'
    BY <1>5, <1>7, <1>8, <1>9, <1>11, ZenonT(30) DEF RegistrationInv, UseInv, RegisteredNullifierIsSpent
  <1>13. NullifierSpentOnce'
    <2> SUFFICES ASSUME NEW x \in ProofIds, NEW y \in ProofIds, SameUse(x, y)'
                 PROVE  \/ "browser" \in {origin'[x].frame, origin'[y].frame}
                        \/ origin'[x].batch # None /\ origin'[x].batch = origin'[y].batch
      BY Zenon DEF NullifierSpentOnce
    <2>1. CASE Saved(x) /\ Saved(y)
      BY <1>7, <1>9, <2>1, Zenon
    <2>2. CASE ~Saved(x) /\ ~Saved(y)
      BY <1>8, <2>2, ZenonT(30) DEF RegistrationInv, UseInv, NullifierSpentOnce, SameUse
    <2>u. /\ proof'[x] # None /\ proof'[y] # None
          /\ proof'[x].nullifier # None /\ proof'[y].nullifier # None
          /\ proof'[x].nullifier = proof'[y].nullifier
          /\ origin'[x].verifier = origin'[y].verifier
      BY Zenon DEF SameUse
    <2>3. CASE Saved(x) /\ ~Saved(y)
      <3>1. <<origin'[y].verifier, proof'[y].nullifier>> \in nullifiers
        BY <1>o, <2>3, <2>u, Zenon
      <3>2. /\ origin'[x].verifier = verifier
            /\ <<verifier, proof'[x].nullifier>> \notin nullifiers
        BY <1>7, <1>9, <1>11, <2>3, Zenon
      <3> QED BY <3>1, <3>2, <2>u, Zenon
    <2>4. CASE ~Saved(x) /\ Saved(y)
      <3>1. <<origin'[x].verifier, proof'[x].nullifier>> \in nullifiers
        BY <1>o, <2>4, <2>u, Zenon
      <3>2. /\ origin'[y].verifier = verifier
            /\ <<verifier, proof'[y].nullifier>> \notin nullifiers
        BY <1>7, <1>9, <1>11, <2>4, Zenon
      <3> QED BY <3>1, <3>2, <2>u, Zenon
    <2> QED BY <2>1, <2>2, <2>3, <2>4, Zenon
  <1>14. VideoSharedOnlyInBatch'
    <2> SUFFICES ASSUME NEW x \in ProofIds, NEW y \in ProofIds,
                        x # y, proof'[x] # None, proof'[y] # None,
                        proof'[x].video_hash = proof'[y].video_hash
                 PROVE  origin'[x].batch # None /\ origin'[x].batch = origin'[y].batch
      BY Zenon DEF VideoSharedOnlyInBatch
    <2>1. CASE Saved(x) /\ Saved(y)
      BY <1>7, <1>9, <2>1, Zenon
    <2>2. CASE ~Saved(x) /\ ~Saved(y)
      BY <1>8, <2>2, Zenon DEF RegistrationInv, UseInv, VideoSharedOnlyInBatch
    <2>3. CASE (Saved(x) /\ ~Saved(y)) \/ (~Saved(x) /\ Saved(y))
      BY <1>11, <1>o, <2>3, Zenon
    <2> QED BY <2>1, <2>2, <2>3, Zenon
  <1> QED BY <1>6, <1>10, <1>12, <1>13, <1>14, Zenon DEF UseInv

---------------------------------------------------------------------------
(* The registration entry points.                                          *)

\* RegisterSilently, under the checks its three callers make.
LEMMA SilentRegistration ==
    ASSUME RegistrationInv, NEW p \in ProofIds, NEW v \in Videos, NEW m \in MetadataHashes,
           NEW n \in Nullifiers, NEW frame \in {"demo", "v1", "v2", "browser"},
           require_unique(p, v), verifier # None,
           frame = "browser" \/ ~has_nullifier(verifier, n),
           RegisterSilently(frame, p, v, m, n)
    PROVE  RegistrationTypeOK' /\ StoreInv' /\ UseInv'
  <1> DEFINE r == SilentRecord(v, m, n)
             o == [frame |-> frame, verifier |-> verifier, batch |-> None, until |-> None]
  <1>1. compute_expires_at \in Nat
    BY DEF compute_expires_at, RegistrationInv, ContextTypeOK
  <1>2. r \in ProofRecord /\ r.status = Registered /\ r.video_hash = v /\ r.nullifier = n
    BY <1>1 DEF SilentRecord, ProofRecord, ProofStatus, Tiers, TIER_SILENT_WITNESS
  <1>3. /\ verifier \in Verifiers /\ o \in Origin
        /\ o.verifier = verifier /\ o.frame = frame
    BY Zenon DEF RegistrationInv, ContextTypeOK, VerifierTypeOK, Origin
  <1>4. /\ nullifiers' = nullifiers \cup {<<verifier, n>>}
        /\ save_record(p, r, None)
        /\ origin' = [origin EXCEPT ![p] = o]
        /\ UNCHANGED <<sourceBatch, checked>>
    BY ZenonT(30) DEF RegisterSilently
  <1>5. nullifiers' \subseteq Verifiers \X Nullifiers
    BY <1>3, <1>4 DEF RegistrationInv, RegistrationTypeOK
  <1>6. frame = "browser" \/ <<verifier, n>> \notin nullifiers
    BY Zenon DEF has_nullifier
  <1> HIDE DEF r, o
  <1>7. /\ <<o.verifier, r.nullifier>> \in nullifiers'
        /\ o.frame = "browser" \/ <<o.verifier, r.nullifier>> \notin nullifiers
        /\ nullifiers \subseteq nullifiers'
    BY <1>2, <1>3, <1>4, <1>6, Zenon
  <1>8. require_unique(p, r.video_hash) /\ None \in Address \cup {None}
    BY <1>2, Zenon
  <1> QED BY <1>2, <1>3, <1>4, <1>5, <1>7, <1>8, SingleRegistration, ZenonT(30)

\* RegisterNamed, under the checks its four callers make.
LEMMA NamedRegistration ==
    ASSUME RegistrationInv, NEW p \in ProofIds, NEW v \in Videos, NEW m \in MetadataHashes,
           NEW tier \in Tiers, NEW subject \in Address, NEW actor \in Address,
           NEW expires_at \in Nat, NEW until \in Nat \cup {None},
           require_unique(p, v),
           RegisterNamed(tier, subject, p, v, m, expires_at, actor, until)
    PROVE  RegistrationTypeOK' /\ StoreInv' /\ UseInv'
  <1> DEFINE r == [video_hash |-> v, metadata_hash |-> m, tier |-> tier,
                   status |-> Registered, expires_at |-> expires_at,
                   subject |-> subject, nullifier |-> None]
             o == [frame |-> "none", verifier |-> None, batch |-> None, until |-> until]
  <1>1. r \in ProofRecord /\ r.status = Registered /\ r.video_hash = v /\ r.nullifier = None
    BY Zenon DEF ProofRecord, ProofStatus
  <1>2. o \in Origin
    BY Zenon DEF Origin
  <1>3. /\ save_record(p, r, actor)
        /\ origin' = [origin EXCEPT ![p] = o]
        /\ UNCHANGED <<nullifiers, sourceBatch, checked>>
    BY Zenon DEF RegisterNamed
  <1>4. nullifiers' \subseteq Verifiers \X Nullifiers
    BY <1>3, Zenon DEF RegistrationInv, RegistrationTypeOK
  <1> HIDE DEF r, o
  <1>5. require_unique(p, r.video_hash) /\ nullifiers \subseteq nullifiers'
    BY <1>1, <1>3, Zenon
  <1> QED BY <1>1, <1>2, <1>3, <1>4, <1>5, SingleRegistration, ZenonT(30)

\* Every registration entry point keeps the invariant.
LEMMA RegistrationStepKeeps ==
    ASSUME RegistrationInv, RegistrationStep
    PROVE  RegistrationTypeOK' /\ StoreInv' /\ UseInv'
  <1> DEFINE Kept == RegistrationTypeOK' /\ StoreInv' /\ UseInv'
  <1>0. /\ compute_expires_at \in Nat
        /\ TIER_CONSISTENT_SOURCE \in Tiers /\ TIER_PUBLIC_SEAL \in Tiers
    BY DEF compute_expires_at, RegistrationInv, ContextTypeOK, Tiers,
           TIER_CONSISTENT_SOURCE, TIER_PUBLIC_SEAL
  <1>1. ASSUME NEW p \in ProofIds, NEW v \in Videos, NEW m \in MetadataHashes,
               NEW n \in Nullifiers, NEW root \in Roots, register_anonymous(p, v, m, n, root)
        PROVE  Kept
    BY <1>1, SilentRegistration, Zenon DEF register_anonymous
  <1>2. ASSUME NEW p \in ProofIds, NEW v \in Videos, NEW m \in MetadataHashes,
               NEW n \in Nullifiers, NEW root \in Roots, NEW frame \in Frames,
               NEW scope \in Scopes, NEW epoch \in {0} \cup EpochInputs,
               register_anonymous_verified(frame, p, v, m, n, root, scope, epoch)
        PROVE  Kept
    <2>1. frame \in {"demo", "v1", "v2", "browser"}
          /\ (frame = "browser" \/ ~has_nullifier(verifier, n))
      BY <1>2, Zenon DEF register_anonymous_verified, FrameAccepted
    <2> QED BY <1>2, <2>1, SilentRegistration, Zenon DEF register_anonymous_verified
  <1>3. ASSUME NEW p \in ProofIds, NEW v \in Videos, NEW m \in MetadataHashes,
               NEW a \in Sources, register_source(a, p, v, m)
        PROVE  Kept
    <2>1. a \in Address /\ None \in Nat \cup {None}
      BY RegistrationAssumption, Zenon
    <2> QED BY <1>0, <1>3, <2>1, NamedRegistration, Zenon DEF register_source
  <1>4. ASSUME NEW p \in ProofIds, NEW v \in Videos, NEW m \in MetadataHashes,
               NEW i \in IssuerCandidates, register_seal(i, p, v, m)
        PROVE  Kept
    <2>1. i \in Address /\ None \in Nat \cup {None}
      BY AuthorityAssumption, Zenon
    <2> QED BY <1>0, <1>4, <2>1, NamedRegistration, Zenon DEF register_seal
  <1>5. ASSUME NEW g \in Grantors, NEW d \in Address, delegation[g][d] # None
        PROVE  /\ g \in Address /\ delegation[g][d].expires_at \in Nat
               /\ bounded_delegated_expiry(delegation[g][d].expires_at) \in Nat
    <2>1. g \in Address /\ delegation[g][d] \in DelegationRecord
      BY <1>5, DelegationAssumption, Zenon DEF RegistrationInv, ContextTypeOK
    <2>2. delegation[g][d].expires_at \in Nat
      BY <2>1, ZenonT(30) DEF DelegationRecord
    <2> QED BY <1>0, <2>1, <2>2, Zenon DEF bounded_delegated_expiry
  <1>6. ASSUME NEW p \in ProofIds, NEW v \in Videos, NEW m \in MetadataHashes,
               NEW d \in Address, NEW g \in Grantors, register_source_delegated(d, g, p, v, m)
        PROVE  Kept
    <2>1. delegation[g][d] # None
      BY <1>6, ZenonT(30) DEF register_source_delegated, is_delegation_active
    <2> QED BY <1>0, <1>5, <1>6, <2>1, NamedRegistration, ZenonT(30) DEF register_source_delegated
  <1>7. ASSUME NEW p \in ProofIds, NEW v \in Videos, NEW m \in MetadataHashes,
               NEW d \in Address, NEW g \in Grantors, register_seal_delegated(d, g, p, v, m)
        PROVE  Kept
    <2>1. delegation[g][d] # None
      BY <1>7, Zenon DEF register_seal_delegated, is_delegation_active
    <2> QED BY <1>0, <1>5, <1>7, <2>1, NamedRegistration, ZenonT(30) DEF register_seal_delegated
  <1>8. ASSUME NEW b \in ProofIds, NEW m \in MetadataHashes, NEW root \in Roots,
               NEW s \in BatchInputs, register_batch_verified(b, m, root, s)
        PROVE  Kept
    BY <1>8, BatchRegistration, Zenon
  <1> QED BY <1>1, <1>2, <1>3, <1>4, <1>6, <1>7, <1>8 DEF RegistrationStep

\* The entry points that only spend nullifiers, anchor a source batch or manage
\* schemas keep it too.
LEMMA OtherStepKeeps ==
    ASSUME RegistrationInv, OtherStep
    PROVE  RegistrationTypeOK' /\ StoreInv' /\ UseInv'
  <1>1. UNCHANGED storeVars /\ UNCHANGED origin
    BY Zenon DEF OtherStep, register_source_batch_root, check_non_revocation, add_schema,
           deprecate_schema, verify_selective_disclosure
  <1>2. nullifiers \subseteq nullifiers' /\ nullifiers' \subseteq Verifiers \X Nullifiers
    <2>1. nullifiers \subseteq Verifiers \X Nullifiers
      BY Zenon DEF RegistrationInv, RegistrationTypeOK
    <2>2. \/ UNCHANGED nullifiers
          \/ verifier # None /\ \E n \in Nullifiers : nullifiers' = nullifiers \cup {<<verifier, n>>}
      BY Zenon DEF OtherStep, register_source_batch_root, check_non_revocation, add_schema,
             deprecate_schema, verify_selective_disclosure
    <2>3. verifier # None => verifier \in Verifiers
      BY Zenon DEF RegistrationInv, ContextTypeOK, VerifierTypeOK
    <2> QED BY <2>1, <2>2, <2>3
  <1>3. sourceBatch' \in [SourceRoots -> SourceBatchRecord \cup {None}]
    <2>1. ASSUME NEW a \in Sources, NEW r \in SourceRoots, NEW k \in SourceCounts,
                 register_source_batch_root(a, r, k)
          PROVE  sourceBatch' \in [SourceRoots -> SourceBatchRecord \cup {None}]
      <3>1. [source |-> a, count |-> k] \in SourceBatchRecord
        BY <2>1, Zenon DEF register_source_batch_root, SourceBatchRecord
      <3> QED BY <2>1, <3>1, Zenon DEF register_source_batch_root, RegistrationInv, RegistrationTypeOK
    <2>2. ASSUME UNCHANGED sourceBatch
          PROVE  sourceBatch' \in [SourceRoots -> SourceBatchRecord \cup {None}]
      BY <2>2, Zenon DEF RegistrationInv, RegistrationTypeOK
    <2> QED BY <2>1, <2>2, Zenon DEF OtherStep, check_non_revocation, add_schema,
                              deprecate_schema, verify_selective_disclosure
  <1>4. checked' \in Seq(Verifiers \X Nullifiers)
    <2>1. ASSUME NEW rr \in RevocationRoots, NEW n \in Nullifiers, NEW root \in Roots,
                 check_non_revocation(rr, n, root)
          PROVE  checked' \in Seq(Verifiers \X Nullifiers)
      <3> DEFINE P == Verifiers \X Nullifiers
      <3>1. <<verifier, n>> \in P
        BY <2>1, Zenon DEF check_non_revocation, RegistrationInv, ContextTypeOK, VerifierTypeOK
      <3>2. checked \in Seq(P) /\ checked' = Append(checked, <<verifier, n>>)
        BY <2>1, Zenon DEF check_non_revocation, RegistrationInv, RegistrationTypeOK
      <3> HIDE DEF P
      <3>3. checked' \in Seq(P)
        BY <3>1, <3>2
      <3> QED BY <3>3, Zenon DEF P
    <2>2. ASSUME UNCHANGED checked PROVE checked' \in Seq(Verifiers \X Nullifiers)
      BY <2>2, Zenon DEF RegistrationInv, RegistrationTypeOK
    <2> QED BY <2>1, <2>2, Zenon DEF OtherStep, register_source_batch_root, add_schema,
                              deprecate_schema, verify_selective_disclosure
  <1>5. RegistrationTypeOK'
    BY <1>1, <1>2, <1>3, <1>4, Zenon DEF RegistrationInv, RegistrationTypeOK, storeVars
  <1>6. StoreInv'
    BY <1>1, Zenon DEF RegistrationInv, StoreInv, StoreTypeOK, HistoryExplainsStatus,
                EnvelopeMatchesProof, VideoIndexSound, RegisteredVideoIsTaken, storeVars
  <1>7. UseInv'
    BY <1>1, <1>2, UsesKept, Zenon DEF RegistrationInv, storeVars
  <1> QED BY <1>5, <1>6, <1>7, Zenon

---------------------------------------------------------------------------
(* The contract.                                                           *)

\* The invariant depends on these variables only.
LEMMA UntouchedKeeps ==
    ASSUME RegistrationInv, UNCHANGED <<storeVars, registrationVars>>
    PROVE  RegistrationTypeOK' /\ StoreInv' /\ UseInv'
  <1>1. RegistrationTypeOK'
    BY Zenon DEF RegistrationInv, RegistrationTypeOK, storeVars, registrationVars
  <1>2. StoreInv'
    BY Zenon DEF RegistrationInv, StoreInv, StoreTypeOK, HistoryExplainsStatus,
           EnvelopeMatchesProof, VideoIndexSound, RegisteredVideoIsTaken, storeVars
  <1>3. UseInv'
    BY UsesKept, Zenon DEF RegistrationInv, storeVars, registrationVars
  <1> QED BY <1>1, <1>2, <1>3, Zenon

\* A fresh contract satisfies the invariant.
LEMMA RegistrationInvInit ==
    ASSUME Init
    PROVE  RegistrationInv
  <1> USE DEF Init, StoreInit, RegistrationInit
  <1>1. ContextTypeOK
    BY ZenonT(30) DEF ContextTypeOK, VerifierTypeOK, LedgerInit, CredentialsInit, DelegationInit,
           VerifierInit
  <1>2. RegistrationTypeOK
    BY SMTT(30) DEF RegistrationTypeOK
  <1>3. StoreInv
    <2>1. StoreTypeOK
      BY ProofStoreAssumption, SMTT(30) DEF StoreTypeOK
    <2>2. HistoryExplainsStatus /\ EnvelopeMatchesProof
      BY ZenonT(30) DEF HistoryExplainsStatus, Explains, EnvelopeMatchesProof
    <2>3. VideoIndexSound /\ RegisteredVideoIsTaken
      BY Zenon DEF VideoIndexSound, RegisteredVideoIsTaken
    <2> QED BY <2>1, <2>2, <2>3, Zenon DEF StoreInv
  <1>4. UseInv
    BY Zenon DEF UseInv, RegisteredNullifierIsSpent, NullifierSpentOnce, SameUse,
           VideoSharedOnlyInBatch
  <1> QED BY <1>1, <1>2, <1>3, <1>4, ZenonT(30) DEF RegistrationInv

\* Every entry point of the contract keeps the invariant.
LEMMA RegistrationInvStep ==
    ASSUME RegistrationInv, [Next]_vars
    PROVE  RegistrationInv'
  <1> DEFINE Kept == RegistrationTypeOK' /\ StoreInv' /\ UseInv'
  <1>1. Kept
    <2>1. CASE RegistrationStep
      BY <2>1, RegistrationStepKeeps, Zenon
    <2>2. CASE OtherStep
      BY <2>2, OtherStepKeeps, Zenon
    <2>3. CASE LifecycleStep /\ UNCHANGED registrationVars
      <3>1. StoreInv'
        BY <2>3, LifecycleKeepsStore, Zenon DEF RegistrationInv
      <3>2. \A p \in ProofIds :
              /\ proof'[p] = None <=> proof[p] = None
              /\ proof[p] # None => /\ proof'[p].nullifier = proof[p].nullifier
                                    /\ proof'[p].video_hash = proof[p].video_hash
        BY <2>3, LifecycleKeepsIdentity, Zenon DEF RegistrationInv
      <3>3. UseInv'
        BY <2>3, <3>2, UsesKept, ZenonT(30) DEF RegistrationInv, registrationVars
      <3>4. RegistrationTypeOK'
        BY <2>3, <3>2, Zenon DEF RegistrationInv, RegistrationTypeOK, registrationVars
      <3> QED BY <3>1, <3>3, <3>4, Zenon
    <2>4. CASE UNCHANGED <<storeVars, registrationVars>>
      BY <2>4, UntouchedKeeps, Zenon
    <2> QED BY <2>1, <2>2, <2>3, <2>4, Zenon DEF Next, vars
  <1>2. now' \in Nat
    BY SMTT(30) DEF Next, vars, CloseLedger, RegistrationInv, ContextTypeOK
  <1>3. proofTtl' \in Nat
    BY CredentialsStepTyped, Zenon DEF Next, vars, componentVars, credentialVars, policyVars,
       upgrade_storage, RegistrationInv, ContextTypeOK
  <1>4. delegation' \in [Address -> [Address -> DelegationRecord \cup {None}]]
    BY DelegationStepTyped, Zenon DEF Next, vars, componentVars, delegationVars, RegistrationInv,
       ContextTypeOK
  <1>5. VerifierTypeOK'
    <2>1. CASE VerifierStep
      BY <2>1, VerifierStepTyped, Zenon DEF RegistrationInv
    <2>2. CASE UNCHANGED verifierVars
      BY <2>2, Zenon DEF verifierVars, RegistrationInv, ContextTypeOK, VerifierTypeOK
    <2> QED BY <2>1, <2>2, Zenon DEF Next, vars, componentVars
  <1> QED BY <1>1, <1>2, <1>3, <1>4, <1>5, ZenonT(30) DEF RegistrationInv, ContextTypeOK

\* The invariant of the whole contract.
THEOREM RegistrationInvariance == Spec => []RegistrationInv
  BY RegistrationInvInit, RegistrationInvStep, PTL DEF Spec

\* Every key of the contract's proof store has its type, and no history grows
\* past its cap, whatever entry points wrote to it.
THEOREM StoreTypeCorrect == Spec => []StoreTypeOK
  <1>1. RegistrationInv => StoreTypeOK
    BY Zenon DEF RegistrationInv, StoreInv
  <1> QED BY <1>1, RegistrationInvariance, PTL

\* The append-only history of a proof accounts for its status under any mix of
\* registrations, batches, revocations, expiries and corrections.
THEOREM HistoryIsTruthful == Spec => []HistoryExplainsStatus
  <1>1. RegistrationInv => HistoryExplainsStatus
    BY Zenon DEF RegistrationInv, StoreInv
  <1> QED BY <1>1, RegistrationInvariance, PTL

\* A record and its metadata envelope never disagree.
THEOREM EnvelopesAgree == Spec => []EnvelopeMatchesProof
  <1>1. RegistrationInv => EnvelopeMatchesProof
    BY Zenon DEF RegistrationInv, StoreInv
  <1> QED BY <1>1, RegistrationInvariance, PTL

\* The video index leads to a proof of the very video, also after a batch whose
\* elements share one.
THEOREM VideoIndexLeadsHome == Spec => []VideoIndexSound
  <1>1. RegistrationInv => VideoIndexSound
    BY Zenon DEF RegistrationInv, StoreInv
  <1> QED BY <1>1, RegistrationInvariance, PTL

\* A nullifier buys one registration per verifier, outside one batch and the
\* browser frame.
THEOREM NullifiersAreSpentOnce == Spec => []NullifierSpentOnce
  <1>1. RegistrationInv => NullifierSpentOnce
    BY Zenon DEF RegistrationInv, UseInv
  <1> QED BY <1>1, RegistrationInvariance, PTL

\* Two proofs share a video only if one batch registered both.
THEOREM VideosAreSharedOnlyInBatches == Spec => []VideoSharedOnlyInBatch
  <1>1. RegistrationInv => VideoSharedOnlyInBatch
    BY Zenon DEF RegistrationInv, UseInv
  <1> QED BY <1>1, RegistrationInvariance, PTL

\* A single registration is a Register of one id.
LEMMA SaveRecordIsRegister ==
    ASSUME StoreInv, NEW p \in ProofIds, NEW r \in ProofRecord, NEW a,
           r.status = Registered, require_unique(p, r.video_hash), save_record(p, r, a)
    PROVE  LifeStep
  <1> DEFINE content == [q \in {p} |-> r.video_hash]
  <1>1. r.video_hash \in Videos /\ LifeOf(r) = "registered"
    BY Lives, Zenon DEF ProofRecord
  <1>2. {p} \in SUBSET ProofIds /\ {p} # {} /\ content \in [{p} -> Videos]
    BY <1>1, ZenonT(30)
  <1>3. \A q \in {p} : proof[q] = None /\ video[content[q]] = None
    BY Zenon DEF require_unique
  <1>4. /\ \A q \in {p} : LifeOf(proof'[q]) = "registered"
        /\ \A q \in ProofIds \ {p} : proof'[q] = proof[q]
    BY <1>1, Zenon DEF save_record, StoreInv, StoreTypeOK
  <1>5. \A v \in Videos :
          video'[v] # None <=> video[v] # None \/ \E q \in {p} : content[q] = v
    BY <1>1, ProofStoreAssumption, ZenonT(30) DEF save_record, StoreInv, StoreTypeOK
  <1> HIDE DEF content
  <1> QED BY <1>2, <1>3, <1>4, <1>5, RegisterWitness, ZenonT(30)

\* A batch is a Register of its elements' ids.
LEMMA BatchIsRegister ==
    ASSUME RegistrationInv, NEW b \in ProofIds, NEW m \in MetadataHashes,
           NEW root \in Roots, NEW s \in BatchInputs,
           register_batch_verified(b, m, root, s)
    PROVE  LifeStep
  <1> DEFINE ids == BatchIds(b, s)
             recs == BatchRecords(m, s)
             S == {ids[i] : i \in DOMAIN s}
             ix(p) == CHOOSE i \in DOMAIN ids : ids[i] = p
             content == [p \in S |-> recs[ix(p)].video_hash]
  <1>1. /\ DOMAIN s # {} /\ DOMAIN ids = DOMAIN s
        /\ \A i \in DOMAIN s : ids[i] \in ProofIds
        /\ \A i, j \in DOMAIN s : ids[i] = ids[j] => i = j
        /\ \A i \in DOMAIN s : recs[i] \in ProofRecord /\ recs[i].status = Registered
        /\ \A i \in DOMAIN s : require_unique(ids[i], recs[i].video_hash)
        /\ SaveBatch(ids, recs)
        /\ ids \in Seq(ProofIds) /\ recs \in Seq(ProofRecord)
    <2>1. BatchChecked(b, m, s)
      BY BatchElements, ZenonT(30)
    <2> QED BY <2>1, Zenon DEF BatchChecked
  <1> HIDE DEF ids, recs
  <1>2. \A p \in S : ix(p) \in DOMAIN s /\ ids[ix(p)] = p
    BY <1>1, ZenonT(30)
  <1>3. \A i \in DOMAIN s : recs[i].video_hash \in Videos /\ LifeOf(recs[i]) = "registered"
    BY <1>1, Lives, ZenonT(30) DEF ProofRecord
  <1>4. S \in SUBSET ProofIds /\ S # {} /\ content \in [S -> Videos]
    <2>0. PICK i \in DOMAIN s : TRUE
      BY <1>1, Zenon
    <2>1. S \in SUBSET ProofIds /\ ids[i] \in S
      BY <1>1, Zenon
    <2>2. \A p \in S : recs[ix(p)].video_hash \in Videos
      BY <1>2, <1>3, Zenon
    <2> HIDE DEF S, ix
    <2> QED BY <2>1, <2>2, Zenon
  <1>5. \A p \in S : proof[p] = None /\ video[content[p]] = None
    <2> SUFFICES ASSUME NEW p \in S
                 PROVE  proof[p] = None /\ video[content[p]] = None
      BY Zenon
    <2>1. content[p] = recs[ix(p)].video_hash
      BY Zenon
    <2>2. ix(p) \in DOMAIN s /\ ids[ix(p)] = p
      BY <1>2, Zenon
    <2> HIDE DEF S, ix, content
    <2>3. require_unique(p, content[p])
      BY <1>1, <2>1, <2>2, ZenonT(30)
    <2> QED BY <2>3, Zenon DEF require_unique
  <1>6. /\ \A p \in S : LifeOf(proof'[p]) = "registered"
        /\ \A p \in ProofIds \ S : proof'[p] = proof[p]
    <2>1. \A p \in ProofIds : p \in S <=> \E i \in DOMAIN ids : ids[i] = p
      BY <1>1, ZenonT(30)
    <2>2. proof' = [p \in ProofIds |-> IF p \in S THEN recs[ix(p)] ELSE proof[p]]
      BY <2>1, <1>1, ZenonT(30) DEF SaveBatch
    <2> HIDE DEF ix, S
    <2> QED BY <1>2, <1>3, <1>4, <2>2, ZenonT(30)
  <1> DEFINE Listed(v) == \E i \in DOMAIN ids : recs[i].video_hash = v
             Held(v) == \E p \in S : content[p] = v
  <1>7. \A v \in Videos : Listed(v) <=> Held(v)
    <2>1. \A i \in DOMAIN ids : ids[i] \in S /\ ix(ids[i]) = i
      BY <1>1, <1>2, Zenon
    <2>2. \A p \in S : content[p] = recs[ix(p)].video_hash
      BY Zenon
    <2> HIDE DEF S, ix, content
    <2>3. ASSUME NEW v \in Videos, Listed(v) PROVE Held(v)
      <3>1. PICK i \in DOMAIN ids : recs[i].video_hash = v
        BY <2>3, Zenon
      <3>2. ids[i] \in S /\ content[ids[i]] = v
        BY <2>1, <2>2, <3>1, Zenon
      <3> QED BY <3>2, Zenon
    <2>4. ASSUME NEW v \in Videos, Held(v) PROVE Listed(v)
      <3>1. PICK p \in S : content[p] = v
        BY <2>4, Zenon
      <3>2. ix(p) \in DOMAIN ids /\ recs[ix(p)].video_hash = v
        BY <1>1, <1>2, <2>2, <3>1, Zenon
      <3> QED BY <3>2, Zenon
    <2> HIDE DEF Listed, Held
    <2> QED BY <2>3, <2>4, ZenonT(30)
  <1>8. ASSUME NEW v \in Videos
        PROVE  video'[v] # None <=> video[v] # None \/ Held(v)
    <2> HIDE DEF Held, Listed
    <2> SUFFICES video'[v] # None <=> video[v] # None \/ Listed(v)
      BY <1>7, Zenon
    <2> USE DEF Listed
    <2>1. video'[v] = IF \E i \in DOMAIN ids : recs[i].video_hash = v
                      THEN ids[CHOOSE i \in DOMAIN ids : LastWith(ids, recs, v, i)] ELSE video[v]
      BY <1>1, ZenonT(30) DEF SaveBatch, LastWith
    <2>2. ASSUME \E i \in DOMAIN ids : recs[i].video_hash = v
          PROVE  (CHOOSE i \in DOMAIN ids : LastWith(ids, recs, v, i)) \in DOMAIN ids
      <3>2. \E i \in DOMAIN ids : LastWith(ids, recs, v, i)
        BY <1>1, <2>2, LastClaimant, ZenonT(30)
      <3> QED BY <3>2, ZenonT(30)
    <2>3. \A i \in DOMAIN ids : ids[i] # None
      BY <1>1, ProofStoreAssumption, ZenonT(30)
    <2> QED BY <2>1, <2>2, <2>3, Zenon
  <1> HIDE DEF content, S
  <1> QED BY <1>4, <1>5, <1>6, <1>8, RegisterWitness, Zenon

\* Every registration entry point is a Register.
LEMMA RegistrationIsRegister ==
    ASSUME RegistrationInv, RegistrationStep
    PROVE  LifeStep
  <1>0. compute_expires_at \in Nat /\ StoreInv
    BY DEF compute_expires_at, RegistrationInv, ContextTypeOK
  <1>1. ASSUME NEW frame, NEW p \in ProofIds, NEW v \in Videos, NEW m \in MetadataHashes,
               NEW n \in Nullifiers, require_unique(p, v), RegisterSilently(frame, p, v, m, n)
        PROVE  LifeStep
    <2> DEFINE r == SilentRecord(v, m, n)
    <2>1. r \in ProofRecord /\ r.status = Registered /\ r.video_hash = v
      BY <1>0 DEF SilentRecord, ProofRecord, ProofStatus, Tiers, TIER_SILENT_WITNESS
    <2>2. save_record(p, r, None)
      BY <1>1, Zenon DEF RegisterSilently
    <2> HIDE DEF r
    <2> QED BY <1>0, <1>1, <2>1, <2>2, SaveRecordIsRegister, ZenonT(30)
  <1>2. ASSUME NEW tier \in Tiers, NEW subject \in Address, NEW p \in ProofIds,
               NEW v \in Videos, NEW m \in MetadataHashes, NEW expires_at \in Nat,
               NEW actor, NEW until, require_unique(p, v),
               RegisterNamed(tier, subject, p, v, m, expires_at, actor, until)
        PROVE  LifeStep
    <2> DEFINE r == [video_hash |-> v, metadata_hash |-> m, tier |-> tier,
                     status |-> Registered, expires_at |-> expires_at,
                     subject |-> subject, nullifier |-> None]
    <2>1. r \in ProofRecord /\ r.status = Registered /\ r.video_hash = v
      BY ZenonT(30) DEF ProofRecord, ProofStatus
    <2>2. save_record(p, r, actor)
      BY <1>2, Zenon DEF RegisterNamed
    <2> HIDE DEF r
    <2> QED BY <1>0, <1>2, <2>1, <2>2, SaveRecordIsRegister, ZenonT(30)
  <1>3. ASSUME NEW p \in ProofIds, NEW v \in Videos, NEW m \in MetadataHashes,
               NEW n \in Nullifiers, NEW root \in Roots, register_anonymous(p, v, m, n, root)
        PROVE  LifeStep
    BY <1>1, <1>3, Zenon DEF register_anonymous
  <1>4. ASSUME NEW p \in ProofIds, NEW v \in Videos, NEW m \in MetadataHashes,
               NEW n \in Nullifiers, NEW root \in Roots, NEW frame \in Frames,
               NEW scope \in Scopes, NEW epoch \in {0} \cup EpochInputs,
               register_anonymous_verified(frame, p, v, m, n, root, scope, epoch)
        PROVE  LifeStep
    BY <1>1, <1>4, Zenon DEF register_anonymous_verified
  <1>t. TIER_CONSISTENT_SOURCE \in Tiers /\ TIER_PUBLIC_SEAL \in Tiers
    BY DEF Tiers, TIER_CONSISTENT_SOURCE, TIER_PUBLIC_SEAL
  <1>5. ASSUME NEW p \in ProofIds, NEW v \in Videos, NEW m \in MetadataHashes,
               NEW a \in Sources, register_source(a, p, v, m)
        PROVE  LifeStep
    <2>1. a \in Address
      BY RegistrationAssumption, Zenon
    <2> QED BY <1>0, <1>2, <1>5, <1>t, <2>1, Zenon DEF register_source
  <1>6. ASSUME NEW p \in ProofIds, NEW v \in Videos, NEW m \in MetadataHashes,
               NEW i \in IssuerCandidates, register_seal(i, p, v, m)
        PROVE  LifeStep
    <2>1. i \in Address
      BY AuthorityAssumption, Zenon
    <2> QED BY <1>0, <1>2, <1>6, <1>t, <2>1, Zenon DEF register_seal
  <1>d. ASSUME NEW g \in Grantors, NEW d \in Address, delegation[g][d] # None
        PROVE  g \in Address /\ bounded_delegated_expiry(delegation[g][d].expires_at) \in Nat
    <2>1. g \in Address /\ delegation[g][d] \in DelegationRecord
      BY <1>d, DelegationAssumption, Zenon DEF RegistrationInv, ContextTypeOK
    <2>2. delegation[g][d].expires_at \in Nat
      BY <2>1, Zenon DEF DelegationRecord
    <2> QED BY <1>0, <2>1, <2>2, Zenon DEF bounded_delegated_expiry
  <1>7. ASSUME NEW p \in ProofIds, NEW v \in Videos, NEW m \in MetadataHashes,
               NEW d \in Address, NEW g \in Grantors, register_source_delegated(d, g, p, v, m)
        PROVE  LifeStep
    <2>1. delegation[g][d] # None
      BY <1>7, ZenonT(30) DEF register_source_delegated, is_delegation_active
    <2> QED BY <1>2, <1>7, <1>d, <1>t, <2>1, ZenonT(30) DEF register_source_delegated
  <1>8. ASSUME NEW p \in ProofIds, NEW v \in Videos, NEW m \in MetadataHashes,
               NEW d \in Address, NEW g \in Grantors, register_seal_delegated(d, g, p, v, m)
        PROVE  LifeStep
    <2>1. delegation[g][d] # None
      BY <1>8, Zenon DEF register_seal_delegated, is_delegation_active
    <2> QED BY <1>2, <1>8, <1>d, <1>t, <2>1, ZenonT(30) DEF register_seal_delegated
  <1>9. ASSUME NEW b \in ProofIds, NEW m \in MetadataHashes, NEW root \in Roots,
               NEW s \in BatchInputs, register_batch_verified(b, m, root, s)
        PROVE  LifeStep
    BY <1>9, BatchIsRegister, ZenonT(30)
  <1> QED BY <1>3, <1>4, <1>5, <1>6, <1>7, <1>8, <1>9 DEF RegistrationStep

\* Revocations are Revokes, an expiry is an Expire, and verification, correction
\* and envelope upgrades do not change a life.
LEMMA LifecycleIsLife ==
    ASSUME StoreInv, LifecycleStep
    PROVE  LifeStep
  <1>0. proof \in [ProofIds -> ProofRecord \cup {None}]
    BY Zenon DEF StoreInv, StoreTypeOK
  <1>1. ASSUME NEW ids \in SUBSET ProofIds, UNCHANGED video,
               \A p \in ids : proof[p] # None /\ LifeOf(proof'[p]) = "revoked",
               \A p \in ProofIds \ ids : proof'[p] = proof[p]
        PROVE  LifeStep
    <2>1. \A p \in ids : lifeBar[p] # "absent"
      BY <1>0, <1>1, Lives, ZenonT(30) DEF lifeBar
    <2>2. lifeBar' = [p \in ProofIds |-> IF p \in ids THEN "revoked" ELSE lifeBar[p]]
      BY <1>1, Zenon DEF lifeBar
    <2>3. claimedBar' = claimedBar
      BY <1>1, Zenon DEF claimedBar
    <2>4. Life!Revoke
      BY <2>1, <2>2, <2>3, Zenon DEF Life!Revoke
    <2> QED BY <2>4, Zenon DEF LifeStep, Life!LifeNext
  <1>2. \A p \in ProofIds : proof[p] # None =>
          /\ LifeOf(WithStatus(proof[p], Revoked)) = "revoked"
          /\ LifeOf(WithStatus(proof[p], Expired)) = "expired"
    <2>1. Revoked \in ProofStatus /\ Expired \in ProofStatus
      BY Zenon DEF ProofStatus
    <2> QED BY <1>0, <2>1, StatusChanged, Lives, ZenonT(30)
  <1>3. ASSUME NEW a \in Address, NEW p \in ProofIds, revoke_proof(a, p) PROVE LifeStep
    <2>1. /\ {p} \in SUBSET ProofIds /\ UNCHANGED video
          /\ \A q \in {p} : proof[q] # None /\ LifeOf(proof'[q]) = "revoked"
          /\ \A q \in ProofIds \ {p} : proof'[q] = proof[q]
      BY <1>0, <1>2, <1>3, ZenonT(30) DEF revoke_proof
    <2> QED BY <1>1, <2>1, Zenon
  <1>4. ASSUME NEW a \in Address, NEW ids \in RevokeInputs, revoke_proofs(a, ids)
        PROVE  LifeStep
    <2> DEFINE S == {p \in ProofIds : \E i \in DOMAIN ids : ids[i] = p}
    <2>1. /\ S \in SUBSET ProofIds /\ UNCHANGED video
          /\ \A q \in S : proof[q] # None /\ LifeOf(proof'[q]) = "revoked"
          /\ \A q \in ProofIds \ S : proof'[q] = proof[q]
      BY <1>0, <1>2, <1>4, Zenon DEF revoke_proofs
    <2> HIDE DEF S
    <2> QED BY <1>1, <2>1, ZenonT(30)
  <1>5. ASSUME NEW a \in Address, NEW p \in ProofIds, expire_proof(a, p) PROVE LifeStep
    <2>1. lifeBar[p] = "registered"
      <3>1. proof[p] \in ProofRecord /\ proof[p].status = Registered
        BY <1>0, <1>5, Zenon DEF expire_proof, ProofRecord, ProofStatus
      <3> QED BY <3>1, Lives, ZenonT(30) DEF lifeBar
    <2>2. lifeBar' = [lifeBar EXCEPT ![p] = "expired"]
      BY <1>0, <1>2, <1>5, Zenon DEF lifeBar, expire_proof
    <2>3. claimedBar' = claimedBar
      BY <1>5, Zenon DEF claimedBar, expire_proof
    <2>4. Life!Expire(p)
      BY <2>1, <2>2, <2>3, ZenonT(30) DEF Life!Expire
    <2> QED BY <2>4, Zenon DEF LifeStep, Life!LifeNext
  <1>6. ASSUME NEW a \in Address, NEW p \in ProofIds, NEW m \in MetadataHashes,
               correct_proof(a, p, m)
        PROVE  LifeStep
    <2>1. LifeOf(WithMetadata(proof[p], m)) = LifeOf(proof[p])
      <3>1. proof[p] \in ProofRecord
        BY <1>0, <1>6, ZenonT(30) DEF correct_proof
      <3>2. /\ WithMetadata(proof[p], m) \in ProofRecord
            /\ WithMetadata(proof[p], m).status = proof[p].status
        BY <3>1, MetadataChanged, Zenon
      <3> QED BY <3>1, <3>2, ProofStoreAssumption, ZenonT(30) DEF LifeOf
    <2> QED BY <1>0, <1>6, <2>1, SameLives, ZenonT(30) DEF correct_proof
  <1>7. ASSUME UNCHANGED <<proof, video>> PROVE LifeStep
    BY <1>7, SameLives, Zenon
  <1> QED BY <1>3, <1>4, <1>5, <1>6, <1>7, ZenonT(30)
          DEF LifecycleStep, verify_proof, bind_metadata_envelope

\* The contract's step maps to a step of EvidenceLife or to none.
LEMMA StepIsLife ==
    ASSUME RegistrationInv, [Next]_vars
    PROVE  LifeStep
  <1>1. CASE RegistrationStep
    BY <1>1, RegistrationIsRegister, Zenon
  <1>2. CASE LifecycleStep
    BY <1>2, LifecycleIsLife, Zenon DEF RegistrationInv
  <1>3. CASE UNCHANGED storeVars
    BY <1>3, SameLives, Zenon DEF storeVars
  <1>4. ASSUME OtherStep PROVE UNCHANGED storeVars
    BY <1>4, Zenon DEF OtherStep, register_source_batch_root, check_non_revocation, add_schema,
                deprecate_schema, verify_selective_disclosure
  <1> QED BY <1>1, <1>2, <1>3, <1>4, Zenon DEF Next, vars

\* The contract implements EvidenceLife: whatever entry points its users, its
\* admin and its council call, and in whatever order, an id is registered once,
\* under a video nobody claimed before, and its life only moves forward.
THEOREM ContractImplementsLife == Spec => ImplementsLife
  <1>1. Init => Life!LifeInit
    BY Lives, Zenon DEF Init, StoreInit, Life!LifeInit, lifeBar, claimedBar
  <1>2. RegistrationInv /\ [Next]_vars => [Life!LifeNext]_<<lifeBar, claimedBar>>
    BY StepIsLife, ZenonT(30) DEF LifeStep
  <1> QED BY <1>1, <1>2, RegistrationInvariance, PTL DEF Spec, ImplementsLife, Life!LifeSpec

---------------------------------------------------------------------------
(* Records, histories and envelopes.                                       *)

\* A registration writes under ids nobody registered before.
LEMMA RegistrationIsFresh ==
    ASSUME RegistrationInv, RegistrationStep, NEW q \in ProofIds, proof[q] # None
    PROVE  /\ history'[q] = history[q] /\ proof'[q] = proof[q]
           /\ envelope'[q] = envelope[q] /\ origin'[q] = origin[q]
  <1> DEFINE Same == /\ history'[q] = history[q] /\ proof'[q] = proof[q]
                     /\ envelope'[q] = envelope[q] /\ origin'[q] = origin[q]
  <1>0. StoreTypeOK /\ origin \in [ProofIds -> Origin \cup {None}]
    BY Zenon DEF RegistrationInv, StoreInv, RegistrationTypeOK
  <1>1. ASSUME NEW p \in ProofIds, NEW v, NEW r, NEW a, NEW o, require_unique(p, v),
               save_record(p, r, a), origin' = [origin EXCEPT ![p] = o]
        PROVE  Same
    BY <1>0, <1>1, Zenon DEF require_unique, save_record, record_proof_history, StoreTypeOK
  <1>2. ASSUME NEW p \in ProofIds, NEW v \in Videos, NEW m \in MetadataHashes,
               NEW n \in Nullifiers, NEW frame, require_unique(p, v),
               RegisterSilently(frame, p, v, m, n)
        PROVE  Same
    BY <1>1, <1>2, ZenonT(30) DEF RegisterSilently
  <1>3. ASSUME NEW p \in ProofIds, NEW v \in Videos, NEW m \in MetadataHashes, NEW tier,
               NEW subject, NEW t, NEW actor, NEW until, require_unique(p, v),
               RegisterNamed(tier, subject, p, v, m, t, actor, until)
        PROVE  Same
    BY <1>1, <1>3, Zenon DEF RegisterNamed
  <1>4. ASSUME NEW b \in ProofIds, NEW m \in MetadataHashes, NEW root \in Roots,
               NEW s \in BatchInputs, register_batch_verified(b, m, root, s)
        PROVE  Same
    <2>1. BatchChecked(b, m, s)
      BY <1>4, BatchElements, Zenon
    <2>2. \A i \in DOMAIN BatchIds(b, s) : BatchIds(b, s)[i] # q
      BY <2>1, ZenonT(30) DEF BatchChecked, require_unique
    <2>3. history'[q] = history[q] /\ proof'[q] = proof[q] /\ envelope'[q] = envelope[q]
      BY <2>1, <2>2, Zenon DEF BatchChecked, SaveBatch
    <2>4. origin'[q] = origin[q]
      BY <1>4, <2>2, ZenonT(30) DEF register_batch_verified, BatchIds
    <2> QED BY <2>3, <2>4, ZenonT(30)
  <1>5. ASSUME NEW p \in ProofIds, NEW v \in Videos, NEW m \in MetadataHashes,
               NEW n \in Nullifiers, NEW root, NEW frame, NEW scope, NEW epoch,
               \/ register_anonymous(p, v, m, n, root)
               \/ register_anonymous_verified(frame, p, v, m, n, root, scope, epoch)
        PROVE  Same
    BY <1>2, <1>5, ZenonT(30) DEF register_anonymous, register_anonymous_verified
  <1>6. ASSUME NEW p \in ProofIds, NEW v \in Videos, NEW m \in MetadataHashes, NEW a, NEW d,
               \/ register_source(a, p, v, m) \/ register_seal(a, p, v, m)
               \/ register_source_delegated(d, a, p, v, m) \/ register_seal_delegated(d, a, p, v, m)
        PROVE  Same
    BY <1>3, <1>6, Zenon DEF register_source, register_seal, register_source_delegated,
                      register_seal_delegated
  <1> HIDE DEF Same
  <1>7. Same
    BY <1>4, <1>5, <1>6 DEF RegistrationStep
  <1> QED BY <1>7, ZenonT(30) DEF Same

\* A registration is final: it extends empty histories only.
LEMMA RegistrationIsFinal ==
    ASSUME RegistrationInv, RegistrationStep, RegistrationInv', NEW q \in ProofIds
    PROVE  Final(q)
  <1>1. CASE proof[q] # None
    BY <1>1, RegistrationIsFresh, UntouchedIsFinal, Zenon DEF RegistrationInv
  <1>2. CASE proof[q] = None
    <2>1. history[q] = <<>> /\ envelope[q] = None
      BY <1>2, Zenon DEF RegistrationInv, StoreInv, HistoryExplainsStatus, Explains, EnvelopeMatchesProof
    <2>2. history'[q] \in Seq(ProofHistoryEntry)
      BY Zenon DEF RegistrationInv, StoreInv, StoreTypeOK
    <2>3. IsPrefixOf(history[q], history'[q])
      BY <2>1, <2>2, SMTT(30) DEF IsPrefixOf
    <2> QED BY <1>2, <2>1, <2>3, ZenonT(30) DEF Final
  <1> QED BY <1>1, <1>2, Zenon

\* Every step of the contract is final.
LEMMA StepIsFinal ==
    ASSUME RegistrationInv, RegistrationInv', [Next]_vars
    PROVE  RecordsAreFinal
  <1>1. ASSUME NEW q \in ProofIds PROVE Final(q)
    <2>1. CASE RegistrationStep
      BY <2>1, RegistrationIsFinal, Zenon
    <2>2. CASE LifecycleStep
      BY <2>2, LifecycleIsFinal, ZenonT(30) DEF RegistrationInv
    <2>3. CASE UNCHANGED storeVars
      BY <2>3, UntouchedIsFinal, Zenon DEF storeVars, RegistrationInv
    <2>4. ASSUME OtherStep PROVE UNCHANGED storeVars
      BY <2>4, Zenon DEF OtherStep, register_source_batch_root, check_non_revocation, add_schema,
                  deprecate_schema, verify_selective_disclosure
    <2> QED BY <2>1, <2>2, <2>3, <2>4, Zenon DEF Next, vars
  <1> QED BY <1>1, Zenon DEF Final, RecordsAreFinal

\* An expired life stays expired or is revoked.
LEMMA ExpiredStaysLost ==
    ASSUME RegistrationInv, RegistrationInv', LifeStep, NEW p \in ProofIds,
           proof[p] # None, proof[p].status = Expired
    PROVE  proof'[p] # None /\ proof'[p].status \in {Expired, Revoked}
  <1>1. /\ proof[p] \in ProofRecord
        /\ proof'[p] \in ProofRecord \cup {None}
    BY Zenon DEF RegistrationInv, StoreInv, StoreTypeOK
  <1>2. lifeBar[p] = "expired"
    BY <1>1, Lives, ZenonT(30) DEF lifeBar
  <1>3. lifeBar'[p] \in {"expired", "revoked"}
    <2>1. CASE Life!Register
      BY <1>2, <2>1, ZenonT(30) DEF Life!Register
    <2>2. CASE Life!Revoke
      BY <1>2, <2>2, Zenon DEF Life!Revoke
    <2>3. ASSUME NEW q \in ProofIds, Life!Expire(q) PROVE lifeBar'[p] \in {"expired", "revoked"}
      <3>1. lifeBar[q] = "registered" /\ lifeBar' = [lifeBar EXCEPT ![q] = "expired"]
        BY <2>3, Zenon DEF Life!Expire
      <3>2. p # q
        BY <1>2, <3>1, Zenon
      <3>3. DOMAIN lifeBar = ProofIds
        BY Zenon DEF lifeBar
      <3> QED BY <1>2, <3>1, <3>2, <3>3, Zenon
    <2>4. CASE UNCHANGED <<lifeBar, claimedBar>>
      BY <1>2, <2>4, Zenon
    <2> QED BY <2>1, <2>2, <2>3, <2>4, Zenon DEF LifeStep, Life!LifeNext
  <1>4. LifeOf(proof'[p]) \in {"expired", "revoked"}
    BY <1>3, ZenonT(30) DEF lifeBar
  <1> QED BY <1>1, <1>4, Lives, Zenon

\* Validity that is gone does not come back: revoked and expired records stay so,
\* and the expiry the clock has passed does not move.
LEMMA StepLosesForGood ==
    ASSUME RegistrationInv, RegistrationInv', [Next]_vars
    PROVE  ValidityIsLostForGood
  <1> SUFFICES ASSUME NEW p \in ProofIds, get_proof_status(p) \in {Revoked, Expired}
               PROVE  get_proof_status(p)' \in {Revoked, Expired}
    BY Zenon DEF ValidityIsLostForGood
  <1>1. proof[p] # None
    BY Zenon DEF get_proof_status, Revoked, Expired
  <1>2. /\ proof[p] \in ProofRecord /\ proof[p].status \in ProofStatus
        /\ now \in Nat /\ now' \in Nat
    BY <1>1, Zenon DEF RegistrationInv, ContextTypeOK, StoreInv, StoreTypeOK, ProofRecord
  <1>3. /\ proof'[p] # None /\ proof'[p].expires_at = proof[p].expires_at
        /\ proof[p].status = Revoked => proof'[p].status = Revoked
    BY <1>1, StepIsFinal, ExpiryIsKept, Zenon
  <1>4. proof'[p].status \in ProofStatus /\ proof[p].expires_at \in Nat
    BY <1>2, <1>3, Zenon DEF RegistrationInv, StoreInv, StoreTypeOK, ProofRecord
  <1>5. now' >= now
    BY <1>2, SMTT(30) DEF Next, vars, CloseLedger
  <1>6. CASE proof[p].status = Revoked
    BY <1>3, <1>6, Zenon DEF get_proof_status, Registered, Revoked, Expired
  <1>7. CASE proof[p].status = Expired
    BY <1>1, <1>3, <1>7, StepIsLife, ExpiredStaysLost, ZenonT(30)
       DEF get_proof_status, Registered, Revoked, Expired
  <1>8. CASE proof[p].status = Registered
    <2>1. proof[p].expires_at > 0 /\ now > proof[p].expires_at
      BY <1>1, <1>8, ZenonT(30) DEF get_proof_status, Registered, Revoked, Expired
    <2>2. proof'[p].expires_at > 0 /\ now' > proof'[p].expires_at
      BY <1>2, <1>3, <1>4, <1>5, <2>1
    <2> QED BY <1>3, <1>4, <2>2, ZenonT(30) DEF get_proof_status, ProofStatus
  <1> QED BY <1>2, <1>6, <1>7, <1>8, Zenon DEF ProofStatus

\* No entry point and no passing of time gives a proof its validity back, takes a
\* record or a history entry away, or lowers an envelope's version.
THEOREM LossesAreForGood == Spec => LossesAreFinal
  <1>1. RegistrationInv /\ RegistrationInv' /\ [Next]_vars
          => [ValidityIsLostForGood /\ RecordsAreFinal]_vars
    BY StepIsFinal, StepLosesForGood, ZenonT(30)
  <1> QED BY <1>1, RegistrationInvariance, PTL DEF Spec, LossesAreFinal

---------------------------------------------------------------------------
(* Delegated proofs.                                                       *)

\* A delegated proof has an expiry, no later than its delegation's.
DelegatedExpiryBounded ==
    \A p \in ProofIds :
      origin[p] # None /\ origin[p].until # None =>
        /\ proof[p].expires_at > 0
        /\ proof[p].expires_at <= origin[p].until

\* A registration through save_record, whose expiry respects `until` if it has one.
LEMMA SavedExpiryBounded ==
    ASSUME RegistrationInv, DelegatedExpiryBounded, NEW p \in ProofIds, NEW r, NEW a, NEW o,
           save_record(p, r, a), origin' = [origin EXCEPT ![p] = o],
           o.until # None => r.expires_at > 0 /\ r.expires_at <= o.until
    PROVE  DelegatedExpiryBounded'
  BY ZenonT(30) DEF RegistrationInv, RegistrationTypeOK, StoreInv, StoreTypeOK, save_record,
         DelegatedExpiryBounded

\* Each registration bounds the expiry of the proof it stores.
LEMMA RegistrationBoundsExpiry ==
    ASSUME RegistrationInv, DelegatedExpiryBounded, RegistrationStep
    PROVE  DelegatedExpiryBounded'
  <1>1. ASSUME NEW p \in ProofIds, NEW v \in Videos, NEW m \in MetadataHashes,
               NEW n \in Nullifiers, NEW frame, RegisterSilently(frame, p, v, m, n)
        PROVE  DelegatedExpiryBounded'
    BY <1>1, SavedExpiryBounded, Zenon DEF RegisterSilently
  <1>2. ASSUME NEW p \in ProofIds, NEW v \in Videos, NEW m \in MetadataHashes, NEW tier,
               NEW subject, NEW t, NEW actor, NEW until,
               RegisterNamed(tier, subject, p, v, m, t, actor, until),
               until # None => t > 0 /\ t <= until
        PROVE  DelegatedExpiryBounded'
    BY <1>2, SavedExpiryBounded, Zenon DEF RegisterNamed
  <1>3. ASSUME NEW g \in Grantors, NEW d \in Address, NEW bit, is_delegation_active(g, d, bit)
        PROVE  /\ bounded_delegated_expiry(delegation[g][d].expires_at) > 0
               /\ bounded_delegated_expiry(delegation[g][d].expires_at)
                    <= delegation[g][d].expires_at
    <2>1. g \in Address /\ delegation[g][d] \in DelegationRecord
      BY <1>3, DelegationAssumption, Zenon DEF is_delegation_active, RegistrationInv, ContextTypeOK
    <2>2. delegation[g][d].expires_at \in Nat /\ now < delegation[g][d].expires_at
      BY <1>3, <2>1, Zenon DEF is_delegation_active, DelegationRecord
    <2>3. now \in Nat /\ compute_expires_at \in Nat
      BY TypedExpiry, Zenon DEF RegistrationInv, ContextTypeOK
    <2> QED BY <2>2, <2>3, DelegatedExpiry, Zenon
  <1>4. ASSUME NEW b \in ProofIds, NEW m \in MetadataHashes, NEW root \in Roots,
               NEW s \in BatchInputs, register_batch_verified(b, m, root, s)
        PROVE  DelegatedExpiryBounded'
    <2> SUFFICES ASSUME NEW p \in ProofIds, origin'[p] # None, origin'[p].until # None
                 PROVE  proof'[p].expires_at > 0 /\ proof'[p].expires_at <= origin'[p].until
      BY Zenon DEF DelegatedExpiryBounded
    <2>1. BatchChecked(b, m, s)
      BY <1>4, BatchElements, Zenon
    <2>2. ~ \E i \in DOMAIN BatchIds(b, s) : BatchIds(b, s)[i] = p
      BY <1>4, Zenon DEF register_batch_verified, BatchIds
    <2>3. origin'[p] = origin[p]
      BY <1>4, <2>2, Zenon DEF register_batch_verified, BatchIds
    <2>4. proof'[p] = proof[p]
      BY <2>1, <2>2, Zenon DEF BatchChecked, SaveBatch
    <2> QED BY <2>3, <2>4, Zenon DEF DelegatedExpiryBounded
  <1>5. ASSUME NEW p \in ProofIds, NEW v \in Videos, NEW m \in MetadataHashes,
               NEW n \in Nullifiers, NEW root \in Roots,
               \/ register_anonymous(p, v, m, n, root)
               \/ \E frame \in Frames, scope \in Scopes, epoch \in {0} \cup EpochInputs :
                    register_anonymous_verified(frame, p, v, m, n, root, scope, epoch)
        PROVE  DelegatedExpiryBounded'
    BY <1>1, <1>5, Zenon DEF register_anonymous, register_anonymous_verified
  <1>6. ASSUME NEW p \in ProofIds, NEW v \in Videos, NEW m \in MetadataHashes, NEW a,
               register_source(a, p, v, m) \/ register_seal(a, p, v, m)
        PROVE  DelegatedExpiryBounded'
    BY <1>2, <1>6, Zenon DEF register_source, register_seal
  <1>7. ASSUME NEW p \in ProofIds, NEW v \in Videos, NEW m \in MetadataHashes,
               NEW d \in Address, NEW g \in Grantors,
               register_source_delegated(d, g, p, v, m) \/ register_seal_delegated(d, g, p, v, m)
        PROVE  DelegatedExpiryBounded'
    BY <1>2, <1>3, <1>7, Zenon DEF register_source_delegated, register_seal_delegated
  <1> QED BY <1>4, <1>5, <1>6, <1>7, ZenonT(30) DEF RegistrationStep

\* A proof registered by a delegate lapses with the delegation, as it stood at the
\* registration, at the latest.
THEOREM DelegatedProofsLapse == Spec => []DelegatedProofLapses
  <1>1. Init => DelegatedExpiryBounded
    BY ZenonT(30) DEF Init, RegistrationInit, DelegatedExpiryBounded
  <1>2. RegistrationInv /\ RegistrationInv' /\ DelegatedExpiryBounded /\ [Next]_vars
          => DelegatedExpiryBounded'
    <2> SUFFICES ASSUME RegistrationInv, RegistrationInv', DelegatedExpiryBounded, [Next]_vars
                 PROVE  DelegatedExpiryBounded'
      BY Zenon
    <2>1. CASE RegistrationStep
      BY <2>1, RegistrationBoundsExpiry, Zenon
    <2>2. CASE UNCHANGED origin
      <3>1. \A p \in ProofIds : origin[p] # None => proof[p] # None
        BY ZenonT(30) DEF RegistrationInv, RegistrationTypeOK
      <3>2. \A p \in ProofIds : proof[p] # None => proof'[p].expires_at = proof[p].expires_at
        BY StepIsFinal, ExpiryIsKept, Zenon
      <3> QED BY <2>2, <3>1, <3>2, ZenonT(30) DEF DelegatedExpiryBounded
    <2>3. ASSUME OtherStep PROVE UNCHANGED origin
      BY <2>3, ZenonT(30) DEF OtherStep, register_source_batch_root, check_non_revocation, add_schema,
                  deprecate_schema, verify_selective_disclosure
    <2> QED BY <2>1, <2>2, <2>3, Zenon DEF Next, vars, registrationVars
  <1>3. RegistrationInv /\ DelegatedExpiryBounded => DelegatedProofLapses
    <2> SUFFICES ASSUME RegistrationInv, DelegatedExpiryBounded, NEW p \in ProofIds,
                        origin[p] # None, origin[p].until # None,
                        get_proof_status(p) = "Valid"
                 PROVE  now <= origin[p].until
      BY Zenon DEF DelegatedProofLapses
    <2>1. proof[p] \in ProofRecord /\ origin[p] \in Origin /\ now \in Nat
      BY Zenon DEF RegistrationInv, RegistrationTypeOK, ContextTypeOK, StoreInv, StoreTypeOK
    <2>2. proof[p].expires_at \in Nat /\ origin[p].until \in Nat
      BY <2>1, Zenon DEF ProofRecord, Origin
    <2>3. proof[p].expires_at > 0 /\ proof[p].expires_at <= origin[p].until
      BY Zenon DEF DelegatedExpiryBounded
    <2>4. ~(now > proof[p].expires_at)
      BY <2>1, <2>3, ProofStoreAssumption, Zenon
         DEF get_proof_status, ProofRecord, ProofStatus, Registered, Revoked, Expired
    <2> QED BY <2>1, <2>2, <2>3, <2>4, TimeBounds, Zenon
  <1> QED BY <1>1, <1>2, <1>3, RegistrationInvariance, PTL DEF Spec

---------------------------------------------------------------------------
(* Pauses.                                                                 *)

\* Whoever is guardian and however often the role moves, a pause the admin did not
\* set ends within the guardian's cap.
THEOREM GuardianPausesAreBounded == Spec => GuardianPauseBounded
  <1> DEFINE Bounded == \A d \in PAUSE_DOMAIN_SINGLE_BITS :
               pauses'[d] # pauses[d] /\ pauses'[d] # None /\ pauses'[d].paused_by # admin
                 => pauses'[d].expires_at <= now + MAX_GUARDIAN_PAUSE_DURATION_SECS
  <1>1. ASSUME RegistrationInv, NEW a, NEW ds, NEW t \in PauseDurations, pause(a, ds, t)
        PROVE  Bounded
    BY <1>1, PauseWithinCap, Zenon DEF RegistrationInv, ContextTypeOK
  <1>2. ASSUME NEW a, NEW ds, unpause(a, ds) PROVE Bounded
    BY <1>2, Zenon DEF unpause
  <1>3. ASSUME UNCHANGED pauses PROVE Bounded
    BY <1>3, Zenon
  <1>4. ASSUME RegistrationInv, [Next]_vars PROVE Bounded
    <2>1. CASE PauseStep
      BY <1>1, <1>2, <1>3, <1>4, <2>1, ZenonT(30) DEF PauseStep, set_guardian, clear_guardian
    <2>2. CASE UNCHANGED pauses
      BY <1>3, <2>2, Zenon
    <2> QED BY <1>4, <2>1, <2>2, ZenonT(30) DEF Next, vars, componentVars, pauseVars
  <1>5. RegistrationInv /\ [Next]_vars => [Bounded]_<<now, authorityVars, pauseVars>>
    BY <1>4, Zenon
  <1> QED BY <1>5, RegistrationInvariance, PTL DEF Spec, GuardianPauseBounded
=============================================================================
