----------------------------- MODULE ProofStore -----------------------------
(***************************************************************************)
(* The proof records and everything kept beside them: the index from a     *)
(* video to its proof, the append-only lifecycle history and the versioned *)
(* metadata envelope.  The registration entry points of the modules above  *)
(* write through save_record and SaveBatch; the lifecycle entry points of  *)
(* the admin are actions of this module.                                   *)
(***************************************************************************)
EXTENDS Authority

CONSTANTS
    ProofIds,
    Videos,             \* video hashes
    MetadataHashes,
    ZeroHash,           \* the all-zero metadata hash
    Nullifiers,
    VersionInputs,      \* inputs: version of bind_metadata_envelope
    RevokeInputs,       \* inputs: sequences of proof ids for revoke_proofs
    METADATA_ENVELOPE_VERSION_MAX,
    MAX_REVOKE_PROOFS_BATCH_SIZE,
    MAX_HISTORY_ENTRIES_PER_PROOF

Registered == "Registered"
Verified == "Verified"
Revoked == "Revoked"
Expired == "Expired"
Corrected == "Corrected"
ProofLifecycleAction == {Registered, Verified, Revoked, Expired, Corrected}

Tiers == 1 .. 3
ProofStatus == {Registered, Revoked, Expired}

\* `subject` is the source of a tier-2 proof and the issuer of a tier-3 one.
ProofRecord ==
    [video_hash : Videos, metadata_hash : MetadataHashes, tier : Tiers,
     status : ProofStatus, expires_at : Nat, subject : Address \cup {None},
     nullifier : Nullifiers \cup {None}]
ProofHistoryEntry == [action : ProofLifecycleAction, actor : Address \cup {None}]
MetadataEnvelope == [version : Nat, metadata_hash : MetadataHashes]

ASSUME ProofStoreAssumption ==
    /\ None \notin ProofIds
    /\ None \notin ProofRecord
    /\ None \notin MetadataEnvelope
    /\ VersionInputs \subseteq Nat
    /\ \A s \in RevokeInputs : s \in Seq(ProofIds)
    /\ METADATA_ENVELOPE_VERSION_MAX \in Nat \ {0}
    /\ MAX_REVOKE_PROOFS_BATCH_SIZE \in Nat
    /\ MAX_HISTORY_ENTRIES_PER_PROOF \in Nat \ {0}

VARIABLES
    proof,      \* DataKey::Proof(id)
    video,      \* DataKey::Video(video_hash)
    history,    \* DataKey::ProofHistoryEntry(id, 1 .. ProofHistorySeq(id))
    envelope    \* DataKey::MetadataEnvelope(id)

storeVars == <<proof, video, history, envelope>>

StoreInit ==
    /\ proof = [p \in ProofIds |-> None]
    /\ video = [v \in Videos |-> None]
    /\ history = [p \in ProofIds |-> <<>>]
    /\ envelope = [p \in ProofIds |-> None]

---------------------------------------------------------------------------
(* What the registration entry points share.                               *)

\* Mutant of require_unique: a video may be registered again.
require_unique_id(p, v) == proof[p] = None

require_unique(p, v) == proof[p] = None /\ video[v] = None

\* A history without room for another entry refuses the whole call.
HasRoom(p, n) == Len(history[p]) + n <= MAX_HISTORY_ENTRIES_PER_PROOF

record_proof_history(p, action, actor) ==
    /\ HasRoom(p, 1)
    /\ history' = [history EXCEPT ![p] =
                     Append(history[p], [action |-> action, actor |-> actor])]

\* The envelope a registration leaves behind: an existing one is kept.
stamp_default_metadata_envelope(p, m) ==
    IF envelope[p] = None THEN [version |-> 1, metadata_hash |-> m] ELSE envelope[p]

\* Mutant of save_record: no history entry is written.
save_record_silent(p, record, actor) ==
    /\ proof' = [proof EXCEPT ![p] = record]
    /\ video' = [video EXCEPT ![record.video_hash] = p]
    /\ envelope' = [envelope EXCEPT ![p] =
                      stamp_default_metadata_envelope(p, record.metadata_hash)]
    /\ UNCHANGED history

save_record(p, record, actor) ==
    /\ proof' = [proof EXCEPT ![p] = record]
    /\ video' = [video EXCEPT ![record.video_hash] = p]
    /\ record_proof_history(p, Registered, actor)
    /\ envelope' = [envelope EXCEPT ![p] =
                      stamp_default_metadata_envelope(p, record.metadata_hash)]

\* Mutant of SaveBatch: the index leads every video to the first element.
SaveBatch_first(ids, records) ==
    /\ \A i \in DOMAIN ids : HasRoom(ids[i], 1)
    /\ proof' = [p \in ProofIds |->
                   IF \E i \in DOMAIN ids : ids[i] = p
                   THEN records[CHOOSE i \in DOMAIN ids : ids[i] = p]
                   ELSE proof[p]]
    /\ video' = [v \in Videos |->
                   IF \E i \in DOMAIN ids : records[i].video_hash = v
                   THEN ids[1] ELSE video[v]]
    /\ history' = [p \in ProofIds |->
                     IF \E i \in DOMAIN ids : ids[i] = p
                     THEN Append(history[p], [action |-> Registered, actor |-> None])
                     ELSE history[p]]
    /\ envelope' = [p \in ProofIds |->
                      IF \E i \in DOMAIN ids : ids[i] = p
                      THEN stamp_default_metadata_envelope(p,
                             records[CHOOSE i \in DOMAIN ids : ids[i] = p].metadata_hash)
                      ELSE envelope[p]]

\* save_record for each element of a batch, in order: ids[i] gets records[i].
\* The ids of a batch are distinct; of two elements with one video the later
\* one ends up in the index.
SaveBatch(ids, records) ==
    /\ proof' = [p \in ProofIds |->
                   IF \E i \in DOMAIN ids : ids[i] = p
                   THEN records[CHOOSE i \in DOMAIN ids : ids[i] = p]
                   ELSE proof[p]]
    /\ video' = [v \in Videos |->
                   IF \E i \in DOMAIN ids : records[i].video_hash = v
                   THEN ids[CHOOSE i \in DOMAIN ids :
                              /\ records[i].video_hash = v
                              /\ \A j \in DOMAIN ids : j > i => records[j].video_hash # v]
                   ELSE video[v]]
    /\ \A i \in DOMAIN ids : HasRoom(ids[i], 1)
    /\ history' = [p \in ProofIds |->
                     IF \E i \in DOMAIN ids : ids[i] = p
                     THEN Append(history[p], [action |-> Registered, actor |-> None])
                     ELSE history[p]]
    /\ envelope' = [p \in ProofIds |->
                      IF \E i \in DOMAIN ids : ids[i] = p
                      THEN stamp_default_metadata_envelope(p,
                             records[CHOOSE i \in DOMAIN ids : ids[i] = p].metadata_hash)
                      ELSE envelope[p]]

---------------------------------------------------------------------------
(* The lifecycle entry points.                                             *)

WithStatus(record, status) ==
    [video_hash |-> record.video_hash, metadata_hash |-> record.metadata_hash,
     tier |-> record.tier, status |-> status, expires_at |-> record.expires_at,
     subject |-> record.subject, nullifier |-> record.nullifier]

WithMetadata(record, m) ==
    [video_hash |-> record.video_hash, metadata_hash |-> m,
     tier |-> record.tier, status |-> record.status, expires_at |-> record.expires_at,
     subject |-> record.subject, nullifier |-> record.nullifier]

revoke_proof(caller, p) ==
    /\ require_admin(caller)
    /\ proof[p] # None
    /\ proof' = [proof EXCEPT ![p] = WithStatus(proof[p], Revoked)]
    /\ record_proof_history(p, Revoked, caller)
    /\ UNCHANGED <<video, envelope>>

\* How often p occurs in a list of ids; each occurrence leaves its own entry.
Occurrences(ids, p) == Cardinality({i \in DOMAIN ids : ids[i] = p})

revoke_proofs(caller, ids) ==
    /\ require_admin(caller)
    /\ Len(ids) <= MAX_REVOKE_PROOFS_BATCH_SIZE
    /\ \A i \in DOMAIN ids : proof[ids[i]] # None
    /\ \A p \in ProofIds : HasRoom(p, Occurrences(ids, p))
    /\ proof' = [p \in ProofIds |->
                   IF \E i \in DOMAIN ids : ids[i] = p
                   THEN WithStatus(proof[p], Revoked) ELSE proof[p]]
    /\ history' = [p \in ProofIds |->
                     history[p] \o [k \in 1 .. Occurrences(ids, p) |->
                                      [action |-> Revoked, actor |-> caller]]]
    /\ UNCHANGED <<video, envelope>>

verify_proof(caller, p) ==
    /\ require_admin(caller)
    /\ proof[p] # None
    /\ record_proof_history(p, Verified, caller)
    /\ UNCHANGED <<proof, video, envelope>>

expire_proof(caller, p) ==
    /\ require_admin(caller)
    /\ proof[p] # None
    /\ proof[p].status \notin {Revoked, Expired}
    /\ proof' = [proof EXCEPT ![p] = WithStatus(proof[p], Expired)]
    /\ record_proof_history(p, Expired, caller)
    /\ UNCHANGED <<video, envelope>>

\* Mutant of correct_proof: the envelope is left behind.
correct_proof_unsynced(caller, p, m) ==
    /\ require_admin(caller)
    /\ proof[p] # None
    /\ proof[p].metadata_hash # m
    /\ proof' = [proof EXCEPT ![p] = WithMetadata(proof[p], m)]
    /\ record_proof_history(p, Corrected, caller)
    /\ UNCHANGED <<video, envelope>>

\* Mutant of correct_proof: a correction brings an expired proof back.
correct_proof_revives(caller, p, m) ==
    /\ require_admin(caller)
    /\ proof[p] # None
    /\ proof[p].metadata_hash # m
    /\ proof' = [proof EXCEPT ![p] = WithMetadata(
         WithStatus(proof[p], IF proof[p].status = Revoked THEN Revoked ELSE Registered), m)]
    /\ envelope' = [envelope EXCEPT ![p] =
                      IF envelope[p] = None THEN None
                      ELSE [version |-> envelope[p].version, metadata_hash |-> m]]
    /\ record_proof_history(p, Corrected, caller)
    /\ UNCHANGED video

correct_proof(caller, p, m) ==
    /\ require_admin(caller)
    /\ proof[p] # None
    /\ proof[p].metadata_hash # m
    /\ proof' = [proof EXCEPT ![p] = WithMetadata(proof[p], m)]
    /\ envelope' = [envelope EXCEPT ![p] =
                      IF envelope[p] = None THEN None
                      ELSE [version |-> envelope[p].version, metadata_hash |-> m]]
    /\ record_proof_history(p, Corrected, caller)
    /\ UNCHANGED video

\* Mutant of bind_metadata_envelope: a lower version is accepted.
bind_metadata_envelope_down(caller, p, version, m) ==
    /\ proof[p] # None
    /\ require_initialized /\ caller \in {admin, proof[p].subject}
    /\ version \in 1 .. METADATA_ENVELOPE_VERSION_MAX
    /\ m # ZeroHash
    /\ m = proof[p].metadata_hash
    /\ envelope' = [envelope EXCEPT ![p] = [version |-> version, metadata_hash |-> m]]
    /\ UNCHANGED <<proof, video, history>>

\* Binding may only raise the version; the same version again is a no-op.
bind_metadata_envelope(caller, p, version, m) ==
    /\ proof[p] # None
    /\ require_initialized /\ caller \in {admin, proof[p].subject}
    /\ version \in 1 .. METADATA_ENVELOPE_VERSION_MAX
    /\ m # ZeroHash
    /\ m = proof[p].metadata_hash
    /\ envelope[p] # None =>
         \/ version > envelope[p].version
         \/ version = envelope[p].version /\ m = envelope[p].metadata_hash
    /\ envelope' = [envelope EXCEPT ![p] = [version |-> version, metadata_hash |-> m]]
    /\ UNCHANGED <<proof, video, history>>

LifecycleStep ==
    \/ \E a \in Address, p \in ProofIds :
         \/ revoke_proof(a, p)
         \/ verify_proof(a, p)
         \/ expire_proof(a, p)
         \/ \E m \in MetadataHashes : correct_proof(a, p, m)
         \/ \E n \in VersionInputs, m \in MetadataHashes : bind_metadata_envelope(a, p, n, m)
    \/ \E a \in Address, ids \in RevokeInputs : revoke_proofs(a, ids)

\* The verification status a reader sees.
get_proof_status(p) ==
    IF proof[p] = None THEN "NotFound"
    ELSE IF proof[p].status # Registered THEN proof[p].status
    ELSE IF proof[p].expires_at > 0 /\ now > proof[p].expires_at THEN Expired
    ELSE "Valid"

---------------------------------------------------------------------------
(* Properties.                                                             *)

\* Every proof key holds a value of its type and no history exceeds its cap.
StoreTypeOK ==
    /\ proof \in [ProofIds -> ProofRecord \cup {None}]
    /\ video \in [Videos -> ProofIds \cup {None}]
    /\ history \in [ProofIds -> Seq(ProofHistoryEntry)]
    /\ envelope \in [ProofIds -> MetadataEnvelope \cup {None}]
    /\ \A p \in ProofIds : Len(history[p]) <= MAX_HISTORY_ENTRIES_PER_PROOF

IsPrefixOf(s, t) == Len(s) <= Len(t) /\ \A k \in DOMAIN s : t[k] = s[k]

Performed(entries, action) == \E k \in DOMAIN entries : entries[k].action = action

\* An absent proof has no history.  A stored one starts with its registration,
\* is revoked exactly when a revocation is on record, and if it is expired so is
\* its expiry.
Explains(entries, record) ==
    /\ record = None => entries = <<>>
    /\ record # None =>
         /\ entries # <<>>
         /\ \A k \in DOMAIN entries : entries[k].action = Registered <=> k = 1
         /\ record.status = Revoked <=> Performed(entries, Revoked)
         /\ record.status = Expired => Performed(entries, Expired)

\* The history of every proof accounts for its status.  Registration, single
\* and batched revocation, expiry and correction all have to keep the two in
\* step, in whatever order they come.
HistoryExplainsStatus == \A p \in ProofIds : Explains(history[p], proof[p])

\* The envelope and the record of a proof agree on the metadata hash, through
\* registration, correction and envelope upgrades in any order.
EnvelopeMatchesProof ==
    \A p \in ProofIds :
      /\ proof[p] = None <=> envelope[p] = None
      /\ proof[p] # None => envelope[p].metadata_hash = proof[p].metadata_hash

\* A video leads to a proof of that very video.
VideoIndexSound ==
    \A v \in Videos :
      video[v] # None => proof[video[v]] # None /\ proof[video[v]].video_hash = v

\* Every proof's video leads to some proof, so the video cannot be registered
\* again.
RegisteredVideoIsTaken ==
    \A p \in ProofIds : proof[p] # None => video[proof[p].video_hash] # None

\* A record never disappears and keeps what it says about the video, the tier,
\* the subject, the nullifier and the expiry; a revocation is never undone; an
\* envelope version never goes down; history is append-only.
RecordsAreFinal ==
    \A p \in ProofIds :
      /\ IsPrefixOf(history[p], history'[p])
      /\ proof[p] # None =>
           /\ proof'[p] # None
           /\ proof'[p] = WithMetadata(WithStatus(proof[p], proof'[p].status),
                                       proof'[p].metadata_hash)
           /\ proof[p].status = Revoked => proof'[p].status = Revoked
      /\ envelope[p] # None =>
           envelope'[p] # None /\ envelope'[p].version >= envelope[p].version

=============================================================================
