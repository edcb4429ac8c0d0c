-------------------------- MODULE ProofStoreProofs --------------------------
(***************************************************************************)
(* What every entry point that writes a proof preserves: the types, the    *)
(* agreement of record and history, of record and envelope, and of record  *)
(* and video index.  The registration entry points are covered by their    *)
(* two ways of writing, save_record and SaveBatch.                         *)
(***************************************************************************)
EXTENDS ProofStore, FiniteSetTheorems, WellFoundedInduction, TLAPS

\* The facts about stored proofs, which are inductive together.
StoreInv ==
    /\ StoreTypeOK
    /\ HistoryExplainsStatus
    /\ EnvelopeMatchesProof
    /\ VideoIndexSound
    /\ RegisteredVideoIsTaken

---------------------------------------------------------------------------
(* Histories.                                                              *)

\* Appending an entry: what record_proof_history does to a history.
LEMMA AppendedEntry ==
    ASSUME NEW s \in Seq(ProofHistoryEntry), NEW e \in ProofHistoryEntry
    PROVE  /\ Append(s, e) \in Seq(ProofHistoryEntry)
           /\ Append(s, e) # <<>>
           /\ Len(Append(s, e)) = Len(s) + 1
           /\ DOMAIN s = 1 .. Len(s)
           /\ DOMAIN Append(s, e) = 1 .. Len(s) + 1
           /\ \A k \in 1 .. Len(s) : Append(s, e)[k] = s[k]
           /\ Append(s, e)[Len(s) + 1] = e
  OBVIOUS

\* Appending an entry performs its action and undoes no other.
LEMMA PerformedAfterAppend ==
    ASSUME NEW s \in Seq(ProofHistoryEntry), NEW e \in ProofHistoryEntry, NEW a
    PROVE  Performed(Append(s, e), a) <=> (Performed(s, a) \/ e.action = a)
  <1>1. ASSUME Performed(s, a) PROVE Performed(Append(s, e), a)
    BY <1>1, AppendedEntry DEF Performed
  <1>2. ASSUME e.action = a PROVE Performed(Append(s, e), a)
    <2>1. Len(s) + 1 \in DOMAIN Append(s, e) /\ Append(s, e)[Len(s) + 1].action = a
      BY <1>2, AppendedEntry
    <2> QED BY <2>1 DEF Performed
  <1>3. ASSUME Performed(Append(s, e), a) PROVE Performed(s, a) \/ e.action = a
    <2>1. PICK k \in DOMAIN Append(s, e) : Append(s, e)[k].action = a
      BY <1>3 DEF Performed
    <2>2. CASE k = Len(s) + 1
      BY <2>1, <2>2, AppendedEntry
    <2>3. CASE k \in 1 .. Len(s)
      BY <2>1, <2>3, AppendedEntry DEF Performed
    <2> QED BY <2>2, <2>3, AppendedEntry
  <1> QED BY <1>1, <1>2, <1>3

\* The first entry of a registration explains the new record.
LEMMA RegistrationExplained ==
    ASSUME NEW e \in ProofHistoryEntry, e.action = Registered,
           NEW r \in ProofRecord, r.status = Registered
    PROVE  Explains(Append(<<>>, e), r)
  <1>1. <<>> \in Seq(ProofHistoryEntry) /\ Len(<<>>) = 0
    OBVIOUS
  <1>2. DOMAIN Append(<<>>, e) = {1} /\ Append(<<>>, e)[1] = e /\ Append(<<>>, e) # <<>>
    BY <1>1, AppendedEntry
  <1> QED
    BY <1>2, ProofStoreAssumption DEF Explains, Performed, Registered, Revoked, Expired

\* A later entry keeps a history in step with its record when the new status is
\* the one the entry calls for.
LEMMA EntryExplained ==
    ASSUME NEW s \in Seq(ProofHistoryEntry), NEW e \in ProofHistoryEntry,
           NEW r \in ProofRecord, NEW q \in ProofRecord,
           Explains(s, r), e.action # Registered,
           \/ e.action \in {Verified, Corrected} /\ q.status = r.status
           \/ e.action = Revoked /\ q.status = Revoked
           \/ e.action = Expired /\ q.status = Expired /\ r.status # Revoked
    PROVE  Explains(Append(s, e), q)
  <1> DEFINE t == Append(s, e)
  <1>0. r # None /\ q # None
    BY ProofStoreAssumption
  <1>1. s # <<>> /\ Len(s) \in Nat \ {0}
    BY <1>0 DEF Explains
  <1>2. \A k \in DOMAIN t : t[k].action = Registered <=> k = 1
    <2> SUFFICES ASSUME NEW k \in DOMAIN t PROVE t[k].action = Registered <=> k = 1
      OBVIOUS
    <2>1. CASE k \in 1 .. Len(s)
      BY <2>1, <1>0, AppendedEntry DEF Explains
    <2>2. CASE k = Len(s) + 1
      BY <2>2, <1>1, AppendedEntry
    <2> QED BY <2>1, <2>2, AppendedEntry
  <1>3. q.status = Revoked <=> Performed(t, Revoked)
    BY <1>0, PerformedAfterAppend
       DEF Explains, Verified, Corrected, Revoked, Expired, Registered
  <1>4. q.status = Expired => Performed(t, Expired)
    BY <1>0, PerformedAfterAppend
       DEF Explains, Verified, Corrected, Revoked, Expired, Registered
  <1>5. t # <<>>
    BY AppendedEntry
  <1> QED BY <1>0, <1>2, <1>3, <1>4, <1>5 DEF Explains

---------------------------------------------------------------------------
(* Records.                                                                *)

\* A status change keeps a record a record, and everything but its status.
LEMMA StatusChanged ==
    ASSUME NEW r \in ProofRecord, NEW st \in ProofStatus
    PROVE  /\ WithStatus(r, st) \in ProofRecord
           /\ WithStatus(r, st).status = st
           /\ WithStatus(r, st).metadata_hash = r.metadata_hash
           /\ WithStatus(r, st).video_hash = r.video_hash
  BY DEF WithStatus, ProofRecord

\* A correction keeps a record a record, and everything but its metadata.
LEMMA MetadataChanged ==
    ASSUME NEW r \in ProofRecord, NEW m \in MetadataHashes
    PROVE  /\ WithMetadata(r, m) \in ProofRecord
           /\ WithMetadata(r, m).metadata_hash = m
           /\ WithMetadata(r, m).status = r.status
           /\ WithMetadata(r, m).video_hash = r.video_hash
  BY DEF WithMetadata, ProofRecord

---------------------------------------------------------------------------
(* Registration.                                                           *)

\* save_record under require_unique, as every single registration calls it.
LEMMA SaveRecordKeepsStore ==
    ASSUME StoreInv, NEW p \in ProofIds, NEW r \in ProofRecord,
           NEW a \in Address \cup {None},
           r.status = Registered, require_unique(p, r.video_hash), save_record(p, r, a)
    PROVE  StoreInv'
  <1> DEFINE e == [action |-> Registered, actor |-> a]
             v == r.video_hash
             env == [version |-> 1, metadata_hash |-> r.metadata_hash]
  <1>0. /\ e \in ProofHistoryEntry /\ e.action = Registered
        /\ v \in Videos /\ r.metadata_hash \in MetadataHashes
        /\ env \in MetadataEnvelope /\ env.metadata_hash = r.metadata_hash
        /\ r # None /\ env # None /\ p # None
    BY ProofStoreAssumption
       DEF ProofHistoryEntry, ProofLifecycleAction, ProofRecord, MetadataEnvelope
  <1>1. proof[p] = None /\ video[v] = None /\ history[p] = <<>> /\ envelope[p] = None
    BY DEF require_unique, StoreInv, HistoryExplainsStatus, Explains, EnvelopeMatchesProof
  <1>2. /\ proof' = [proof EXCEPT ![p] = r]
        /\ video' = [video EXCEPT ![v] = p]
        /\ history' = [history EXCEPT ![p] = Append(history[p], e)]
        /\ envelope' = [envelope EXCEPT ![p] = env]
        /\ Len(history[p]) + 1 <= MAX_HISTORY_ENTRIES_PER_PROOF
    BY <1>1 DEF save_record, record_proof_history, HasRoom, stamp_default_metadata_envelope
  <1>3. StoreTypeOK'
    <2>1. Append(history[p], e) \in Seq(ProofHistoryEntry)
          /\ Len(Append(history[p], e)) = Len(history[p]) + 1
      BY <1>0, AppendedEntry DEF StoreInv, StoreTypeOK
    <2> QED BY <1>0, <1>2, <2>1 DEF StoreInv, StoreTypeOK
  <1>4. HistoryExplainsStatus'
    <2>1. Explains(Append(<<>>, e), r)
      BY <1>0, RegistrationExplained
    <2> QED BY <1>1, <1>2, <2>1 DEF StoreInv, StoreTypeOK, HistoryExplainsStatus
  <1>5. EnvelopeMatchesProof'
    BY <1>0, <1>2 DEF StoreInv, StoreTypeOK, EnvelopeMatchesProof
  <1>6. VideoIndexSound'
    BY <1>0, <1>1, <1>2 DEF StoreInv, StoreTypeOK, VideoIndexSound
  <1>7. RegisteredVideoIsTaken'
    BY <1>0, <1>1, <1>2 DEF StoreInv, StoreTypeOK, RegisteredVideoIsTaken, ProofRecord
  <1> QED BY <1>3, <1>4, <1>5, <1>6, <1>7 DEF StoreInv

---------------------------------------------------------------------------
(* The lifecycle entry points.                                             *)

\* A step that leaves the video index and every record's video alone, registers
\* nothing and forgets nothing keeps the index in step.
LEMMA IndexKept ==
    ASSUME StoreInv, UNCHANGED video, StoreTypeOK',
           \A p \in ProofIds :
             /\ proof'[p] = None <=> proof[p] = None
             /\ proof[p] # None => proof'[p].video_hash = proof[p].video_hash
    PROVE  VideoIndexSound' /\ RegisteredVideoIsTaken'
  BY ProofStoreAssumption, Zenon DEF StoreInv, StoreTypeOK, VideoIndexSound, RegisteredVideoIsTaken

\* One entry is appended to the history of p, whose record becomes q; the
\* envelope follows the record's metadata hash.
LEMMA OneEntryKeepsStore ==
    ASSUME StoreInv, NEW p \in ProofIds, NEW q \in ProofRecord,
           NEW act \in ProofLifecycleAction \ {Registered}, NEW a \in Address,
           proof[p] # None,
           \/ act \in {Verified, Corrected} /\ q.status = proof[p].status
           \/ act = Revoked /\ q.status = Revoked
           \/ act = Expired /\ q.status = Expired /\ proof[p].status # Revoked,
           q.video_hash = proof[p].video_hash,
           proof' = [proof EXCEPT ![p] = q],
           record_proof_history(p, act, a),
           UNCHANGED video,
           \/ UNCHANGED envelope /\ q.metadata_hash = proof[p].metadata_hash
           \/ envelope' = [envelope EXCEPT ![p] =
                 [version |-> envelope[p].version, metadata_hash |-> q.metadata_hash]]
    PROVE  StoreInv'
  <1> DEFINE e == [action |-> act, actor |-> a]
  <1>0. e \in ProofHistoryEntry /\ e.action = act /\ q # None
    BY ProofStoreAssumption DEF ProofHistoryEntry
  <1>1. proof[p] \in ProofRecord /\ envelope[p] \in MetadataEnvelope /\ envelope[p] # None
    BY DEF StoreInv, StoreTypeOK, EnvelopeMatchesProof
  <1>2. /\ history' = [history EXCEPT ![p] = Append(history[p], e)]
        /\ Len(history[p]) + 1 <= MAX_HISTORY_ENTRIES_PER_PROOF
    BY DEF record_proof_history, HasRoom
  <1>3. /\ history[p] \in Seq(ProofHistoryEntry)
        /\ Append(history[p], e) \in Seq(ProofHistoryEntry)
        /\ Len(Append(history[p], e)) = Len(history[p]) + 1
    BY <1>0, AppendedEntry DEF StoreInv, StoreTypeOK
  <1>4. /\ envelope'[p] \in MetadataEnvelope /\ envelope'[p].metadata_hash = q.metadata_hash
        /\ envelope' \in [ProofIds -> MetadataEnvelope \cup {None}]
        /\ \A x \in ProofIds \ {p} : envelope'[x] = envelope[x]
    <2> DEFINE env == [version |-> envelope[p].version, metadata_hash |-> q.metadata_hash]
    <2>1. env \in MetadataEnvelope /\ env.metadata_hash = q.metadata_hash
      BY <1>1 DEF MetadataEnvelope, ProofRecord
    <2>2. CASE UNCHANGED envelope /\ q.metadata_hash = proof[p].metadata_hash
      BY <1>1, <2>2 DEF StoreInv, StoreTypeOK, EnvelopeMatchesProof
    <2>3. CASE envelope' = [envelope EXCEPT ![p] = env]
      BY <2>1, <2>3 DEF StoreInv, StoreTypeOK
    <2> QED BY <2>2, <2>3
  <1>5. StoreTypeOK'
    BY <1>2, <1>3, <1>4, Zenon DEF StoreInv, StoreTypeOK
  <1>6. HistoryExplainsStatus'
    <2>1. Explains(history[p], proof[p])
      BY DEF StoreInv, HistoryExplainsStatus
    <2>2. Explains(Append(history[p], e), q)
      BY <1>0, <1>1, <1>3, <2>1, EntryExplained
    <2> QED BY <1>2, <2>2 DEF StoreInv, StoreTypeOK, HistoryExplainsStatus
  <1>7. EnvelopeMatchesProof'
    BY <1>0, <1>4, ProofStoreAssumption DEF StoreInv, StoreTypeOK, EnvelopeMatchesProof
  <1>8. VideoIndexSound' /\ RegisteredVideoIsTaken'
    <2>1. \A x \in ProofIds :
            /\ proof'[x] = None <=> proof[x] = None
            /\ proof[x] # None => proof'[x].video_hash = proof[x].video_hash
      BY <1>0 DEF StoreInv, StoreTypeOK
    <2> QED BY <1>5, <2>1, IndexKept
  <1> QED BY <1>5, <1>6, <1>7, <1>8 DEF StoreInv

\* The entry points that write one entry.
LEMMA SingleStepsKeepStore ==
    ASSUME StoreInv, NEW a \in Address, NEW p \in ProofIds,
           \/ revoke_proof(a, p)
           \/ verify_proof(a, p)
           \/ expire_proof(a, p)
           \/ \E m \in MetadataHashes : correct_proof(a, p, m)
    PROVE  StoreInv'
  <1>0. /\ {Verified, Revoked, Expired, Corrected} \subseteq ProofLifecycleAction \ {Registered}
        /\ {Revoked, Expired} \subseteq ProofStatus
    BY DEF ProofLifecycleAction, ProofStatus, Registered, Verified, Revoked, Expired, Corrected
  <1>1. proof[p] # None /\ proof[p] \in ProofRecord
    BY DEF revoke_proof, verify_proof, expire_proof, correct_proof, StoreInv, StoreTypeOK
  <1>2. CASE revoke_proof(a, p)
    <2> DEFINE q == WithStatus(proof[p], Revoked)
    <2>1. /\ q \in ProofRecord /\ q.status = Revoked
          /\ q.video_hash = proof[p].video_hash /\ q.metadata_hash = proof[p].metadata_hash
      BY <1>0, <1>1, StatusChanged
    <2>2. /\ proof' = [proof EXCEPT ![p] = q] /\ record_proof_history(p, Revoked, a)
          /\ UNCHANGED video /\ UNCHANGED envelope
      BY <1>2 DEF revoke_proof
    <2> HIDE DEF q
    <2> QED BY <1>0, <1>1, <2>1, <2>2, OneEntryKeepsStore, Zenon
  <1>3. CASE verify_proof(a, p)
    <2>1. /\ proof' = [proof EXCEPT ![p] = proof[p]] /\ record_proof_history(p, Verified, a)
          /\ UNCHANGED video /\ UNCHANGED envelope
      BY <1>3 DEF verify_proof, StoreInv, StoreTypeOK
    <2> QED BY <1>0, <1>1, <2>1, OneEntryKeepsStore, Zenon
  <1>4. CASE expire_proof(a, p)
    <2> DEFINE q == WithStatus(proof[p], Expired)
    <2>1. /\ q \in ProofRecord /\ q.status = Expired
          /\ q.video_hash = proof[p].video_hash /\ q.metadata_hash = proof[p].metadata_hash
      BY <1>0, <1>1, StatusChanged
    <2>2. /\ proof' = [proof EXCEPT ![p] = q] /\ record_proof_history(p, Expired, a)
          /\ UNCHANGED video /\ UNCHANGED envelope /\ proof[p].status # Revoked
      BY <1>4 DEF expire_proof
    <2> HIDE DEF q
    <2> QED BY <1>0, <1>1, <2>1, <2>2, OneEntryKeepsStore, Zenon
  <1>5. ASSUME NEW m \in MetadataHashes, correct_proof(a, p, m) PROVE StoreInv'
    <2> DEFINE q == WithMetadata(proof[p], m)
    <2>1. /\ q \in ProofRecord /\ q.status = proof[p].status
          /\ q.video_hash = proof[p].video_hash /\ q.metadata_hash = m
      BY <1>1, MetadataChanged
    <2>2. /\ proof' = [proof EXCEPT ![p] = q] /\ record_proof_history(p, Corrected, a)
          /\ UNCHANGED video
          /\ envelope' = [envelope EXCEPT ![p] =
                [version |-> envelope[p].version, metadata_hash |-> q.metadata_hash]]
      BY <1>1, <1>5, <2>1, Zenon DEF correct_proof, StoreInv, EnvelopeMatchesProof
    <2> HIDE DEF q
    <2> QED BY <1>0, <1>1, <2>1, <2>2, OneEntryKeepsStore, Zenon
  <1> QED BY <1>2, <1>3, <1>4, <1>5

\* bind_metadata_envelope replaces the envelope by one with the record's hash.
LEMMA BindKeepsStore ==
    ASSUME StoreInv, NEW a \in Address, NEW p \in ProofIds, NEW n \in VersionInputs,
           NEW m \in MetadataHashes, bind_metadata_envelope(a, p, n, m)
    PROVE  StoreInv'
  <1> DEFINE env == [version |-> n, metadata_hash |-> m]
  <1>1. env \in MetadataEnvelope /\ env.metadata_hash = m /\ env # None
    BY ProofStoreAssumption DEF MetadataEnvelope
  <1>2. /\ envelope' = [envelope EXCEPT ![p] = env] /\ UNCHANGED <<proof, video, history>>
        /\ proof[p] # None /\ proof[p].metadata_hash = m
    BY DEF bind_metadata_envelope
  <1>3. StoreTypeOK'
    BY <1>1, <1>2 DEF StoreInv, StoreTypeOK
  <1>4. HistoryExplainsStatus'
    BY <1>2 DEF StoreInv, HistoryExplainsStatus
  <1>5. EnvelopeMatchesProof'
    BY <1>1, <1>2 DEF StoreInv, StoreTypeOK, EnvelopeMatchesProof
  <1>6. VideoIndexSound' /\ RegisteredVideoIsTaken'
    BY <1>2 DEF StoreInv, VideoIndexSound, RegisteredVideoIsTaken
  <1> QED BY <1>3, <1>4, <1>5, <1>6 DEF StoreInv

\* Each occurrence of an id in a list counts: none exactly when it is absent.
LEMMA OccurrencesCount ==
    ASSUME NEW ids \in Seq(ProofIds), NEW p
    PROVE  /\ Occurrences(ids, p) \in Nat
           /\ Occurrences(ids, p) = 0 <=> ~ \E i \in DOMAIN ids : ids[i] = p
  <1> DEFINE S == {i \in DOMAIN ids : ids[i] = p}
  <1>1. IsFiniteSet(1 .. Len(ids)) /\ S \subseteq 1 .. Len(ids)
    BY FS_Interval
  <1>2. IsFiniteSet(S)
    BY <1>1, FS_Subset
  <1>3. Cardinality(S) \in Nat /\ (Cardinality(S) = 0 <=> S = {})
    BY <1>2, FS_CardinalityType, FS_EmptySet
  <1> QED BY <1>3 DEF Occurrences

\* Revocation entries, however many, keep a history in step with a record that
\* ends up revoked.
LEMMA RevocationsExplained ==
    ASSUME NEW s \in Seq(ProofHistoryEntry), NEW e \in ProofHistoryEntry,
           NEW n \in Nat \ {0}, e.action = Revoked,
           NEW r \in ProofRecord, NEW q \in ProofRecord,
           Explains(s, r), q.status = Revoked
    PROVE  /\ Explains(s \o [k \in 1 .. n |-> e], q)
           /\ s \o [k \in 1 .. n |-> e] \in Seq(ProofHistoryEntry)
           /\ Len(s \o [k \in 1 .. n |-> e]) = Len(s) + n
  <1> DEFINE u == [k \in 1 .. n |-> e]
             t == s \o u
  <1>0. r # None /\ q # None
    BY ProofStoreAssumption
  <1>1. u \in Seq(ProofHistoryEntry) /\ Len(u) = n
    OBVIOUS
  <1>2. /\ t \in Seq(ProofHistoryEntry) /\ Len(t) = Len(s) + n
        /\ DOMAIN t = 1 .. Len(s) + n
        /\ \A k \in 1 .. Len(s) : t[k] = s[k]
        /\ \A k \in Len(s) + 1 .. Len(s) + n : t[k] = e
    BY <1>1
  <1>3. s # <<>> /\ Len(s) \in Nat \ {0} /\ DOMAIN s = 1 .. Len(s)
    BY <1>0 DEF Explains
  <1>4. t # <<>>
    BY <1>2, <1>3
  <1>5. \A k \in DOMAIN t : t[k].action = Registered <=> k = 1
    <2> SUFFICES ASSUME NEW k \in DOMAIN t PROVE t[k].action = Registered <=> k = 1
      OBVIOUS
    <2>1. CASE k \in 1 .. Len(s)
      BY <2>1, <1>0, <1>2, <1>3 DEF Explains
    <2>2. CASE k \in Len(s) + 1 .. Len(s) + n
      BY <2>2, <1>2, <1>3 DEF Revoked, Registered
    <2> QED BY <2>1, <2>2, <1>2, <1>3
  <1>6. Performed(t, Revoked)
    <2>1. Len(s) + 1 \in DOMAIN t /\ t[Len(s) + 1].action = Revoked
      BY <1>2, <1>3
    <2> QED BY <2>1 DEF Performed
  <1>7. Explains(t, q)
    BY <1>0, <1>4, <1>5, <1>6 DEF Explains, Revoked, Expired
  <1> QED BY <1>2, <1>7

\* revoke_proofs revokes the listed proofs, with one entry per occurrence.
LEMMA RevokeBatchKeepsStore ==
    ASSUME StoreInv, NEW a \in Address, NEW ids \in RevokeInputs, revoke_proofs(a, ids)
    PROVE  StoreInv'
  <1> DEFINE e == [action |-> Revoked, actor |-> a]
             Listed(p) == \E i \in DOMAIN ids : ids[i] = p
             n(p) == Occurrences(ids, p)
             more(p) == [k \in 1 .. n(p) |-> e]
  <1>0. /\ ids \in Seq(ProofIds) /\ e \in ProofHistoryEntry /\ e.action = Revoked
        /\ Revoked \in ProofStatus
    BY ProofStoreAssumption
       DEF ProofHistoryEntry, ProofLifecycleAction, ProofStatus
  <1>1. \A p \in ProofIds : n(p) \in Nat /\ (n(p) = 0 <=> ~Listed(p))
    BY <1>0, OccurrencesCount
  <1> HIDE DEF n
  <1>2. /\ \A p \in ProofIds : Listed(p) => proof[p] # None
        /\ \A p \in ProofIds : Len(history[p]) + n(p) <= MAX_HISTORY_ENTRIES_PER_PROOF
        /\ proof' = [p \in ProofIds |->
                       IF Listed(p) THEN WithStatus(proof[p], Revoked) ELSE proof[p]]
        /\ history' = [p \in ProofIds |-> history[p] \o more(p)]
        /\ UNCHANGED <<video, envelope>>
    BY DEF revoke_proofs, HasRoom, n
  <1> HIDE DEF e, Listed
  <1>3. \A p \in ProofIds :
          /\ proof'[p] \in ProofRecord \cup {None}
          /\ proof'[p] = None <=> proof[p] = None
          /\ proof[p] # None =>
               /\ proof'[p].video_hash = proof[p].video_hash
               /\ proof'[p].metadata_hash = proof[p].metadata_hash
          /\ history'[p] \in Seq(ProofHistoryEntry)
          /\ Len(history'[p]) = Len(history[p]) + n(p)
          /\ Explains(history'[p], proof'[p])
    <2> SUFFICES ASSUME NEW p \in ProofIds
                 PROVE  /\ proof'[p] \in ProofRecord \cup {None}
                        /\ proof'[p] = None <=> proof[p] = None
                        /\ proof[p] # None =>
                             /\ proof'[p].video_hash = proof[p].video_hash
                             /\ proof'[p].metadata_hash = proof[p].metadata_hash
                        /\ history'[p] \in Seq(ProofHistoryEntry)
                        /\ Len(history'[p]) = Len(history[p]) + n(p)
                        /\ Explains(history'[p], proof'[p])
      OBVIOUS
    <2>1. /\ history[p] \in Seq(ProofHistoryEntry) /\ proof[p] \in ProofRecord \cup {None}
          /\ Explains(history[p], proof[p])
      BY DEF StoreInv, StoreTypeOK, HistoryExplainsStatus
    <2>2. CASE Listed(p)
      <3>1. proof[p] \in ProofRecord /\ proof[p] # None /\ n(p) \in Nat \ {0}
        BY <1>1, <1>2, <2>1, <2>2
      <3>2. /\ proof'[p] = WithStatus(proof[p], Revoked)
            /\ history'[p] = history[p] \o [k \in 1 .. n(p) |-> e]
        BY <1>2, <2>2, Zenon
      <3>3. /\ proof'[p] \in ProofRecord /\ proof'[p].status = Revoked
            /\ proof'[p].video_hash = proof[p].video_hash
            /\ proof'[p].metadata_hash = proof[p].metadata_hash
        BY <1>0, <3>1, <3>2, StatusChanged
      <3>4. /\ Explains(history'[p], proof'[p])
            /\ history'[p] \in Seq(ProofHistoryEntry)
            /\ Len(history'[p]) = Len(history[p]) + n(p)
        BY <1>0, <2>1, <3>1, <3>2, <3>3, RevocationsExplained, Zenon
      <3> QED BY <3>1, <3>3, <3>4, ProofStoreAssumption
    <2>3. CASE ~Listed(p)
      <3>1. n(p) = 0 /\ proof'[p] = proof[p] /\ history'[p] = history[p] \o more(p)
        BY <1>1, <1>2, <2>3
      <3>2. more(p) = <<>>
        BY <3>1
      <3>3. history'[p] = history[p] /\ Len(history'[p]) = Len(history[p]) + n(p)
        <4> HIDE DEF more
        <4> QED BY <2>1, <3>1, <3>2
      <3> QED BY <2>1, <3>1, <3>3
    <2> QED BY <2>2, <2>3
  <1>4. StoreTypeOK'
    <2>1. /\ proof' \in [ProofIds -> ProofRecord \cup {None}]
          /\ history' \in [ProofIds -> Seq(ProofHistoryEntry)]
      BY <1>2, <1>3, Zenon
    <2>2. \A p \in ProofIds : Len(history'[p]) <= MAX_HISTORY_ENTRIES_PER_PROOF
      BY <1>2, <1>3, Zenon
    <2> QED BY <1>2, <2>1, <2>2, Zenon DEF StoreInv, StoreTypeOK
  <1>5. HistoryExplainsStatus'
    BY <1>3 DEF HistoryExplainsStatus
  <1>6. EnvelopeMatchesProof'
    BY <1>2, <1>3, Zenon DEF StoreInv, EnvelopeMatchesProof
  <1>7. VideoIndexSound' /\ RegisteredVideoIsTaken'
    BY <1>2, <1>3, <1>4, IndexKept, Zenon
  <1> QED BY <1>4, <1>5, <1>6, <1>7 DEF StoreInv

\* Every lifecycle entry point keeps the store's invariants.
LEMMA LifecycleKeepsStore ==
    ASSUME StoreInv, LifecycleStep
    PROVE  StoreInv'
  BY SingleStepsKeepStore, BindKeepsStore, RevokeBatchKeepsStore DEF LifecycleStep

---------------------------------------------------------------------------
(* Batches.                                                                *)

\* A set of positions of a list has a last one.
LEMMA LastPosition ==
    ASSUME NEW n \in Nat, NEW T, T \subseteq 1 .. n, T # {}
    PROVE  \E x \in T : \A y \in T : y <= x
  <1> DEFINE R == OpToRel(<, Nat)
             U == {n - i : i \in T}
  <1>1. IsWellFoundedOn(R, Nat)
    BY NatLessThanWellFounded, Zenon
  <1>2. U \subseteq Nat /\ U # {}
    <2>1. ASSUME NEW i \in T PROVE n - i \in Nat
      <3>1. i \in 1 .. n
        BY Zenon
      <3> QED BY <3>1, SMTT(30)
    <2> QED BY <2>1, Zenon
  <1>3. PICK u \in U : \A w \in U : ~(<<w, u>> \in R)
    <2> HIDE DEF R, U
    <2> QED BY <1>1, <1>2, WFMin, Zenon
  <1>4. \A w \in U : ~(w < u)
    BY <1>2, <1>3, Zenon DEF OpToRel
  <1>5. PICK x \in T : u = n - x
    BY Zenon
  <1>6. ASSUME NEW y \in T PROVE n - y \in U /\ y \in Int
    <2>1. n - y \in U
      BY Zenon
    <2>2. y \in 1 .. n
      BY Zenon
    <2> HIDE DEF U
    <2>3. y \in Int
      BY <2>2, SMTT(30)
    <2> QED BY <2>1, <2>3, Zenon
  <1>7. x \in Int
    BY <1>6, Zenon
  <1>8. \A y \in T : y <= x
    <2> HIDE DEF U
    <2> QED BY <1>4, <1>5, <1>6, <1>7, SMTT(30)
  <1> QED BY <1>8, Zenon

\* The i-th element of a batch is the last one with video v.
LastWith(ids, records, v, i) ==
    /\ records[i].video_hash = v
    /\ \A j \in DOMAIN ids : j > i => records[j].video_hash # v

\* A video of a batch has an element that ends up in the index under it.
LEMMA LastClaimant ==
    ASSUME NEW ids \in Seq(ProofIds), NEW records \in Seq(ProofRecord), NEW v \in Videos,
           \E i \in DOMAIN ids : records[i].video_hash = v
    PROVE  \E i \in DOMAIN ids : LastWith(ids, records, v, i)
  <1> DEFINE T == {i \in DOMAIN ids : records[i].video_hash = v}
  <1>1. T # {} /\ T \subseteq 1 .. Len(ids) /\ Len(ids) \in Nat /\ DOMAIN ids = 1 .. Len(ids)
    OBVIOUS
  <1>2. PICK x \in T : \A y \in T : y <= x
    <2> HIDE DEF T
    <2> QED BY <1>1, LastPosition, Zenon
  <1> QED BY <1>1, <1>2, SMTT(30) DEF LastWith

\* SaveBatch under the checks register_batch_verified makes: the ids are new and
\* differ, the videos are new, and two elements may share a video.
LEMMA SaveBatchKeepsStore ==
    ASSUME StoreInv, NEW ids \in Seq(ProofIds), NEW records \in Seq(ProofRecord),
           Len(records) = Len(ids), SaveBatch(ids, records),
           \A i, j \in DOMAIN ids : ids[i] = ids[j] => i = j,
           \A i \in DOMAIN ids :
             require_unique(ids[i], records[i].video_hash) /\ records[i].status = Registered
    PROVE  StoreInv'
  <1> DEFINE e == [action |-> Registered, actor |-> None]
             Saved(p) == \E i \in DOMAIN ids : ids[i] = p
             ix(p) == CHOOSE i \in DOMAIN ids : ids[i] = p
             Claimed(v) == \E i \in DOMAIN ids : records[i].video_hash = v
             lx(v) == CHOOSE i \in DOMAIN ids : LastWith(ids, records, v, i)
  <1>0. /\ DOMAIN ids = 1 .. Len(ids) /\ DOMAIN records = 1 .. Len(ids)
        /\ \A i \in DOMAIN ids : ids[i] \in ProofIds /\ records[i] \in ProofRecord
        /\ e \in ProofHistoryEntry /\ e.action = Registered
    BY DEF ProofHistoryEntry, ProofLifecycleAction
  <1>1. \A p \in ProofIds : Saved(p) => ix(p) \in DOMAIN ids /\ ids[ix(p)] = p
    OBVIOUS
  <1>2. \A v \in Videos : Claimed(v) => lx(v) \in DOMAIN ids /\ LastWith(ids, records, v, lx(v))
    <2> SUFFICES ASSUME NEW v \in Videos, Claimed(v) PROVE \E i \in DOMAIN ids : LastWith(ids, records, v, i)
      OBVIOUS
    <2> QED BY LastClaimant, Zenon
  <1>3. \A i \in DOMAIN ids :
          /\ proof[ids[i]] = None /\ video[records[i].video_hash] = None
          /\ history[ids[i]] = <<>> /\ envelope[ids[i]] = None
    BY <1>0 DEF require_unique, StoreInv, HistoryExplainsStatus, Explains, EnvelopeMatchesProof
  <1>4. /\ proof' = [p \in ProofIds |-> IF Saved(p) THEN records[ix(p)] ELSE proof[p]]
        /\ video' = [v \in Videos |-> IF Claimed(v) THEN ids[lx(v)] ELSE video[v]]
        /\ history' = [p \in ProofIds |->
                         IF Saved(p) THEN Append(history[p], e) ELSE history[p]]
        /\ \A i \in DOMAIN ids : Len(history[ids[i]]) + 1 <= MAX_HISTORY_ENTRIES_PER_PROOF
        /\ envelope' = [p \in ProofIds |->
                          IF Saved(p)
                          THEN stamp_default_metadata_envelope(p, records[ix(p)].metadata_hash)
                          ELSE envelope[p]]
    BY DEF SaveBatch, HasRoom, LastWith
  <1> HIDE DEF ix, lx, e
  <1>5. \A p \in ProofIds : Saved(p) =>
          /\ proof[p] = None /\ history[p] = <<>> /\ envelope[p] = None
          /\ proof'[p] = records[ix(p)] /\ proof'[p] \in ProofRecord /\ proof'[p] # None
          /\ proof'[p].status = Registered
          /\ history'[p] = Append(<<>>, e)
          /\ Len(history[p]) + 1 <= MAX_HISTORY_ENTRIES_PER_PROOF
          /\ envelope'[p] \in MetadataEnvelope
          /\ envelope'[p].metadata_hash = proof'[p].metadata_hash
    <2> SUFFICES ASSUME NEW p \in ProofIds, Saved(p)
                 PROVE  /\ proof[p] = None /\ history[p] = <<>> /\ envelope[p] = None
                        /\ proof'[p] = records[ix(p)] /\ proof'[p] \in ProofRecord
                        /\ proof'[p] # None
                        /\ proof'[p].status = Registered
                        /\ history'[p] = Append(<<>>, e)
                        /\ Len(history[p]) + 1 <= MAX_HISTORY_ENTRIES_PER_PROOF
                        /\ envelope'[p] \in MetadataEnvelope
                        /\ envelope'[p].metadata_hash = proof'[p].metadata_hash
      OBVIOUS
    <2> DEFINE i == ix(p)
    <2>1. i \in DOMAIN ids /\ ids[i] = p
      BY <1>1
    <2> HIDE DEF i
    <2>2. proof[p] = None /\ history[p] = <<>> /\ envelope[p] = None
      BY <1>3, <2>1
    <2>3. records[i] \in ProofRecord /\ records[i] # None /\ records[i].status = Registered
      BY <1>0, <2>1, ProofStoreAssumption
    <2>4. proof'[p] = records[i]
      BY <1>4 DEF i
    <2>5. history'[p] = Append(<<>>, e)
          /\ Len(history[p]) + 1 <= MAX_HISTORY_ENTRIES_PER_PROOF
      BY <1>4, <2>1, <2>2, Zenon
    <2>6. envelope'[p] = [version |-> 1, metadata_hash |-> records[i].metadata_hash]
      BY <1>4, <2>2 DEF stamp_default_metadata_envelope, i
    <2>7. /\ envelope'[p] \in MetadataEnvelope
          /\ envelope'[p].metadata_hash = records[i].metadata_hash
      BY <2>3, <2>6 DEF MetadataEnvelope, ProofRecord
    <2> QED BY <2>2, <2>3, <2>4, <2>5, <2>7 DEF i
  <1>6. \A p \in ProofIds : ~Saved(p) =>
          proof'[p] = proof[p] /\ history'[p] = history[p] /\ envelope'[p] = envelope[p]
    BY <1>4
  <1>7. StoreTypeOK'
    <2>1. proof' \in [ProofIds -> ProofRecord \cup {None}]
      BY <1>4, <1>5, <1>6 DEF StoreInv, StoreTypeOK
    <2>2. video' \in [Videos -> ProofIds \cup {None}]
      BY <1>0, <1>2, <1>4 DEF StoreInv, StoreTypeOK
    <2>3. \A p \in ProofIds : /\ history'[p] \in Seq(ProofHistoryEntry)
                              /\ Len(history'[p]) <= MAX_HISTORY_ENTRIES_PER_PROOF
      <3> SUFFICES ASSUME NEW p \in ProofIds
                   PROVE  /\ history'[p] \in Seq(ProofHistoryEntry)
                          /\ Len(history'[p]) <= MAX_HISTORY_ENTRIES_PER_PROOF
        OBVIOUS
      <3>1. CASE Saved(p)
        <4>1. <<>> \in Seq(ProofHistoryEntry) /\ Len(<<>>) = 0
          OBVIOUS
        <4>2. /\ Append(<<>>, e) \in Seq(ProofHistoryEntry)
              /\ Len(Append(<<>>, e)) = 1
          BY <1>0, <4>1, AppendedEntry
        <4>3. history'[p] = Append(<<>>, e)
          BY <1>5, <3>1
        <4> QED BY <4>2, <4>3, ProofStoreAssumption
      <3>2. CASE ~Saved(p)
        BY <1>6, <3>2, Zenon DEF StoreInv, StoreTypeOK
      <3> QED BY <3>1, <3>2
    <2>4. history' \in [ProofIds -> Seq(ProofHistoryEntry)]
      BY <1>4, <2>3
    <2>5. \A p \in ProofIds : envelope'[p] \in MetadataEnvelope \cup {None}
      BY <1>5, <1>6 DEF StoreInv, StoreTypeOK
    <2>6. envelope' \in [ProofIds -> MetadataEnvelope \cup {None}]
      BY <1>4, <2>5
    <2> QED BY <2>1, <2>2, <2>3, <2>4, <2>6 DEF StoreTypeOK
  <1>8. HistoryExplainsStatus'
    <2> SUFFICES ASSUME NEW p \in ProofIds PROVE Explains(history'[p], proof'[p])
      BY DEF HistoryExplainsStatus
    <2>1. CASE Saved(p)
      BY <1>0, <1>5, <2>1, RegistrationExplained, Zenon
    <2>2. CASE ~Saved(p)
      BY <1>6, <2>2 DEF StoreInv, HistoryExplainsStatus
    <2> QED BY <2>1, <2>2
  <1>9. EnvelopeMatchesProof'
    <2> SUFFICES ASSUME NEW p \in ProofIds
                 PROVE  /\ proof'[p] = None <=> envelope'[p] = None
                        /\ proof'[p] # None =>
                             envelope'[p].metadata_hash = proof'[p].metadata_hash
      BY DEF EnvelopeMatchesProof
    <2>1. CASE Saved(p)
      BY <1>5, <2>1, ProofStoreAssumption
    <2>2. CASE ~Saved(p)
      BY <1>6, <2>2 DEF StoreInv, EnvelopeMatchesProof
    <2> QED BY <2>1, <2>2
  <1>10. VideoIndexSound'
    <2> SUFFICES ASSUME NEW v \in Videos, video'[v] # None
                 PROVE  proof'[video'[v]] # None /\ proof'[video'[v]].video_hash = v
      BY DEF VideoIndexSound
    <2>1. CASE Claimed(v)
      <3> DEFINE i == lx(v)
      <3>1. i \in DOMAIN ids /\ records[i].video_hash = v /\ video'[v] = ids[i]
        BY <1>2, <1>4, <2>1, Zenon DEF LastWith
      <3>2. ids[i] \in ProofIds /\ Saved(ids[i])
        BY <1>0, <3>1
      <3>3. ix(ids[i]) = i
        BY <1>1, <3>1, <3>2
      <3>4. proof'[ids[i]] = records[i] /\ proof'[ids[i]] # None
        BY <1>5, <3>2, <3>3
      <3> QED BY <3>1, <3>4, Zenon
    <2>2. CASE ~Claimed(v)
      <3>1. video'[v] = video[v] /\ video[v] \in ProofIds
        BY <1>4, <2>2, Zenon DEF StoreInv, StoreTypeOK
      <3>2. proof[video[v]] # None /\ proof[video[v]].video_hash = v
        BY <3>1, Zenon DEF StoreInv, VideoIndexSound
      <3>3. ~Saved(video[v])
        BY <1>5, <3>1, <3>2
      <3> QED BY <1>6, <3>1, <3>2, <3>3
    <2> QED BY <2>1, <2>2
  <1>11. RegisteredVideoIsTaken'
    <2> SUFFICES ASSUME NEW p \in ProofIds, proof'[p] # None
                 PROVE  video'[proof'[p].video_hash] # None
      BY DEF RegisteredVideoIsTaken
    <2>0. proof'[p] \in ProofRecord /\ proof'[p].video_hash \in Videos
      BY <1>7, Zenon DEF StoreTypeOK, ProofRecord
    <2> DEFINE v == proof'[p].video_hash
    <2>1. CASE Claimed(v)
      BY <1>0, <1>2, <1>4, <2>0, <2>1, ProofStoreAssumption, SMTT(30)
    <2>2. CASE ~Claimed(v)
      <3>1. ~Saved(p)
        BY <1>1, <1>5, <2>2
      <3> QED BY <1>4, <1>6, <2>0, <2>2, <3>1 DEF StoreInv, RegisteredVideoIsTaken
    <2> QED BY <2>1, <2>2
  <1> QED BY <1>7, <1>8, <1>9, <1>10, <1>11 DEF StoreInv

---------------------------------------------------------------------------
(* Finality.                                                               *)

\* What one step may do to the record, history and envelope of p.
Final(p) ==
    /\ IsPrefixOf(history[p], history'[p])
    /\ proof[p] # None =>
         /\ proof'[p] # None
         /\ proof'[p] = WithMetadata(WithStatus(proof[p], proof'[p].status),
                                     proof'[p].metadata_hash)
         /\ proof[p].status = Revoked => proof'[p].status = Revoked
    /\ envelope[p] # None =>
         envelope'[p] # None /\ envelope'[p].version >= envelope[p].version

\* A history, a record and an envelope the step does not touch.
LEMMA UntouchedIsFinal ==
    ASSUME StoreInv, NEW p \in ProofIds,
           history'[p] = history[p], proof'[p] = proof[p], envelope'[p] = envelope[p]
    PROVE  Final(p)
  <1>1. /\ history[p] \in Seq(ProofHistoryEntry)
        /\ proof[p] \in ProofRecord \cup {None}
        /\ envelope[p] \in MetadataEnvelope \cup {None}
    BY DEF StoreInv, StoreTypeOK
  <1>2. \A r \in ProofRecord : r = WithMetadata(WithStatus(r, r.status), r.metadata_hash)
    BY DEF ProofRecord, WithMetadata, WithStatus
  <1>3. \A e \in MetadataEnvelope : e.version >= e.version
    BY DEF MetadataEnvelope
  <1>4. Len(history[p]) \in Nat
    BY <1>1
  <1> QED BY <1>1, <1>2, <1>3, <1>4 DEF Final, IsPrefixOf

\* Entries added at the end leave the old history a prefix.
LEMMA ExtendedHistory ==
    ASSUME NEW h \in Seq(ProofHistoryEntry), NEW e \in ProofHistoryEntry, NEW n \in Nat
    PROVE  IsPrefixOf(h, Append(h, e)) /\ IsPrefixOf(h, h \o [k \in 1 .. n |-> e])
  <1>1. IsPrefixOf(h, Append(h, e))
    BY AppendedEntry DEF IsPrefixOf
  <1>2. [k \in 1 .. n |-> e] \in Seq(ProofHistoryEntry) /\ Len([k \in 1 .. n |-> e]) = n
    OBVIOUS
  <1>3. IsPrefixOf(h, h \o [k \in 1 .. n |-> e])
    BY <1>2, SMTT(30) DEF IsPrefixOf
  <1> QED BY <1>1, <1>3

\* A change of status or of metadata keeps the rest of the record.
LEMMA ChangedRecord ==
    ASSUME NEW r \in ProofRecord
    PROVE  /\ \A st \in ProofStatus :
                LET c == WithStatus(r, st) IN
                c # None /\ c.status = st
                /\ c = WithMetadata(WithStatus(r, c.status), c.metadata_hash)
           /\ \A m \in MetadataHashes :
                LET c == WithMetadata(r, m) IN
                c # None /\ c.status = r.status
                /\ c = WithMetadata(WithStatus(r, c.status), c.metadata_hash)
  <1>1. ASSUME NEW st \in ProofStatus PROVE WithStatus(r, st) # None
    BY StatusChanged, ProofStoreAssumption
  <1>2. ASSUME NEW m \in MetadataHashes PROVE WithMetadata(r, m) # None
    BY MetadataChanged, ProofStoreAssumption
  <1> QED BY <1>1, <1>2 DEF WithStatus, WithMetadata

\* The lifecycle entry points are final.
LEMMA LifecycleIsFinal ==
    ASSUME StoreInv, LifecycleStep, NEW q \in ProofIds
    PROVE  Final(q)
  <1>0. /\ proof \in [ProofIds -> ProofRecord \cup {None}]
        /\ history \in [ProofIds -> Seq(ProofHistoryEntry)]
        /\ envelope \in [ProofIds -> MetadataEnvelope \cup {None}]
        /\ \A e \in MetadataEnvelope : e.version \in Nat /\ e.version >= e.version
    BY DEF StoreInv, StoreTypeOK, MetadataEnvelope
  <1>s. Revoked \in ProofStatus /\ Expired \in ProofStatus
    BY DEF ProofStatus
  <1>e. \A a \in Address, act \in ProofLifecycleAction :
          [action |-> act, actor |-> a] \in ProofHistoryEntry
    BY DEF ProofHistoryEntry
  <1>l. {Revoked, Expired, Verified, Corrected} \subseteq ProofLifecycleAction
    BY DEF ProofLifecycleAction
  <1>h. ASSUME NEW p \in ProofIds, NEW act \in ProofLifecycleAction, NEW a \in Address,
               record_proof_history(p, act, a)
        PROVE  IsPrefixOf(history[q], history'[q])
    <2>1. CASE q = p
      BY <1>0, <1>e, <1>h, <2>1, ExtendedHistory, Zenon DEF record_proof_history
    <2>2. CASE q # p
      <3>1. history'[q] = history[q] /\ Len(history[q]) \in Nat
        BY <1>0, <1>h, <2>2 DEF record_proof_history
      <3> QED BY <3>1 DEF IsPrefixOf
    <2> QED BY <2>1, <2>2
  <1>1. ASSUME NEW a \in Address, NEW p \in ProofIds, revoke_proof(a, p) PROVE Final(q)
    <2>1. IsPrefixOf(history[q], history'[q])
      BY <1>1, <1>h, <1>l DEF revoke_proof
    <2>2. CASE q = p
      BY <1>0, <1>1, <1>s, <2>1, <2>2, ChangedRecord DEF revoke_proof, Final
    <2>3. CASE q # p
      BY <1>0, <1>1, <2>3, UntouchedIsFinal DEF revoke_proof, record_proof_history
    <2> QED BY <2>2, <2>3
  <1>2. ASSUME NEW a \in Address, NEW p \in ProofIds, verify_proof(a, p) PROVE Final(q)
    <2>1. IsPrefixOf(history[q], history'[q])
      BY <1>2, <1>h, <1>l DEF verify_proof
    <2>2. \A r \in ProofRecord : r = WithMetadata(WithStatus(r, r.status), r.metadata_hash)
      BY DEF ProofRecord, WithMetadata, WithStatus
    <2> QED BY <1>0, <1>2, <2>1, <2>2 DEF verify_proof, Final
  <1>3. ASSUME NEW a \in Address, NEW p \in ProofIds, expire_proof(a, p) PROVE Final(q)
    <2>1. IsPrefixOf(history[q], history'[q])
      BY <1>3, <1>h, <1>l DEF expire_proof
    <2>2. CASE q = p
      BY <1>0, <1>3, <1>s, <2>1, <2>2, ChangedRecord DEF expire_proof, Final
    <2>3. CASE q # p
      BY <1>0, <1>3, <2>3, UntouchedIsFinal DEF expire_proof, record_proof_history
    <2> QED BY <2>2, <2>3
  <1>4. ASSUME NEW a \in Address, NEW p \in ProofIds, NEW m \in MetadataHashes,
               correct_proof(a, p, m)
        PROVE  Final(q)
    <2>1. IsPrefixOf(history[q], history'[q])
      BY <1>4, <1>h, <1>l, Zenon DEF correct_proof
    <2>2. CASE q = p
      <3>1. envelope[q] # None =>
              envelope'[q] # None /\ envelope'[q].version >= envelope[q].version
        <4> SUFFICES ASSUME envelope[q] # None
                     PROVE  envelope'[q] # None /\ envelope'[q].version >= envelope[q].version
          OBVIOUS
        <4>1. envelope[q] \in MetadataEnvelope
          BY <1>0
        <4>2. envelope'[q] = [version |-> envelope[q].version, metadata_hash |-> m]
          BY <1>0, <1>4, <2>2 DEF correct_proof
        <4>3. envelope'[q] \in MetadataEnvelope /\ envelope'[q].version = envelope[q].version
          BY <4>1, <4>2, SMTT(30) DEF MetadataEnvelope
        <4> QED BY <1>0, <4>1, <4>3, ProofStoreAssumption
      <3>2. proof[q] \in ProofRecord /\ proof'[q] = WithMetadata(proof[q], m)
        BY <1>0, <1>4, <2>2, ZenonT(30) DEF correct_proof
      <3> QED BY <2>1, <3>1, <3>2, ChangedRecord DEF Final
    <2>3. CASE q # p
      BY <1>0, <1>4, <2>3, UntouchedIsFinal DEF correct_proof, record_proof_history
    <2> QED BY <2>2, <2>3
  <1>5. ASSUME NEW a \in Address, NEW p \in ProofIds, NEW n \in VersionInputs,
               NEW m \in MetadataHashes, bind_metadata_envelope(a, p, n, m)
        PROVE  Final(q)
    <2>1. CASE q = p
      <3>1. /\ envelope'[q] = [version |-> n, metadata_hash |-> m]
            /\ envelope'[q] \in MetadataEnvelope /\ envelope'[q].version = n
        BY <1>0, <1>5, <2>1, ProofStoreAssumption DEF bind_metadata_envelope, MetadataEnvelope
      <3>2. envelope[q] # None => n > envelope[q].version \/ n = envelope[q].version
        BY <1>5, <2>1 DEF bind_metadata_envelope
      <3>3. envelope[q] # None => envelope[q].version \in Nat
        BY <1>0
      <3>4. n \in Int
        BY <3>1 DEF MetadataEnvelope
      <3>5. envelope[q] # None => envelope'[q].version >= envelope[q].version
        BY <3>1, <3>2, <3>3, <3>4
      <3>6. IsPrefixOf(history[q], history'[q])
        <4>1. history'[q] = history[q] /\ Len(history[q]) \in Nat
          BY <1>0, <1>5 DEF bind_metadata_envelope
        <4> QED BY <4>1 DEF IsPrefixOf
      <3>7. \A r \in ProofRecord : r = WithMetadata(WithStatus(r, r.status), r.metadata_hash)
        BY DEF ProofRecord, WithMetadata, WithStatus
      <3>8. proof'[q] = proof[q]
        BY <1>5 DEF bind_metadata_envelope
      <3> QED BY <1>0, <3>1, <3>5, <3>6, <3>7, <3>8, ProofStoreAssumption DEF Final
    <2>2. CASE q # p
      BY <1>0, <1>5, <2>2, UntouchedIsFinal DEF bind_metadata_envelope
    <2> QED BY <2>1, <2>2, ZenonT(30)
  <1>6. ASSUME NEW a \in Address, NEW ids \in RevokeInputs, revoke_proofs(a, ids)
        PROVE  Final(q)
    <2>0. Occurrences(ids, q) \in Nat
      BY OccurrencesCount, ProofStoreAssumption
    <2>1. IsPrefixOf(history[q], history'[q])
      <3> DEFINE n == Occurrences(ids, q)
                 e == [action |-> Revoked, actor |-> a]
      <3>1. history'[q] = history[q] \o [k \in 1 .. n |-> e]
        BY <1>6, Zenon DEF revoke_proofs
      <3>2. e \in ProofHistoryEntry
        BY <1>e, <1>l
      <3> HIDE DEF n, e
      <3> QED BY <1>0, <2>0, <3>1, <3>2, ExtendedHistory, Zenon DEF n
    <2>2. UNCHANGED envelope
      BY <1>6 DEF revoke_proofs
    <2>3. CASE \E i \in DOMAIN ids : ids[i] = q
      <3>1. proof[q] \in ProofRecord /\ proof'[q] = WithStatus(proof[q], Revoked)
        BY <1>0, <1>6, <2>3, Zenon DEF revoke_proofs
      <3> QED BY <1>0, <1>s, <2>1, <2>2, <3>1, ChangedRecord DEF Final
    <2>4. CASE ~ \E i \in DOMAIN ids : ids[i] = q
      <3>1. proof'[q] = proof[q]
        BY <1>6, <2>4 DEF revoke_proofs
      <3>2. \A r \in ProofRecord : r = WithMetadata(WithStatus(r, r.status), r.metadata_hash)
        BY DEF ProofRecord, WithMetadata, WithStatus
      <3> QED BY <1>0, <2>1, <2>2, <3>1, <3>2, ZenonT(30) DEF Final
    <2> QED BY <2>3, <2>4
  <1> QED BY <1>1, <1>2, <1>3, <1>4, <1>5, <1>6 DEF LifecycleStep
=============================================================================
