---------------------------- MODULE Credentials ----------------------------
(***************************************************************************)
(* What a registration is checked against: credential roots, the TTL of    *)
(* new proofs and the epoch of each nullifier scope.  Roots live under two *)
(* storage keys: the current layout and the one older deployments left     *)
(* behind, which an upgrade backfills into the enumeration index a bounded *)
(* batch at a time.                                                        *)
(***************************************************************************)
EXTENDS Authority

CONSTANTS
    Roots,          \* credential roots
    LegacyRoots,    \* roots an older deployment may have stored, active or not
    TtlInputs,      \* inputs: ttl_secs of set_proof_ttl
    Scopes,         \* nullifier scopes
    EpochInputs,    \* inputs: epoch of set_scope_epoch
    StageInputs,    \* inputs: sequences of roots staged for backfill
    RevocationRoots,    \* inputs: roots of the revocation tree
    MAX_ROOTS_BACKFILL_BATCH,
    MaxQueue        \* bound on the backfill queue, for model checking only

ASSUME CredentialsAssumption ==
    /\ LegacyRoots \subseteq Roots
    /\ TtlInputs \subseteq Nat
    /\ EpochInputs \subseteq Nat
    /\ \A s \in StageInputs : s \in Seq(Roots)
    /\ MAX_ROOTS_BACKFILL_BATCH \in Nat \ {0}

VARIABLES
    rootV2,         \* DataKey::CredentialRootV2(root)
    rootV1,         \* DataKey::CredentialRoot(root), never written any more
    rootIndex,      \* DataKey::CredentialRootIndex(1 .. CredentialRootSeq)
    backfillQueue,  \* DataKey::CredentialRootsBackfillQueue
    backfillCursor, \* DataKey::CredentialRootsBackfillCursor
    proofTtl,       \* DataKey::ProofTtl
    scopeEpoch,     \* DataKey::ScopeEpoch(scope)
    revocationRoot  \* DataKey::RevocationRoot

rootVars == <<rootV2, rootV1, rootIndex, backfillQueue, backfillCursor>>
policyVars == <<proofTtl, scopeEpoch, revocationRoot>>
credentialVars == <<rootVars, policyVars>>

STATUS_REGISTERED == 1
STATUS_REVOKED == 2
STATUS_EXPIRED == 3

CredentialRootRecord ==
    [status : {STATUS_REGISTERED, STATUS_REVOKED, STATUS_EXPIRED}, expires_at : Nat]
CredentialRootRecordV1 == [active : BOOLEAN]

CredentialsInit ==
    /\ rootV2 = [r \in Roots |-> None]
    /\ rootV1 \in {f \in [Roots -> CredentialRootRecordV1 \cup {None}] :
                     \A r \in Roots : f[r] # None => r \in LegacyRoots /\ admin # None}
    /\ rootIndex = <<>>
    /\ backfillQueue = <<>>
    /\ backfillCursor = 0
    /\ proofTtl = 0
    /\ scopeEpoch = [s \in Scopes |-> 0]
    /\ revocationRoot = None

---------------------------------------------------------------------------

\* Mutant of get_credential_root_record_opt: the legacy record is preferred.
legacy_record_first(r) ==
    IF rootV1[r] # None
    THEN [status |-> IF rootV1[r].active THEN STATUS_REGISTERED ELSE STATUS_REVOKED,
          expires_at |-> 0]
    ELSE rootV2[r]

\* The current layout wins; a legacy record answers only in its absence.
get_credential_root_record_opt(r) ==
    IF rootV2[r] # None THEN rootV2[r]
    ELSE IF rootV1[r] # None
         THEN [status |-> IF rootV1[r].active THEN STATUS_REGISTERED ELSE STATUS_REVOKED,
               expires_at |-> 0]
         ELSE None

require_active_credential_root(r) ==
    LET record == get_credential_root_record_opt(r)
    IN  /\ record # None
        /\ record.status \notin {STATUS_REVOKED, STATUS_EXPIRED}
        /\ ~(record.expires_at > 0 /\ now >= record.expires_at)

\* The index after root r is indexed: a root keeps the first slot it gets.
Indexed(index, r) ==
    IF \E k \in DOMAIN index : index[k] = r THEN index ELSE Append(index, r)

add_credential_root(caller, r) ==
    /\ require_admin(caller)
    /\ rootV2' = [rootV2 EXCEPT ![r] = [status |-> STATUS_REGISTERED, expires_at |-> 0]]
    /\ rootIndex' = Indexed(rootIndex, r)
    /\ UNCHANGED <<rootV1, backfillQueue, backfillCursor, policyVars>>

\* A root is revoked or expired under the current layout, whichever key held it.
SetRootStatus(r, status, expires_at) ==
    /\ get_credential_root_record_opt(r) # None
    /\ rootV2' = [rootV2 EXCEPT ![r] = [status |-> status, expires_at |-> expires_at]]
    /\ UNCHANGED <<rootV1, rootIndex, backfillQueue, backfillCursor>>

RevokeRootEffect(r) ==
    SetRootStatus(r, STATUS_REVOKED, get_credential_root_record_opt(r).expires_at)

revoke_credential_root(caller, r) ==
    /\ require_admin(caller)
    /\ RevokeRootEffect(r)
    /\ UNCHANGED policyVars

expire_credential_root(caller, r) ==
    /\ require_admin(caller)
    /\ SetRootStatus(r, STATUS_EXPIRED, now)
    /\ UNCHANGED policyVars

stage_credential_roots_for_backfill(caller, roots) ==
    /\ require_admin(caller)
    /\ Len(backfillQueue) + Len(roots) <= MaxQueue
    /\ backfillQueue' = backfillQueue \o roots
    /\ UNCHANGED <<rootV2, rootV1, rootIndex, backfillCursor, policyVars>>

\* The migration itself rewrites nothing; each call also backfills the next
\* MAX_ROOTS_BACKFILL_BATCH staged roots, starting where the last one stopped.
BackfillEnd ==
    IF backfillCursor + MAX_ROOTS_BACKFILL_BATCH < Len(backfillQueue)
    THEN backfillCursor + MAX_ROOTS_BACKFILL_BATCH
    ELSE Len(backfillQueue)

\* The index once the staged roots up to position n are backfilled.
Backfilled(n) ==
    LET index[k \in backfillCursor .. n] ==
          IF k = backfillCursor THEN rootIndex ELSE Indexed(index[k - 1], backfillQueue[k])
    IN  index[n]

\* Mutant of backfill_credential_roots_step: the last staged root is skipped.
backfill_skips_last ==
    /\ rootIndex' = IF BackfillEnd > backfillCursor THEN Backfilled(BackfillEnd - 1) ELSE rootIndex
    /\ backfillCursor' = BackfillEnd

backfill_credential_roots_step ==
    /\ rootIndex' = Backfilled(BackfillEnd)
    /\ backfillCursor' = BackfillEnd

upgrade_storage(caller) ==
    /\ require_admin(caller)
    /\ ~is_council_active
    /\ schemaVersion' = 2
    /\ backfill_credential_roots_step
    /\ UNCHANGED <<rootV2, rootV1, backfillQueue, policyVars,
                   admin, pendingAdmin, issuerVars, councilVars>>

set_proof_ttl(caller, ttl_secs) ==
    /\ require_admin(caller)
    /\ proofTtl' = ttl_secs
    /\ UNCHANGED <<scopeEpoch, revocationRoot, rootVars>>

set_scope_epoch(caller, s, epoch) ==
    /\ require_admin(caller)
    /\ epoch > scopeEpoch[s]
    /\ scopeEpoch' = [scopeEpoch EXCEPT ![s] = epoch]
    /\ UNCHANGED <<proofTtl, revocationRoot, rootVars>>

set_revocation_root(caller, root) ==
    /\ require_admin(caller)
    /\ ~is_council_active
    /\ revocationRoot' = root
    /\ UNCHANGED <<proofTtl, scopeEpoch, rootVars>>

\* Mutant of list_credential_roots: the next page starts one entry too late.
list_credential_roots_skips(cursor, limit) ==
    LET first == IF cursor = 0 THEN 1 ELSE cursor
        live == SelectSeq([k \in 1 .. Len(rootIndex) |-> k],
                    LAMBDA k : /\ k >= first
                               /\ get_credential_root_record_opt(rootIndex[k]) # None)
        page == SubSeq(live, 1, IF Len(live) < limit THEN Len(live) ELSE limit)
    IN  [ids |-> page,
         next_cursor |-> IF Len(page) = limit /\ page[limit] < Len(rootIndex)
                         THEN page[limit] + 2 ELSE None]

\* One page of the enumeration: the first `limit` indexed roots from the cursor
\* that still have a record, and where the next page starts.
list_credential_roots(cursor, limit) ==
    LET first == IF cursor = 0 THEN 1 ELSE cursor
        live == SelectSeq([k \in 1 .. Len(rootIndex) |-> k],
                    LAMBDA k : /\ k >= first
                               /\ get_credential_root_record_opt(rootIndex[k]) # None)
        page == SubSeq(live, 1, IF Len(live) < limit THEN Len(live) ELSE limit)
    IN  [ids |-> page,
         next_cursor |-> IF Len(page) = limit /\ page[limit] < Len(rootIndex)
                         THEN page[limit] + 1 ELSE None]

---------------------------------------------------------------------------
(* The component on its own.                                               *)

CredentialsStep ==
    \E a \in Address :
      \/ \E r \in Roots : \/ add_credential_root(a, r)
                          \/ revoke_credential_root(a, r)
                          \/ expire_credential_root(a, r)
      \/ \E s \in StageInputs : stage_credential_roots_for_backfill(a, s)
      \/ \E t \in TtlInputs : set_proof_ttl(a, t)
      \/ \E s \in Scopes, e \in EpochInputs : set_scope_epoch(a, s, e)
      \/ \E r \in RevocationRoots : set_revocation_root(a, r)

---------------------------------------------------------------------------
(* Properties.                                                             *)

\* Every credential key holds a value of its type.
CredentialsTypeOK ==
    /\ rootV2 \in [Roots -> CredentialRootRecord \cup {None}]
    /\ rootV1 \in [Roots -> CredentialRootRecordV1 \cup {None}]
    /\ rootIndex \in Seq(Roots)
    /\ backfillQueue \in Seq(Roots)
    /\ backfillCursor \in 0 .. Len(backfillQueue)
    /\ proofTtl \in Nat
    /\ scopeEpoch \in [Scopes -> Nat]
    /\ revocationRoot \in RevocationRoots \cup {None}

\* A root that was revoked or expired under the current layout is refused even
\* when an active legacy record for it is still in storage.
WithdrawnRootRefused ==
    \A r \in Roots :
      rootV2[r] # None /\ rootV2[r].status # STATUS_REGISTERED
        => ~require_active_credential_root(r)

\* A root has at most one slot in the enumeration, however often it is added,
\* staged and backfilled, and every root the backfill has passed over has one,
\* across any number of bounded upgrade_storage calls with additions in between.
BackfilledRootsIndexedOnce ==
    /\ \A j, k \in DOMAIN rootIndex : rootIndex[j] = rootIndex[k] => j = k
    /\ \A k \in 1 .. backfillCursor : \E j \in DOMAIN rootIndex : rootIndex[j] = backfillQueue[k]

\* Following next_cursor from the start lists each live root exactly once, in
\* index order, for every page size.
PagingIsComplete ==
    \A limit \in 1 .. Len(rootIndex) :
      LET walk[c \in 0 .. Len(rootIndex) + 2] ==
            LET page == list_credential_roots(c, limit)
            IN  page.ids \o (IF page.next_cursor = None THEN <<>>
                             ELSE walk[page.next_cursor])
      IN  walk[0] = SelectSeq([k \in 1 .. Len(rootIndex) |-> k],
                        LAMBDA k : get_credential_root_record_opt(rootIndex[k]) # None)

=============================================================================
