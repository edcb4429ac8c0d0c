---------------------------- MODULE ProofClaims -----------------------------
(***************************************************************************)
(* What is claimed about a registered proof: disputes and their            *)
(* supersession links, and timestamp claims.                               *)
(***************************************************************************)
EXTENDS ProofStore
-----------------------------------------------------------------------------
(***************************************************************************)
(* Challenges to a registered proof.  Anyone opens a dispute, the proof's  *)
(* subject or the admin responds in time, and the admin resolves it in     *)
(* time, dismisses it or links a superseding proof.  Beside the records    *)
(* the contract keeps two counters of open disputes, a cooldown for each   *)
(* reporter hash, an index by proof and a reverse index of supersessions.  *)
(***************************************************************************)

CONSTANTS
    DisputeIds,
    ReporterHashes,     \* inputs: reporter_hash, chosen by the reporter
    MAX_OPEN_DISPUTES_PER_PROOF,
    MAX_OPEN_DISPUTES_PER_REPORTER,
    MAX_PROOF_DISPUTES_PAGE,
    REPORTER_COOLDOWN_SECS,
    RESPOND_DEADLINE_SECS,
    RESOLVE_DEADLINE_SECS

Open == "Open"
Responded == "Responded"
Resolved == "Resolved"
Dismissed == "Dismissed"
Superseded == "Superseded"
DisputeStatus == {Open, Responded, Resolved, Dismissed, Superseded}

\* `resolve_deadline` and `resolved_at` are zero until they are set.
DisputeRecord ==
    [proof_id : ProofIds, reporter_hash : ReporterHashes, reporter : Address,
     status : DisputeStatus, opened_at : Nat, respond_deadline : Nat,
     resolve_deadline : Nat, resolved_at : Nat, superseded_by : ProofIds \cup {None}]

ASSUME DisputeAssumption ==
    /\ None \notin DisputeRecord
    /\ None \notin DisputeIds /\ IsFiniteSet(DisputeIds)
    /\ MAX_OPEN_DISPUTES_PER_PROOF \in Nat
    /\ MAX_OPEN_DISPUTES_PER_REPORTER \in Nat
    /\ MAX_PROOF_DISPUTES_PAGE \in Nat \ {0}
    /\ REPORTER_COOLDOWN_SECS \in Nat
    /\ RESPOND_DEADLINE_SECS \in Nat
    /\ RESOLVE_DEADLINE_SECS \in Nat

VARIABLES
    dispute,        \* DataKey::Dispute(id)
    openCount,      \* DataKey::ProofOpenDisputeCount(proof), 0 when absent
    reporterCount,  \* DataKey::ReporterOpenDisputeCount(reporter), 0 when absent
    cooldown,       \* DataKey::ReporterCooldown(hash), 0 when absent
    disputeIndex,   \* DataKey::ProofDispute(proof, 1 .. ProofDisputeSeq(proof))
    corrects        \* the supersession reverse index: what a proof superseded

disputeVars == <<dispute, openCount, reporterCount, cooldown, disputeIndex, corrects>>

DisputeInit ==
    /\ dispute = [d \in DisputeIds |-> None]
    /\ openCount = [p \in ProofIds |-> 0]
    /\ reporterCount = [a \in Address |-> 0]
    /\ cooldown = [h \in ReporterHashes |-> 0]
    /\ disputeIndex = [p \in ProofIds |-> <<>>]
    /\ corrects = [p \in ProofIds |-> None]

---------------------------------------------------------------------------

\* Mutant of on_cooldown: the comparison is the wrong way round.
on_cooldown_late(h) == cooldown[h] > 0 /\ now - cooldown[h] > REPORTER_COOLDOWN_SECS

on_cooldown(h) == cooldown[h] > 0 /\ now - cooldown[h] < REPORTER_COOLDOWN_SECS

\* Mutant of append_proof_dispute: the newest dispute comes first.
append_proof_dispute_front(p, d) ==
    disputeIndex' = [disputeIndex EXCEPT ![p] = <<d>> \o @]

append_proof_dispute(p, d) ==
    disputeIndex' = [disputeIndex EXCEPT ![p] = Append(@, d)]

open_dispute(reporter, h, d, p) ==
    /\ proof[p] # None
    /\ dispute[d] = None
    /\ openCount[p] < MAX_OPEN_DISPUTES_PER_PROOF
    /\ reporterCount[reporter] < MAX_OPEN_DISPUTES_PER_REPORTER
    /\ ~on_cooldown(h)
    /\ cooldown' = [cooldown EXCEPT ![h] = now]
    /\ dispute' = [dispute EXCEPT ![d] =
         [proof_id |-> p, reporter_hash |-> h, reporter |-> reporter, status |-> Open,
          opened_at |-> now, respond_deadline |-> now + RESPOND_DEADLINE_SECS,
          resolve_deadline |-> 0, resolved_at |-> 0, superseded_by |-> None]]
    /\ openCount' = [openCount EXCEPT ![p] = @ + 1]
    /\ reporterCount' = [reporterCount EXCEPT ![reporter] = @ + 1]
    /\ append_proof_dispute(p, d)
    /\ UNCHANGED corrects

\* The record of a dispute once it is answered.
Answered(record) ==
    [record EXCEPT !.status = Responded, !.resolve_deadline = now + RESOLVE_DEADLINE_SECS]

respond_dispute(responder, d) ==
    /\ dispute[d] # None
    /\ dispute[d].status = Open
    /\ now <= dispute[d].respond_deadline
    /\ require_initialized
    /\ responder \in {admin, proof[dispute[d].proof_id].subject}
    /\ dispute' = [dispute EXCEPT ![d] = Answered(dispute[d])]
    /\ UNCHANGED <<openCount, reporterCount, cooldown, disputeIndex, corrects>>

\* Mutant of decremented: it does not stop at zero and releases two slots.
decremented_twice(count) == count - 2

decremented(count) == IF count = 0 THEN 0 ELSE count - 1

Closed(record, status, superseded_by) ==
    [record EXCEPT !.status = status, !.resolved_at = now, !.superseded_by = superseded_by]

\* The dispute is closed with this status and both counters are released.
Close(d, status, superseded_by) ==
    /\ dispute' = [dispute EXCEPT ![d] = Closed(dispute[d], status, superseded_by)]
    /\ openCount' = [openCount EXCEPT ![dispute[d].proof_id] = decremented(@)]
    /\ reporterCount' = [reporterCount EXCEPT ![dispute[d].reporter] = decremented(@)]
    /\ UNCHANGED <<cooldown, disputeIndex>>

resolve_dispute(caller, d) ==
    /\ require_admin(caller)
    /\ dispute[d] # None
    /\ dispute[d].status = Responded
    /\ now <= dispute[d].resolve_deadline
    /\ Close(d, Resolved, None)
    /\ UNCHANGED corrects

\* Mutant of dismiss_dispute: a closed dispute may be dismissed.
dismiss_dispute_closed(caller, d) ==
    /\ require_admin(caller)
    /\ dispute[d] # None
    /\ Close(d, Dismissed, None)
    /\ UNCHANGED corrects

dismiss_dispute(caller, d) ==
    /\ require_admin(caller)
    /\ dispute[d] # None
    /\ dispute[d].status \in {Open, Responded}
    /\ Close(d, Dismissed, None)
    /\ UNCHANGED corrects

\* Is the edge already in the reverse index, in either direction?  The index
\* holds one entry for each superseding proof.
check_supersession_cycle(disputed, superseding) ==
    corrects[superseding] = disputed \/ corrects[disputed] = superseding

supersede_dispute(caller, d, superseding) ==
    /\ require_admin(caller)
    /\ dispute[d] # None
    /\ dispute[d].status \in {Open, Responded}
    /\ proof[superseding] # None
    /\ superseding # dispute[d].proof_id
    /\ ~check_supersession_cycle(dispute[d].proof_id, superseding)
    /\ Close(d, Superseded, superseding)
    /\ corrects' = [corrects EXCEPT ![superseding] = dispute[d].proof_id]

DisputeStep ==
    \E a \in Address, d \in DisputeIds :
      \/ \E h \in ReporterHashes, p \in ProofIds : open_dispute(a, h, d, p)
      \/ respond_dispute(a, d)
      \/ resolve_dispute(a, d)
      \/ dismiss_dispute(a, d)
      \/ \E p \in ProofIds : supersede_dispute(a, d, p)

\* A page of the dispute ids of a proof.
list_proof_disputes(p, cursor, limit) ==
    LET total == Len(disputeIndex[p])
        effective_limit ==
          IF limit > MAX_PROOF_DISPUTES_PAGE THEN MAX_PROOF_DISPUTES_PAGE ELSE limit
        count == IF total - cursor < effective_limit THEN total - cursor ELSE effective_limit
    IN  IF cursor >= total THEN <<>>
        ELSE SubSeq(disputeIndex[p], cursor + 1, cursor + count)

---------------------------------------------------------------------------
(* Properties.                                                             *)

\* Every dispute key holds a value of its type.
DisputeTypeOK ==
    /\ dispute \in [DisputeIds -> DisputeRecord \cup {None}]
    /\ openCount \in [ProofIds -> Nat]
    /\ reporterCount \in [Address -> Nat]
    /\ cooldown \in [ReporterHashes -> Nat]
    /\ disputeIndex \in [ProofIds -> Seq(DisputeIds)]
    /\ corrects \in [ProofIds -> ProofIds \cup {None}]

Unsettled(d) == dispute[d] # None /\ dispute[d].status \in {Open, Responded}
OpenOn(p) == {d \in DisputeIds : Unsettled(d) /\ dispute[d].proof_id = p}
OpenBy(a) == {d \in DisputeIds : Unsettled(d) /\ dispute[d].reporter = a}

\* Both counters equal the number of disputes they count and stay within their
\* caps, however opening, responding and the three ways of closing interleave:
\* no slot is leaked, and the saturating decrement never hides a double release.
CountersMatchDisputes ==
    /\ \A p \in ProofIds :
         /\ openCount[p] = Cardinality(OpenOn(p))
         /\ openCount[p] <= MAX_OPEN_DISPUTES_PER_PROOF
    /\ \A a \in Address :
         /\ reporterCount[a] = Cardinality(OpenBy(a))
         /\ reporterCount[a] <= MAX_OPEN_DISPUTES_PER_REPORTER

\* Reading list_proof_disputes page by page, with any limit, lists every dispute
\* of the proof exactly once and in the order they were opened.
DisputesAllListed ==
    \A p \in ProofIds, limit \in 1 .. 3 :
      LET walk[c \in 0 .. Cardinality(DisputeIds)] ==
            LET page == list_proof_disputes(p, c, limit)
            IN  IF page = <<>> THEN <<>> ELSE page \o walk[c + Len(page)]
          listed == walk[0]
      IN  /\ {listed[i] : i \in DOMAIN listed} =
               {d \in DisputeIds : dispute[d] # None /\ dispute[d].proof_id = p}
          /\ \A i, j \in DOMAIN listed :
               i < j => /\ listed[i] # listed[j]
                        /\ dispute[listed[i]].opened_at <= dispute[listed[j]].opened_at

\* Disputes keep to the clock.  A resolved one was answered within the response
\* window and decided within the window that opened then, and two disputes of
\* one reporter hash were opened at least the cooldown apart.
DisputesKeepToTheClock ==
    \A d \in DisputeIds : dispute[d] # None =>
      /\ dispute[d].status \in {Responded, Resolved} =>
           dispute[d].resolve_deadline
             \in dispute[d].opened_at + RESOLVE_DEADLINE_SECS
                   .. dispute[d].respond_deadline + RESOLVE_DEADLINE_SECS
      /\ dispute[d].status = Resolved =>
           dispute[d].resolved_at <= dispute[d].resolve_deadline
      /\ \A e \in DisputeIds \ {d} :
           /\ dispute[e] # None
           /\ dispute[e].reporter_hash = dispute[d].reporter_hash
           /\ dispute[d].opened_at <= dispute[e].opened_at
           => dispute[e].opened_at - dispute[d].opened_at >= REPORTER_COOLDOWN_SECS

SupersededBy(p, q) ==
    \E d \in DisputeIds :
      dispute[d] # None /\ dispute[d].proof_id = p /\ dispute[d].superseded_by = q

\* As DISPUTE.md states it: no two proofs supersede each other.
NoDirectCycle ==
    \A p, q \in ProofIds : ~(SupersededBy(p, q) /\ SupersededBy(q, p))

-----------------------------------------------------------------------------
(***************************************************************************)
(* The timestamp claim of a proof.  Anchoring always counts the ledger as  *)
(* a source; a claimed time and an RFC 3161 commitment add sources, and a  *)
(* second anchoring must be an upgrade.  The attestation digest is left    *)
(* out: a call with the zero digest fails, and nothing reads the others.   *)
(***************************************************************************)

CONSTANTS
    ClaimedTimes,           \* inputs: claimed_time, 0 for none
    Rfc3161Commitments,     \* inputs: rfc3161_commitment, ZeroHash for none
    MAX_TIMESTAMP_FUTURE_DRIFT_SECS

TIMESTAMP_SOURCE_CLAIMED == 1
TIMESTAMP_SOURCE_STELLAR == 2
TIMESTAMP_SOURCE_RFC3161 == 4
TIMESTAMP_ASSURANCE_NONE == 0
TIMESTAMP_ASSURANCE_CLAIMED == 1
TIMESTAMP_ASSURANCE_INDEPENDENT == 3

\* `sources` is the set of its bits.
TimestampClaim ==
    [claimed_time : ClaimedTimes, anchored_at : Nat,
     sources : SUBSET {1, 2, 4}, rfc3161_commitment : Rfc3161Commitments,
     actor : Address, assurance : 0 .. 3]

ASSUME TimestampAssumption ==
    /\ None \notin TimestampClaim
    /\ ClaimedTimes \subseteq Nat
    /\ MAX_TIMESTAMP_FUTURE_DRIFT_SECS \in Nat

VARIABLE claim      \* DataKey::TimestampClaim(proof)

TimestampInit == claim = [p \in ProofIds |-> None]

compute_timestamp_assurance(sources) ==
    IF sources \cap {TIMESTAMP_SOURCE_STELLAR, TIMESTAMP_SOURCE_RFC3161} # {}
      THEN TIMESTAMP_ASSURANCE_INDEPENDENT
    ELSE IF TIMESTAMP_SOURCE_CLAIMED \in sources
      THEN TIMESTAMP_ASSURANCE_CLAIMED ELSE TIMESTAMP_ASSURANCE_NONE

SourcesOf(claimed_time, rfc3161) ==
    {TIMESTAMP_SOURCE_STELLAR}
      \cup (IF claimed_time > 0 THEN {TIMESTAMP_SOURCE_CLAIMED} ELSE {})
      \cup (IF rfc3161 # ZeroHash THEN {TIMESTAMP_SOURCE_RFC3161} ELSE {})

\* Mutant of IsUpgrade: the same assurance is enough.
IsUpgrade_equal(old, sources) ==
    compute_timestamp_assurance(sources) >= old.assurance

\* More assurance, or as much with a first RFC 3161 commitment.
IsUpgrade(old, sources) ==
    LET assurance == compute_timestamp_assurance(sources)
    IN  \/ assurance > old.assurance
        \/ /\ assurance = old.assurance
           /\ TIMESTAMP_SOURCE_RFC3161 \in sources \ old.sources

anchor_timestamp_claim(actor, p, claimed_time, rfc3161) ==
    LET sources == SourcesOf(claimed_time, rfc3161)
    IN  /\ proof[p] # None
        /\ require_initialized /\ actor \in {admin, proof[p].subject}
        /\ claimed_time <= now + MAX_TIMESTAMP_FUTURE_DRIFT_SECS
        /\ claim[p] # None => IsUpgrade(claim[p], sources)
        /\ claim' = [claim EXCEPT ![p] =
             [claimed_time |-> claimed_time, anchored_at |-> now, sources |-> sources,
              rfc3161_commitment |-> rfc3161, actor |-> actor,
              assurance |-> compute_timestamp_assurance(sources)]]

TimestampStep ==
    \E a \in Address, p \in ProofIds, t \in ClaimedTimes, c \in Rfc3161Commitments :
      anchor_timestamp_claim(a, p, t, c)

---------------------------------------------------------------------------
(* Properties.                                                             *)

\* Every timestamp key holds a value of its type.
TimestampTypeOK == claim \in [ProofIds -> TimestampClaim \cup {None}]

\* A claim with an RFC 3161 commitment is final, whoever of the admin and the
\* proof's subject anchors again, and no later anchoring lowers the assurance or
\* moves the claim to an earlier ledger.
AnchoredClaimIsFinal ==
    [][\A p \in ProofIds : claim[p] # None =>
         /\ TIMESTAMP_SOURCE_RFC3161 \in claim[p].sources => claim'[p] = claim[p]
         /\ claim'[p] # None
         /\ claim'[p].assurance >= claim[p].assurance
         /\ claim'[p].anchored_at >= claim[p].anchored_at]_claim

---------------------------------------------------------------------------
(* Claims of both kinds, beside the rest of the contract.                  *)

ClaimsInit == now \in Nat \ {0} /\ DisputeInit /\ TimestampInit

\* What every other entry point does: whatever it makes of the authority and of the
\* proofs, it writes no claim, and the ledger's clock never goes back.
Elsewhere == now' \in Nat /\ now' >= now /\ UNCHANGED <<disputeVars, claim>>

ClaimsSpec ==
    ClaimsInit /\ [][\/ DisputeStep /\ UNCHANGED <<now, claim>>
                     \/ TimestampStep /\ UNCHANGED <<now, disputeVars>>
                     \/ Elsewhere]_<<now, disputeVars, claim>>

=============================================================================
