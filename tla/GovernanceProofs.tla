-------------------------- MODULE GovernanceProofs --------------------------
(***************************************************************************)
(* Who may do what, for any number of accounts, proposals and inputs and   *)
(* any protocol limits: the authority component by itself, and the         *)
(* contract governed through its council and its timelock, where every     *)
(* role, verifier and credential root is the doing of a proposal that      *)
(* waited or gathered its quorum.                                          *)
(***************************************************************************)
EXTENDS Governance, FiniteSetTheorems, TLAPS

\* Before init nobody has any role: the first admin cannot be an issuer.
NoRolesBeforeInit ==
    admin = None => pendingAdmin = None /\ \A i \in Address : issuer[i] = None

\* What makes RevokedNeverVerifiable inductive: a revoked key is inactive and
\* has no grace record, so no passing of time gives it standing.
RevokedHaveNoRecord ==
    \A i \in revoked : issuer[i] # None /\ ~issuer[i].active /\ rotation[i] = None

AuthorityInv ==
    /\ AuthorityTypeOK
    /\ NoRolesBeforeInit
    /\ RoleSeparation
    /\ GraceOnlyForRetired
    /\ RevokedHaveNoRecord

\* Retiring an issuer record gives an inactive issuer record.
LEMMA RetiredRecord ==
    ASSUME NEW r \in IssuerRecord
    PROVE  Retired(r) \in IssuerRecord /\ Retired(r) # None /\ ~Retired(r).active
  <1>1. Retired(r) \in IssuerRecord
    BY DEF Retired, IssuerRecord
  <1>2. ~Retired(r).active
    BY DEF Retired
  <1> QED
    BY <1>1, <1>2, AuthorityAssumption

\* The initial storage of a fresh contract satisfies the inductive invariant.
LEMMA AuthorityInvInit ==
    LedgerInit /\ AuthorityInit => AuthorityInv
  BY AuthorityAssumption, SMTT(30)
  DEF LedgerInit, AuthorityInit, AuthorityInv, AuthorityTypeOK,
      NoRolesBeforeInit, RoleSeparation, GraceOnlyForRetired,
      RevokedHaveNoRecord, is_active_issuer

\* Every entry point, and the passing of time, preserves the types.
LEMMA AuthorityTypeStep ==
    AuthorityTypeOK /\ [AuthorityNext]_<<now, authorityVars>> => AuthorityTypeOK'
  <1> SUFFICES ASSUME AuthorityTypeOK, [AuthorityNext]_<<now, authorityVars>>
               PROVE  AuthorityTypeOK'
    OBVIOUS
  <1> USE AuthorityAssumption
          DEF AuthorityTypeOK, adminVars, issuerVars, councilVars, authorityVars
  <1>1. CASE UNCHANGED <<now, authorityVars>>
    BY <1>1
  <1>2. CASE CloseLedger /\ UNCHANGED authorityVars
    BY <1>2 DEF CloseLedger
  <1>3. ASSUME NEW a \in Address, init(a), UNCHANGED now
        PROVE  AuthorityTypeOK'
    BY <1>3 DEF init
  <1>4. ASSUME NEW a \in Address, cancel_admin_transfer(a), UNCHANGED now
        PROVE  AuthorityTypeOK'
    BY <1>4 DEF cancel_admin_transfer
  <1>5. ASSUME NEW a \in Address, accept_admin(a), UNCHANGED now
        PROVE  AuthorityTypeOK'
    BY <1>5 DEF accept_admin
  <1>6. ASSUME NEW a \in Address, cancel_pending_admin_council(a), UNCHANGED now
        PROVE  AuthorityTypeOK'
    BY <1>6 DEF cancel_pending_admin_council
  <1>7. ASSUME NEW a \in Address, NEW c \in CouncilInputs, set_admin_council(a, c),
               UNCHANGED now
        PROVE  AuthorityTypeOK'
    BY <1>7 DEF set_admin_council, AdminCouncil
  <1>8. ASSUME NEW a \in Address, NEW d \in DelayInputs,
               set_timelock_min_delay_secs(a, d), UNCHANGED now
        PROVE  AuthorityTypeOK'
    BY <1>8 DEF set_timelock_min_delay_secs
  <1>9. ASSUME NEW a \in Address, NEW b \in AdminCandidates, propose_admin(a, b),
               UNCHANGED now
        PROVE  AuthorityTypeOK'
    BY <1>9 DEF propose_admin
  <1>10. ASSUME NEW a \in Address, NEW i \in IssuerCandidates,
                NEW m \in IssuerMetadata, add_issuer(a, i, m), UNCHANGED now
         PROVE  AuthorityTypeOK'
    BY <1>10 DEF add_issuer, IssuerRecord
  <1>11. ASSUME NEW a \in Address, NEW i \in IssuerCandidates,
                NEW m \in IssuerMetadata, update_issuer_metadata(a, i, m), UNCHANGED now
         PROVE  AuthorityTypeOK'
    BY <1>11 DEF update_issuer_metadata, is_active_issuer, IssuerRecord
  <1>12. ASSUME NEW a \in Address, NEW i \in IssuerCandidates,
                revoke_issuer(a, i), UNCHANGED now
         PROVE  AuthorityTypeOK'
    BY <1>12 DEF revoke_issuer, RevokeIssuerEffect, Retired, IssuerRecord
  <1>13. ASSUME NEW a \in Address, NEW i \in IssuerCandidates,
                NEW j \in IssuerCandidates, NEW g \in GraceInputs,
                rotate_issuer(a, i, j, g), UNCHANGED now
         PROVE  AuthorityTypeOK'
    <2>1. now + ResolvedGrace(g) \in Nat
      BY DEF ResolvedGrace
    <2> QED
      BY <1>13, <2>1 DEF rotate_issuer, is_active_issuer, Retired, IssuerRecord,
                         IssuerRotationRecord
  <1>14. ASSUME NEW i \in IssuerCandidates, finalize_issuer_rotation(i), UNCHANGED now
         PROVE  AuthorityTypeOK'
    BY <1>14, Zenon DEF finalize_issuer_rotation
  <1> QED
    BY <1>1, <1>2, <1>3, <1>4, <1>5, <1>6, <1>7, <1>8, <1>9, <1>10, <1>11,
       <1>12, <1>13, <1>14 DEF AuthorityNext, AuthorityStep

\* Every entry point preserves the inductive invariant.  init relies on nobody
\* having a role before it; rotate_issuer and the revocations on who is active.
LEMMA AuthorityInvStep ==
    AuthorityInv /\ [AuthorityNext]_<<now, authorityVars>> => AuthorityInv'
  <1> SUFFICES ASSUME AuthorityInv, [AuthorityNext]_<<now, authorityVars>>
               PROVE  AuthorityInv'
    OBVIOUS
  <1>t. AuthorityTypeOK'
    BY AuthorityTypeStep DEF AuthorityInv
  <1> DEFINE Rest == /\ NoRolesBeforeInit
                     /\ RoleSeparation
                     /\ GraceOnlyForRetired
                     /\ RevokedHaveNoRecord
  <1> SUFFICES Rest'
    BY <1>t DEF AuthorityInv
  <1> USE AuthorityAssumption
          DEF AuthorityInv, AuthorityTypeOK, NoRolesBeforeInit, RoleSeparation,
              GraceOnlyForRetired, RevokedHaveNoRecord, is_active_issuer,
              require_admin, require_initialized, require_issuer_role_available,
              adminVars, issuerVars, councilVars, authorityVars
  <1>1. CASE UNCHANGED <<now, authorityVars>>
    BY <1>1
  <1>2. CASE CloseLedger /\ UNCHANGED authorityVars
    BY <1>2
  <1>3. ASSUME NEW a \in Address, init(a) PROVE Rest'
    BY <1>3 DEF init
  <1>4. ASSUME NEW a \in Address, cancel_admin_transfer(a) PROVE Rest'
    BY <1>4 DEF cancel_admin_transfer
  <1>5. ASSUME NEW a \in Address, accept_admin(a) PROVE Rest'
    BY <1>5 DEF accept_admin, require_admin_role_available
  <1>6. ASSUME NEW a \in Address, cancel_pending_admin_council(a) PROVE Rest'
    BY <1>6 DEF cancel_pending_admin_council
  <1>7. ASSUME NEW a \in Address, NEW c \in CouncilInputs, set_admin_council(a, c)
        PROVE  Rest'
    BY <1>7 DEF set_admin_council
  <1>8. ASSUME NEW a \in Address, NEW d \in DelayInputs, set_timelock_min_delay_secs(a, d)
        PROVE  Rest'
    BY <1>8 DEF set_timelock_min_delay_secs
  <1>9. ASSUME NEW a \in Address, NEW b \in AdminCandidates, propose_admin(a, b)
        PROVE  Rest'
    BY <1>9 DEF propose_admin, require_admin_role_available
  <1>10. ASSUME NEW a \in Address, NEW i \in IssuerCandidates,
                NEW m \in IssuerMetadata, add_issuer(a, i, m)
         PROVE  Rest'
    BY <1>10 DEF add_issuer, IssuerRecord
  <1>11. ASSUME NEW a \in Address, NEW i \in IssuerCandidates,
                NEW m \in IssuerMetadata, update_issuer_metadata(a, i, m)
         PROVE  Rest'
    BY <1>11 DEF update_issuer_metadata, IssuerRecord
  <1>12. ASSUME NEW a \in Address, NEW i \in IssuerCandidates, revoke_issuer(a, i)
         PROVE  Rest'
    <2>1. /\ issuer[i] \in IssuerRecord
          /\ UNCHANGED <<admin, pendingAdmin>>
      BY <1>12 DEF revoke_issuer, RevokeIssuerEffect
    <2>2. /\ issuer'[i] # None /\ ~issuer'[i].active
          /\ rotation'[i] = None
          /\ revoked' = revoked \cup {i}
          /\ \A k \in Address \ {i} : issuer'[k] = issuer[k] /\ rotation'[k] = rotation[k]
      BY <1>12, <2>1, RetiredRecord DEF revoke_issuer, RevokeIssuerEffect
    <2> QED
      BY <2>1, <2>2
  <1>13. ASSUME NEW a \in Address, NEW i \in IssuerCandidates,
                NEW j \in IssuerCandidates, NEW g \in GraceInputs, rotate_issuer(a, i, j, g)
         PROVE  Rest'
    <2>1. /\ issuer[i] \in IssuerRecord /\ issuer[i].active
          /\ UNCHANGED <<admin, pendingAdmin, revoked>>
      BY <1>13 DEF rotate_issuer
    <2>2. /\ issuer'[i] # None /\ ~issuer'[i].active
          /\ \A k \in Address \ {i} : issuer'[k] = issuer[k] /\ rotation'[k] = rotation[k]
      BY <1>13, <2>1, RetiredRecord DEF rotate_issuer
    <2> QED
      BY <2>1, <2>2
  <1>14. ASSUME NEW i \in IssuerCandidates, finalize_issuer_rotation(i) PROVE Rest'
    BY <1>14 DEF finalize_issuer_rotation
  <1> QED
    BY <1>1, <1>2, <1>3, <1>4, <1>5, <1>6, <1>7, <1>8, <1>9, <1>10, <1>11,
       <1>12, <1>13, <1>14, Zenon DEF AuthorityNext, AuthorityStep

\* The inductive invariant holds in every reachable state.
LEMMA AuthorityInvariance == AuthoritySpec => []AuthorityInv
  BY AuthorityInvInit, AuthorityInvStep, PTL DEF AuthoritySpec, AuthorityStart

\* Every storage key always holds a value of its type.
THEOREM AuthorityTypeCorrect == AuthoritySpec => []AuthorityTypeOK
  <1>1. AuthorityInv => AuthorityTypeOK
    BY DEF AuthorityInv
  <1> QED
    BY <1>1, AuthorityInvariance, PTL

\* No account is ever admin, or about to become admin, while it can sign seals
\* as an active issuer.
THEOREM AdminAndIssuerAreSeparate == AuthoritySpec => []RoleSeparation
  <1>1. AuthorityInv => RoleSeparation
    BY DEF AuthorityInv
  <1> QED
    BY <1>1, AuthorityInvariance, PTL

\* A revoked issuer key has no standing until it is added again: no rotation,
\* finalisation or passing of time restores it.
THEOREM RevocationOutranksGrace == AuthoritySpec => []RevokedNeverVerifiable
  <1>1. AuthorityInv => RevokedNeverVerifiable
    BY DEF AuthorityInv, RevokedHaveNoRecord, RevokedNeverVerifiable,
           is_issuer_verifiable
  <1> QED
    BY <1>1, AuthorityInvariance, PTL

\* No entry point writes an effective council, and time does not make it ineffective.
LEMMA CouncilStep ==
    ASSUME AuthorityTypeOK, [AuthorityNext]_<<now, authorityVars>>, is_council_active
    PROVE  council' = council /\ is_council_active'
  <1>1. council' = council
    BY DEF AuthorityNext, AuthorityStep, init, propose_admin, cancel_admin_transfer,
           accept_admin, add_issuer, update_issuer_metadata, revoke_issuer,
           rotate_issuer, finalize_issuer_rotation, set_admin_council,
           cancel_pending_admin_council, set_timelock_min_delay_secs, is_council_active,
           AuthorityTypeOK, AdminCouncil, adminVars, issuerVars, councilVars, authorityVars
  <1>2. now \in Nat /\ now' \in Nat /\ now <= now'
    BY AuthorityTypeStep DEF AuthorityTypeOK, AuthorityNext, CloseLedger
  <1> QED BY <1>1, <1>2, SMTT(30) DEF is_council_active, AuthorityTypeOK, AdminCouncil

\* Once the council is effective nothing changes or removes it.
THEOREM EffectiveCouncilIsPermanent == AuthoritySpec => ActiveCouncilPermanent
  <1>1. AuthorityInv /\ [AuthorityNext]_<<now, authorityVars>>
            => [is_council_active => council' = council]_<<now, authorityVars>>
    BY CouncilStep DEF AuthorityInv
  <1> QED
    BY <1>1, AuthorityInvariance, PTL DEF AuthoritySpec, ActiveCouncilPermanent

---------------------------------------------------------------------------

\* A timelocked proposal and a council proposal in storage; an argument has the
\* type that the action reads it as.
TimelockProposal ==
    [action : {1, 2, 3, 4, 6}, arg : {i.arg : i \in TimelockInputs}, min_execution_at : Nat,
     executed : BOOLEAN, cancelled : BOOLEAN,
     event : {None, "TimelockProposalExecuted", "TimelockEmergencyExec"}]

CouncilProposal ==
    [action : 1 .. 7, arg : {i.arg : i \in CouncilActionInputs}, proposer : Address,
     expires_at : Nat, approvals : Seq(Address), executed : BOOLEAN, cancelled : BOOLEAN]

ReadsTimelockArg(p) ==
    /\ p.action = 1 => p.arg \in Verifiers
    /\ p.action = 2 => p.arg \in Address
    /\ p.action = 4 => p.arg \in Roots

ReadsCouncilArg(p) ==
    /\ p.action \in {1, 5} => p.arg \in Verifiers
    /\ p.action = 2 => p.arg \in Address

\* No member of the council in force approves twice, nobody else approves, and
\* what is executed has the threshold.
Approved(p) ==
    /\ \A j, k \in DOMAIN p.approvals : p.approvals[j] = p.approvals[k] => j = k
    /\ Range(p.approvals) \subseteq Range(council.members)
    /\ p.executed => Len(p.approvals) >= council.threshold

ProposalsTyped ==
    /\ proposals \in Seq(TimelockProposal)
    /\ \A p \in DOMAIN proposals : ReadsTimelockArg(proposals[p])
    /\ councilProposals \in Seq(CouncilProposal)
    /\ \A p \in DOMAIN councilProposals : ReadsCouncilArg(councilProposals[p])

\* Council proposals exist only under an effective council, which nothing replaces:
\* the members who approved one are the members it is executed for.
CouncilInForce ==
    DOMAIN councilProposals # {} =>
      /\ is_council_active
      /\ \A p \in DOMAIN councilProposals : Approved(councilProposals[p])

GovernanceInv ==
    /\ AuthorityInv
    /\ VerifierTypeOK /\ RotationAgreesWithVerifier
    /\ ProposalsTyped
    /\ count_pending_proposals <= MAX_PENDING_TIMELOCK_PROPOSALS
    /\ CouncilInForce

---------------------------------------------------------------------------
(* The records of proposals.                                               *)

\* What the type of a timelocked proposal says about its fields.
LEMMA TimelockFields ==
    ASSUME NEW q \in TimelockProposal
    PROVE  /\ q.action \in {1, 2, 3, 4, 6} /\ q.min_execution_at \in Nat
           /\ q.executed \in BOOLEAN /\ q.cancelled \in BOOLEAN
  BY DEF TimelockProposal

\* What the type of a council proposal says about its fields.
LEMMA CouncilFields ==
    ASSUME NEW q \in CouncilProposal
    PROVE  /\ q.action \in 1 .. 7 /\ q.expires_at \in Nat /\ q.approvals \in Seq(Address)
           /\ q.executed \in BOOLEAN /\ q.cancelled \in BOOLEAN
  BY DEF CouncilProposal

\* Cancelling or executing a proposal settles it and changes nothing else in it
\* but the event.
LEMMA SettledTimelock ==
    ASSUME NEW q \in TimelockProposal,
           NEW e \in {"TimelockProposalExecuted", "TimelockEmergencyExec"}
    PROVE  /\ Cancelled(q) \in TimelockProposal /\ ~IsOpen(Cancelled(q))
           /\ Cancelled(q).action = q.action /\ Cancelled(q).arg = q.arg
           /\ Executed(q, e) \in TimelockProposal /\ ~IsOpen(Executed(q, e))
           /\ Executed(q, e).executed /\ Executed(q, e).event = e
           /\ Executed(q, e).action = q.action /\ Executed(q, e).arg = q.arg
  BY Zenon DEF TimelockProposal, Cancelled, Executed, IsOpen

\* The same of council proposals, which keep their approvals.
LEMMA SettledCouncil ==
    ASSUME NEW q \in CouncilProposal
    PROVE  /\ Cancelled(q) \in CouncilProposal
           /\ Cancelled(q).action = q.action /\ Cancelled(q).arg = q.arg
           /\ Cancelled(q).approvals = q.approvals /\ Cancelled(q).executed = q.executed
           /\ Carried(q) \in CouncilProposal /\ Carried(q).executed
           /\ Carried(q).action = q.action /\ Carried(q).arg = q.arg
           /\ Carried(q).approvals = q.approvals
  BY Zenon DEF CouncilProposal, Cancelled, Carried

\* An approval adds its caller and changes nothing else.
LEMMA ApprovedCouncil ==
    ASSUME NEW q \in CouncilProposal, NEW a \in Address
    PROVE  /\ ApprovedBy(q, a) \in CouncilProposal
           /\ ApprovedBy(q, a).action = q.action /\ ApprovedBy(q, a).arg = q.arg
           /\ ApprovedBy(q, a).executed = q.executed
           /\ ApprovedBy(q, a).approvals = Append(q.approvals, a)
  <1>1. PICK t \in Seq(Address) : t = q.approvals
    BY CouncilFields
  <1>2. PICK s \in Seq(Address) : s = Append(t, a)
    <2>1. Append(t, a) \in Seq(Address)
      OBVIOUS
    <2> QED BY <2>1, Zenon
  <1>3. ApprovedBy(q, a) = [q EXCEPT !.approvals = s]
    BY <1>1, <1>2 DEF ApprovedBy
  <1> QED BY <1>1, <1>2, <1>3, Zenon DEF CouncilProposal

\* Storage with one more proposal, and storage with one proposal replaced.
LEMMA OneMore ==
    ASSUME NEW S, NEW s \in Seq(S), NEW q \in S, NEW t, t = Append(s, q)
    PROVE  /\ t \in Seq(S) /\ DOMAIN s = 1 .. Len(s)
           /\ DOMAIN t = 1 .. Len(s) + 1 /\ t[Len(s) + 1] = q /\ Len(s) \in Nat
           /\ \A k \in DOMAIN s : k \in DOMAIN t /\ t[k] = s[k]
  OBVIOUS

\* A sequence with one item replaced.
LEMMA OneReplaced ==
    ASSUME NEW S, NEW s \in Seq(S), NEW p \in DOMAIN s, NEW q \in S, NEW t,
           t = [s EXCEPT ![p] = q]
    PROVE  /\ t \in Seq(S) /\ DOMAIN t = DOMAIN s /\ t[p] = q
           /\ \A k \in DOMAIN s : k # p => t[k] = s[k]
  OBVIOUS

---------------------------------------------------------------------------
(* What a step does to the two lists of proposals.                         *)

\* A new open proposal, below the cap, or an open one settled.
TimelockMoves ==
    \/ UNCHANGED proposals
    \/ /\ count_pending_proposals < MAX_PENDING_TIMELOCK_PROPOSALS
       /\ \E q \in TimelockProposal :
            ReadsTimelockArg(q) /\ IsOpen(q) /\ proposals' = Append(proposals, q)
    \/ \E p \in DOMAIN proposals, q \in TimelockProposal :
         /\ IsOpen(proposals[p]) /\ ~IsOpen(q)
         /\ q.action = proposals[p].action /\ q.arg = proposals[p].arg
         /\ proposals' = [proposals EXCEPT ![p] = q]

\* Under an effective council: a new proposal without approvals, an open one that
\* gets the approval of one more member, or an open one settled.
CouncilMoves ==
    \/ UNCHANGED councilProposals
    \/ /\ is_council_active /\ UNCHANGED <<now, council>>
       /\ \/ \E q \in CouncilProposal :
               /\ ReadsCouncilArg(q) /\ q.approvals = <<>> /\ ~q.executed
               /\ councilProposals' = Append(councilProposals, q)
          \/ \E p \in DOMAIN councilProposals, q \in CouncilProposal :
               /\ IsOpen(councilProposals[p])
               /\ q.action = councilProposals[p].action /\ q.arg = councilProposals[p].arg
               /\ councilProposals' = [councilProposals EXCEPT ![p] = q]
               /\ \/ /\ q.approvals = councilProposals[p].approvals
                     /\ q.executed => Len(q.approvals) >= council.threshold
                  \/ /\ ~q.executed
                     /\ \E a \in Range(council.members) \ Range(councilProposals[p].approvals) :
                          q.approvals = Append(councilProposals[p].approvals, a)

\* Every step of the governed contract is one of these for the timelocked proposals.
LEMMA TimelockKinds ==
    ASSUME AuthorityTypeOK, ProposalsTyped, [GovernanceNext]_<<now, governanceVars>>
    PROVE  TimelockMoves
  <1> USE DEF TimelockMoves
  <1>1. ASSUME NEW a \in Address, NEW i \in TimelockInputs, propose_timelocked_action(a, i)
        PROVE  TimelockMoves
    <2> DEFINE q == [action |-> i.action, arg |-> i.arg, min_execution_at |-> now + minDelay,
                     executed |-> FALSE, cancelled |-> FALSE, event |-> None]
    <2>1. now + minDelay \in Nat
      BY AuthorityAssumption DEF AuthorityTypeOK
    <2>2. q \in TimelockProposal /\ IsOpen(q) /\ ReadsTimelockArg(q)
      BY <1>1, <2>1, GovernanceAssumption
      DEF TimelockProposal, IsOpen, ReadsTimelockArg, propose_timelocked_action
    <2> QED BY <1>1, <2>2 DEF propose_timelocked_action
  <1>2. ASSUME NEW p \in DOMAIN proposals, IsOpen(proposals[p]),
               proposals' = [proposals EXCEPT ![p] = Cancelled(@)]
        PROVE  TimelockMoves
    <2>1. proposals[p] \in TimelockProposal
      BY DEF ProposalsTyped
    <2> QED BY <1>2, <2>1, SettledTimelock, Zenon
  <1>3. ASSUME NEW p \in DOMAIN proposals, IsOpen(proposals[p]),
               NEW e \in {"TimelockProposalExecuted", "TimelockEmergencyExec"},
               proposals' = [proposals EXCEPT ![p] = Executed(@, e)]
        PROVE  TimelockMoves
    <2>1. proposals[p] \in TimelockProposal
      BY DEF ProposalsTyped
    <2> QED BY <1>3, <2>1, SettledTimelock, Zenon
  <1>4. CASE UNCHANGED proposals
    BY <1>4
  <1>5. CASE ProposalStep
    BY <1>1, <1>2, <1>4, <1>5, Zenon
    DEF ProposalStep, cancel_timelocked_proposal, propose_council_action,
        approve_council_proposal, cancel_council_proposal
  <1> QED
    BY <1>3, <1>4, <1>5
    DEF GovernanceNext, GovernanceStep, governanceVars, proposalVars,
        execute_timelocked_proposal, emergency_execute_timelock, ExecuteProposal,
        execute_council_proposal

\* Every step of the governed contract is one of these for the council proposals.
LEMMA CouncilKinds ==
    ASSUME AuthorityTypeOK, ProposalsTyped, [GovernanceNext]_<<now, governanceVars>>
    PROVE  CouncilMoves
  <1>p. \A p \in DOMAIN councilProposals : councilProposals[p] \in CouncilProposal
    BY DEF ProposalsTyped
  <1>1. ASSUME NEW a \in Address, NEW i \in CouncilActionInputs, propose_council_action(a, i),
               UNCHANGED <<now, council>>
        PROVE  CouncilMoves
    <2> DEFINE q == [action |-> i.action, arg |-> i.arg, proposer |-> a,
                     expires_at |-> now + DEFAULT_APPROVAL_TTL_SECS, approvals |-> <<>>,
                     executed |-> FALSE, cancelled |-> FALSE]
    <2>1. now + DEFAULT_APPROVAL_TTL_SECS \in Nat
      BY GovernanceAssumption DEF AuthorityTypeOK
    <2>2. q \in CouncilProposal /\ ReadsCouncilArg(q) /\ q.approvals = <<>> /\ ~q.executed
      BY <1>1, <2>1, GovernanceAssumption
      DEF CouncilProposal, ReadsCouncilArg, propose_council_action
    <2> QED BY <1>1, <2>2 DEF propose_council_action, IsMember, CouncilMoves
  <1>2. ASSUME NEW a \in Address, NEW p \in DOMAIN councilProposals,
               approve_council_proposal(a, p), UNCHANGED <<now, council>>
        PROVE  CouncilMoves
    <2> DEFINE q == ApprovedBy(councilProposals[p], a)
    <2>1. /\ is_council_active /\ IsOpen(councilProposals[p])
          /\ a \in Range(council.members) \ Range(councilProposals[p].approvals)
          /\ councilProposals' = [councilProposals EXCEPT ![p] = q]
      BY <1>2 DEF approve_council_proposal, IsMember
    <2>2. /\ q \in CouncilProposal /\ ~q.executed
          /\ q.action = councilProposals[p].action /\ q.arg = councilProposals[p].arg
          /\ q.approvals = Append(councilProposals[p].approvals, a)
      BY <1>p, <2>1, ApprovedCouncil DEF IsOpen
    <2> HIDE DEF q
    <2> QED BY <1>2, <2>1, <2>2, Zenon DEF CouncilMoves
  <1>3. ASSUME NEW a \in Address, NEW p \in DOMAIN councilProposals,
               cancel_council_proposal(a, p), UNCHANGED <<now, council>>
        PROVE  CouncilMoves
    <2>1. ~councilProposals[p].executed
      BY <1>3 DEF cancel_council_proposal, IsOpen
    <2> QED BY <1>p, <1>3, <2>1, SettledCouncil, Zenon DEF cancel_council_proposal, CouncilMoves
  <1>4. ASSUME NEW p \in DOMAIN councilProposals,
               execute_council_proposal(p), UNCHANGED now
        PROVE  CouncilMoves
    <2>1. UNCHANGED council
      BY <1>4 DEF execute_council_proposal, dispatch_council_action, councilVars, authorityVars
    <2> QED BY <1>p, <1>4, <2>1, SettledCouncil, Zenon DEF execute_council_proposal, CouncilMoves
  <1>5. CASE UNCHANGED councilProposals
    BY <1>5 DEF CouncilMoves
  <1>6. CASE ProposalStep /\ UNCHANGED <<now, authorityVars>>
    BY <1>1, <1>2, <1>3, <1>5, <1>6, Zenon
    DEF ProposalStep, propose_timelocked_action, cancel_timelocked_proposal,
        authorityVars, councilVars
  <1> QED
    BY <1>4, <1>5, <1>6
    DEF GovernanceNext, GovernanceStep, governanceVars, proposalVars,
        execute_timelocked_proposal, emergency_execute_timelock, ExecuteProposal

\* Proposals keep their types.
LEMMA ProposalsStayTyped ==
    ASSUME ProposalsTyped, TimelockMoves, CouncilMoves
    PROVE  ProposalsTyped'
  <1> DEFINE G1 == /\ proposals' \in Seq(TimelockProposal)
                    /\ \A p \in DOMAIN proposals' : ReadsTimelockArg(proposals'[p])
  <1>1. G1
    <2>1. CASE UNCHANGED proposals
      BY <2>1 DEF ProposalsTyped
    <2>2. ASSUME NEW q \in TimelockProposal, ReadsTimelockArg(q),
                 proposals' = Append(proposals, q)
          PROVE  G1
      BY <2>2, OneMore DEF ProposalsTyped
    <2>3. ASSUME NEW p \in DOMAIN proposals, NEW q \in TimelockProposal,
                 q.action = proposals[p].action, q.arg = proposals[p].arg,
                 proposals' = [proposals EXCEPT ![p] = q]
          PROVE  G1
      <3>1. ReadsTimelockArg(q)
        BY <2>3 DEF ProposalsTyped, ReadsTimelockArg
      <3>2. /\ proposals' \in Seq(TimelockProposal) /\ DOMAIN proposals' = DOMAIN proposals
            /\ proposals'[p] = q /\ \A k \in DOMAIN proposals : k # p => proposals'[k] = proposals[k]
        BY <2>3, OneReplaced DEF ProposalsTyped
      <3>3. ASSUME NEW k \in DOMAIN proposals PROVE ReadsTimelockArg(proposals'[k])
        BY <3>1, <3>2 DEF ProposalsTyped
      <3> QED BY <3>2, <3>3
    <2> QED BY <2>1, <2>2, <2>3 DEF TimelockMoves
  <1> DEFINE G2 == /\ councilProposals' \in Seq(CouncilProposal)
                    /\ \A p \in DOMAIN councilProposals' : ReadsCouncilArg(councilProposals'[p])
  <1>2. G2
    <2>1. CASE UNCHANGED councilProposals
      BY <2>1 DEF ProposalsTyped
    <2>2. ASSUME NEW q \in CouncilProposal, ReadsCouncilArg(q),
                 councilProposals' = Append(councilProposals, q)
          PROVE  G2
      BY <2>2, OneMore DEF ProposalsTyped
    <2>3. ASSUME NEW p \in DOMAIN councilProposals, NEW q \in CouncilProposal,
                 q.action = councilProposals[p].action, q.arg = councilProposals[p].arg,
                 councilProposals' = [councilProposals EXCEPT ![p] = q]
          PROVE  G2
      <3>1. ReadsCouncilArg(q)
        BY <2>3 DEF ProposalsTyped, ReadsCouncilArg
      <3>2. /\ councilProposals' \in Seq(CouncilProposal) /\ DOMAIN councilProposals' = DOMAIN councilProposals
            /\ councilProposals'[p] = q /\ \A k \in DOMAIN councilProposals : k # p => councilProposals'[k] = councilProposals[k]
        BY <2>3, OneReplaced DEF ProposalsTyped
      <3>3. ASSUME NEW k \in DOMAIN councilProposals PROVE ReadsCouncilArg(councilProposals'[k])
        BY <3>1, <3>2 DEF ProposalsTyped
      <3> QED BY <3>2, <3>3
    <2> QED BY <2>1, <2>2, <2>3 DEF CouncilMoves
  <1> QED BY <1>1, <1>2 DEF ProposalsTyped

\* A settled proposal is left alone.
LEMMA SettledStays ==
    ASSUME ProposalsTyped, TimelockMoves, CouncilMoves
    PROVE  SettledIsFinal
  <1>1. ASSUME NEW k \in DOMAIN proposals, ~IsOpen(proposals[k])
        PROVE  proposals'[k] = proposals[k]
    <2>1. ASSUME NEW q \in TimelockProposal, proposals' = Append(proposals, q)
          PROVE  proposals'[k] = proposals[k]
      BY <2>1, OneMore DEF ProposalsTyped
    <2>2. ASSUME NEW p \in DOMAIN proposals, NEW q \in TimelockProposal, IsOpen(proposals[p]),
                 proposals' = [proposals EXCEPT ![p] = q]
          PROVE  proposals'[k] = proposals[k]
      BY <1>1, <2>2, OneReplaced DEF ProposalsTyped
    <2> QED BY <2>1, <2>2 DEF TimelockMoves
  <1>2. ASSUME NEW k \in DOMAIN councilProposals, ~IsOpen(councilProposals[k])
        PROVE  councilProposals'[k] = councilProposals[k]
    <2>1. ASSUME NEW q \in CouncilProposal, councilProposals' = Append(councilProposals, q)
          PROVE  councilProposals'[k] = councilProposals[k]
      BY <2>1, OneMore DEF ProposalsTyped
    <2>2. ASSUME NEW p \in DOMAIN councilProposals, NEW q \in CouncilProposal,
                 IsOpen(councilProposals[p]),
                 councilProposals' = [councilProposals EXCEPT ![p] = q]
          PROVE  councilProposals'[k] = councilProposals[k]
      BY <1>2, <2>2, OneReplaced DEF ProposalsTyped
    <2> QED BY <2>1, <2>2 DEF CouncilMoves
  <1> QED BY <1>1, <1>2 DEF SettledIsFinal

\* The number of pending proposals never exceeds the cap.
LEMMA PendingStaysCapped ==
    ASSUME ProposalsTyped, TimelockMoves,
           count_pending_proposals <= MAX_PENDING_TIMELOCK_PROPOSALS
    PROVE  count_pending_proposals' <= MAX_PENDING_TIMELOCK_PROPOSALS
  <1> DEFINE Open == {k \in DOMAIN proposals : IsOpen(proposals[k])}
             Next == {k \in DOMAIN proposals' : IsOpen(proposals'[k])}
  <1>1. IsFiniteSet(Open) /\ Cardinality(Open) \in Nat
    <2>1. IsFiniteSet(DOMAIN proposals)
      BY FS_Interval DEF ProposalsTyped
    <2> QED BY <2>1, FS_Subset, FS_CardinalityType
  <1>2. count_pending_proposals = Cardinality(Open) /\ count_pending_proposals' = Cardinality(Next)
    BY DEF count_pending_proposals
  <1>3. CASE UNCHANGED proposals
    BY <1>2, <1>3
  <1>4. ASSUME NEW q \in TimelockProposal, proposals' = Append(proposals, q),
               Cardinality(Open) < MAX_PENDING_TIMELOCK_PROPOSALS
        PROVE  Cardinality(Next) <= MAX_PENDING_TIMELOCK_PROPOSALS
    <2>1. Next \subseteq Open \cup {Len(proposals) + 1}
      BY <1>4, OneMore DEF ProposalsTyped
    <2> DEFINE More == Open \cup {Len(proposals) + 1}
    <2>2. /\ IsFiniteSet(More)
          /\ Cardinality(More) \in {Cardinality(Open), Cardinality(Open) + 1}
      BY <1>1, FS_AddElement, Zenon
    <2> HIDE DEF More
    <2>3. Cardinality(Next) \in Nat /\ Cardinality(Next) <= Cardinality(More)
      BY <2>1, <2>2, FS_Subset, FS_CardinalityType DEF More
    <2> HIDE DEF Open, Next
    <2> QED BY <1>1, <1>4, <2>2, <2>3, GovernanceAssumption
  <1>5. ASSUME NEW p \in DOMAIN proposals, NEW q \in TimelockProposal, ~IsOpen(q),
               proposals' = [proposals EXCEPT ![p] = q]
        PROVE  Cardinality(Next) <= MAX_PENDING_TIMELOCK_PROPOSALS
    <2>1. Next \subseteq Open
      BY <1>5, OneReplaced DEF ProposalsTyped
    <2>2. Cardinality(Next) \in Nat /\ Cardinality(Next) <= Cardinality(Open)
      BY <1>1, <2>1, FS_Subset, FS_CardinalityType
    <2> QED BY <1>1, <1>2, <2>2, GovernanceAssumption
  <1> QED BY <1>2, <1>3, <1>4, <1>5 DEF TimelockMoves

\* A sequence without repetitions has as many elements as places.
LEMMA DistinctCount ==
    ASSUME NEW S, NEW s \in Seq(S), \A j, k \in DOMAIN s : s[j] = s[k] => j = k
    PROVE  Cardinality(Range(s)) = Len(s)
  <1>1. s \in Bijection(1 .. Len(s), Range(s))
    BY DEF Bijection, Injection, Surjection, Range, IsInjective
  <1>2. IsFiniteSet(1 .. Len(s)) /\ Cardinality(1 .. Len(s)) = Len(s)
    <2>1. Len(s) \in Nat
      OBVIOUS
    <2>2. PICK n \in Nat : n = Len(s)
      BY <2>1, Zenon
    <2>3. IsFiniteSet(1 .. n) /\ Cardinality(1 .. n) = n
      BY FS_Interval
    <2> QED BY <2>2, <2>3
  <1>3. ExistsBijection(1 .. Len(s), Range(s))
    BY <1>1, Zenon DEF ExistsBijection
  <1>4. Cardinality(Range(s)) = Cardinality(1 .. Len(s))
    BY <1>2, <1>3, FS_Bijection, Zenon
  <1> QED BY <1>2, <1>4

\* The council that approvals were gathered from stays, and with it what they mean.
LEMMA CouncilStaysInForce ==
    ASSUME AuthorityTypeOK, ProposalsTyped, CouncilInForce, CouncilMoves,
           is_council_active => council' = council /\ is_council_active'
    PROVE  CouncilInForce'
  <1>1. CASE UNCHANGED councilProposals
    BY <1>1 DEF CouncilInForce, Approved
  <1>2. ASSUME is_council_active, UNCHANGED council, NEW q \in CouncilProposal,
               q.approvals = <<>>, ~q.executed, councilProposals' = Append(councilProposals, q)
        PROVE  CouncilInForce'
    <2>1. Approved(q)'
      BY <1>2 DEF Approved, Range
    <2>2. ASSUME NEW k \in DOMAIN councilProposals' PROVE Approved(councilProposals[k])'
      <3>1. CASE k \in DOMAIN councilProposals
        <4>1. Approved(councilProposals[k]) /\ councilProposals'[k] = councilProposals[k]
          BY <1>2, <3>1, OneMore DEF CouncilInForce, ProposalsTyped
        <4> QED BY <1>2, <4>1 DEF Approved
      <3>2. CASE k \notin DOMAIN councilProposals
        <4>1. councilProposals'[k] = q
          BY <1>2, <3>2, OneMore DEF ProposalsTyped
        <4> QED BY <2>1, <4>1
      <3> QED BY <3>1, <3>2
    <2> QED BY <1>2, <2>2 DEF CouncilInForce
  <1>3. ASSUME is_council_active, UNCHANGED council,
               NEW p \in DOMAIN councilProposals, NEW q \in CouncilProposal,
               Approved(q), councilProposals' = [councilProposals EXCEPT ![p] = q]
        PROVE  CouncilInForce'
    <2>1. /\ DOMAIN councilProposals' = DOMAIN councilProposals
          /\ councilProposals'[p] = q
          /\ \A k \in DOMAIN councilProposals : k # p => councilProposals'[k] = councilProposals[k]
      BY <1>3, OneReplaced DEF ProposalsTyped
    <2>2. ASSUME NEW k \in DOMAIN councilProposals PROVE Approved(councilProposals'[k])
      BY <1>3, <2>1, <2>2 DEF CouncilInForce
    <2> QED BY <1>3, <2>1, <2>2 DEF CouncilInForce, Approved
  <1>4. ASSUME is_council_active, NEW p \in DOMAIN councilProposals, NEW q \in CouncilProposal,
               q.approvals = councilProposals[p].approvals,
               q.executed => Len(q.approvals) >= council.threshold
        PROVE  Approved(q)
    BY <1>4 DEF CouncilInForce, Approved
  <1>5. ASSUME is_council_active, NEW p \in DOMAIN councilProposals, NEW q \in CouncilProposal,
               ~q.executed,
               NEW a \in Range(council.members) \ Range(councilProposals[p].approvals),
               q.approvals = Append(councilProposals[p].approvals, a)
        PROVE  Approved(q)
    <2>1. Approved(councilProposals[p]) /\ councilProposals[p].approvals \in Seq(Address)
      BY CouncilFields DEF CouncilInForce, ProposalsTyped
    <2>2. PICK s \in Seq(Address) : s = councilProposals[p].approvals
      BY <2>1
    <2>3. PICK t : t = q.approvals
      OBVIOUS
    <2>4. t = Append(s, a) /\ a \notin Range(s) /\ \A j, k \in DOMAIN s : s[j] = s[k] => j = k
      BY <1>5, <2>1, <2>2, <2>3 DEF Approved
    <2>5. \A j, k \in DOMAIN t : t[j] = t[k] => j = k
      BY <2>4 DEF Range
    <2>6. Range(t) \subseteq Range(s) \cup {a}
      BY <2>4 DEF Range
    <2> QED BY <1>5, <2>1, <2>2, <2>3, <2>5, <2>6 DEF Approved
  <1> QED BY <1>1, <1>2, <1>3, <1>4, <1>5 DEF CouncilMoves

\* Distinct approvals of members, as many as the threshold, are a quorum.
LEMMA ApprovedIsQuorum ==
    ASSUME AuthorityTypeOK, ProposalsTyped, CouncilInForce
    PROVE  ExecutedHadQuorum
  <1> SUFFICES ASSUME NEW p \in DOMAIN councilProposals, councilProposals[p].executed
               PROVE  /\ council # None
                      /\ Cardinality(Range(council.members)
                                       \cap Range(councilProposals[p].approvals))
                           >= council.threshold
    BY DEF ExecutedHadQuorum
  <1>1. /\ council # None
        /\ Approved(councilProposals[p])
        /\ councilProposals[p].approvals \in Seq(Address)
    BY CouncilFields DEF CouncilInForce, ProposalsTyped, is_council_active
  <1>2. Range(council.members) \cap Range(councilProposals[p].approvals)
          = Range(councilProposals[p].approvals)
    BY <1>1 DEF Approved
  <1>3. Cardinality(Range(councilProposals[p].approvals)) = Len(councilProposals[p].approvals)
    BY <1>1, DistinctCount DEF Approved
  <1> QED BY <1>1, <1>2, <1>3, Zenon DEF Approved

---------------------------------------------------------------------------
(* What a step does to the state that proposals write.                     *)

AuthorityMoves ==
    \/ [AuthorityNext]_<<now, authorityVars>>
    \/ /\ schemaVersion' = 2
       /\ UNCHANGED <<now, admin, pendingAdmin, issuerVars, councilVars>>
    \/ /\ \E i \in Address : RevokeIssuerEffect(i)
       /\ UNCHANGED <<now, adminVars, councilVars>>

\* Every step of the governed contract is one of these for the authority.
LEMMA AuthorityKinds ==
    ASSUME ProposalsTyped, [GovernanceNext]_<<now, governanceVars>>
    PROVE  AuthorityMoves
  <1>1. CASE UNCHANGED <<now, authorityVars>>
    BY <1>1 DEF AuthorityMoves
  <1>2. CASE CloseLedger /\ UNCHANGED governanceVars
    BY <1>2 DEF AuthorityMoves, AuthorityNext, governanceVars
  <1>3. CASE AuthorityStep /\ UNCHANGED now
    BY <1>3 DEF AuthorityMoves, AuthorityNext
  <1>4. ASSUME NEW a \in Address, upgrade_storage(a), UNCHANGED now PROVE AuthorityMoves
    BY <1>4, Zenon DEF AuthorityMoves, upgrade_storage
  <1>5. ASSUME NEW p \in DOMAIN proposals, dispatch_timelocked_action(proposals[p]), UNCHANGED now
        PROVE  AuthorityMoves
    <2>1. ReadsTimelockArg(proposals[p])
      BY SMTT(30) DEF ProposalsTyped
    <2> QED BY <1>1, <1>5, <2>1, Zenon DEF AuthorityMoves, dispatch_timelocked_action, ReadsTimelockArg
  <1>6. ASSUME NEW p \in DOMAIN councilProposals, UNCHANGED now,
               dispatch_council_action(councilProposals[p])
        PROVE  AuthorityMoves
    <2>1. ReadsCouncilArg(councilProposals[p])
      BY ZenonT(30) DEF ProposalsTyped
    <2> QED BY <1>1, <1>6, <2>1, Zenon DEF AuthorityMoves, dispatch_council_action, ReadsCouncilArg
  <1> QED
    BY <1>1, <1>2, <1>3, <1>4, <1>5, <1>6
    DEF GovernanceNext, GovernanceStep, governanceVars, execute_timelocked_proposal,
        emergency_execute_timelock, ExecuteProposal, execute_council_proposal

\* A governed revocation keeps the roles apart as revoke_issuer does.
LEMMA GovernedAuthority ==
    ASSUME AuthorityInv, AuthorityMoves
    PROVE  AuthorityInv' /\ (is_council_active => council' = council /\ is_council_active')
  <1>1. CASE [AuthorityNext]_<<now, authorityVars>>
    BY <1>1, AuthorityInvStep, CouncilStep DEF AuthorityInv
  <1> USE DEF AuthorityInv, AuthorityTypeOK, NoRolesBeforeInit, RoleSeparation,
              GraceOnlyForRetired, RevokedHaveNoRecord, is_active_issuer, is_council_active,
              adminVars, issuerVars, councilVars, authorityVars
  <1>2. CASE /\ schemaVersion' = 2
             /\ UNCHANGED <<now, admin, pendingAdmin, issuerVars, councilVars>>
    BY <1>2
  <1>3. ASSUME NEW i \in Address, RevokeIssuerEffect(i), UNCHANGED <<now, adminVars, councilVars>>
        PROVE  AuthorityInv'
    <2>1. /\ issuer[i] \in IssuerRecord /\ admin # None
          /\ UNCHANGED <<now, adminVars, councilVars>>
      BY <1>3 DEF RevokeIssuerEffect
    <2>2. /\ issuer'[i] # None /\ ~issuer'[i].active /\ issuer'[i] \in IssuerRecord
          /\ rotation'[i] = None
          /\ revoked' = revoked \cup {i}
          /\ \A k \in Address \ {i} : issuer'[k] = issuer[k] /\ rotation'[k] = rotation[k]
      BY <1>3, <2>1, RetiredRecord DEF RevokeIssuerEffect
    <2>3. /\ issuer' \in [Address -> IssuerRecord \cup {None}]
          /\ rotation' \in [Address -> IssuerRotationRecord \cup {None}]
      BY <1>3, <2>1, <2>2 DEF RevokeIssuerEffect
    <2>4. AuthorityTypeOK'
      BY <2>1, <2>2, <2>3
    <2>5. RoleSeparation' /\ NoRolesBeforeInit'
      BY <2>1, <2>2
    <2>6. GraceOnlyForRetired' /\ RevokedHaveNoRecord'
      BY <2>1, <2>2
    <2> QED BY <2>4, <2>5, <2>6
  <1> QED BY <1>1, <1>2, <1>3 DEF AuthorityMoves

\* The effects a step can have on the verifier, whoever brings them about.
VerifierMoves ==
    \/ UNCHANGED verifierVars
    \/ /\ UNCHANGED <<verifier, verifierState>>
       /\ versions' \in VerifierCircuitVersions
    \/ /\ verifier' \in Verifiers /\ verifierState' = None
       /\ versions' \in {versions, None}
    \/ \E v \in Verifiers, l, w \in Nat : ScheduleEffect(v, l, w)
    \/ ActivateEffect

\* Every step of the governed contract is one of these for the verifier.
LEMMA VerifierKinds ==
    ASSUME VerifierTypeOK, ProposalsTyped, [GovernanceNext]_<<now, governanceVars>>
    PROVE  VerifierMoves
  <1>1. CASE UNCHANGED verifierVars
    BY <1>1 DEF VerifierMoves
  <1>2. ASSUME RollbackEffect PROVE VerifierMoves
    <2>1. verifierState.previous_verifier \in Verifiers
      BY <1>2 DEF RollbackEffect, VerifierTypeOK, VerifierState
    <2> QED BY <1>2, <2>1 DEF RollbackEffect, ReplaceVerifier, VerifierMoves
  <1>3. ASSUME NEW a \in Address, NEW w \in WindowInputs, set_verifier_circuit_versions(a, w)
        PROVE  VerifierMoves
    <2>1. versions' \in VerifierCircuitVersions
      BY <1>3, VerifierAssumption
      DEF set_verifier_circuit_versions, VerifierCircuitVersions, SupportedVersions, VerifierTypeOK
    <2> QED BY <1>3, <2>1 DEF set_verifier_circuit_versions, VerifierMoves
  <1>4. ASSUME VerifierStep PROVE VerifierMoves
    <2>1. ASSUME NEW a \in Address, NEW v \in Verifiers, set_verifier(a, v)
          PROVE  VerifierMoves
      BY <2>1 DEF set_verifier, ReplaceVerifier, VerifierMoves
    <2>2. ASSUME NEW a \in Address, NEW v \in Verifiers, NEW l \in ActivationInputs,
                 NEW w \in RollbackInputs, schedule_verifier_rotation(a, v, l, w)
          PROVE  VerifierMoves
      BY <2>2, VerifierAssumption, ZenonT(30) DEF schedule_verifier_rotation, VerifierMoves
    <2> QED
      BY <1>2, <1>3, <1>4, <2>1, <2>2
      DEF VerifierStep, activate_verifier_rotation, rollback_verifier_rotation, VerifierMoves
  <1>5. ASSUME NEW p \in DOMAIN proposals, dispatch_timelocked_action(proposals[p])
        PROVE  VerifierMoves
    <2>1. ReadsTimelockArg(proposals[p])
      BY ZenonT(30) DEF ProposalsTyped
    <2> QED
      BY <1>1, <1>5, <2>1
      DEF dispatch_timelocked_action, ReadsTimelockArg, VerifierMoves
  <1>6. ASSUME NEW p \in DOMAIN councilProposals, dispatch_council_action(councilProposals[p])
        PROVE  VerifierMoves
    <2>1. ReadsCouncilArg(councilProposals[p])
      BY Zenon DEF ProposalsTyped
    <2> QED
      BY <1>1, <1>2, <1>6, <2>1
      DEF dispatch_council_action, ReadsCouncilArg, ReplaceVerifier, VerifierMoves
  <1> QED
    BY <1>1, <1>4, <1>5, <1>6
    DEF GovernanceNext, GovernanceStep, governanceVars, execute_timelocked_proposal,
        emergency_execute_timelock, ExecuteProposal, execute_council_proposal

\* A rotation is scheduled from the verifier in force and activated to the one it
\* names; whatever else writes the verifier drops the rotation.
LEMMA RotationStaysInStep ==
    ASSUME VerifierTypeOK, RotationAgreesWithVerifier, VerifierMoves, now \in Nat
    PROVE  VerifierTypeOK' /\ RotationAgreesWithVerifier'
  <1> USE DEF VerifierTypeOK, RotationAgreesWithVerifier, verifierVars
  <1>1. ASSUME NEW v \in Verifiers, NEW l \in Nat, NEW w \in Nat, ScheduleEffect(v, l, w)
        PROVE  VerifierTypeOK' /\ RotationAgreesWithVerifier'
    <2>1. verifierState' \in VerifierState
      BY <1>1, SMTT(30) DEF ScheduleEffect, VerifierState
    <2>2. verifierState'.active_verifier = verifier' /\ verifierState'.previous_verifier = verifier'
      BY <1>1 DEF ScheduleEffect
    <2> QED BY <1>1, <2>1, <2>2, Zenon DEF ScheduleEffect
  <1>2. ASSUME ActivateEffect PROVE VerifierTypeOK' /\ RotationAgreesWithVerifier'
    <2>1. /\ verifierState \in VerifierState
          /\ verifierState.pending_verifier \in Verifiers
          /\ now + verifierState.rollback_window \in Nat
      BY <1>2 DEF ActivateEffect, VerifierState
    <2>2. /\ verifierState' \in VerifierState
          /\ verifierState'.active_verifier = verifierState.pending_verifier
          /\ verifierState'.pending_verifier = None
      BY <1>2, <2>1, ZenonT(30) DEF ActivateEffect, VerifierState
    <2> QED BY <1>2, <2>1, <2>2 DEF ActivateEffect
  <1>3. CASE UNCHANGED verifierVars
    BY <1>3
  <1>4. CASE UNCHANGED <<verifier, verifierState>> /\ versions' \in VerifierCircuitVersions
    BY <1>4
  <1>5. CASE /\ verifier' \in Verifiers /\ verifierState' = None
             /\ versions' \in {versions, None}
    BY <1>5
  <1> QED BY <1>1, <1>2, <1>3, <1>4, <1>5, Zenon DEF VerifierMoves

---------------------------------------------------------------------------
(* What only a proposal that was due may do.                               *)

\* With a council in force, the verifier changes and issuers are revoked only by a
\* council proposal or by an emergency execution.
LEMMA GuardedByCouncil ==
    ASSUME ProposalsTyped, [GovernanceNext]_<<now, governanceVars>>
    PROVE  CouncilGuardsItsDomain
  <1> DEFINE Quiet == UNCHANGED <<verifier, verifierState>> /\ revoked' \subseteq revoked
  <1> SUFFICES ASSUME is_council_active
               PROVE  Quiet \/ CouncilExecutes \/ EmergencyExecutes
    BY DEF CouncilGuardsItsDomain
  <1>1. CASE UNCHANGED <<authorityVars, verifierVars>>
    BY <1>1 DEF authorityVars, issuerVars, verifierVars
  <1>2. CASE AuthorityStep /\ UNCHANGED verifierVars
    BY <1>2, Zenon
    DEF AuthorityStep, init, propose_admin, cancel_admin_transfer, accept_admin, add_issuer,
        update_issuer_metadata, revoke_issuer, rotate_issuer, finalize_issuer_rotation,
        set_admin_council, cancel_pending_admin_council, set_timelock_min_delay_secs,
        issuerVars, verifierVars
  <1>3. CASE VerifierStep /\ UNCHANGED authorityVars
    BY <1>3
    DEF VerifierStep, set_verifier, set_verifier_circuit_versions, schedule_verifier_rotation,
        activate_verifier_rotation, rollback_verifier_rotation, SingleAdminMay,
        authorityVars, issuerVars
  <1>4. ASSUME NEW a \in Address, upgrade_storage(a), UNCHANGED verifierVars PROVE Quiet
    BY <1>4 DEF upgrade_storage, issuerVars, verifierVars
  <1>5. ASSUME NEW p \in DOMAIN proposals, execute_timelocked_proposal(p) PROVE Quiet
    BY <1>5, Zenon
    DEF execute_timelocked_proposal, ExecuteProposal, dispatch_timelocked_action,
        authorityVars, issuerVars, verifierVars
  <1>6. ASSUME NEW p \in DOMAIN proposals, NEW a \in Address, emergency_execute_timelock(a, p)
        PROVE  EmergencyExecutes
    <2>1. proposals[p] \in TimelockProposal
      BY DEF ProposalsTyped
    <2>2. proposals'[p] = Executed(proposals[p], "TimelockEmergencyExec")
      BY <1>6, Zenon DEF emergency_execute_timelock, ExecuteProposal, ProposalsTyped
    <2>3. ~proposals[p].executed
      BY <1>6, ZenonT(30) DEF emergency_execute_timelock, IsOpen
    <2> QED BY <2>1, <2>2, <2>3, SettledTimelock DEF EmergencyExecutes
  <1>7. ASSUME NEW p \in DOMAIN councilProposals, execute_council_proposal(p)
        PROVE  CouncilExecutes
    <2>1. councilProposals[p] \in CouncilProposal
      BY DEF ProposalsTyped
    <2>2. councilProposals'[p] = Carried(councilProposals[p])
      BY <1>7 DEF execute_council_proposal, ProposalsTyped
    <2>3. ~councilProposals[p].executed
      BY <1>7 DEF execute_council_proposal, IsOpen
    <2> QED BY <2>1, <2>2, <2>3, SettledCouncil DEF CouncilExecutes
  <1> QED
    BY <1>1, <1>2, <1>3, <1>4, <1>5, <1>6, <1>7
    DEF GovernanceNext, GovernanceStep, governanceVars

\* The contract's code changes only when an open upgrade proposal whose delay has
\* passed is executed.
LEMMA CodeWaits ==
    ASSUME ProposalsTyped, AuthorityTypeOK, [GovernanceNext]_<<now, governanceVars>>
    PROVE  UpgradeWaitsForDelay
  <1> SUFFICES ASSUME wasmHash' # wasmHash
               PROVE  \E p \in DOMAIN proposals :
                        /\ proposals[p].action = 6
                        /\ IsOpen(proposals[p]) /\ proposals'[p].executed
                        /\ proposals[p].min_execution_at <= now
    BY Zenon DEF UpgradeWaitsForDelay
  <1>1. PICK p \in DOMAIN proposals :
          execute_timelocked_proposal(p) \/ \E a \in Address : emergency_execute_timelock(a, p)
    BY ZenonT(30) DEF GovernanceNext, GovernanceStep, governanceVars, proposalVars, ProposalStep,
           propose_timelocked_action, cancel_timelocked_proposal, propose_council_action,
           approve_council_proposal, cancel_council_proposal, execute_council_proposal
  <1>2. /\ proposals[p].action = 6 /\ IsOpen(proposals[p])
        /\ execute_timelocked_proposal(p)
    BY <1>1
    DEF execute_timelocked_proposal, emergency_execute_timelock, ExecuteProposal,
        dispatch_timelocked_action
  <1>3. proposals[p] \in TimelockProposal
    BY DEF ProposalsTyped
  <1>4. proposals'[p] = Executed(proposals[p], "TimelockProposalExecuted")
    BY <1>2 DEF execute_timelocked_proposal, ExecuteProposal, ProposalsTyped
  <1>5. proposals'[p].executed
    BY <1>3, <1>4, SettledTimelock
  <1>6. proposals[p].min_execution_at <= now
    BY <1>2, <1>3, TimelockFields, ZenonT(30) DEF execute_timelocked_proposal, AuthorityTypeOK
  <1> QED BY <1>2, <1>5, <1>6

---------------------------------------------------------------------------

\* The invariant holds when the contract is deployed.
LEMMA GovernanceInvInit == GovernanceStart => GovernanceInv
  <1> SUFFICES ASSUME GovernanceStart PROVE GovernanceInv
    OBVIOUS
  <1>1. AuthorityInv
    BY AuthorityInvInit DEF GovernanceStart, AuthorityStart
  <1>2. VerifierTypeOK /\ RotationAgreesWithVerifier
    BY DEF GovernanceStart, VerifierInit, VerifierTypeOK, RotationAgreesWithVerifier
  <1>3. proposals = <<>> /\ councilProposals = <<>>
    BY DEF GovernanceStart, GovernanceInit
  <1>4. ProposalsTyped /\ CouncilInForce
    BY <1>3 DEF ProposalsTyped, CouncilInForce
  <1>5. count_pending_proposals = 0
    BY <1>3, FS_EmptySet DEF count_pending_proposals
  <1> QED BY <1>1, <1>2, <1>4, <1>5, GovernanceAssumption DEF GovernanceInv

\* The invariant is inductive, and every step is one that ProposalsAreHonoured allows.
LEMMA GovernanceInvStep ==
    ASSUME GovernanceInv, [GovernanceNext]_<<now, governanceVars>>
    PROVE  /\ GovernanceInv'
           /\ count_pending_proposals' <= MAX_PENDING_TIMELOCK_PROPOSALS
           /\ SettledIsFinal /\ CouncilGuardsItsDomain /\ UpgradeWaitsForDelay
  <1>1. AuthorityTypeOK /\ now \in Nat
    BY DEF GovernanceInv, AuthorityInv, AuthorityTypeOK
  <1>2. TimelockMoves /\ CouncilMoves
    BY <1>1, TimelockKinds, CouncilKinds DEF GovernanceInv
  <1>3. ProposalsTyped' /\ SettledIsFinal
    BY <1>2, ProposalsStayTyped, SettledStays DEF GovernanceInv
  <1>4. count_pending_proposals' <= MAX_PENDING_TIMELOCK_PROPOSALS
    BY <1>2, PendingStaysCapped DEF GovernanceInv
  <1>5. AuthorityInv' /\ (is_council_active => council' = council /\ is_council_active')
    BY AuthorityKinds, GovernedAuthority DEF GovernanceInv
  <1>6. CouncilInForce'
    BY <1>1, <1>2, <1>5, CouncilStaysInForce DEF GovernanceInv
  <1>7. VerifierTypeOK' /\ RotationAgreesWithVerifier'
    BY <1>1, VerifierKinds, RotationStaysInStep DEF GovernanceInv
  <1>8. CouncilGuardsItsDomain /\ UpgradeWaitsForDelay
    BY <1>1, GuardedByCouncil, CodeWaits DEF GovernanceInv
  <1> QED BY <1>3, <1>4, <1>5, <1>6, <1>7, <1>8 DEF GovernanceInv

\* The invariant holds in every behaviour of the governed contract.
LEMMA GovernanceInvariance == GovernanceSpec => []GovernanceInv
  BY GovernanceInvInit, GovernanceInvStep, PTL DEF GovernanceSpec

\* Whatever the admin, timelocked proposals and council proposals do to the verifier in
\* whatever order, the rotation record agrees with the verifier registrations use.
THEOREM RotationNeverDisagrees ==
    GovernanceSpec => [](VerifierTypeOK /\ RotationAgreesWithVerifier)
  <1>1. GovernanceInv => VerifierTypeOK /\ RotationAgreesWithVerifier
    BY DEF GovernanceInv
  <1> QED BY <1>1, GovernanceInvariance, PTL

\* execute_council_proposal compares the number of approvals with the threshold of the
\* council it finds: they are approvals of that many different members of it.
THEOREM ExecutionHadQuorum == GovernanceSpec => []ExecutedHadQuorum
  <1>1. GovernanceInv => ExecutedHadQuorum
    BY ApprovedIsQuorum DEF GovernanceInv, AuthorityInv
  <1> QED BY <1>1, GovernanceInvariance, PTL

\* The cap on pending proposals, the finality of settled ones, the council's hold on
\* verifier and issuers and the delay of code upgrades survive every race of the paths.
THEOREM GovernanceHonoursProposals == GovernanceSpec => ProposalsAreHonoured
  <1>1. GovernanceInv /\ [GovernanceNext]_<<now, governanceVars>>
          => [/\ count_pending_proposals' <= MAX_PENDING_TIMELOCK_PROPOSALS
              /\ SettledIsFinal
              /\ CouncilGuardsItsDomain
              /\ UpgradeWaitsForDelay]_<<now, governanceVars>>
    BY GovernanceInvStep
  <1> QED BY <1>1, GovernanceInvariance, PTL DEF GovernanceSpec, ProposalsAreHonoured

\* Revocations by proposal neither put an issuer back nor make the admin one.
THEOREM GovernedRolesStaySeparate ==
    GovernanceSpec => [](RoleSeparation /\ RevokedNeverVerifiable)
  <1>1. GovernanceInv => RoleSeparation /\ RevokedNeverVerifiable
    BY ZenonT(30) DEF GovernanceInv, AuthorityInv, RevokedHaveNoRecord, RevokedNeverVerifiable,
           is_issuer_verifiable
  <1> QED BY <1>1, GovernanceInvariance, PTL

---------------------------------------------------------------------------
(* Credential roots.                                                       *)

RootsTyped ==
    /\ rootV2 \in [Roots -> CredentialRootRecord \cup {None}]
    /\ rootV1 \in [Roots -> CredentialRootRecordV1 \cup {None}]

\* Adding, revoking and expiring a root write a root record under the current layout,
\* also when the record they read is a legacy one.
LEMMA RootsStayTyped ==
    ASSUME RootsTyped, ProposalsTyped, AuthorityTypeOK, [GovernanceNext]_<<now, governanceVars>>
    PROVE  RootsTyped'
  <1> USE DEF RootsTyped
  <1>1. CASE UNCHANGED <<rootV2, rootV1>>
    BY <1>1
  <1>2. ASSUME NEW r \in Roots, NEW s \in {STATUS_REGISTERED, STATUS_REVOKED, STATUS_EXPIRED},
               NEW e \in Nat, rootV2' = [rootV2 EXCEPT ![r] = [status |-> s, expires_at |-> e]],
               UNCHANGED rootV1
        PROVE  RootsTyped'
    BY <1>2 DEF CredentialRootRecord
  <1>3. ASSUME NEW r \in Roots, RevokeRootEffect(r) PROVE RootsTyped'
    <2>1. get_credential_root_record_opt(r).expires_at \in Nat
      BY <1>3 DEF RevokeRootEffect, SetRootStatus, get_credential_root_record_opt, CredentialRootRecord
    <2> QED BY <1>2, <1>3, <2>1, Zenon DEF RevokeRootEffect, SetRootStatus
  <1>4. ASSUME NEW a \in Address, NEW r \in Roots, add_credential_root(a, r) PROVE RootsTyped'
    BY <1>2, <1>4, Zenon DEF add_credential_root
  <1>5. ASSUME NEW a \in Address, NEW r \in Roots, expire_credential_root(a, r) PROVE RootsTyped'
    BY <1>2, <1>5, Zenon DEF expire_credential_root, SetRootStatus, AuthorityTypeOK
  <1>6. CASE CredentialsStep
    BY <1>1, <1>3, <1>4, <1>5, <1>6, Zenon
    DEF CredentialsStep, revoke_credential_root, stage_credential_roots_for_backfill,
        set_proof_ttl, set_scope_epoch, set_revocation_root, rootVars
  <1>7. ASSUME NEW p \in DOMAIN proposals, dispatch_timelocked_action(proposals[p])
        PROVE  RootsTyped'
    <2>1. ReadsTimelockArg(proposals[p])
      BY DEF ProposalsTyped
    <2> QED
      BY <1>1, <1>3, <1>7, <2>1, Zenon
      DEF dispatch_timelocked_action, ReadsTimelockArg, credentialVars, rootVars
  <1>8. ASSUME NEW p, dispatch_council_action(p) PROVE UNCHANGED <<rootV2, rootV1>>
    BY <1>8 DEF dispatch_council_action, credentialVars, rootVars
  <1> QED
    BY <1>1, <1>6, <1>7, <1>8
    DEF GovernanceNext, GovernanceStep, governanceVars, credentialVars, rootVars,
        upgrade_storage, execute_timelocked_proposal, emergency_execute_timelock,
        ExecuteProposal, execute_council_proposal

\* require_active_credential_root refuses every root whose record under the current
\* layout says revoked or expired, whatever the older layout still holds for it and
\* whichever of the admin and the timelock wrote the record.
THEOREM WithdrawnRootsStayRefused == GovernanceSpec => []WithdrawnRootRefused
  <1>1. GovernanceStart => RootsTyped
    BY DEF GovernanceStart, CredentialsInit, RootsTyped
  <1>2. RootsTyped /\ GovernanceInv /\ [GovernanceNext]_<<now, governanceVars>> => RootsTyped'
    BY RootsStayTyped DEF GovernanceInv, AuthorityInv
  <1>3. RootsTyped => WithdrawnRootRefused
    BY DEF RootsTyped, WithdrawnRootRefused, require_active_credential_root,
           get_credential_root_record_opt, CredentialRootRecord,
           STATUS_REGISTERED, STATUS_REVOKED, STATUS_EXPIRED
  <1> QED BY <1>1, <1>2, <1>3, GovernanceInvariance, PTL DEF GovernanceSpec
=============================================================================
