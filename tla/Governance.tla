----------------------------- MODULE Governance -----------------------------
(***************************************************************************)
(* The two ways a configuration change can be made other than by the admin *)
(* at once: a timelocked proposal, which waits out a delay, and a council  *)
(* proposal, which gathers a threshold of member approvals.  Both end in a *)
(* dispatch that writes the verifier, issuer, root and policy state of the *)
(* components this module composes.                                        *)
(***************************************************************************)
EXTENDS VerifierConfig, Credentials, Functions

CONSTANTS
    TimelockInputs,     \* inputs: [action, arg] of propose_timelocked_action
    CouncilActionInputs,\* inputs: [action, arg] of propose_council_action
    MAX_PENDING_TIMELOCK_PROPOSALS,
    DEFAULT_APPROVAL_TTL_SECS,
    MaxProposals,       \* bound on timelocked proposals, for model checking only
    MaxCouncilProposals \* bound on council proposals, for model checking only

ASSUME GovernanceAssumption ==
    /\ MAX_PENDING_TIMELOCK_PROPOSALS \in Nat
    /\ DEFAULT_APPROVAL_TTL_SECS \in Nat
    /\ \A i \in TimelockInputs :
         /\ i.action \in Nat
         /\ i.action = 1 => i.arg \in Verifiers
         /\ i.action = 2 => i.arg \in Address
         /\ i.action = 4 => i.arg \in Roots
    /\ \A i \in CouncilActionInputs :
         /\ i.action \in Nat
         /\ i.action \in {1, 5} => i.arg \in Verifiers
         /\ i.action = 2 => i.arg \in Address

VARIABLES
    proposals,          \* DataKey::Proposal(1 .. ProposalSeq)
    councilProposals,   \* DataKey::CouncilProposal(1 .. CouncilProposalSeq)
    wasmHash            \* DataKey::WasmHash

proposalVars == <<proposals, councilProposals, wasmHash>>
governanceVars == <<authorityVars, verifierVars, credentialVars, proposalVars>>

\* A proposal's `arg` is the target address or the payload, whichever the action
\* reads; `event` is the execution event published for it, if any.
GovernanceInit ==
    /\ proposals = <<>>
    /\ councilProposals = <<>>
    /\ wasmHash = None

---------------------------------------------------------------------------
(* Timelocked proposals.                                                   *)

IsOpen(p) == ~p.executed /\ ~p.cancelled
Cancelled(p) == [p EXCEPT !.cancelled = TRUE]

count_pending_proposals ==
    Cardinality({k \in DOMAIN proposals : IsOpen(proposals[k])})

\* Mutant of propose_timelocked_action: the cap is off by one.
propose_timelocked_action_over(caller, i) ==
    /\ require_admin(caller)
    /\ i.action \in {1, 2, 3, 4, 6}
    /\ count_pending_proposals <= MAX_PENDING_TIMELOCK_PROPOSALS
    /\ Len(proposals) < MaxProposals
    /\ proposals' = Append(proposals,
           [action |-> i.action, arg |-> i.arg, min_execution_at |-> now + minDelay,
            executed |-> FALSE, cancelled |-> FALSE, event |-> None])
    /\ UNCHANGED <<councilProposals, wasmHash>>

propose_timelocked_action(caller, i) ==
    /\ require_admin(caller)
    /\ i.action \in {1, 2, 3, 4, 6}
    /\ count_pending_proposals < MAX_PENDING_TIMELOCK_PROPOSALS
    /\ Len(proposals) < MaxProposals
    /\ proposals' = Append(proposals,
           [action |-> i.action, arg |-> i.arg, min_execution_at |-> now + minDelay,
            executed |-> FALSE, cancelled |-> FALSE, event |-> None])
    /\ UNCHANGED <<councilProposals, wasmHash>>

\* Mutant of cancel_timelocked_proposal: an executed proposal may be cancelled.
cancel_timelocked_proposal_late(caller, p) ==
    /\ require_admin(caller)
    /\ ~proposals[p].cancelled
    /\ proposals' = [proposals EXCEPT ![p] = Cancelled(@)]
    /\ UNCHANGED <<councilProposals, wasmHash>>

cancel_timelocked_proposal(caller, p) ==
    /\ require_admin(caller)
    /\ IsOpen(proposals[p])
    /\ proposals' = [proposals EXCEPT ![p] = Cancelled(@)]
    /\ UNCHANGED <<councilProposals, wasmHash>>

\* What an executed proposal writes.  SetVerifier removes the rotation state
\* and leaves the declared circuit-version window in place.
dispatch_timelocked_action(p) ==
    \/ /\ p.action = 1
       /\ verifier' = p.arg
       /\ verifierState' = None
       /\ UNCHANGED <<versions, authorityVars, credentialVars, wasmHash>>
    \/ /\ p.action = 2
       /\ RevokeIssuerEffect(p.arg)
       /\ UNCHANGED <<adminVars, councilVars, verifierVars, credentialVars, wasmHash>>
    \/ /\ p.action = 3
       /\ proofTtl' = p.arg
       /\ UNCHANGED <<scopeEpoch, revocationRoot, rootVars, authorityVars, verifierVars, wasmHash>>
    \/ /\ p.action = 4
       /\ RevokeRootEffect(p.arg)
       /\ UNCHANGED <<policyVars, authorityVars, verifierVars, wasmHash>>
    \/ /\ p.action = 6
       /\ wasmHash' = p.arg
       /\ UNCHANGED <<authorityVars, verifierVars, credentialVars>>

Executed(p, event) == [p EXCEPT !.executed = TRUE, !.event = event]

ExecuteProposal(p, event) ==
    /\ proposals' = [proposals EXCEPT ![p] = Executed(@, event)]
    /\ dispatch_timelocked_action(proposals[p])
    /\ UNCHANGED councilProposals

\* Mutant of execute_timelocked_proposal: the council is not consulted.
execute_timelocked_proposal_unchecked(p) ==
    /\ IsOpen(proposals[p])
    /\ now >= proposals[p].min_execution_at
    /\ ExecuteProposal(p, "TimelockProposalExecuted")

\* Any caller may execute a proposal whose delay has passed.
execute_timelocked_proposal(p) ==
    /\ IsOpen(proposals[p])
    /\ now >= proposals[p].min_execution_at
    /\ ~(is_council_active /\ proposals[p].action \in {1, 2})
    /\ ExecuteProposal(p, "TimelockProposalExecuted")

\* Mutant of emergency_execute_timelock: code upgrades are not refused.
emergency_execute_timelock_any(caller, p) ==
    /\ require_admin(caller)
    /\ IsOpen(proposals[p])
    /\ ExecuteProposal(p, "TimelockEmergencyExec")

emergency_execute_timelock(caller, p) ==
    /\ require_admin(caller)
    /\ IsOpen(proposals[p])
    /\ proposals[p].action # 6
    /\ ExecuteProposal(p, "TimelockEmergencyExec")

---------------------------------------------------------------------------
(* Council proposals.                                                      *)

IsMember(a) == is_council_active /\ a \in Range(council.members)

NotExpired(p) == now <= p.expires_at
ApprovedBy(p, a) == [p EXCEPT !.approvals = Append(@, a)]
Carried(p) == [p EXCEPT !.executed = TRUE]

propose_council_action(caller, i) ==
    /\ IsMember(caller)
    /\ i.action \in 1 .. 7
    /\ Len(councilProposals) < MaxCouncilProposals
    /\ councilProposals' = Append(councilProposals,
           [action |-> i.action, arg |-> i.arg, proposer |-> caller,
            expires_at |-> now + DEFAULT_APPROVAL_TTL_SECS, approvals |-> <<>>,
            executed |-> FALSE, cancelled |-> FALSE])
    /\ UNCHANGED <<proposals, wasmHash>>

\* Mutant of approve_council_proposal: one member may approve twice.
approve_council_proposal_twice(caller, p) ==
    /\ IsMember(caller)
    /\ IsOpen(councilProposals[p])
    /\ NotExpired(councilProposals[p])
    /\ Len(councilProposals[p].approvals) < MAX_SIGNERS
    /\ councilProposals' = [councilProposals EXCEPT ![p] = ApprovedBy(@, caller)]
    /\ UNCHANGED <<proposals, wasmHash>>

approve_council_proposal(caller, p) ==
    /\ IsMember(caller)
    /\ IsOpen(councilProposals[p])
    /\ NotExpired(councilProposals[p])
    /\ caller \notin Range(councilProposals[p].approvals)
    /\ councilProposals' = [councilProposals EXCEPT ![p] = ApprovedBy(@, caller)]
    /\ UNCHANGED <<proposals, wasmHash>>

\* What an executed council proposal writes.  The storage upgrade only stamps
\* the version, and a rotation is scheduled with all its windows zero.
dispatch_council_action(p) ==
    \/ /\ p.action = 1
       /\ ReplaceVerifier(p.arg)
       /\ UNCHANGED <<authorityVars, credentialVars>>
    \/ /\ p.action = 2
       /\ RevokeIssuerEffect(p.arg)
       /\ UNCHANGED <<adminVars, councilVars, verifierVars, credentialVars>>
    \/ /\ p.action = 3
       /\ schemaVersion' = 2
       /\ UNCHANGED <<admin, pendingAdmin, issuerVars, councilVars, verifierVars, credentialVars>>
    \/ /\ p.action = 4
       /\ revocationRoot' = p.arg
       /\ UNCHANGED <<proofTtl, scopeEpoch, rootVars, authorityVars, verifierVars>>
    \/ /\ p.action = 5
       /\ ScheduleEffect(p.arg, 0, 0)
       /\ UNCHANGED <<authorityVars, credentialVars>>
    \/ /\ p.action = 6
       /\ ActivateEffect
       /\ UNCHANGED <<authorityVars, credentialVars>>
    \/ /\ p.action = 7
       /\ RollbackEffect
       /\ UNCHANGED <<authorityVars, credentialVars>>

\* Any caller may execute a proposal that has its approvals.
execute_council_proposal(p) ==
    /\ is_council_active
    /\ IsOpen(councilProposals[p])
    /\ NotExpired(councilProposals[p])
    /\ Len(councilProposals[p].approvals) >= council.threshold
    /\ councilProposals' = [councilProposals EXCEPT ![p] = Carried(@)]
    /\ dispatch_council_action(councilProposals[p])
    /\ UNCHANGED <<proposals, wasmHash>>

cancel_council_proposal(caller, p) ==
    /\ is_council_active
    /\ IsOpen(councilProposals[p])
    /\ caller = admin \/ caller = councilProposals[p].proposer \/ IsMember(caller)
    /\ councilProposals' = [councilProposals EXCEPT ![p] = Cancelled(@)]
    /\ UNCHANGED <<proposals, wasmHash>>

---------------------------------------------------------------------------
(* The composition.                                                        *)

ProposalStep ==
    \E a \in Address :
      \/ \E i \in TimelockInputs : propose_timelocked_action(a, i)
      \/ \E p \in DOMAIN proposals : cancel_timelocked_proposal(a, p)
      \/ \E i \in CouncilActionInputs : propose_council_action(a, i)
      \/ \E p \in DOMAIN councilProposals : approve_council_proposal(a, p)
      \/ \E p \in DOMAIN councilProposals : cancel_council_proposal(a, p)

GovernanceStep ==
    \/ AuthorityStep /\ UNCHANGED <<verifierVars, credentialVars, proposalVars>>
    \/ VerifierStep /\ UNCHANGED <<authorityVars, credentialVars, proposalVars>>
    \/ CredentialsStep /\ UNCHANGED <<authorityVars, verifierVars, proposalVars>>
    \/ \E a \in Address : upgrade_storage(a) /\ UNCHANGED <<verifierVars, proposalVars>>
    \/ ProposalStep /\ UNCHANGED <<authorityVars, verifierVars, credentialVars>>
    \/ \E p \in DOMAIN proposals : execute_timelocked_proposal(p)
    \/ \E a \in Address, p \in DOMAIN proposals : emergency_execute_timelock(a, p)
    \/ \E p \in DOMAIN councilProposals : execute_council_proposal(p)

GovernanceNext ==
    \/ GovernanceStep /\ UNCHANGED now
    \/ CloseLedger /\ UNCHANGED governanceVars

GovernanceStart ==
    AuthorityStart /\ VerifierInit /\ CredentialsInit /\ GovernanceInit

GovernanceSpec == GovernanceStart /\ [][GovernanceNext]_<<now, governanceVars>>

---------------------------------------------------------------------------
(* Properties.                                                             *)

\* A proposal that was executed or cancelled never changes again, so no action
\* is dispatched twice or after its cancellation, whichever of the four paths
\* race for it.
SettledIsFinal ==
    /\ \A p \in DOMAIN proposals :
         ~IsOpen(proposals[p]) => proposals'[p] = proposals[p]
    /\ \A p \in DOMAIN councilProposals :
         ~IsOpen(councilProposals[p]) => councilProposals'[p] = councilProposals[p]

\* Every executed council proposal was approved by at least `threshold`
\* different members of the council that is still in force.
ExecutedHadQuorum ==
    \A p \in DOMAIN councilProposals :
      councilProposals[p].executed =>
        /\ council # None
        /\ Cardinality(Range(council.members) \cap Range(councilProposals[p].approvals))
             >= council.threshold

\* Does this step execute a council proposal?
CouncilExecutes ==
    \E p \in DOMAIN councilProposals :
      ~councilProposals[p].executed /\ councilProposals'[p].executed

\* Does this step execute a timelocked proposal on the admin's emergency path?
EmergencyExecutes ==
    \E p \in DOMAIN proposals :
      ~proposals[p].executed /\ proposals'[p].event = "TimelockEmergencyExec"

\* Once a council is effective, the trusted verifier, its rotation and the set of
\* revoked issuers move only by an executed council proposal or by the admin's
\* emergency path.
CouncilGuardsItsDomain ==
    is_council_active /\ (\/ verifier' # verifier
                           \/ verifierState' # verifierState
                           \/ ~(revoked' \subseteq revoked))
      => CouncilExecutes \/ EmergencyExecutes

\* The contract's code is replaced only by a proposal that waited out the delay
\* in force when it was made; the emergency path cannot bring it forward.
UpgradeWaitsForDelay ==
    wasmHash' # wasmHash =>
      \E p \in DOMAIN proposals :
        /\ proposals[p].action = 6
        /\ IsOpen(proposals[p]) /\ proposals'[p].executed
        /\ proposals[p].min_execution_at <= now

\* What becomes of proposals, whichever of the four paths race for them: at most
\* MAX_PENDING_TIMELOCK_PROPOSALS are pending, a settled one stays settled, and the
\* verifier, the revoked issuers and the code move only by one that was due.
ProposalsAreHonoured ==
    [][/\ count_pending_proposals' <= MAX_PENDING_TIMELOCK_PROPOSALS
       /\ SettledIsFinal
       /\ CouncilGuardsItsDomain
       /\ UpgradeWaitsForDelay]_<<now, governanceVars>>

=============================================================================
