---------------------------- MODULE MCComponents ----------------------------
(***************************************************************************)
(* The components of the contract for TLC, one at a time.  The authority   *)
(* is read by all the others, with the clock; they never read one another, *)
(* so each behaviour exercises one of them, its focus, beside the steps of *)
(* the authority that it depends on, and the state space is the sum of     *)
(* theirs.  Credential roots and policies, which are as independent, are   *)
(* two foci.  Disputes and timestamp claims are made on a contract whose   *)
(* admin is a1 and on which a2 has registered the proofs of Stored.        *)
(***************************************************************************)
EXTENDS VerifierConfig, Credentials, PauseControl, Delegation, ProofClaims

CONSTANTS Foci, Stored, a1, a2, a3, r1, r2, r3, d1, d2, d3, h1, p1

VARIABLE focus

evidenceVars == <<storeVars, disputeVars, claim>>
allVars == <<now, focus, authorityVars, verifierVars, credentialVars, pauseVars, delegationVars, evidenceVars>>

\* A council of two, one with a member twice, one that cannot reach its threshold.
Councils ==
    {[members |-> <<a1, a2>>, threshold |-> 2], [members |-> <<a3, a3>>, threshold |-> 1],
     [members |-> <<a3>>, threshold |-> 2]}
SoloCouncil == [members |-> <<a2>>, threshold |-> 1]
Windows == {<<1, 1>>, <<1, 2>>, <<2, 1>>, <<0, 2>>, <<2, 3>>}
Stages == {<<r1>>, <<r2, r3>>, <<r3, r1, r2>>}
Domains == {{}, {1}, {4}, {1, 2, 4}, {8}}
DelegationScopes == {{}, {1}, {1, 2}, {4}}

\* How far the clock runs: the authority and the disputes need a grace period or a
\* deadline and what follows it, the verifier a rotation with its rollback window, a
\* delegation its expiry and a renewal.
Horizon == [authority |-> 3, verifier |-> 4, roots |-> 2, policy |-> 2, pause |-> 2,
            delegation |-> 3, disputes |-> 3, timestamps |-> 3]

AdminStep ==
    \E a \in Address : \/ init(a) \/ accept_admin(a) \/ cancel_admin_transfer(a)
                       \/ \E b \in {a1, a2} : propose_admin(a, b)

\* The steps of a component, beside those of the authority that concern it.
FocusStep ==
    /\ \/ focus = "authority" /\ AuthorityStep
       \/ focus \in {"verifier", "policy", "pause", "delegation"} /\ AdminStep
       \/ focus = "verifier" /\ \E a \in Address : \/ set_admin_council(a, SoloCouncil)
                                                   \/ cancel_pending_admin_council(a)
       \/ focus \in {"disputes", "timestamps"} /\ set_timelock_min_delay_secs(admin, minDelay)
    /\ UNCHANGED <<verifierVars, credentialVars, pauseVars, delegationVars, evidenceVars>>

\* Dispute ids, reporter hashes and stored proofs are interchangeable: ids are used
\* in order, and the first dispute is on p1 with h1.  a1 and a2 report.
Canonical ==
    /\ dispute'[d1] # None => dispute'[d1].proof_id = p1 /\ dispute'[d1].reporter_hash = h1
    /\ dispute'[d2] # None => dispute'[d1] # None
    /\ dispute'[d3] # None => dispute'[d2] # None
    /\ reporterCount'[a3] = 0

ContractStep ==
    \/ /\ focus = "verifier" /\ VerifierStep
       /\ UNCHANGED <<authorityVars, credentialVars, pauseVars, delegationVars, evidenceVars>>
    \/ /\ focus = "roots"
       /\ \/ CredentialsStep /\ UNCHANGED <<authorityVars, policyVars>>
          \/ \E a \in Address : upgrade_storage(a)
       /\ UNCHANGED <<verifierVars, pauseVars, delegationVars, evidenceVars>>
    \/ /\ focus = "policy" /\ CredentialsStep
       /\ UNCHANGED <<rootVars, authorityVars, verifierVars, pauseVars, delegationVars, evidenceVars>>
    \/ /\ focus = "pause" /\ PauseStep
       /\ UNCHANGED <<authorityVars, verifierVars, credentialVars, delegationVars, evidenceVars>>
    \/ /\ focus = "delegation" /\ DelegationStep
       /\ UNCHANGED <<authorityVars, verifierVars, credentialVars, pauseVars, evidenceVars>>
    \/ /\ \/ focus = "disputes" /\ DisputeStep /\ Canonical /\ UNCHANGED claim
          \/ focus = "timestamps" /\ TimestampStep /\ UNCHANGED disputeVars
       /\ UNCHANGED <<authorityVars, verifierVars, credentialVars, pauseVars, delegationVars, storeVars>>

FocusedNext ==
    /\ \/ (FocusStep \/ ContractStep) /\ UNCHANGED now
       \/ /\ CloseLedger /\ now' <= Horizon[focus]
          /\ UNCHANGED <<authorityVars, verifierVars, credentialVars, pauseVars, delegationVars, evidenceVars>>
    /\ UNCHANGED focus

\* The proofs of Stored, registered by a2 as a source.
SourceRecord(p) ==
    [video_hash |-> p, metadata_hash |-> ZeroHash, tier |-> 2, status |-> Registered,
     expires_at |-> 0, subject |-> a2, nullifier |-> None]
StoredInit ==
    /\ proof = [p \in ProofIds |-> IF p \in Stored THEN SourceRecord(p) ELSE None]
    /\ video = [v \in Videos |-> IF v \in Stored THEN v ELSE None]
    /\ history = [p \in ProofIds |->
                    IF p \in Stored THEN <<[action |-> Registered, actor |-> a2]>> ELSE <<>>]
    /\ envelope = [p \in ProofIds |->
                     IF p \in Stored THEN [version |-> 1, metadata_hash |-> ZeroHash] ELSE None]

FocusedInit ==
    /\ focus \in Foci
    /\ AuthorityStart /\ VerifierInit /\ CredentialsInit /\ PauseInit /\ DelegationInit
    /\ StoredInit /\ DisputeInit /\ TimestampInit
    /\ focus \in {"roots", "disputes", "timestamps"} => admin = a1
    /\ focus \in {"authority", "disputes", "timestamps"} => rootV1 = [r \in Roots |-> None]

FocusedSpec == FocusedInit /\ [][FocusedNext]_allVars

\* Every key of a component holds a value of its type.
TypesOK ==
    CASE focus = "authority" -> AuthorityTypeOK
      [] focus = "verifier" -> VerifierTypeOK
      [] focus \in {"roots", "policy"} -> CredentialsTypeOK
      [] focus = "pause" -> PauseTypeOK
      [] focus = "delegation" -> DelegationTypeOK
      [] focus = "disputes" -> DisputeTypeOK
      [] focus = "timestamps" -> TimestampTypeOK

\* What is kept in two places agrees: the version window with the verifier it was
\* set for, the index and the pages of the roots with their records, the counters
\* of delegations and of open disputes, and the list of a proof's disputes, with
\* the delegations and the disputes themselves.
DerivedStateAgrees ==
    CASE focus = "verifier" -> WindowBelongsToVerifier
      [] focus = "roots" -> BackfilledRootsIndexedOnce /\ PagingIsComplete
      [] focus = "delegation" -> CountMatchesRecords
      [] focus = "disputes" -> CountersMatchDisputes /\ DisputesAllListed
      [] OTHER -> TRUE
=============================================================================
