----------------------------- MODULE Delegation -----------------------------
(***************************************************************************)
(* Delegated registration authority: a grantor lets a delegate register on *)
(* its behalf, within a scope and until an expiry.  A counter kept beside  *)
(* the records caps the delegates of each grantor; a lapsed delegation     *)
(* holds its slot until it is revoked.                                     *)
(***************************************************************************)
EXTENDS Authority

CONSTANTS
    Grantors,           \* inputs: accounts that grant delegations
    ScopeInputs,        \* inputs: scopes, as sets of scope bits
    DelegationDurations,\* inputs: duration_secs of grant_delegation
    MAX_DELEGATION_DURATION_SECS,
    MAX_DELEGATIONS_PER_GRANTOR

DELEGATION_SCOPE_REGISTER_SOURCE == 1
DELEGATION_SCOPE_REGISTER_SEAL == 2
DELEGATION_SCOPE_ALL == {DELEGATION_SCOPE_REGISTER_SOURCE, DELEGATION_SCOPE_REGISTER_SEAL}

DelegationRecord == [scope : SUBSET DELEGATION_SCOPE_ALL, expires_at : Nat]

ASSUME DelegationAssumption ==
    /\ None \notin DelegationRecord
    /\ IsFiniteSet(Address)
    /\ Grantors \subseteq Address
    /\ DelegationDurations \subseteq Nat
    /\ MAX_DELEGATION_DURATION_SECS \in Nat
    /\ MAX_DELEGATIONS_PER_GRANTOR \in Nat

VARIABLES
    delegation,     \* DataKey::Delegation(grantor, delegate)
    delegationCount \* DataKey::DelegationCount(grantor)

delegationVars == <<delegation, delegationCount>>

DelegationInit ==
    /\ delegation = [g \in Address |-> [d \in Address |-> None]]
    /\ delegationCount = [g \in Address |-> 0]

---------------------------------------------------------------------------

validate_delegation_scope(scope) == scope # {} /\ scope \subseteq DELEGATION_SCOPE_ALL

is_delegation_active(g, d, bit) ==
    /\ delegation[g][d] # None
    /\ now < delegation[g][d].expires_at
    /\ bit \in delegation[g][d].scope

\* The grantor's delegations after delegate d's record becomes r.
WithDelegate(g, d, r) ==
    [delegation EXCEPT ![g] = [e \in Address |-> IF e = d THEN r ELSE delegation[g][e]]]

\* A first grant takes a slot; a renewal overwrites the record in place.
grant_delegation(g, d, scope, duration_secs) ==
    /\ require_initialized
    /\ g # d
    /\ validate_delegation_scope(scope)
    /\ duration_secs > 0
    /\ duration_secs <= MAX_DELEGATION_DURATION_SECS
    /\ \/ /\ delegation[g][d] = None
          /\ delegationCount[g] < MAX_DELEGATIONS_PER_GRANTOR
          /\ delegationCount' = [delegationCount EXCEPT ![g] = delegationCount[g] + 1]
       \/ /\ delegation[g][d] # None
          /\ UNCHANGED delegationCount
    /\ delegation' = WithDelegate(g, d, [scope |-> scope, expires_at |-> now + duration_secs])

\* Mutant of revoke_delegation: a retried revocation frees a second slot.
revoke_delegation_retried(revoker, g, d) ==
    /\ require_initialized
    /\ revoker = g \/ revoker = admin
    /\ delegation' = WithDelegate(g, d, None)
    /\ delegationCount' = [delegationCount EXCEPT ![g] = IF @ = 0 THEN 0 ELSE @ - 1]

\* Revoking an absent delegation changes nothing; the counter saturates at 0.
revoke_delegation(revoker, g, d) ==
    /\ require_initialized
    /\ revoker = g \/ revoker = admin
    /\ \/ /\ delegation[g][d] = None
          /\ UNCHANGED delegationVars
       \/ /\ delegation[g][d] # None
          /\ delegation' = WithDelegate(g, d, None)
          /\ delegationCount' = [delegationCount EXCEPT ![g] =
                 IF delegationCount[g] = 0 THEN 0 ELSE delegationCount[g] - 1]

---------------------------------------------------------------------------
(* The component on its own.                                               *)

DelegationStep ==
    \E g \in Grantors, d \in Address :
      \/ \E s \in ScopeInputs, t \in DelegationDurations : grant_delegation(g, d, s, t)
      \/ \E a \in Address : revoke_delegation(a, g, d)

---------------------------------------------------------------------------
(* Properties.                                                             *)

\* The accounts that hold a delegation of g, lapsed or not.
Delegates(g) == {d \in Address : delegation[g][d] # None}

\* Every delegation key holds a value of its type.
DelegationTypeOK ==
    /\ delegation \in [Address -> [Address -> DelegationRecord \cup {None}]]
    /\ delegationCount \in [Address -> Nat]

\* The counter equals the number of stored delegations of each grantor and
\* never exceeds the cap, through any mix of grants, renewals, lapses and
\* repeated revocations: no slot is leaked or freed twice.
CountMatchesRecords ==
    \A g \in Address :
      /\ delegationCount[g] = Cardinality(Delegates(g))
      /\ delegationCount[g] <= MAX_DELEGATIONS_PER_GRANTOR

=============================================================================
