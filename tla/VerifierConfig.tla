--------------------------- MODULE VerifierConfig ---------------------------
(***************************************************************************)
(* The verifier contract the registry trusts, its scheduled rotation with  *)
(* a rollback window, and the circuit-version window the active verifier   *)
(* has declared.  Ledger sequence numbers, which rotation is timed by, and *)
(* ledger timestamps advance together, so one clock stands for both.       *)
(***************************************************************************)
EXTENDS Authority

CONSTANTS
    Verifiers,          \* the verifier contracts
    ActivationInputs,   \* inputs: activation_ledger of a scheduled rotation
    RollbackInputs,     \* inputs: rollback_window of a scheduled rotation
    WindowInputs,       \* inputs: <<min_version, max_version>>
    MIN_SUPPORTED_CIRCUIT_VERSION,
    MAX_SUPPORTED_CIRCUIT_VERSION

ASSUME VerifierAssumption ==
    /\ None \notin Verifiers
    /\ ActivationInputs \subseteq Nat
    /\ RollbackInputs \subseteq Nat
    /\ WindowInputs \subseteq Nat \X Nat
    /\ MIN_SUPPORTED_CIRCUIT_VERSION \in Nat
    /\ MAX_SUPPORTED_CIRCUIT_VERSION \in Nat

VARIABLES
    verifier,       \* DataKey::Verifier
    verifierState,  \* DataKey::VerifierState
    versions        \* DataKey::VerifierCircuitVersions; declared_for is auxiliary

verifierVars == <<verifier, verifierState, versions>>

VerifierState ==
    [active_verifier : Verifiers, pending_verifier : Verifiers \cup {None},
     previous_verifier : Verifiers, activation_ledger : Nat,
     rollback_window : Nat, rollback_window_end : Nat]

SupportedVersions ==
    MIN_SUPPORTED_CIRCUIT_VERSION .. MAX_SUPPORTED_CIRCUIT_VERSION

VerifierCircuitVersions ==
    [min_version : SupportedVersions, max_version : SupportedVersions,
     declared_for : Verifiers]

VerifierInit ==
    /\ verifier = None
    /\ verifierState = None
    /\ versions = None

---------------------------------------------------------------------------

\* Is a proof of this circuit version within the active verifier's window?
is_supported_circuit_version(version) ==
    /\ version \in SupportedVersions
    /\ versions # None => version \in versions.min_version .. versions.max_version

\* A single admin may configure verifiers only while no council is effective.
SingleAdminMay(caller) == require_admin(caller) /\ ~is_council_active

\* Mutant of ReplaceVerifier: the rotation in progress is left behind.
ReplaceVerifier_keeps_rotation(v) ==
    /\ verifier' = v
    /\ versions' = None
    /\ UNCHANGED verifierState

\* Replacing the verifier drops the rotation state and the declared window.
ReplaceVerifier(v) ==
    /\ verifier' = v
    /\ verifierState' = None
    /\ versions' = None

set_verifier(caller, v) ==
    /\ SingleAdminMay(caller)
    /\ ReplaceVerifier(v)

set_verifier_circuit_versions(caller, window) ==
    /\ require_admin(caller)
    /\ window[1] <= window[2]
    /\ window[1] >= MIN_SUPPORTED_CIRCUIT_VERSION
    /\ window[2] <= MAX_SUPPORTED_CIRCUIT_VERSION
    /\ verifier # None
    /\ versions' = [min_version |-> window[1], max_version |-> window[2],
                    declared_for |-> verifier]
    /\ UNCHANGED <<verifier, verifierState>>

\* The state a schedule leaves: the active verifier is what a rollback returns to.
ScheduleEffect(v, activation_ledger, rollback_window) ==
    /\ verifier # None
    /\ verifierState' =
           [active_verifier |-> verifier, pending_verifier |-> v,
            previous_verifier |-> verifier, activation_ledger |-> activation_ledger,
            rollback_window |-> rollback_window,
            rollback_window_end |-> activation_ledger + rollback_window]
    /\ UNCHANGED <<verifier, versions>>

schedule_verifier_rotation(caller, v, activation_ledger, rollback_window) ==
    /\ SingleAdminMay(caller)
    /\ ScheduleEffect(v, activation_ledger, rollback_window)

\* Mutant of ActivateEffect: the declared window is inherited.
ActivateEffect_keeps_window ==
    /\ verifierState # None
    /\ verifierState.pending_verifier # None
    /\ verifierState' =
           [verifierState EXCEPT !.active_verifier = verifierState.pending_verifier,
                                 !.pending_verifier = None,
                                 !.rollback_window_end = now + verifierState.rollback_window]
    /\ verifier' = verifierState.pending_verifier
    /\ UNCHANGED versions

\* Activation makes the pending verifier the trusted one and reopens the
\* rollback window from the current ledger.
ActivateEffect ==
    /\ verifierState # None
    /\ verifierState.pending_verifier # None
    /\ verifierState' =
           [verifierState EXCEPT !.active_verifier = verifierState.pending_verifier,
                                 !.pending_verifier = None,
                                 !.rollback_window_end = now + verifierState.rollback_window]
    /\ verifier' = verifierState.pending_verifier
    /\ versions' = None

activate_verifier_rotation(caller) ==
    /\ SingleAdminMay(caller)
    /\ verifierState # None
    /\ now >= verifierState.activation_ledger
    /\ ActivateEffect

\* Rolling back returns to the previous verifier, activated or not.
RollbackEffect ==
    /\ verifierState # None
    /\ ReplaceVerifier(verifierState.previous_verifier)

rollback_verifier_rotation(caller) ==
    /\ SingleAdminMay(caller)
    /\ verifierState # None
    /\ verifierState.rollback_window_end # 0
    /\ now <= verifierState.rollback_window_end
    /\ RollbackEffect

---------------------------------------------------------------------------
(* The component on its own.                                               *)

VerifierStep ==
    \E a \in Address :
      \/ \E v \in Verifiers : set_verifier(a, v)
      \/ \E w \in WindowInputs : set_verifier_circuit_versions(a, w)
      \/ \E v \in Verifiers, l \in ActivationInputs, w \in RollbackInputs :
            schedule_verifier_rotation(a, v, l, w)
      \/ activate_verifier_rotation(a)
      \/ rollback_verifier_rotation(a)

---------------------------------------------------------------------------
(* Properties.                                                             *)

\* Every verifier key holds a value of its type; in particular a rotation never
\* records a missing verifier to return to.
VerifierTypeOK ==
    /\ verifier \in Verifiers \cup {None}
    /\ verifierState \in VerifierState \cup {None}
    /\ versions \in VerifierCircuitVersions \cup {None}

\* The rotation record never disagrees with the verifier registrations use: its
\* active verifier is that one and, while a rotation is still pending, so is the
\* one a rollback would return to.
RotationAgreesWithVerifier ==
    verifierState # None =>
      /\ verifierState.active_verifier = verifier
      /\ verifierState.pending_verifier # None
           => verifierState.previous_verifier = verifier

\* The circuit-version window in force was declared for the verifier in force:
\* set_verifier, activation and rollback all drop the window of the verifier
\* they replace.  (A timelocked SetVerifier, of Governance, does not.)
WindowBelongsToVerifier ==
    versions # None => versions.declared_for = verifier

=============================================================================
