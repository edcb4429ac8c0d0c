---------------------------- MODULE PauseControl ----------------------------
(***************************************************************************)
(* Emergency pauses of the three registration domains.  A pause names who  *)
(* set it and lifts itself at its expiry; the admin and a guardian may set *)
(* one, each up to its own cap, and only the admin may remove one.         *)
(***************************************************************************)
EXTENDS Authority

CONSTANTS
    GuardianCandidates, \* inputs: accounts that may be made guardian
    DomainInputs,       \* inputs: the domain bits of a call, as a set
    PauseDurations,     \* inputs: duration_secs of pause
    MAX_PAUSE_DURATION_SECS,
    MAX_GUARDIAN_PAUSE_DURATION_SECS

PAUSE_DOMAIN_SINGLE_BITS == {1, 2, 4}

PauseRecord == [paused_by : Address, paused_at : Nat, expires_at : Nat]

ASSUME PauseAssumption ==
    /\ None \notin PauseRecord
    /\ GuardianCandidates \subseteq Address
    /\ PauseDurations \subseteq Nat
    /\ MAX_PAUSE_DURATION_SECS \in Nat
    /\ MAX_GUARDIAN_PAUSE_DURATION_SECS \in Nat

VARIABLES
    guardian,   \* DataKey::Guardian
    pauses      \* DataKey::Pause(bit)

pauseVars == <<guardian, pauses>>

PauseInit ==
    /\ guardian = None
    /\ pauses = [d \in PAUSE_DOMAIN_SINGLE_BITS |-> None]

---------------------------------------------------------------------------

domain_is_paused(d) == pauses[d] # None /\ now < pauses[d].expires_at

validate_domain(ds) == ds # {} /\ ds \subseteq PAUSE_DOMAIN_SINGLE_BITS

set_guardian(caller, g) ==
    /\ require_admin(caller)
    /\ guardian' = g
    /\ UNCHANGED pauses

clear_guardian(caller) ==
    /\ require_admin(caller)
    /\ guardian' = None
    /\ UNCHANGED pauses

require_pauser(caller) == require_initialized /\ caller \in {admin, guardian}

\* Mutant of MaxPause: the guardian gets the admin's cap.
MaxPause_shared(caller) == MAX_PAUSE_DURATION_SECS

MaxPause(caller) ==
    IF caller = admin THEN MAX_PAUSE_DURATION_SECS ELSE MAX_GUARDIAN_PAUSE_DURATION_SECS

\* Mutant of pause: the cap is not enforced.
pause_uncapped(caller, ds, duration_secs) ==
    /\ validate_domain(ds)
    /\ require_pauser(caller)
    /\ duration_secs > 0
    /\ pauses' = [d \in PAUSE_DOMAIN_SINGLE_BITS |->
                    IF d \in ds
                    THEN [paused_by |-> caller, paused_at |-> now,
                          expires_at |-> now + duration_secs]
                    ELSE pauses[d]]
    /\ UNCHANGED guardian

\* A pause overwrites whatever record each of its domains had.
pause(caller, ds, duration_secs) ==
    /\ validate_domain(ds)
    /\ require_pauser(caller)
    /\ duration_secs > 0
    /\ duration_secs <= MaxPause(caller)
    /\ pauses' = [d \in PAUSE_DOMAIN_SINGLE_BITS |->
                    IF d \in ds
                    THEN [paused_by |-> caller, paused_at |-> now,
                          expires_at |-> now + duration_secs]
                    ELSE pauses[d]]
    /\ UNCHANGED guardian

unpause(caller, ds) ==
    /\ validate_domain(ds)
    /\ require_admin(caller)
    /\ pauses' = [d \in PAUSE_DOMAIN_SINGLE_BITS |-> IF d \in ds THEN None ELSE pauses[d]]
    /\ UNCHANGED guardian

---------------------------------------------------------------------------
(* The component on its own.                                               *)

PauseStep ==
    \E a \in Address :
      \/ \E g \in GuardianCandidates : set_guardian(a, g)
      \/ clear_guardian(a)
      \/ \E ds \in DomainInputs, t \in PauseDurations : pause(a, ds, t)
      \/ \E ds \in DomainInputs : unpause(a, ds)

---------------------------------------------------------------------------
(* Properties.                                                             *)

\* Every pause key holds a value of its type, and no pause in storage holds its
\* domain longer than the admin's cap: registration always reopens by itself.
PauseTypeOK ==
    /\ guardian \in Address \cup {None}
    /\ pauses \in [PAUSE_DOMAIN_SINGLE_BITS -> PauseRecord \cup {None}]
    /\ \A d \in PAUSE_DOMAIN_SINGLE_BITS :
         pauses[d] # None =>
           /\ pauses[d].paused_at <= now
           /\ pauses[d].expires_at <= pauses[d].paused_at + MAX_PAUSE_DURATION_SECS

\* A guardian's call never leaves a domain paused past the guardian's cap.
GuardianPauseBounded ==
    [][\A d \in PAUSE_DOMAIN_SINGLE_BITS :
         pauses'[d] # pauses[d] /\ pauses'[d] # None /\ pauses'[d].paused_by # admin
           => pauses'[d].expires_at <= now + MAX_GUARDIAN_PAUSE_DURATION_SECS
      ]_<<now, authorityVars, pauseVars>>

=============================================================================
