----------------------------- MODULE Authority -----------------------------
(***************************************************************************)
(* Who may do what in the registry contract: the admin and its two-step    *)
(* transfer, the issuers, issuer key rotation with its grace window, and   *)
(* the optional admin council that takes the critical actions away from    *)
(* the single admin once it becomes effective.  The clock of the ledger is *)
(* here too: grace windows and the council's delay are the first to read   *)
(* it.                                                                     *)
(*                                                                         *)
(* A contract invocation performs all its writes or panics and performs    *)
(* none, so an entry point is one action, of this module or of one that    *)
(* extends it, and a failed check is a disabled action.  Invocations of    *)
(* one ledger share its timestamp.                                         *)
(***************************************************************************)
EXTENDS Integers, Sequences, FiniteSets

CONSTANTS
    None,               \* the answer of a storage read whose key is absent
    MaxTime,            \* bound on ledger time, for model checking only
    Address,            \* the accounts that call the contract
    AdminCandidates,    \* inputs: accounts that may be proposed as admin
    IssuerCandidates,   \* inputs: accounts that may be added as issuers
    IssuerMetadata,     \* inputs: issuer metadata hashes
    GraceInputs,        \* inputs: grace_secs of rotate_issuer
    CouncilInputs,      \* inputs: [members |-> <<...>>, threshold |-> n]
    DelayInputs,        \* inputs: delay_secs of set_timelock_min_delay_secs
    DEFAULT_ISSUER_ROTATION_GRACE_SECS,
    MAX_ISSUER_ROTATION_GRACE_SECS,
    DEFAULT_TIMELOCK_MIN_DELAY_SECS,
    MAX_TIMELOCK_MIN_DELAY_SECS,
    MAX_SIGNERS

IssuerRecord == [metadata_hash : IssuerMetadata, active : BOOLEAN]
IssuerRotationRecord == [replacement_issuer : Address, grace_expires_at : Nat]
AdminCouncil ==
    [members : Seq(Address), threshold : Nat \ {0}, effective_at : Nat]

ASSUME AuthorityAssumption ==
    /\ MaxTime \in Nat
    /\ None \notin Address
    /\ None \notin IssuerRecord
    /\ None \notin IssuerRotationRecord
    /\ None \notin AdminCouncil
    /\ AdminCandidates \subseteq Address
    /\ IssuerCandidates \subseteq Address
    /\ GraceInputs \subseteq Nat
    /\ DelayInputs \subseteq Nat
    /\ \A c \in CouncilInputs : c.members \in Seq(Address) /\ c.threshold \in Nat
    /\ DEFAULT_ISSUER_ROTATION_GRACE_SECS \in Nat \ {0}
    /\ MAX_ISSUER_ROTATION_GRACE_SECS \in Nat
    /\ DEFAULT_TIMELOCK_MIN_DELAY_SECS \in Nat \ {0}
    /\ MAX_TIMELOCK_MIN_DELAY_SECS \in Nat
    /\ DEFAULT_TIMELOCK_MIN_DELAY_SECS <= MAX_TIMELOCK_MIN_DELAY_SECS

VARIABLES
    now,            \* env.ledger().timestamp()
    admin,          \* DataKey::Admin
    pendingAdmin,   \* DataKey::PendingAdmin
    schemaVersion,  \* DataKey::SchemaVersion, None on an older deployment
    issuer,         \* DataKey::Issuer(a)
    rotation,       \* DataKey::IssuerRotation(a)
    council,        \* DataKey::AdminCouncil
    minDelay,       \* DataKey::TimelockMinDelay, its default when unset
    revoked         \* auxiliary: the issuers revoked and not added again since

adminVars == <<admin, pendingAdmin, schemaVersion>>
issuerVars == <<issuer, rotation, revoked>>
councilVars == <<council, minDelay>>
authorityVars == <<adminVars, issuerVars, councilVars>>

\* A contract just deployed, or one that an older release initialized and that
\* was upgraded in place: that release stored no schema version.
AuthorityInit ==
    /\ admin \in Address \cup {None}
    /\ pendingAdmin = None
    /\ schemaVersion = None
    /\ issuer = [a \in Address |-> None]
    /\ rotation = [a \in Address |-> None]
    /\ council = None
    /\ minDelay = DEFAULT_TIMELOCK_MIN_DELAY_SECS
    /\ revoked = {}

---------------------------------------------------------------------------
(* The ledger.                                                             *)

LedgerInit == now = 1

\* A ledger closes, and the next one carries some later timestamp.
CloseLedger == now' \in now + 1 .. MaxTime

---------------------------------------------------------------------------
(* Guards shared by the entry points.                                      *)

require_initialized == admin # None

require_admin(caller) == require_initialized /\ caller = admin

require_issuer_role_available(a) == require_initialized /\ a # admin

is_active_issuer(a) == issuer[a] # None /\ issuer[a].active

require_admin_role_available(a) ==
    require_issuer_role_available(a) /\ ~is_active_issuer(a)

is_council_active == council # None /\ now >= council.effective_at

\* True while the issuer is active, or rotated out and inside its grace window.
is_issuer_verifiable(a) ==
    /\ issuer[a] # None
    /\ \/ issuer[a].active
       \/ rotation[a] # None /\ now < rotation[a].grace_expires_at

---------------------------------------------------------------------------
(* The admin and its transfer.                                             *)

init(a) ==
    /\ admin = None
    /\ admin' = a
    /\ schemaVersion' = 2
    /\ UNCHANGED <<pendingAdmin, issuerVars, councilVars>>

propose_admin(caller, a) ==
    /\ require_admin(caller)
    /\ require_admin_role_available(a)
    /\ pendingAdmin' = a
    /\ UNCHANGED <<admin, schemaVersion, issuerVars, councilVars>>

cancel_admin_transfer(caller) ==
    /\ require_admin(caller)
    /\ pendingAdmin # None
    /\ pendingAdmin' = None
    /\ UNCHANGED <<admin, schemaVersion, issuerVars, councilVars>>

accept_admin(caller) ==
    /\ pendingAdmin # None
    /\ caller = pendingAdmin
    /\ require_admin_role_available(caller)
    /\ admin' = caller
    /\ pendingAdmin' = None
    /\ UNCHANGED <<schemaVersion, issuerVars, councilVars>>

---------------------------------------------------------------------------
(* Issuers and issuer key rotation.                                        *)

Retired(record) == [metadata_hash |-> record.metadata_hash, active |-> FALSE]

\* Mutant of add_issuer: a pending admin is not refused.
add_issuer_ignores_pending(caller, i, m) ==
    /\ require_admin(caller)
    /\ require_issuer_role_available(i)
    /\ issuer' = [issuer EXCEPT ![i] = [metadata_hash |-> m, active |-> TRUE]]
    /\ rotation' = [rotation EXCEPT ![i] = None]
    /\ revoked' = revoked \ {i}
    /\ UNCHANGED <<adminVars, councilVars>>

add_issuer(caller, i, m) ==
    /\ require_admin(caller)
    /\ require_issuer_role_available(i)
    /\ pendingAdmin # i
    /\ issuer' = [issuer EXCEPT ![i] = [metadata_hash |-> m, active |-> TRUE]]
    /\ rotation' = [rotation EXCEPT ![i] = None]
    /\ revoked' = revoked \ {i}
    /\ UNCHANGED <<adminVars, councilVars>>

\* Mutant of RevokeIssuerEffect: the grace window survives the revocation.
RevokeIssuerEffect_keeps_rotation(i) ==
    /\ issuer[i] # None
    /\ issuer' = [issuer EXCEPT ![i] = Retired(issuer[i])]
    /\ revoked' = revoked \cup {i}
    /\ UNCHANGED rotation

\* The write shared by revoke_issuer and the governed revocations: the key
\* loses its standing at once, grace window included.
RevokeIssuerEffect(i) ==
    /\ issuer[i] # None
    /\ issuer' = [issuer EXCEPT ![i] = Retired(issuer[i])]
    /\ rotation' = [rotation EXCEPT ![i] = None]
    /\ revoked' = revoked \cup {i}

revoke_issuer(caller, i) ==
    /\ require_admin(caller)
    /\ ~is_council_active
    /\ RevokeIssuerEffect(i)
    /\ UNCHANGED <<adminVars, councilVars>>

update_issuer_metadata(caller, i, m) ==
    /\ require_admin(caller)
    /\ is_active_issuer(i)
    /\ issuer' = [issuer EXCEPT ![i] = [metadata_hash |-> m, active |-> TRUE]]
    /\ UNCHANGED <<rotation, revoked, adminVars, councilVars>>

\* A zero grace_secs selects the protocol default.
ResolvedGrace(grace_secs) ==
    IF grace_secs = 0 THEN DEFAULT_ISSUER_ROTATION_GRACE_SECS ELSE grace_secs

rotate_issuer(caller, previous, replacement, grace_secs) ==
    /\ require_admin(caller)
    /\ previous # replacement
    /\ is_active_issuer(previous)
    /\ is_active_issuer(replacement)
    /\ ResolvedGrace(grace_secs) <= MAX_ISSUER_ROTATION_GRACE_SECS
    /\ issuer' = [issuer EXCEPT ![previous] = Retired(issuer[previous])]
    /\ rotation' = [rotation EXCEPT ![previous] =
           [replacement_issuer |-> replacement,
            grace_expires_at |-> now + ResolvedGrace(grace_secs)]]
    /\ UNCHANGED <<revoked, adminVars, councilVars>>

finalize_issuer_rotation(i) ==
    /\ rotation[i] # None
    /\ now >= rotation[i].grace_expires_at
    /\ rotation' = [rotation EXCEPT ![i] = None]
    /\ UNCHANGED <<issuer, revoked, adminVars, councilVars>>

---------------------------------------------------------------------------
(* The council and the delay after which it becomes effective.             *)

DistinctMembers(members) ==
    \A j, k \in DOMAIN members : j # k => members[j] # members[k]

set_admin_council(caller, c) ==
    /\ require_admin(caller)
    /\ ~is_council_active
    /\ c.threshold > 0
    /\ c.threshold <= Len(c.members)
    /\ Len(c.members) <= MAX_SIGNERS
    /\ DistinctMembers(c.members)
    /\ council' = [members |-> c.members, threshold |-> c.threshold,
                   effective_at |-> now + minDelay]
    /\ UNCHANGED <<minDelay, adminVars, issuerVars>>

\* Mutant of cancel_pending_admin_council: an effective council is cancelled.
cancel_pending_admin_council_late(caller) ==
    /\ require_admin(caller)
    /\ council # None
    /\ council' = None
    /\ UNCHANGED <<minDelay, adminVars, issuerVars>>

cancel_pending_admin_council(caller) ==
    /\ require_admin(caller)
    /\ council # None
    /\ now < council.effective_at
    /\ council' = None
    /\ UNCHANGED <<minDelay, adminVars, issuerVars>>

\* Mutant of set_timelock_min_delay_secs: a zero delay is accepted.
set_timelock_min_delay_secs_zero(caller, delay_secs) ==
    /\ require_admin(caller)
    /\ delay_secs <= MAX_TIMELOCK_MIN_DELAY_SECS
    /\ minDelay' = delay_secs
    /\ UNCHANGED <<council, adminVars, issuerVars>>

set_timelock_min_delay_secs(caller, delay_secs) ==
    /\ require_admin(caller)
    /\ delay_secs > 0
    /\ delay_secs <= MAX_TIMELOCK_MIN_DELAY_SECS
    /\ minDelay' = delay_secs
    /\ UNCHANGED <<council, adminVars, issuerVars>>

---------------------------------------------------------------------------
(* The component on its own: any account calls any entry point.            *)

AuthorityStep ==
    \/ \E a \in Address :
          \/ init(a)
          \/ cancel_admin_transfer(a)
          \/ accept_admin(a)
          \/ cancel_pending_admin_council(a)
          \/ \E c \in CouncilInputs : set_admin_council(a, c)
          \/ \E d \in DelayInputs : set_timelock_min_delay_secs(a, d)
          \/ \E b \in AdminCandidates : propose_admin(a, b)
    \/ \E a \in Address, i \in IssuerCandidates :
          \/ \E m \in IssuerMetadata : add_issuer(a, i, m)
          \/ \E m \in IssuerMetadata : update_issuer_metadata(a, i, m)
          \/ revoke_issuer(a, i)
          \/ \E j \in IssuerCandidates, g \in GraceInputs : rotate_issuer(a, i, j, g)
    \/ \E i \in IssuerCandidates : finalize_issuer_rotation(i)

AuthorityNext ==
    \/ AuthorityStep /\ UNCHANGED now
    \/ CloseLedger /\ UNCHANGED authorityVars

AuthorityStart == LedgerInit /\ AuthorityInit

AuthoritySpec == AuthorityStart /\ [][AuthorityNext]_<<now, authorityVars>>

---------------------------------------------------------------------------
(* Properties.                                                             *)

\* Every key holds a value of its type; the configured delay stays in the
\* range set_timelock_min_delay_secs accepts.
AuthorityTypeOK ==
    /\ now \in Nat
    /\ admin \in Address \cup {None}
    /\ pendingAdmin \in Address \cup {None}
    /\ schemaVersion \in {2, None}
    /\ issuer \in [Address -> IssuerRecord \cup {None}]
    /\ rotation \in [Address -> IssuerRotationRecord \cup {None}]
    /\ council \in AdminCouncil \cup {None}
    /\ minDelay \in 1 .. MAX_TIMELOCK_MIN_DELAY_SECS
    /\ revoked \subseteq Address

\* Neither the admin nor the account the admin role is being handed to is ever
\* an active issuer, and nobody is proposed to succeed themselves: add_issuer,
\* propose_admin and accept_admin may run in any order.
RoleSeparation ==
    /\ admin # None => ~is_active_issuer(admin)
    /\ pendingAdmin # None => ~is_active_issuer(pendingAdmin) /\ pendingAdmin # admin

\* A rotation grace record belongs to a key that was an issuer and is retired:
\* is_issuer_verifiable never has two contradictory answers to choose from.
GraceOnlyForRetired ==
    \A i \in Address : rotation[i] # None => issuer[i] # None /\ ~issuer[i].active

\* A revocation outranks every rotation: a revoked key has no standing until
\* add_issuer lists it again, whatever rotations happened before or after.
RevokedNeverVerifiable ==
    \A i \in revoked : ~is_issuer_verifiable(i)

\* An effective council can be neither replaced nor removed by the admin.
ActiveCouncilPermanent ==
    [][is_council_active => council' = council]_<<now, authorityVars>>

=============================================================================
