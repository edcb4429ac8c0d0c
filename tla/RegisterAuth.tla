------------------------------ MODULE RegisterAuth ------------------------------
(***************************************************************************)
(* Who may call POST /api/proofs/register: the credentials (config.py,     *)
(* register_auth.py) and the decorator that checks them                    *)
(* (app.py, require_register_auth).  The configuration is read once when   *)
(* the process starts, the expiries are compared at every request.  The    *)
(* operator rotates the primary key the way the decorator describes: the   *)
(* old key becomes the previous key for an overlap, and deployed clients   *)
(* pick up the new one some time after.                                    *)
(***************************************************************************)
EXTENDS Integers

CONSTANTS ApiKeys,       \* unscoped keys the operator may issue
          ScopedTokens,  \* tokens whose digests REGISTER_SCOPED_KEYS may list
          OwnerOf,       \* scoped token -> the address it is bound to
          Deployed,      \* clients that hold an unscoped key
          Addresses,     \* addresses a request may claim
          Expiries,      \* values of REGISTER_API_KEY_EXPIRES, Never among them
          Unset,         \* an unset key, an absent address
          Overlap,       \* how long the operator keeps a replaced key
          MaxAuthTime    \* bound on the clock

ASSUME RegisterAuthAssumption ==
    /\ MaxAuthTime \in Nat /\ Overlap \in Nat /\ Expiries \subseteq Int
    /\ ApiKeys \cap ScopedTokens = {}
    /\ Unset \notin ApiKeys \cup ScopedTokens \cup Addresses \cup {"nobody"}
    /\ OwnerOf \in [ScopedTokens -> Addresses \ {"nobody"}]

VARIABLES config,     \* the loaded settings, or NotLoaded
          environ,    \* what the next start will read
          auth_time,
          holds,      \* client -> the key it sends
          replaced,   \* history: key -> when the overlap of a replaced key ends
          answered    \* the last request and what became of it

authVars == <<config, environ, auth_time, holds, replaced, answered>>

Never == MaxAuthTime + 1           \* an expiry that is not set
NotLoaded == [key |-> Unset, expires |-> -1, previous |-> Unset, previous_expires |-> -1, scoped |-> {}]
BadClaim == "unreadable"         \* a malformed address, or a body above the size limit
Silence == [token |-> Unset, claimed |-> Unset, reply |-> "none", owner |-> Unset]

\* load_config: it raises for a previous key without a primary one and for the expiry of a
\* previous key that is not there.  parse_scoped_keys drops nothing: it raises on a bad entry.
Loads(e) ==
    /\ e.previous # Unset => e.key # Unset
    /\ e.previous_expires # Never => e.previous # Unset

FirstEnvironments ==
    [key : ApiKeys \cup {Unset}, expires : Expiries, previous : {Unset}, previous_expires : {Never},
     scoped : SUBSET ScopedTokens]

AuthInit(environments) ==
    /\ environ \in environments
    /\ holds = [c \in Deployed |-> environ.key]
    /\ config = environ /\ auth_time = 0
    /\ replaced = [k \in ApiKeys |-> Never] /\ answered = Silence

\* create_app: the process (re)starts and reads its environment; the key it had as its
\* primary one is replaced when another is loaded.
restart ==
    /\ config # environ
    /\ config' = IF Loads(environ) THEN environ ELSE NotLoaded
    /\ replaced' = [k \in ApiKeys |->
           IF k = config.key /\ config'.key \notin {k, Unset}
           THEN environ.previous_expires ELSE replaced[k]]
    /\ answered' = Silence
    /\ UNCHANGED <<environ, auth_time, holds>>

\* The operator replaces the primary key by a fresh one once the last overlap is over.
Rotate ==
    /\ config = environ
    /\ config.previous = Unset \/ auth_time >= config.previous_expires
    /\ \E k \in ApiKeys \ {environ.key}, x \in Expiries :
          /\ replaced[k] = Never
          /\ auth_time + Overlap <= MaxAuthTime
          /\ environ' = [environ EXCEPT !.key = k, !.expires = x, !.previous = environ.key,
                 !.previous_expires = IF environ.key = Unset THEN Never ELSE auth_time + Overlap]
    /\ UNCHANGED <<config, auth_time, holds, replaced, answered>>

\* The operator removes the previous key and forgets, or does not, its expiry.
Withdraw ==
    /\ config = environ /\ environ.previous # Unset /\ auth_time >= environ.previous_expires
    /\ \E x \in {environ.previous_expires, Never} :
          environ' = [environ EXCEPT !.previous = Unset, !.previous_expires = x]
    /\ UNCHANGED <<config, auth_time, holds, replaced, answered>>

\* The operator corrects the settings the process refused to start with.
Correct ==
    /\ config = NotLoaded /\ ~Loads(environ)
    /\ environ' = [environ EXCEPT !.previous_expires = Never]
    /\ UNCHANGED <<config, auth_time, holds, replaced, answered>>

\* A client that was told the loaded primary key starts to use it.
Adopt(c) ==
    /\ config.key \in ApiKeys \ {holds[c]}
    /\ holds' = [holds EXCEPT ![c] = config.key]
    /\ UNCHANGED <<config, environ, auth_time, replaced, answered>>

PassTime ==
    /\ auth_time < MaxAuthTime /\ auth_time' = auth_time + 1
    /\ UNCHANGED <<config, environ, holds, replaced, answered>>

-----------------------------------------------------------------------------
\* authenticate: a scoped match outranks the unscoped key.  The owner, Unset for an
\* unscoped principal, or "nobody".
authenticate(token, legacy, scoped) ==
    IF token \in scoped THEN OwnerOf[token]
    ELSE IF token = legacy /\ legacy # Unset THEN Unset ELSE "nobody"

principal_of_primary_expiry(token) ==
    LET first == authenticate(token, config.key, config.scoped)
        second == authenticate(token, config.previous, {})
    IN  IF auth_time >= config.expires THEN "nobody"
        ELSE IF first # "nobody" THEN first
        ELSE IF auth_time < config.previous_expires THEN second ELSE "nobody"
\* require_register_auth: REGISTER_API_KEY_EXPIRES ends the primary and the scoped keys,
\* the previous key has an expiry of its own.
principal_of(token) ==
    LET first == IF auth_time >= config.expires THEN "nobody"
                 ELSE authenticate(token, config.key, config.scoped)
        second == authenticate(token, config.previous, {})
    IN  IF first # "nobody" THEN first
        ELSE IF auth_time < config.previous_expires THEN second ELSE "nobody"

\* scope_allows: a scoped principal must name its own address.
scope_allows(owner, claimed) == owner = Unset \/ owner = claimed

\* The decorator around one request; "handled" means the handler runs with that principal.
require_register_auth(token, claimed) ==
    LET who == principal_of(token)
        open == config.key = Unset /\ config.scoped = {}
        reply == CASE open -> "handled"
                   [] token = Unset -> "missing"
                   [] who = "nobody" /\ auth_time >= config.expires -> "expired"
                   [] who = "nobody" -> "invalid"
                   [] who # Unset /\ claimed = BadClaim -> "rejected"
                   [] ~scope_allows(who, claimed) -> "forbidden"
                   [] OTHER -> "handled"
    IN  /\ config # NotLoaded
        /\ answered' = [token |-> token, claimed |-> claimed, reply |-> reply,
                        owner |-> IF reply = "handled" /\ ~open THEN who ELSE Unset]
        /\ UNCHANGED <<config, environ, auth_time, holds, replaced>>

Register == \E token \in {holds[c] : c \in Deployed} \cup ScopedTokens \cup {Unset},
               claimed \in Addresses \cup {Unset, BadClaim} : require_register_auth(token, claimed)

AuthNext ==
    \/ restart
    \/ Rotate
    \/ Withdraw
    \/ Correct
    \/ \E c \in Deployed : Adopt(c)
    \/ PassTime
    \/ Register

AuthSpec == AuthInit(FirstEnvironments) /\ [][AuthNext]_authVars

-----------------------------------------------------------------------------

\* A rotation cuts nobody off and lets nobody stay (require_register_auth, "allowing
\* already-deployed clients to transition without downtime"): between two loads a client's
\* request with a replaced key is handled while the overlap of that key lasts, even when the
\* new primary key has already expired, and is refused from the end of the overlap on; and
\* what a scoped token gets handled is a registration of its own owner.
RotationWithoutDowntime ==
    answered' # answered /\ answered'.reply # "none" =>
      /\ \A c \in Deployed :
            LET k == holds[c] IN
            k # Unset /\ answered'.token = k /\ replaced[k] # Never =>
                (answered'.reply = "handled") = (auth_time < replaced[k])
      /\ answered'.token \in config.scoped /\ answered'.reply = "handled" =>
            answered'.claimed = OwnerOf[answered'.token]
=============================================================================
