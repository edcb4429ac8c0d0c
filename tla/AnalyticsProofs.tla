---------------------------- MODULE AnalyticsProofs ----------------------------
(***************************************************************************)
(* Registration keys and analytics, for every value of the constants: the  *)
(* keys and their overlaps, the nonces of the replay guard, the artifacts  *)
(* of the export manager, and consents with the events they gate.  Each    *)
(* part has an invariant of its own.                                       *)
(***************************************************************************)
EXTENDS Analytics, FiniteSetTheorems, WellFoundedInduction, TLAPS

---------------------------------------------------------------------------
(* Registration keys.                                                      *)

\* What the operator's environment and the loaded settings are made of.
Environment ==
    [key : ApiKeys \cup {Unset}, expires : Int, previous : ApiKeys \cup {Unset},
     previous_expires : Int, scoped : SUBSET ScopedTokens]

AuthTypeOK ==
    /\ config \in Environment /\ environ \in Environment
    /\ auth_time \in Nat
    /\ holds \in [Deployed -> ApiKeys \cup {Unset}]
    /\ replaced \in [ApiKeys -> Int]

\* A replaced key is no primary key any more; it is the loaded previous key with the expiry
\* that ends its overlap, or its overlap is over.
ReplacedKeysFade ==
    \A k \in ApiKeys : replaced[k] # Never =>
        /\ k # config.key /\ k # environ.key
        /\ k = config.previous => replaced[k] = config.previous_expires
        /\ k # config.previous => replaced[k] <= auth_time
        /\ environ.key # Unset
        /\ config.key # Unset \/ config = NotLoaded

\* What the operator has prepared for the next start: the key in use as the previous one of
\* a new key, or no previous key, and that only after the last overlap.
RotationPrepared ==
    /\ environ.previous # Unset => environ.key # Unset
    /\ config # environ =>
          /\ config.key # environ.key => environ.previous = config.key
          /\ config.key = environ.key => environ.previous = Unset
          /\ config.previous = Unset \/ auth_time >= config.previous_expires

AuthInv == AuthTypeOK /\ ReplacedKeysFade /\ RotationPrepared

---------------------------------------------------------------------------

\* The fields of settings that are not loaded.
LEMMA NotLoadedFields ==
    /\ NotLoaded \in Environment
    /\ NotLoaded.key = Unset /\ NotLoaded.previous = Unset
  BY DEF NotLoaded, Environment

\* A process that starts with any first environment.
LEMMA AuthInitially ==
    ASSUME AuthInit(FirstEnvironments)
    PROVE  AuthInv
  <1>1. environ \in Environment /\ environ.previous = Unset
    <2>1. Never \in Int /\ Expiries \subseteq Int
      BY RegisterAuthAssumption DEF Never
    <2>2. environ \in FirstEnvironments
      BY DEF AuthInit
    <2> QED BY <2>1, <2>2, Zenon DEF FirstEnvironments, Environment
  <1>2. AuthTypeOK
    BY <1>1, RegisterAuthAssumption DEF AuthInit, AuthTypeOK, Never, Environment
  <1>3. ReplacedKeysFade
    BY DEF AuthInit, ReplacedKeysFade
  <1>4. RotationPrepared
    BY <1>1 DEF AuthInit, RotationPrepared
  <1> QED BY <1>2, <1>3, <1>4 DEF AuthInv

\* A start with settings that are refused, or with the prepared ones.
LEMMA RestartKeeps ==
    ASSUME AuthInv, restart
    PROVE  AuthInv'
  <1>1. config \in Environment /\ environ \in Environment /\ auth_time \in Nat
        /\ replaced \in [ApiKeys -> Int] /\ Unset \notin ApiKeys
    BY RegisterAuthAssumption DEF AuthInv, AuthTypeOK
  <1>2. config # environ /\ environ' = environ /\ auth_time' = auth_time /\ holds' = holds
    BY DEF restart
  <1>3. \/ config' = environ
        \/ config' = NotLoaded /\ environ.previous = Unset
    BY DEF restart, Loads, AuthInv, RotationPrepared
  <1>4. AuthTypeOK'
    <2>1. config' \in Environment
      BY <1>1, <1>3, NotLoadedFields
    <2>2. replaced' \in [ApiKeys -> Int]
      BY <1>1 DEF restart, Environment
    <2> QED BY <1>1, <1>2, <2>1, <2>2 DEF AuthInv, AuthTypeOK
  <1>5. ReplacedKeysFade'
    <2> SUFFICES ASSUME NEW k \in ApiKeys, replaced'[k] # Never
                 PROVE  /\ k # config'.key /\ k # environ.key
                        /\ k = config'.previous => replaced'[k] = config'.previous_expires
                        /\ k # config'.previous => replaced'[k] <= auth_time
                        /\ environ.key # Unset
                        /\ config'.key # Unset \/ config' = NotLoaded
      BY <1>2 DEF ReplacedKeysFade, Never
    <2>1. CASE k = config.key /\ config'.key \notin {k, Unset}
      <3>1. config' = environ /\ replaced'[k] = environ.previous_expires
        BY <1>3, <2>1, NotLoadedFields DEF restart
      <3>2. environ.previous = k
        BY <1>2, <2>1, <3>1, Zenon DEF AuthInv, RotationPrepared
      <3> QED BY <2>1, <3>1, <3>2, Zenon
    <2>2. CASE ~(k = config.key /\ config'.key \notin {k, Unset})
      <3>1. replaced'[k] = replaced[k]
        BY <2>2, Zenon DEF restart
      <3>2. /\ k # config.key /\ k # environ.key /\ environ.key # Unset
            /\ replaced[k] <= auth_time
        BY <1>1, <1>2, <3>1, Zenon DEF AuthInv, ReplacedKeysFade, RotationPrepared, Environment
      <3>3. k # environ.previous
        BY <1>1, <1>2, <3>2, Zenon DEF AuthInv, RotationPrepared
      <3> QED BY <1>1, <1>3, <3>1, <3>2, <3>3, NotLoadedFields, Zenon
    <2> QED BY <2>1, <2>2, Zenon
  <1>6. RotationPrepared'
    BY <1>2, <1>3, NotLoadedFields, Zenon DEF AuthInv, RotationPrepared
  <1> QED BY <1>4, <1>5, <1>6, Zenon DEF AuthInv

\* What the operator does to the environment.
LEMMA OperatorKeeps ==
    ASSUME AuthInv, Rotate \/ Withdraw \/ Correct
    PROVE  AuthInv'
  <1>1. config \in Environment /\ environ \in Environment /\ auth_time \in Nat
        /\ Unset \notin ApiKeys /\ Overlap \in Nat /\ Never \in Int /\ Expiries \subseteq Int
    BY RegisterAuthAssumption DEF AuthInv, AuthTypeOK, Never
  <1>2. UNCHANGED <<config, auth_time, holds, replaced>>
    BY Zenon DEF Rotate, Withdraw, Correct
  <1>3. environ' \in Environment
    <2>1. CASE Rotate
      <3> DEFINE u == IF environ.key = Unset THEN Never ELSE auth_time + Overlap
      <3>1. PICK k \in ApiKeys, x \in Expiries :
              environ' = [environ EXCEPT !.key = k, !.expires = x, !.previous = environ.key,
                                         !.previous_expires = u]
        BY <2>1, Zenon DEF Rotate
      <3>2. u \in Int
        BY <1>1
      <3> HIDE DEF u
      <3> QED BY <1>1, <3>1, <3>2, Zenon DEF Environment
    <2>2. CASE Withdraw
      <3>1. PICK x \in Int : environ' = [environ EXCEPT !.previous = Unset, !.previous_expires = x]
        BY <1>1, <2>2, Zenon DEF Withdraw, Environment
      <3> QED BY <1>1, <3>1, Zenon DEF Environment
    <2>3. CASE Correct
      BY <1>1, <2>3, Zenon DEF Correct, Environment
    <2> QED BY <2>1, <2>2, <2>3, Zenon
  <1>4. CASE Rotate
    <2>1. PICK k \in ApiKeys : /\ k # environ.key /\ replaced[k] = Never
                               /\ environ'.key = k /\ environ'.previous = environ.key
      BY <1>1, <1>4, ZenonT(30) DEF Rotate, Environment
    <2>2. config = environ /\ (config.previous = Unset \/ auth_time >= config.previous_expires)
      BY <1>4, Zenon DEF Rotate
    <2>3. ReplacedKeysFade'
      BY <1>1, <1>2, <2>1, Zenon DEF AuthInv, ReplacedKeysFade, Never
    <2>4. RotationPrepared'
      BY <1>1, <1>2, <2>1, <2>2, Zenon DEF RotationPrepared
    <2> QED BY <1>2, <1>3, <2>3, <2>4, Zenon DEF AuthInv, AuthTypeOK
  <1>5. CASE Withdraw \/ Correct
    <2>1. environ'.key = environ.key /\ environ'.previous = Unset
      BY <1>1, <1>5, Zenon DEF Withdraw, Correct, Environment, AuthInv, RotationPrepared, Loads
    <2>2. ReplacedKeysFade'
      BY <1>2, <2>1, Zenon DEF AuthInv, ReplacedKeysFade, Never
    <2>3. /\ config.key # environ.key => config.key = Unset
          /\ config.previous = Unset \/ auth_time >= config.previous_expires
      BY <1>5, NotLoadedFields, Zenon DEF Withdraw, Correct
    <2>4. RotationPrepared'
      BY <1>2, <2>1, <2>3, Zenon DEF RotationPrepared
    <2> QED BY <1>2, <1>3, <2>2, <2>4, Zenon DEF AuthInv, AuthTypeOK
  <1> QED BY <1>4, <1>5, Zenon

\* Clients, the clock and requests.
LEMMA ClientsKeep ==
    ASSUME AuthInv, (\E c \in Deployed : Adopt(c)) \/ PassTime \/ Register \/ UNCHANGED authVars
    PROVE  AuthInv'
  <1>1. UNCHANGED <<config, environ, replaced>> /\ auth_time \in Nat
    BY Zenon DEF Adopt, PassTime, Register, require_register_auth, authVars, AuthInv, AuthTypeOK
  <1>2. auth_time' \in Nat /\ auth_time' >= auth_time
    BY <1>1 DEF Adopt, PassTime, Register, require_register_auth, authVars
  <1>3. holds' \in [Deployed -> ApiKeys \cup {Unset}]
    BY Zenon DEF Adopt, PassTime, Register, require_register_auth, authVars, AuthInv, AuthTypeOK
  <1>4. AuthTypeOK'
    BY <1>1, <1>2, <1>3, Zenon DEF AuthInv, AuthTypeOK
  <1>5. ReplacedKeysFade'
    <2> SUFFICES ASSUME NEW k \in ApiKeys, replaced[k] # Never, k # config.previous
                 PROVE  replaced[k] <= auth_time'
      BY <1>1, Zenon DEF AuthInv, ReplacedKeysFade, Never
    <2>1. replaced[k] \in Int /\ replaced[k] <= auth_time
      BY Zenon DEF AuthInv, AuthTypeOK, ReplacedKeysFade
    <2> QED BY <1>1, <1>2, <2>1
  <1>6. RotationPrepared'
    <2>1. config.previous_expires \in Int
      BY Zenon DEF AuthInv, AuthTypeOK, Environment
    <2>2. auth_time >= config.previous_expires => auth_time' >= config.previous_expires
      BY <1>1, <1>2, <2>1
    <2> QED BY <1>1, <2>2, Zenon DEF AuthInv, RotationPrepared
  <1> QED BY <1>4, <1>5, <1>6, Zenon DEF AuthInv

\* The settings, their rotations and the requests keep the invariant of the keys.
LEMMA AuthInvHolds == AuthSpec => []AuthInv
  <1>1. AuthInv /\ [AuthNext]_authVars => AuthInv'
    BY RestartKeeps, OperatorKeeps, ClientsKeep, Zenon DEF AuthNext
  <1> QED BY <1>1, AuthInitially, PTL DEF AuthSpec

---------------------------------------------------------------------------

\* A token that is not among the scoped ones and is not the primary key is recognised only
\* as the previous key, before its expiry.
LEMMA OldKeyRecognised ==
    ASSUME AuthInv, NEW k \in ApiKeys, k # config.key
    PROVE  /\ k = config.previous /\ auth_time < config.previous_expires => principal_of(k) = Unset
           /\ ~(k = config.previous /\ auth_time < config.previous_expires)
                 => principal_of(k) = "nobody"
  <1>1. k \notin config.scoped /\ k # Unset
    BY RegisterAuthAssumption, Zenon DEF AuthInv, AuthTypeOK, Environment
  <1> QED BY <1>1, Zenon DEF principal_of, authenticate

\* A scoped token is recognised as its owner or not at all.
LEMMA ScopedRecognised ==
    ASSUME AuthInv, NEW t \in config.scoped
    PROVE  principal_of(t) \in {OwnerOf[t], "nobody"} /\ OwnerOf[t] # Unset /\ t # Unset
  <1>1. t \in ScopedTokens /\ config.previous \in ApiKeys \cup {Unset} /\ t # Unset
    BY RegisterAuthAssumption, Zenon DEF AuthInv, AuthTypeOK, Environment
  <1>2. t # config.previous /\ OwnerOf[t] \in Addresses
    BY <1>1, RegisterAuthAssumption, Zenon
  <1> QED BY <1>1, <1>2, RegisterAuthAssumption, Zenon DEF principal_of, authenticate

\* What a request has to show to be handled.
LEMMA HandledWhen ==
    ASSUME NEW token, NEW claimed, require_register_auth(token, claimed),
           ~(config.key = Unset /\ config.scoped = {}), token # Unset
    PROVE  /\ answered'.token = token /\ answered'.claimed = claimed
           /\ answered'.reply = "handled" =>
                 principal_of(token) # "nobody" /\ scope_allows(principal_of(token), claimed)
           /\ principal_of(token) = Unset => answered'.reply = "handled"
  BY RegisterAuthAssumption, Zenon DEF require_register_auth, scope_allows

\* No rotation of the registration key, however its overlap, restarts, withdrawals and
\* corrections interleave with requests, cuts off a client inside the overlap or serves one
\* after it, and a scoped token registers for its own owner only (require_register_auth).
THEOREM RotationsCutNobodyOff == AuthSpec => [][RotationWithoutDowntime]_authVars
  <1>1. ASSUME AuthInv, NEW token, NEW claimed, require_register_auth(token, claimed)
        PROVE  RotationWithoutDowntime
    <2>1. config # NotLoaded /\ answered'.token = token /\ answered'.claimed = claimed
      BY <1>1, Zenon DEF require_register_auth
    <2>2. ASSUME NEW c \in Deployed, holds[c] # Unset, token = holds[c], replaced[token] # Never
          PROVE  (answered'.reply = "handled") = (auth_time < replaced[token])
      <3>1. token \in ApiKeys
        BY <1>1, <2>2, Zenon DEF AuthInv, AuthTypeOK
      <3>2. /\ token # config.key /\ config.key # Unset
            /\ token = config.previous => replaced[token] = config.previous_expires
            /\ token # config.previous => replaced[token] <= auth_time
        BY <1>1, <2>1, <2>2, <3>1, Zenon DEF AuthInv, ReplacedKeysFade
      <3>3. (answered'.reply = "handled") = (principal_of(token) = Unset)
        BY <1>1, <2>2, <3>1, <3>2, OldKeyRecognised, HandledWhen, RegisterAuthAssumption, Zenon
      <3>4. replaced[token] \in Int /\ auth_time \in Nat
        BY <1>1, <3>1, Zenon DEF AuthInv, AuthTypeOK
      <3> QED BY <1>1, <3>1, <3>2, <3>3, <3>4, OldKeyRecognised, RegisterAuthAssumption
    <2>3. ASSUME token \in config.scoped, answered'.reply = "handled"
          PROVE  claimed = OwnerOf[token]
      BY <1>1, <2>3, ScopedRecognised, HandledWhen, Zenon DEF scope_allows
    <2> QED BY <2>1, <2>2, <2>3, Zenon DEF RotationWithoutDowntime
  <1>2. AuthInv /\ [AuthNext]_authVars => [RotationWithoutDowntime]_authVars
    <2>1. restart => answered'.reply = "none"
      BY DEF restart, Silence
    <2>2. Rotate \/ Withdraw \/ Correct \/ (\E c \in Deployed : Adopt(c)) \/ PassTime
             => answered' = answered
      BY ZenonT(30) DEF Rotate, Withdraw, Correct, Adopt, PassTime
    <2>3. answered' = answered \/ answered'.reply = "none" => RotationWithoutDowntime
      BY Zenon DEF RotationWithoutDowntime
    <2> QED BY <1>1, <2>1, <2>2, <2>3, Zenon DEF AuthNext, Register
  <1> QED BY <1>2, AuthInvHolds, PTL DEF AuthSpec

---------------------------------------------------------------------------
(* The replay guard.                                                       *)

Acceptance == [nonce : Nonces, at : Nat]

GuardTypeOK ==
    /\ \A n \in DOMAIN nonces : nonces[n] \in Int
    /\ calls \in [Callers -> Int]
    /\ guard_time \in Nat
    /\ accepted \in Seq(Acceptance)

\* A call between its two sections read the clock at most MaxDelay ago.
CallsAreFresh ==
    \A c \in Callers : calls[c] # Waiting =>
        calls[c] <= guard_time /\ guard_time <= calls[c] + MaxDelay

\* The guard remembers an accepted nonce with the time its call read, or so much time has
\* passed that it may have forgotten it.
Remembered(a) ==
    \/ a.nonce \in DOMAIN nonces /\ a.at <= nonces[a.nonce] + MaxDelay
    \/ guard_time + MaxDelay > a.at + NonceTtl

AcceptedAreRemembered == \A i \in DOMAIN accepted : Remembered(accepted[i])

GuardInv == GuardTypeOK /\ CallsAreFresh /\ AcceptedAreRemembered /\ NonceAcceptedOnce

\* Every acceptance on record has a time.
LEMMA AcceptedTyped ==
    ASSUME GuardInv
    PROVE  \A i \in DOMAIN accepted : accepted[i] \in Acceptance /\ accepted[i].at \in Nat
  <1>1. \A i \in DOMAIN accepted : accepted[i] \in Acceptance
    BY DEF GuardInv, GuardTypeOK
  <1> QED BY <1>1, Zenon DEF Acceptance

\* A guard that has seen nothing.
LEMMA GuardInitially ==
    ASSUME GuardInit
    PROVE  GuardInv
  BY DEF GuardInit, GuardInv, GuardTypeOK, CallsAreFresh, AcceptedAreRemembered, NonceAcceptedOnce,
         Waiting

\* Pruning forgets what is older than the time to live.
LEMMA PruneKeeps ==
    ASSUME GuardInv, NEW c \in Callers, enter_guard(c)
    PROVE  GuardInv'
  <1>1. PICK dead : /\ dead \in SUBSET StaleNonces(guard_time)
                    /\ nonces' = Restrict(nonces, DOMAIN nonces \ dead)
    BY Zenon DEF enter_guard, _prune, Doomed
  <1>2. /\ DOMAIN nonces' = DOMAIN nonces \ dead
        /\ \A n \in DOMAIN nonces' : nonces'[n] = nonces[n]
    BY <1>1, Zenon DEF Restrict
  <1>3. UNCHANGED <<guard_time, accepted>> /\ calls' = [calls EXCEPT ![c] = guard_time]
    BY Zenon DEF enter_guard
  <1>4. GuardTypeOK'
    BY <1>2, <1>3 DEF GuardInv, GuardTypeOK
  <1>5. CallsAreFresh'
    BY <1>3, GuardAssumption DEF GuardInv, GuardTypeOK, CallsAreFresh
  <1>6. AcceptedAreRemembered'
    <2> SUFFICES ASSUME NEW i \in DOMAIN accepted PROVE Remembered(accepted[i])'
      BY <1>3, Zenon DEF AcceptedAreRemembered
    <2>1. PICK n, t : n = accepted[i].nonce /\ t = accepted[i].at
      BY Zenon
    <2>2. t \in Nat /\ guard_time \in Nat
      BY <2>1, AcceptedTyped, Zenon DEF GuardInv, GuardTypeOK
    <2>3. \/ n \in DOMAIN nonces /\ t <= nonces[n] + MaxDelay
          \/ guard_time + MaxDelay > t + NonceTtl
      BY <2>1, Zenon DEF GuardInv, AcceptedAreRemembered, Remembered
    <2>4. \/ n \in DOMAIN nonces' /\ t <= nonces'[n] + MaxDelay
          \/ guard_time + MaxDelay > t + NonceTtl
      <3>1. CASE n \in dead
        <4>1. guard_time - nonces[n] > NonceTtl /\ nonces[n] \in Int
          BY <1>1, <3>1, Zenon DEF StaleNonces, GuardInv, GuardTypeOK
        <4> QED BY <2>2, <2>3, <4>1, GuardAssumption
      <3>2. CASE n \notin dead
        BY <1>2, <2>3, <3>2, Zenon
      <3> QED BY <3>1, <3>2, Zenon
    <2> QED BY <1>3, <2>1, <2>4, Zenon DEF Remembered
  <1> QED BY <1>3, <1>4, <1>5, <1>6, Zenon DEF GuardInv, NonceAcceptedOnce

\* A call records an unseen nonce with the time it read.
LEMMA RecordKeeps ==
    ASSUME GuardInv, NEW c \in Callers, NEW n \in Nonces, NEW tag, verify_and_record(c, n, tag)
    PROVE  GuardInv'
  <1>1. PICK now : now = calls[c]
    BY Zenon
  <1>2. now \in Int /\ guard_time \in Nat /\ now <= guard_time /\ guard_time <= now + MaxDelay
    BY <1>1, Zenon DEF verify_and_record, GuardInv, GuardTypeOK, CallsAreFresh
  <1>3. UNCHANGED guard_time /\ calls' = [calls EXCEPT ![c] = Waiting]
    BY Zenon DEF verify_and_record
  <1>4. /\ \A m \in DOMAIN nonces : m \in DOMAIN nonces' /\ nonces'[m] = nonces[m]
        /\ Records(n) => n \in DOMAIN nonces' /\ nonces'[n] = now
        /\ \A m \in DOMAIN nonces' : m \in DOMAIN nonces \/ nonces'[m] = now
    <2>1. CASE Records(n)
      BY <1>1, <2>1, Zenon DEF verify_and_record, With, Records
    <2>2. CASE ~Records(n)
      BY <2>2, Zenon DEF verify_and_record
    <2> QED BY <2>1, <2>2, Zenon
  <1>5. \/ accepted' = accepted
        \/ Records(n) /\ accepted' = Append(accepted, [nonce |-> n, at |-> guard_time])
    BY Zenon DEF verify_and_record, Answer, Records
  <1>6. [nonce |-> n, at |-> guard_time] \in Acceptance
    BY <1>2, Zenon DEF Acceptance
  <1>7. GuardTypeOK'
    <2>1. accepted' \in Seq(Acceptance)
      BY <1>5, <1>6 DEF GuardInv, GuardTypeOK
    <2> QED BY <1>2, <1>3, <1>4, <2>1 DEF GuardInv, GuardTypeOK, Waiting
  <1>8. CallsAreFresh'
    BY <1>3, Zenon DEF GuardInv, GuardTypeOK, CallsAreFresh, Waiting
  <1>9. \A i \in DOMAIN accepted : \E a : a = accepted[i] /\ Remembered(a)'
    <2> SUFFICES ASSUME NEW i \in DOMAIN accepted PROVE \E a : a = accepted[i] /\ Remembered(a)'
      BY Zenon
    <2>1. PICK a : a = accepted[i]
      BY Zenon
    <2>2. Remembered(a)
      BY <2>1, Zenon DEF GuardInv, AcceptedAreRemembered
    <2>3. Remembered(a)'
      BY <1>3, <1>4, <2>2, Zenon DEF Remembered
    <2> QED BY <2>1, <2>3, Zenon
  <1>10. CASE accepted' = accepted
    BY <1>7, <1>8, <1>9, <1>10, Zenon DEF GuardInv, AcceptedAreRemembered, NonceAcceptedOnce
  <1>11. CASE Records(n) /\ accepted' = Append(accepted, [nonce |-> n, at |-> guard_time])
    <2> DEFINE len == Len(accepted)
    <2>1. /\ len \in Nat /\ DOMAIN accepted = 1 .. len /\ DOMAIN accepted' = 1 .. len + 1
          /\ \A i \in 1 .. len : accepted'[i] = accepted[i] /\ accepted[i].at \in Nat
          /\ accepted'[len + 1] = [nonce |-> n, at |-> guard_time]
      <3>1. accepted \in Seq(Acceptance)
        BY Zenon DEF GuardInv, GuardTypeOK
      <3> QED BY <1>6, <1>11, <3>1, AcceptedTyped
    <2> HIDE DEF len
    <2>2. Remembered([nonce |-> n, at |-> guard_time])'
      BY <1>2, <1>3, <1>4, <1>11, Zenon DEF Remembered
    <2>3. AcceptedAreRemembered'
      BY <1>3, <1>9, <2>1, <2>2 DEF AcceptedAreRemembered
    <2>4. NonceAcceptedOnce'
      <3> SUFFICES ASSUME NEW i \in 1 .. len + 1, NEW j \in 1 .. len + 1, i < j,
                          accepted'[i].nonce = accepted'[j].nonce
                   PROVE  accepted'[j].at - accepted'[i].at > NonceTtl - MaxDelay
        BY <2>1, Zenon DEF NonceAcceptedOnce
      <3>1. CASE j \in 1 .. len
        BY <2>1, <3>1 DEF GuardInv, NonceAcceptedOnce
      <3>2. CASE j = len + 1
        <4>1. i \in 1 .. len /\ accepted[i].nonce = n
          BY <2>1, <3>2
        <4>2. guard_time + MaxDelay > accepted[i].at + NonceTtl
          BY <1>11, <2>1, <4>1, Zenon DEF GuardInv, AcceptedAreRemembered, Remembered, Records
        <4> QED BY <1>2, <2>1, <3>2, <4>1, <4>2, GuardAssumption
      <3> QED BY <2>1, <3>1, <3>2
    <2> QED BY <1>7, <1>8, <2>3, <2>4, Zenon DEF GuardInv
  <1> QED BY <1>5, <1>10, <1>11, Zenon

\* Time passes between the calls of the guard.
LEMMA GuardClockKeeps ==
    ASSUME GuardInv, PassGuardTime
    PROVE  GuardInv'
  <1>1. UNCHANGED <<nonces, calls, accepted>> /\ guard_time' = guard_time + 1 /\ guard_time \in Nat
    BY Zenon DEF PassGuardTime, GuardInv, GuardTypeOK
  <1>2. CallsAreFresh'
    BY <1>1, GuardAssumption DEF PassGuardTime, CallsAreFresh, GuardInv, GuardTypeOK
  <1>3. AcceptedAreRemembered'
    <2> SUFFICES ASSUME NEW i \in DOMAIN accepted PROVE Remembered(accepted[i])'
      BY <1>1, Zenon DEF AcceptedAreRemembered
    <2>1. accepted[i].at \in Nat
      BY AcceptedTyped, Zenon
    <2> QED BY <1>1, <2>1, GuardAssumption DEF GuardInv, AcceptedAreRemembered, Remembered
  <1> QED BY <1>1, <1>2, <1>3 DEF GuardInv, GuardTypeOK, NonceAcceptedOnce

\* A nonce is accepted again only once the guard may have forgotten it.
THEOREM NoncesAreAcceptedOnce == GuardSpec => []NonceAcceptedOnce
  <1>1. GuardInv /\ [GuardNext]_guardVars => GuardInv'
    <2>1. GuardInv /\ UNCHANGED guardVars => GuardInv'
      BY Zenon DEF guardVars, GuardInv, GuardTypeOK, CallsAreFresh, AcceptedAreRemembered, Remembered,
             NonceAcceptedOnce
    <2> QED BY <2>1, PruneKeeps, RecordKeeps, GuardClockKeeps, Zenon DEF GuardNext
  <1>2. GuardInv => NonceAcceptedOnce
    BY Zenon DEF GuardInv
  <1> QED BY <1>1, <1>2, GuardInitially, PTL DEF GuardSpec

---------------------------------------------------------------------------
(* Exports.                                                                *)

\* A set of positions of a list has a last one.
LEMMA LastOfPositions ==
    ASSUME NEW n \in Nat, NEW T, T \subseteq 1 .. n, T # {}
    PROVE  \E x \in T : \A y \in T : y <= x
  <1> DEFINE R == OpToRel(<, Nat)
             U == {n - i : i \in T}
  <1>1. IsWellFoundedOn(R, Nat)
    BY NatLessThanWellFounded, Zenon
  <1>2. \A i \in T : i \in Int /\ n - i \in Nat /\ n - i \in U
    OBVIOUS
  <1>3. U \subseteq Nat /\ U # {}
    BY <1>2, Zenon
  <1> HIDE DEF R
  <1>4. PICK u \in U : \A w \in U : ~(<<w, u>> \in R)
    <2> HIDE DEF U
    <2> QED BY <1>1, <1>3, WFMin, Zenon
  <1>5. \A w \in U : ~(w < u)
    BY <1>3, <1>4, Zenon DEF OpToRel, R
  <1>6. PICK x \in T : u = n - x
    BY Zenon
  <1>7. \A y \in T : y <= x
    <2> HIDE DEF U
    <2> QED BY <1>2, <1>5, <1>6
  <1> QED BY <1>7, Zenon

\* The first n of some positions are n at most.
LEMMA FirstOfBounded ==
    ASSUME NEW m \in Nat, NEW I, I \subseteq 1 .. m, NEW n \in Nat
    PROVE  /\ FirstOf(n, I) \subseteq I
           /\ IsFiniteSet(FirstOf(n, I))
           /\ Cardinality(FirstOf(n, I)) <= n
  <1> DEFINE F == FirstOf(n, I)
  <1>1. F \subseteq I /\ F \subseteq 1 .. m
    BY Zenon DEF FirstOf
  <1>2. IsFiniteSet(1 .. m)
    BY FS_Interval
  <1>3. IsFiniteSet(I) /\ IsFiniteSet(F) /\ Cardinality(F) \in Nat
    BY <1>1, <1>2, FS_Subset, FS_CardinalityType, Zenon
  <1>4. CASE F = {}
    <2>1. Cardinality(F) = 0
      BY <1>4, FS_EmptySet, Zenon
    <2> HIDE DEF F
    <2> QED BY <1>1, <1>3, <2>1 DEF F
  <1>5. CASE F # {}
    <2>1. PICK x \in F : \A y \in F : y <= x
      <3> HIDE DEF F
      <3> QED BY <1>1, <1>5, LastOfPositions, Zenon
    <2> DEFINE B == {j \in I : j <= x}
    <2>2. F \in SUBSET B /\ B \in SUBSET I
      BY <1>1, <2>1, Zenon
    <2>3. Cardinality(B) <= n
      BY <2>1, Zenon DEF FirstOf
    <2> HIDE DEF F, B
    <2>4. IsFiniteSet(B) /\ Cardinality(B) \in Nat
      BY <1>3, <2>2, FS_Subset, FS_CardinalityType, Zenon
    <2>5. Cardinality(F) <= Cardinality(B)
      BY <2>2, <2>4, FS_Subset, Zenon
    <2>6. Cardinality(F) <= n
      BY <1>3, <2>3, <2>4, <2>5
    <2> QED BY <1>1, <1>3, <2>6, Zenon DEF F
  <1> QED BY <1>4, <1>5, Zenon

---------------------------------------------------------------------------
(* What an artifact holds.                                                 *)

Entry == [key : EntryKeys, faults : SUBSET Faults, export_safe : BOOLEAN]

ArtifactSound(a) ==
    /\ Cardinality(DOMAIN a.content) <= MaxPerExport
    /\ ~a.verified => a.content = <<>>
    /\ \A e \in Range(a.content) : e.faults = {} /\ e.export_safe

\* The positions of what an export may hold.
LEMMA FittingPositions ==
    ASSUME NEW m \in Nat, NEW source, DOMAIN source \subseteq 1 .. m, NEW verified \in BOOLEAN,
           NEW fitting \in export_json_logs(IF verified THEN FirstOf(MaxPerExport, Exportable(source))
                                             ELSE {})
    PROVE  /\ fitting \subseteq Exportable(source)
           /\ Cardinality(fitting) <= MaxPerExport
           /\ ~verified => fitting = {}
  <1> DEFINE I == FirstOf(MaxPerExport, Exportable(source))
  <1>1. MaxPerExport \in Nat
    BY ExportAssumption, Zenon
  <1>2. Exportable(source) \subseteq 1 .. m
    BY Zenon DEF Exportable
  <1>3. /\ I \subseteq Exportable(source) /\ IsFiniteSet(I)
        /\ Cardinality(I) <= MaxPerExport /\ Cardinality(I) \in Nat
    BY <1>1, <1>2, FirstOfBounded, FS_CardinalityType, Zenon
  <1>4. CASE fitting = {}
    BY <1>1, <1>4, FS_EmptySet
  <1>5. CASE fitting # {}
    <2>1. verified /\ fitting \in export_json_logs(I)
      BY <1>5, Zenon DEF export_json_logs
    <2>2. PICK n : fitting = FirstOf(n, I)
      <3> HIDE DEF I
      <3> QED BY <1>5, <2>1, Zenon DEF export_json_logs
    <2> HIDE DEF I
    <2>3. fitting \in SUBSET I
      BY <2>2, Zenon DEF FirstOf
    <2>4. Cardinality(fitting) <= Cardinality(I) /\ Cardinality(fitting) \in Nat
      BY <1>3, <2>3, FS_Subset, FS_CardinalityType, Zenon
    <2>5. Cardinality(fitting) <= MaxPerExport
      BY <1>1, <1>3, <2>4
    <2> QED BY <1>3, <2>1, <2>3, <2>5, Zenon
  <1> QED BY <1>4, <1>5, Zenon
\* What an export puts into an artifact.
LEMMA ExportedContentSound ==
    ASSUME NEW m \in Nat, NEW source, DOMAIN source \subseteq 1 .. m, NEW verified \in BOOLEAN,
           NEW fitting \in export_json_logs(IF verified THEN FirstOf(MaxPerExport, Exportable(source))
                                             ELSE {})
    PROVE  ArtifactSound([content |-> Restrict(source, fitting), verified |-> verified])
  <1>1. /\ fitting \subseteq Exportable(source)
        /\ Cardinality(fitting) <= MaxPerExport
        /\ ~verified => fitting = {}
    BY FittingPositions, Zenon
  <1> DEFINE content == Restrict(source, fitting)
  <1>2. DOMAIN content = fitting /\ \A i \in fitting : content[i] = source[i]
    BY Zenon DEF Restrict
  <1>3. fitting = {} => content = <<>>
    BY DEF Restrict
  <1>4. \A e \in Range(content) : e.faults = {} /\ e.export_safe
    <2> HIDE DEF content
    <2> QED BY <1>1, <1>2, Zenon DEF Range, Exportable, validate_log_export_safety
  <1> HIDE DEF content
  <1>5. ArtifactSound([content |-> content, verified |-> verified])
    BY <1>1, <1>2, <1>3, <1>4, Zenon DEF ArtifactSound
  <1> QED BY <1>5, Zenon DEF content

---------------------------------------------------------------------------
(* The queue of artifacts.                                                 *)

Ascending(q) == \A i, j \in DOMAIN q : i < j => q[i] < q[j]

\* Its head is evicted.
LEMMA HeadEvicted ==
    ASSUME NEW q \in Seq(Nat), Ascending(q), q # <<>>
    PROVE  /\ Tail(q) \in Seq(Nat) /\ Ascending(Tail(q))
           /\ Head(q) \in Range(q) /\ Range(Tail(q)) = Range(q) \ {Head(q)}
  <1>1. /\ Len(q) \in Nat \ {0} /\ DOMAIN q = 1 .. Len(q) /\ Head(q) = q[1]
        /\ Tail(q) \in Seq(Nat) /\ DOMAIN Tail(q) = 1 .. Len(q) - 1
        /\ \A i \in 1 .. Len(q) - 1 : Tail(q)[i] = q[i + 1]
        /\ \A i \in 1 .. Len(q) : q[i] \in Nat
    OBVIOUS
  <1>2. Ascending(Tail(q))
    BY <1>1 DEF Ascending
  <1>3. \A i \in 2 .. Len(q) : q[i] # q[1]
    BY <1>1 DEF Ascending
  <1>4. Range(Tail(q)) = {q[i] : i \in 2 .. Len(q)}
    <2>1. ASSUME NEW i \in 1 .. Len(q) - 1 PROVE i + 1 \in 2 .. Len(q)
      BY <1>1
    <2>2. ASSUME NEW i \in 2 .. Len(q) PROVE i - 1 \in 1 .. Len(q) - 1 /\ q[i] = Tail(q)[i - 1]
      BY <1>1
    <2>3. Range(Tail(q)) \subseteq {q[i] : i \in 2 .. Len(q)}
      <3> SUFFICES ASSUME NEW i \in 1 .. Len(q) - 1 PROVE Tail(q)[i] \in {q[j] : j \in 2 .. Len(q)}
        BY <1>1, Zenon DEF Range
      <3> QED BY <1>1, <2>1, Zenon
    <2>4. \A i \in 2 .. Len(q) : q[i] \in Range(Tail(q))
      BY <1>1, <2>2, Zenon DEF Range
    <2> QED BY <2>3, <2>4, Zenon
  <1>5. Range(q) = {q[i] : i \in 2 .. Len(q)} \cup {q[1]}
    BY <1>1 DEF Range
  <1> QED BY <1>1, <1>2, <1>3, <1>4, <1>5

\* A new artifact joins it.
LEMMA NewEnqueued ==
    ASSUME NEW q \in Seq(Nat), Ascending(q), NEW n \in Nat, \A i \in Range(q) : i < n
    PROVE  /\ Append(q, n) \in Seq(Nat) /\ Ascending(Append(q, n))
           /\ Range(Append(q, n)) = Range(q) \cup {n}
  <1>1. /\ Len(q) \in Nat /\ DOMAIN q = 1 .. Len(q)
        /\ Append(q, n) \in Seq(Nat) /\ DOMAIN Append(q, n) = 1 .. Len(q) + 1
        /\ \A i \in 1 .. Len(q) : Append(q, n)[i] = q[i] /\ q[i] \in Range(q)
        /\ Append(q, n)[Len(q) + 1] = n
    BY DEF Range
  <1>2. Ascending(Append(q, n))
    BY <1>1 DEF Ascending
  <1>3. Range(Append(q, n)) = Range(q) \cup {n}
    <2>1. 1 .. Len(q) + 1 = (1 .. Len(q)) \cup {Len(q) + 1}
      BY <1>1
    <2> QED BY <1>1, <2>1, Zenon DEF Range
  <1> QED BY <1>1, <1>2, <1>3, Zenon

\* One of it is deleted.
LEMMA OneUnqueued ==
    ASSUME queue \in Seq(Nat), Ascending(queue), NEW i \in Range(queue)
    PROVE  /\ Unqueued(i) \in Seq(Nat) /\ Ascending(Unqueued(i))
           /\ Range(Unqueued(i)) = Range(queue) \ {i}
  <1> DEFINE p == CHOOSE k \in DOMAIN queue : queue[k] = i
             at(k) == IF k < p THEN k ELSE k + 1
             r == [k \in 1 .. Len(queue) - 1 |-> queue[at(k)]]
  <1>1. p \in DOMAIN queue /\ queue[p] = i
    BY Zenon DEF Range
  <1>2. Unqueued(i) = r
    BY Zenon DEF Unqueued
  <1>3. Len(queue) \in Nat /\ DOMAIN queue = 1 .. Len(queue) /\ \A k \in 1 .. Len(queue) : queue[k] \in Nat
    OBVIOUS
  <1> HIDE DEF p
  <1>4. \A k \in 1 .. Len(queue) - 1 : at(k) \in 1 .. Len(queue) /\ at(k) # p
    BY <1>1, <1>3
  <1>5. \A k, l \in 1 .. Len(queue) - 1 : k < l => at(k) < at(l)
    BY <1>1, <1>3
  <1>6. \A j \in 1 .. Len(queue) : j # p => \E k \in 1 .. Len(queue) - 1 : at(k) = j
    <2> SUFFICES ASSUME NEW j \in 1 .. Len(queue), j # p
                 PROVE  \E k \in 1 .. Len(queue) - 1 : at(k) = j
      BY Zenon
    <2>1. CASE j < p
      <3>1. j \in 1 .. Len(queue) - 1 /\ at(j) = j
        BY <1>1, <1>3, <2>1
      <3> QED BY <3>1, Zenon
    <2>2. CASE ~(j < p)
      <3>1. j - 1 \in 1 .. Len(queue) - 1 /\ at(j - 1) = j
        BY <1>1, <1>3, <2>2
      <3> QED BY <3>1, Zenon
    <2> QED BY <2>1, <2>2, Zenon
  <1> HIDE DEF at
  <1>7. DOMAIN r = 1 .. Len(queue) - 1 /\ \A k \in 1 .. Len(queue) - 1 : r[k] = queue[at(k)]
    BY Zenon
  <1>8. r \in Seq(Nat)
    <2>1. Len(queue) - 1 \in Nat
      BY <1>1, <1>3
    <2>2. \A k \in 1 .. Len(queue) - 1 : queue[at(k)] \in Nat
      BY <1>3, <1>4, Zenon
    <2> QED BY <2>1, <2>2
  <1>9. Ascending(r)
    <2> HIDE DEF r
    <2> QED BY <1>3, <1>4, <1>5, <1>7, Zenon DEF Ascending
  <1>10. \A k \in 1 .. Len(queue) : k # p => queue[k] # i
    BY <1>1, <1>3 DEF Ascending
  <1>11. Range(r) = Range(queue) \ {i}
    <2> HIDE DEF r
    <2>1. Range(r) \subseteq Range(queue) \ {i}
      BY <1>3, <1>4, <1>7, <1>10, Zenon DEF Range
    <2>2. Range(queue) \ {i} \subseteq Range(r)
      <3> SUFFICES ASSUME NEW j \in 1 .. Len(queue), queue[j] # i PROVE queue[j] \in Range(r)
        BY <1>3, Zenon DEF Range
      <3>1. PICK k \in 1 .. Len(queue) - 1 : at(k) = j
        BY <1>1, <1>6, Zenon
      <3> QED BY <1>7, <3>1, Zenon DEF Range
    <2> QED BY <2>1, <2>2, Zenon
  <1> QED BY <1>2, <1>8, <1>9, <1>11, Zenon
---------------------------------------------------------------------------
(* The export manager.                                                     *)

ExportInv ==
    /\ exports \in Nat /\ queue \in Seq(Nat)
    /\ entries \in Seq(Entry) /\ imported \in Seq(Entry)
    /\ \A i \in Range(queue) : i <= exports
    /\ IsFiniteSet(DOMAIN artifacts)
    /\ ExportsAccounted

\* An export manager without artifacts.
LEMMA ExportInitially ==
    ASSUME ExportInit
    PROVE  ExportInv
  <1>1. DOMAIN artifacts = {} /\ Range(queue) = {} /\ DOMAIN queue = {}
    BY DEF ExportInit, Range
  <1>2. Cardinality({}) <= MaxArtifacts
    BY FS_EmptySet, ExportAssumption
  <1>3. ExportsAccounted
    BY <1>1, <1>2, Zenon DEF ExportsAccounted
  <1> QED BY <1>1, <1>3, FS_EmptySet DEF ExportInit, ExportInv

\* Room is made for an artifact before it is kept.
LEMMA EvictionMakesRoom ==
    ASSUME ExportInv, NEW full \in BOOLEAN,
           full <=> Cardinality(DOMAIN artifacts) >= MaxArtifacts /\ queue # <<>>,
           NEW kept, kept = DOMAIN artifacts \ (IF full THEN {Head(queue)} ELSE {}),
           NEW q, q = IF full THEN Tail(queue) ELSE queue
    PROVE  /\ q \in Seq(Nat) /\ Ascending(q) /\ Range(q) = kept
           /\ IsFiniteSet(kept) /\ Cardinality(kept) \in Nat /\ Cardinality(kept) < MaxArtifacts
  <1>1. /\ queue \in Seq(Nat) /\ Ascending(queue) /\ Range(queue) = DOMAIN artifacts
        /\ IsFiniteSet(DOMAIN artifacts) /\ Cardinality(DOMAIN artifacts) <= MaxArtifacts
    BY Zenon DEF ExportInv, ExportsAccounted, Ascending
  <1>2. Cardinality(DOMAIN artifacts) \in Nat /\ MaxArtifacts \in Nat /\ MaxArtifacts > 0
    BY <1>1, FS_CardinalityType, ExportAssumption
  <1>3. CASE full
    <2>1. queue # <<>> /\ q = Tail(queue) /\ kept = DOMAIN artifacts \ {Head(queue)}
      BY <1>3, Zenon
    <2>2. /\ q \in Seq(Nat) /\ Ascending(q)
          /\ Head(queue) \in DOMAIN artifacts /\ Range(q) = kept
      BY <1>1, <2>1, HeadEvicted, Zenon
    <2>3. IsFiniteSet(kept) /\ Cardinality(kept) = Cardinality(DOMAIN artifacts) - 1
      BY <1>1, <2>1, <2>2, FS_RemoveElement, Zenon
    <2>4. Cardinality(kept) \in Nat
      BY <2>3, FS_CardinalityType, Zenon
    <2> QED BY <1>1, <1>2, <2>2, <2>3, <2>4
  <1>4. CASE ~full
    <2>1. q = queue /\ kept = DOMAIN artifacts
      BY <1>4, Zenon
    <2>2. queue = <<>> => DOMAIN artifacts = {}
      <3>1. queue = <<>> => DOMAIN queue = {}
        OBVIOUS
      <3> QED BY <1>1, <3>1, Zenon DEF Range
    <2>3. queue = <<>> => Cardinality(DOMAIN artifacts) = 0
      BY <2>2, FS_EmptySet, Zenon
    <2> QED BY <1>1, <1>2, <1>4, <2>1, <2>3
  <1> QED BY <1>3, <1>4, Zenon

\* An export: what it keeps is sound, listed, and within the bound.
LEMMA ExportKeeps ==
    ASSUME ExportInv, NEW m \in Nat, NEW source, DOMAIN source \subseteq 1 .. m,
           NEW verified \in BOOLEAN, create_export(source, verified)
    PROVE  ExportInv'
  <1>1. UNCHANGED <<entries, imported>> /\ exports' = exports + 1 /\ exports \in Nat
    BY Zenon DEF create_export, ExportInv
  <1>2. PICK n : n = exports'
    BY Zenon
  <1>3. n \in Nat /\ \A i \in Range(queue) : i \in Nat /\ i < n
    <2>1. \A i \in Range(queue) : i \in Nat
      BY DEF ExportInv, Range
    <2> QED BY <1>1, <1>2, <2>1 DEF ExportInv
  <1>4. CASE UNCHANGED <<artifacts, queue>>
    BY <1>1, <1>2, <1>3, <1>4 DEF ExportInv, ExportsAccounted
  <1>5. CASE ~UNCHANGED <<artifacts, queue>>
    <2> DEFINE full == Cardinality(DOMAIN artifacts) >= MaxArtifacts /\ queue # <<>>
               kept == DOMAIN artifacts \ (IF full THEN {Head(queue)} ELSE {})
               q == IF full THEN Tail(queue) ELSE queue
    <2>0. PICK fitting \in export_json_logs(IF verified THEN FirstOf(MaxPerExport, Exportable(source))
                                             ELSE {}) :
            /\ artifacts' = [i \in kept \cup {exports'} |->
                   IF i = exports' THEN [content |-> Restrict(source, fitting), verified |-> verified]
                   ELSE artifacts[i]]
            /\ queue' = Append(q, exports')
      BY <1>5, ZenonT(30) DEF create_export
    <2>1. PICK artifact :
            /\ artifact = [content |-> Restrict(source, fitting), verified |-> verified]
            /\ artifacts' = [i \in kept \cup {n} |-> IF i = n THEN artifact ELSE artifacts[i]]
            /\ queue' = Append(q, n)
      BY <1>2, <2>0, Zenon
    <2>2. /\ q \in Seq(Nat) /\ Ascending(q) /\ Range(q) = kept /\ kept \subseteq DOMAIN artifacts
          /\ IsFiniteSet(kept) /\ Cardinality(kept) \in Nat /\ Cardinality(kept) < MaxArtifacts
      <3>1. full \in BOOLEAN
        BY Zenon
      <3>2. kept \subseteq DOMAIN artifacts
        BY Zenon
      <3> QED BY <3>1, <3>2, EvictionMakesRoom, Zenon
    <2> HIDE DEF full, kept, q
    <2>3. DOMAIN artifacts = Range(queue)
      BY Zenon DEF ExportInv, ExportsAccounted
    <2>4. /\ queue' \in Seq(Nat) /\ Ascending(queue)' /\ Range(queue') = kept \cup {n}
      BY <1>3, <2>1, <2>2, <2>3, NewEnqueued, Zenon DEF Ascending
    <2>5. /\ DOMAIN artifacts' = kept \cup {n} /\ artifacts'[n] = artifact
          /\ \A i \in kept : i # n => artifacts'[i] = artifacts[i]
      BY <2>1, Zenon
    <2>6. IsFiniteSet(kept \cup {n}) /\ Cardinality(kept \cup {n}) <= MaxArtifacts
      <3>1. /\ IsFiniteSet(kept \cup {n})
            /\ Cardinality(kept \cup {n}) = IF n \in kept THEN Cardinality(kept) ELSE Cardinality(kept) + 1
        BY <2>2, FS_AddElement, Zenon
      <3>2. MaxArtifacts \in Nat
        BY ExportAssumption, Zenon
      <3> QED BY <2>2, <3>1, <3>2
    <2>7. ArtifactSound(artifact)
      BY <2>1, ExportedContentSound, ZenonT(30)
    <2>8. \A i \in DOMAIN artifacts : ArtifactSound(artifacts[i])
      BY Zenon DEF ExportInv, ExportsAccounted, ArtifactSound
    <2>9. \A i \in DOMAIN artifacts' : ArtifactSound(artifacts'[i])
      BY <2>2, <2>5, <2>7, <2>8, Zenon
    <2>10. ExportsAccounted'
      BY <2>4, <2>5, <2>6, <2>9, Zenon DEF ExportsAccounted, ArtifactSound, Ascending
    <2>11. \A i \in Range(queue') : i <= n
      BY <1>3, <2>2, <2>3, <2>4
    <2> QED BY <1>1, <1>2, <1>3, <2>4, <2>5, <2>6, <2>10, <2>11, Zenon DEF ExportInv
  <1> QED BY <1>4, <1>5, Zenon
\* The two ways to an export.
LEMMA ExportRoutesKeep ==
    ASSUME ExportInv, export_view \/ export_imported
    PROVE  ExportInv'
  <1>1. /\ Len(entries) \in Nat /\ DOMAIN entries = 1 .. Len(entries)
        /\ Len(imported) \in Nat /\ DOMAIN imported = 1 .. Len(imported)
    BY DEF ExportInv
  <1>2. CASE export_view
    <2>1. PICK n \in 1 .. MaxLogEntries, verified \in BOOLEAN :
            create_export(Restrict(entries, (1 .. n) \cap DOMAIN entries), verified)
      BY <1>2, Zenon DEF export_view
    <2>2. DOMAIN Restrict(entries, (1 .. n) \cap DOMAIN entries) \subseteq 1 .. Len(entries)
      BY <1>1, Zenon DEF Restrict
    <2> QED BY <1>1, <2>1, <2>2, ExportKeeps, Zenon
  <1>3. CASE export_imported
    BY <1>1, <1>3, ExportKeeps, Zenon DEF export_imported
  <1> QED BY <1>2, <1>3, Zenon

\* A deletion.
LEMMA DeletionKeeps ==
    ASSUME ExportInv, NEW i \in DOMAIN artifacts, delete_artifact(i)
    PROVE  ExportInv'
  <1>1. /\ UNCHANGED <<entries, imported, exports>> /\ queue' = Unqueued(i)
        /\ artifacts' = [j \in DOMAIN artifacts \ {i} |-> artifacts[j]]
    BY Zenon DEF delete_artifact
  <1>2. /\ queue \in Seq(Nat) /\ Ascending(queue) /\ Range(queue) = DOMAIN artifacts
        /\ IsFiniteSet(DOMAIN artifacts) /\ Cardinality(DOMAIN artifacts) <= MaxArtifacts
    BY Zenon DEF ExportInv, ExportsAccounted, Ascending
  <1>3. queue' \in Seq(Nat) /\ Ascending(queue)' /\ Range(queue') = Range(queue) \ {i}
    BY <1>1, <1>2, OneUnqueued, Zenon DEF Ascending
  <1>4. /\ DOMAIN artifacts' = DOMAIN artifacts \ {i}
        /\ \A j \in DOMAIN artifacts' : artifacts'[j] = artifacts[j]
    BY <1>1, Zenon
  <1>5. IsFiniteSet(DOMAIN artifacts') /\ Cardinality(DOMAIN artifacts') <= MaxArtifacts
    <2>1. Cardinality(DOMAIN artifacts) \in Nat /\ MaxArtifacts \in Nat
      BY <1>2, FS_CardinalityType, ExportAssumption, Zenon
    <2>2. /\ IsFiniteSet(DOMAIN artifacts \ {i})
          /\ Cardinality(DOMAIN artifacts \ {i}) = Cardinality(DOMAIN artifacts) - 1
      BY <1>2, FS_RemoveElement, Zenon
    <2> QED BY <1>2, <1>4, <2>1, <2>2
  <1>6. ExportsAccounted'
    BY <1>2, <1>3, <1>4, <1>5, Zenon DEF ExportsAccounted, ExportInv, Ascending
  <1>7. \A j \in Range(queue') : j <= exports
    BY <1>3, Zenon DEF ExportInv
  <1> QED BY <1>1, <1>3, <1>5, <1>6, <1>7, Zenon DEF ExportInv

\* The log grows and logs are imported.
LEMMA LoggingKeeps ==
    ASSUME ExportInv, log_event \/ record_error \/ import_json_logs
    PROVE  ExportInv'
  <1>1. UNCHANGED <<artifacts, queue, exports>>
    BY ZenonT(30) DEF log_event, record_error, import_json_logs, Build
  <1>2. \A key \in EntryKeys, faults \in SUBSET Faults, flag \in BOOLEAN :
           [key |-> key, faults |-> faults, export_safe |-> flag] \in Entry
    BY Zenon DEF Entry
  <1>3. entries' \in Seq(Entry) /\ imported' \in Seq(Entry)
    <2>1. CASE log_event \/ record_error
      <3>1. PICK key \in EntryKeys, faults \in SUBSET Faults :
              \/ entries' = entries
              \/ entries' = Append(entries, sanitize_error_context(key, faults))
        BY <2>1, Zenon DEF log_event, record_error, Build, ingest
      <3>2. sanitize_error_context(key, faults) \in Entry
        BY <1>2, Zenon DEF sanitize_error_context
      <3>3. imported' = imported
        BY <2>1, ZenonT(30) DEF log_event, record_error, Build
      <3>4. entries \in Seq(Entry) /\ imported \in Seq(Entry)
        BY Zenon DEF ExportInv
      <3>5. Append(entries, sanitize_error_context(key, faults)) \in Seq(Entry)
        BY <3>2, <3>4
      <3> QED BY <3>1, <3>3, <3>4, <3>5, Zenon
    <2>2. CASE import_json_logs
      <3>1. PICK e \in Entry : imported' = <<e>>
        BY <1>2, <2>2, Zenon DEF import_json_logs
      <3> QED BY <2>2, <3>1 DEF ExportInv, import_json_logs
    <2> QED BY <2>1, <2>2, Zenon
  <1> QED BY <1>1, <1>3, Zenon DEF ExportInv, ExportsAccounted

\* Exports, evictions, deletions and logged events keep the invariant of the artifacts.
LEMMA ExportInvHolds == ExportSpec => []ExportInv
  <1>1. ExportInv /\ UNCHANGED exportVars => ExportInv'
    BY Zenon DEF exportVars, ExportInv, ExportsAccounted
  <1>2. ExportInv /\ [ExportNext]_exportVars => ExportInv'
    BY <1>1, ExportRoutesKeep, DeletionKeeps, LoggingKeeps, Zenon DEF ExportNext
  <1> QED BY <1>2, ExportInitially, PTL DEF ExportSpec

---------------------------------------------------------------------------
(* Consents.                                                               *)

ConsentTypeOK ==
    /\ consents \in [Accounts -> ConsentRecord \cup {NoConsent}]
    /\ telemetry_time \in 0 .. MaxTelemetryTime

\* One account's record is written.
LEMMA ConsentWritten ==
    ASSUME ConsentTypeOK, NEW a, NEW r \in ConsentRecord, SetConsent(a, r)
    PROVE  /\ consents' \in [Accounts -> ConsentRecord \cup {NoConsent}]
           /\ \A b \in Accounts : consents'[b] # consents[b] => b = a /\ consents'[b] # NoConsent
  BY TelemetryAssumption, Zenon DEF ConsentTypeOK, SetConsent

\* The records that set_consent, EndConsent and check_consent write.
LEMMA ConsentRecorded ==
    ASSUME ConsentTypeOK
    PROVE  /\ \A status \in ConsentStatus : Consent(status) \in ConsentRecord
           /\ \A a \in Accounts, status \in ConsentStatus :
                consents[a] # NoConsent =>
                  [consents[a] EXCEPT !.status = status, !.modified = telemetry_time] \in ConsentRecord
  BY Zenon DEF ConsentTypeOK, Consent, ConsentRecord

\* Every step keeps the table typed and a withdrawal on record.
LEMMA ConsentStepSound ==
    ASSUME ConsentTypeOK, [TelemetryNext]_telemetryVars
    PROVE  ConsentTypeOK' /\ WithdrawalOutlivesGrace
  <1>1. ASSUME UNCHANGED <<consents, telemetry_time>>
        PROVE  ConsentTypeOK' /\ WithdrawalOutlivesGrace
    BY <1>1, Zenon DEF ConsentTypeOK, WithdrawalOutlivesGrace
  <1>2. ASSUME NEW a \in Accounts, set_consent(a)
        PROVE  ConsentTypeOK' /\ WithdrawalOutlivesGrace
    <2>1. PICK status \in ConsentStatus : SetConsent(a, Consent(status))
      BY <1>2, Zenon DEF set_consent
    <2>2. telemetry_time' = telemetry_time /\ decisions' = decisions + 1
      BY <1>2, Zenon DEF set_consent
    <2>3. Consent(status) \in ConsentRecord
      BY ConsentRecorded, Zenon
    <2> QED BY <2>1, <2>2, <2>3, ConsentWritten, Zenon DEF ConsentTypeOK, WithdrawalOutlivesGrace
  <1>3. ASSUME NEW a \in Accounts, NEW status \in ConsentStatus, EndConsent(a, status)
        PROVE  ConsentTypeOK' /\ WithdrawalOutlivesGrace
    <2> DEFINE r == IF consents[a] = NoConsent THEN Consent(status)
                    ELSE [consents[a] EXCEPT !.status = status, !.modified = telemetry_time]
    <2>1. SetConsent(a, r) /\ telemetry_time' = telemetry_time /\ decisions' = decisions + 1
      BY <1>3, Zenon DEF EndConsent
    <2>2. r \in ConsentRecord
      BY ConsentRecorded, Zenon
    <2> HIDE DEF r
    <2> QED BY <2>1, <2>2, ConsentWritten, Zenon DEF ConsentTypeOK, WithdrawalOutlivesGrace
  <1>4. ASSUME prune_expired
        PROVE  ConsentTypeOK' /\ WithdrawalOutlivesGrace
    <2>1. PICK dead \in SUBSET Accounts :
            /\ Prunable(dead) /\ telemetry_time' = telemetry_time
            /\ consents' = [a \in Accounts |-> IF a \in dead THEN NoConsent ELSE consents[a]]
      BY <1>4, Zenon DEF prune_expired
    <2>2. ConsentTypeOK'
      BY <2>1, Zenon DEF ConsentTypeOK
    <2>3. WithdrawalOutlivesGrace
      BY <2>1, Zenon DEF WithdrawalOutlivesGrace, Prunable
    <2> QED BY <2>2, <2>3, Zenon
  <1>5. ASSUME NEW w \in Workers, check_consent(w)
        PROVE  ConsentTypeOK' /\ WithdrawalOutlivesGrace
    <2>1. telemetry_time' = telemetry_time
      BY <1>5, Zenon DEF check_consent
    <2>2. CASE UNCHANGED consents
      BY <1>1, <2>1, <2>2, Zenon
    <2>3. CASE ~UNCHANGED consents
      <3>1. PICK a : consents[a] = NoConsent /\ SetConsent(a, Consent("grace"))
        BY <1>5, <2>3, ZenonT(30) DEF check_consent, Remembers
      <3>2. Consent("grace") \in ConsentRecord
        BY ConsentRecorded, Zenon DEF ConsentStatus
      <3>3. /\ consents' \in [Accounts -> ConsentRecord \cup {NoConsent}]
            /\ \A b \in Accounts : consents'[b] # consents[b] => b = a
        BY <3>1, <3>2, ConsentWritten, Zenon
      <3>4. WithdrawalOutlivesGrace
        BY <3>1, <3>3, Zenon DEF WithdrawalOutlivesGrace
      <3> QED BY <2>1, <3>3, <3>4, Zenon DEF ConsentTypeOK
    <2> QED BY <2>2, <2>3, Zenon
  <1>6. ASSUME PassTelemetryTime
        PROVE  ConsentTypeOK' /\ WithdrawalOutlivesGrace
    BY <1>6, TelemetryAssumption DEF PassTelemetryTime, ConsentTypeOK, WithdrawalOutlivesGrace
  <1>7. ASSUME NEW w \in Workers, process_event(w)
        PROVE  ConsentTypeOK' /\ WithdrawalOutlivesGrace
    BY <1>1, <1>5, <1>7, Zenon DEF process_event, admit_event, check_replay, sample_and_log
  <1>8. {"withdrawn", "invalid"} \subseteq ConsentStatus
    BY Zenon DEF ConsentStatus
  <1>9. CASE TelemetryNext
    BY <1>1, <1>2, <1>3, <1>4, <1>6, <1>7, <1>8, <1>9, Zenon
       DEF TelemetryNext, withdraw_consent, invalidate_consent, edit_allowlist
  <1> QED BY <1>1, <1>9, Zenon DEF telemetryVars

\* prune_expired does not forget a withdrawal before its grace period has passed.
THEOREM WithdrawalsOutliveGrace == TelemetrySpec => [][WithdrawalOutlivesGrace]_telemetryVars
  <1>1. TelemetryInit => ConsentTypeOK
    BY TelemetryAssumption DEF TelemetryInit, ConsentTypeOK
  <1>2. ConsentTypeOK /\ [TelemetryNext]_telemetryVars => ConsentTypeOK'
    BY ConsentStepSound, Zenon
  <1>3. ConsentTypeOK /\ [TelemetryNext]_telemetryVars => [WithdrawalOutlivesGrace]_telemetryVars
    BY ConsentStepSound, Zenon
  <1> QED BY <1>1, <1>2, <1>3, PTL DEF TelemetrySpec

---------------------------------------------------------------------------
(* The life cycle of an event.                                             *)

States == DOMAIN VALID_TRANSITIONS
OpenStates == States \ {"dropped"}

Gates == {"allowlist", "consent", "replay", "sampling"}
Reasons == Gates \cup {"", "invalid_transition"}

Event ==
    [name : EventNames, account : Accounts \cup {NoAccount}, payload : BOOLEAN, state : States,
     reason : Reasons, refused : Gates \cup {""}, at : {"consent", "replay", "sample"}, logged : BOOLEAN]

\* An event no gate has refused: it has no reason, or that of a transition that did not fit.
OnItsWay ==
    {e \in Event : /\ e.state \in OpenStates /\ e.refused = "" /\ e.reason \in {"", "invalid_transition"}
                   /\ e.state = "failed_stable" => e.reason = "invalid_transition"}

InFlight == {e \in OnItsWay : ~e.logged}

Explained(e) ==
    /\ (e.state = "dropped") = (e.refused # "")
    /\ e.refused # "" => e.reason = e.refused /\ ~e.logged
    /\ e.refused = "" => e.logged /\ e.reason \in {"", "invalid_transition"}
    /\ e.state = "failed_stable" => e.reason = "invalid_transition"

TelemetryInv ==
    /\ events \in [Workers -> InFlight \cup {NoEvent}]
    /\ OutcomesExplained

\* From every other state an event may be dropped, and the table is closed.
LEMMA DroppedFromAnywhere ==
    /\ {"created", "allowlisted", "consent_pending", "consent_granted", "consent_denied", "sampled_in",
        "sampled_out", "replay_rejected", "redacted", "ingested", "failed_stable"} = OpenStates
    /\ \A s \in OpenStates : "dropped" \in VALID_TRANSITIONS[s]
  BY DEF States, OpenStates, VALID_TRANSITIONS
\* What a transition other than a drop does to an event.
MovedTo(e, new, reason, f) ==
    /\ f \in Event /\ f.state \in {new, "failed_stable"} /\ f.state \in OpenStates
    /\ f.refused = e.refused /\ f.logged = e.logged
    /\ f.state # new \/ f.reason # reason => f.reason \in {e.reason, "invalid_transition"}
    /\ f.state # new => f.reason = "invalid_transition"

\* A transition between open states takes place and keeps what is known of the event.
LEMMA MovesOn ==
    ASSUME NEW e \in Event, e.state \in OpenStates, NEW new \in OpenStates, NEW reason \in Reasons
    PROVE  MovedTo(e, new, reason, transition_event_state(e, new, reason))
  <1> PICK f : f = transition_event_state(e, new, reason)
    BY Zenon
  <1> SUFFICES MovedTo(e, new, reason, f)
    BY Zenon
  <1>1. "failed_stable" \in OpenStates /\ OpenStates \subseteq States
    BY DroppedFromAnywhere, Zenon DEF OpenStates
  <1>2. CASE new \in VALID_TRANSITIONS[e.state]
    <2> DEFINE r == IF reason = "" THEN e.reason ELSE reason
    <2>1. f = [e EXCEPT !.state = new, !.reason = r]
      BY <1>2, Zenon DEF transition_event_state
    <2>2. r \in Reasons /\ r \in {e.reason, reason}
      BY Zenon DEF Event, Reasons
    <2> HIDE DEF r
    <2>3. /\ f \in Event /\ f.state = new /\ f.reason = r
          /\ f.refused = e.refused /\ f.logged = e.logged
      BY <1>1, <2>1, <2>2, Zenon DEF Event
    <2> QED BY <2>2, <2>3, Zenon DEF MovedTo
  <1>3. CASE new \notin VALID_TRANSITIONS[e.state]
    <2>1. f = [e EXCEPT !.state = "failed_stable", !.reason = "invalid_transition"]
      BY <1>3, Zenon DEF transition_event_state
    <2>2. "failed_stable" \in States /\ "invalid_transition" \in Reasons
      BY <1>1, Zenon DEF Reasons
    <2>3. /\ f \in Event /\ f.state = "failed_stable" /\ f.reason = "invalid_transition"
          /\ f.refused = e.refused /\ f.logged = e.logged
      BY <2>1, <2>2, Zenon DEF Event
    <2> QED BY <1>1, <2>3, Zenon DEF MovedTo
  <1> QED BY <1>2, <1>3, Zenon

\* Without a reason it leaves an event on its way.
LEMMA StaysOnItsWay ==
    ASSUME NEW e \in OnItsWay, NEW new \in OpenStates, new # "failed_stable",
           NEW f, f = transition_event_state(e, new, "")
    PROVE  f \in OnItsWay /\ f.logged = e.logged
  <1>1. /\ e \in Event /\ e.state \in OpenStates /\ e.refused = ""
        /\ e.reason \in {"", "invalid_transition"}
    BY Zenon DEF OnItsWay
  <1>2. "" \in Reasons
    BY Zenon DEF Reasons
  <1>3. MovedTo(e, new, "", f)
    BY <1>1, <1>2, MovesOn, Zenon
  <1> QED BY <1>1, <1>3, Zenon DEF OnItsWay, MovedTo

\* A drop names its gate.
DroppedAt(e, gate, f) ==
    /\ f \in Event /\ f.state = "dropped" /\ f.reason = gate
    /\ f.refused = e.refused /\ f.logged = e.logged

\* A transition to dropped records the gate as the reason.
LEMMA DropsWithReason ==
    ASSUME NEW e \in Event, e.state \in OpenStates, NEW gate \in Gates
    PROVE  DroppedAt(e, gate, transition_event_state(e, "dropped", gate))
  <1>1. "dropped" \in VALID_TRANSITIONS[e.state] /\ "dropped" \in States
    BY DroppedFromAnywhere, Zenon DEF States, VALID_TRANSITIONS
  <1>2. transition_event_state(e, "dropped", gate) = [e EXCEPT !.state = "dropped", !.reason = gate]
    BY <1>1, Zenon DEF transition_event_state, Gates
  <1>3. gate \in Reasons
    BY Zenon DEF Reasons
  <1> QED BY <1>1, <1>2, <1>3, ZenonT(30) DEF DroppedAt, Event

\* So does a refusal, whatever state the gate met the event in.
RefusedBy(gate, e) == e \in Event /\ e.refused = gate /\ Explained(e)

\* An event that a gate refuses ends dropped with that gate as its reason.
LEMMA RefusalExplained ==
    ASSUME NEW e \in Event, e.state \in OpenStates, NEW via \in OpenStates, NEW gate \in Gates,
           e.refused = gate, ~e.logged
    PROVE  RefusedBy(gate, Refuse(e, via, gate))
  <1>1. PICK f : f = transition_event_state(e, via, gate)
    BY Zenon
  <1>2. f \in Event /\ f.state \in OpenStates /\ f.refused = e.refused /\ f.logged = e.logged
    <2>1. gate \in Reasons
      BY Zenon DEF Reasons
    <2>2. MovedTo(e, via, gate, f)
      BY <1>1, <2>1, MovesOn, Zenon
    <2> QED BY <2>2, Zenon DEF MovedTo
  <1>3. PICK g : g = transition_event_state(f, "dropped", gate)
    BY Zenon
  <1>4. DroppedAt(f, gate, g)
    BY <1>2, <1>3, DropsWithReason, Zenon
  <1>5. Refuse(e, via, gate) = g
    BY <1>1, <1>3, Zenon DEF Refuse
  <1> QED BY <1>2, <1>4, <1>5, Zenon DEF DroppedAt, RefusedBy, Explained, Gates

\* One gate after another: what is held on to is on its way, what is returned is explained.
HeldOrReturned(w) ==
    \/ \E e \in InFlight : Hold(w, e)
    \/ \E e : Explained(e) /\ Return(w, e)

\* An admitted event starts at the consent gate, or is returned explained.
LEMMA AdmitSound ==
    ASSUME NEW w \in Workers, NEW name \in EventNames, NEW account \in Accounts \cup {NoAccount},
           NEW payload \in BOOLEAN, admit_event(w, name, account, payload)
    PROVE  HeldOrReturned(w)
  <1>1. PICK e : e = [name |-> name, account |-> account, payload |-> payload, state |-> "created",
                      reason |-> "", refused |-> "", at |-> "consent", logged |-> FALSE]
    BY Zenon
  <1>2. "created" \in OpenStates /\ "allowlisted" \in OpenStates /\ OpenStates \subseteq States
    BY DroppedFromAnywhere, Zenon DEF OpenStates
  <1>3. e \in InFlight
    BY <1>1, <1>2, Zenon DEF InFlight, OnItsWay, Event, Reasons
  <1>4. CASE Return(w, transition_event_state([e EXCEPT !.refused = "allowlist"], "dropped", "allowlist"))
    <2>1. PICK f : f = [e EXCEPT !.refused = "allowlist"]
      BY Zenon
    <2>2. f \in Event /\ f.state = "created" /\ f.refused = "allowlist" /\ f.logged = FALSE
      BY <1>1, <1>2, <2>1, Zenon DEF Event, Reasons, Gates
    <2>3. PICK g : g = transition_event_state(f, "dropped", "allowlist")
      BY Zenon
    <2>4. DroppedAt(f, "allowlist", g)
      BY <1>2, <2>2, <2>3, DropsWithReason, Zenon DEF Gates
    <2>5. Explained(g)
      BY <2>2, <2>4, Zenon DEF Explained, DroppedAt
    <2> QED BY <1>4, <2>1, <2>3, <2>5, Zenon DEF HeldOrReturned
  <1>5. CASE Hold(w, transition_event_state(e, "allowlisted", ""))
    <2>1. PICK f : f = transition_event_state(e, "allowlisted", "")
      BY Zenon
    <2>2. e \in OnItsWay /\ e.logged = FALSE
      BY <1>1, <1>3, Zenon DEF InFlight
    <2>3. f \in OnItsWay /\ f.logged = e.logged
      BY <1>2, <2>1, <2>2, StaysOnItsWay, Zenon
    <2> QED BY <1>5, <2>1, <2>2, <2>3, Zenon DEF HeldOrReturned, InFlight
  <1> QED BY <1>1, <1>4, <1>5, Zenon DEF admit_event

\* The consent gate passes an event on or returns it explained.
LEMMA ConsentGateSound ==
    ASSUME NEW w \in Workers, events[w] \in InFlight, check_consent(w)
    PROVE  HeldOrReturned(w)
  <1>1. PICK e : e = events[w]
    BY Zenon
  <1>2. /\ e \in OnItsWay /\ e \in Event /\ e.state \in OpenStates /\ e.logged = FALSE
        /\ [e EXCEPT !.at = "replay"] \in InFlight
    BY <1>1, Zenon DEF InFlight, OnItsWay, Event
  <1>3. CASE "consent" \notin Features
    BY <1>1, <1>2, <1>3, Zenon DEF check_consent, HeldOrReturned
  <1>4. CASE "consent" \in Features
    <2>1. PICK f : f = ConsentStep(e)
      BY Zenon
    <2>2. PICK g : g = [f EXCEPT !.at = "replay"]
      BY Zenon
    <2>3. IF g.refused = "" THEN Hold(w, g) ELSE Return(w, g)
      BY <1>1, <1>4, <2>1, <2>2, Zenon DEF check_consent
    <2>4. ASSUME NEW new \in {"consent_granted", "consent_pending"},
                 f = transition_event_state(e, new, "")
          PROVE  HeldOrReturned(w)
      <3>1. new \in OpenStates /\ new # "failed_stable"
        BY DroppedFromAnywhere, Zenon
      <3>2. f \in OnItsWay /\ f.logged = FALSE
        BY <1>2, <2>4, <3>1, StaysOnItsWay, Zenon
      <3>3. g \in InFlight /\ g.refused = ""
        BY <2>2, <3>2, Zenon DEF InFlight, OnItsWay, Event
      <3> QED BY <2>3, <3>3, Zenon DEF HeldOrReturned
    <2>5. ASSUME f = Refuse([e EXCEPT !.refused = "consent"], "consent_denied", "consent")
          PROVE  HeldOrReturned(w)
      <3>1. PICK d : d = [e EXCEPT !.refused = "consent"]
        BY Zenon
      <3>2. d \in Event /\ d.state \in OpenStates /\ d.refused = "consent" /\ ~d.logged
        BY <1>2, <3>1, Zenon DEF Event, Gates
      <3>3. RefusedBy("consent", f)
        BY <2>5, <3>1, <3>2, RefusalExplained, DroppedFromAnywhere, Zenon DEF Gates
      <3>4. g.refused = "consent" /\ Explained(g)
        BY <2>2, <3>3, Zenon DEF RefusedBy, Explained, Event
      <3> QED BY <2>3, <3>4, Zenon DEF HeldOrReturned
    <2> QED BY <2>1, <2>4, <2>5, Zenon DEF ConsentStep
  <1> QED BY <1>3, <1>4, Zenon

\* The replay gate passes an event on or returns it explained.
LEMMA ReplayGateSound ==
    ASSUME NEW w \in Workers, events[w] \in InFlight, NEW fresh \in BOOLEAN, check_replay(w, fresh)
    PROVE  HeldOrReturned(w)
  <1>1. PICK e : e = events[w]
    BY Zenon
  <1>2. PICK d : d = [e EXCEPT !.refused = "replay", !.at = "sample"]
    BY Zenon
  <1>3. /\ [e EXCEPT !.at = "sample"] \in InFlight
        /\ d \in Event /\ d.state \in OpenStates /\ d.refused = "replay" /\ ~d.logged
    BY <1>1, <1>2, Zenon DEF InFlight, OnItsWay, Event, Gates
  <1>4. RefusedBy("replay", Refuse(d, "replay_rejected", "replay"))
    BY <1>3, RefusalExplained, DroppedFromAnywhere, Zenon DEF Gates
  <1> QED BY <1>1, <1>2, <1>3, <1>4, Zenon DEF check_replay, HeldOrReturned, RefusedBy

\* An event that is ingested, in whatever state, is logged.
LEMMA IngestedSound ==
    ASSUME NEW e \in OnItsWay
    PROVE  Explained([Ingested(Redacted(e)) EXCEPT !.logged = TRUE])
  <1>1. PICK f : f = Redacted(e)
    BY Zenon
  <1>2. f \in OnItsWay
    BY <1>1, StaysOnItsWay, DroppedFromAnywhere, Zenon DEF Redacted
  <1>3. PICK g : g = Ingested(f)
    BY Zenon
  <1>4. g \in OnItsWay
    BY <1>2, <1>3, StaysOnItsWay, DroppedFromAnywhere, Zenon DEF Ingested
  <1>5. Explained([g EXCEPT !.logged = TRUE])
    BY <1>4, Zenon DEF OnItsWay, OpenStates, Event, Explained
  <1> QED BY <1>1, <1>3, <1>5, Zenon

\* The sampling gate logs an event or returns it explained.
LEMMA SampleGateSound ==
    ASSUME NEW w \in Workers, events[w] \in InFlight, sample_and_log(w)
    PROVE  HeldOrReturned(w)
  <1>1. PICK e : e = events[w]
    BY Zenon
  <1>2. PICK d : d = [e EXCEPT !.refused = "sampling"]
    BY Zenon
  <1>3. PICK f : f = transition_event_state(e, "sampled_in", "")
    BY Zenon
  <1>4. /\ e \in OnItsWay
        /\ d \in Event /\ d.state \in OpenStates /\ d.refused = "sampling" /\ ~d.logged
    BY <1>1, <1>2, Zenon DEF InFlight, OnItsWay, Event, Gates
  <1>5. f \in OnItsWay
    BY <1>3, <1>4, StaysOnItsWay, DroppedFromAnywhere, Zenon
  <1>6. RefusedBy("sampling", Refuse(d, "sampled_out", "sampling"))
    BY <1>4, RefusalExplained, DroppedFromAnywhere, Zenon DEF Gates
  <1>7. \/ Return(w, [Ingested(Redacted(e)) EXCEPT !.logged = TRUE])
        \/ Return(w, Refuse(d, "sampled_out", "sampling"))
        \/ Return(w, [Ingested(Redacted(f)) EXCEPT !.logged = TRUE])
    BY <1>1, <1>2, <1>3, Zenon DEF sample_and_log
  <1> QED BY <1>4, <1>5, <1>6, <1>7, IngestedSound, Zenon DEF HeldOrReturned, RefusedBy

\* What process_event returns is explained, whatever the other requests do between its gates.
LEMMA TelemetryInvHolds == TelemetrySpec => []TelemetryInv
  <1>1. TelemetryInit => TelemetryInv
    BY Zenon DEF TelemetryInit, TelemetryInv, OutcomesExplained
  <1>2. ASSUME TelemetryInv, NEW w \in Workers, process_event(w) PROVE HeldOrReturned(w)
    <2>1. (check_consent(w) \/ (\E fresh \in BOOLEAN : check_replay(w, fresh)) \/ sample_and_log(w))
             => events[w] \in InFlight
      BY <1>2, Zenon DEF TelemetryInv, check_consent, check_replay, sample_and_log
    <2> QED BY <1>2, <2>1, AdmitSound, ConsentGateSound, ReplayGateSound, SampleGateSound, Zenon
            DEF process_event
  <1>3. ASSUME TelemetryInv, NEW w \in Workers, HeldOrReturned(w) PROVE TelemetryInv'
    BY <1>3, Zenon DEF TelemetryInv, HeldOrReturned, Hold, Return, Explained, OutcomesExplained
  <1>4. ASSUME TelemetryInv, UNCHANGED <<events, returned>> PROVE TelemetryInv'
    BY <1>4, ZenonT(30) DEF TelemetryInv, OutcomesExplained
  <1>5. TelemetryInv /\ [TelemetryNext]_telemetryVars => TelemetryInv'
    BY <1>2, <1>3, <1>4, Zenon DEF TelemetryNext, telemetryVars, set_consent, withdraw_consent,
       invalidate_consent, EndConsent, prune_expired, edit_allowlist, PassTelemetryTime
  <1> QED BY <1>1, <1>5, PTL DEF TelemetrySpec

---------------------------------------------------------------------------

\* Every dropped event names the gate that refused it and every export artifact is fit for
\* export and listed for eviction, for any interleaving of requests with consent changes.
THEOREM AnalyticsIsAccounted == TelemetrySpec /\ ExportSpec => []AnalyticsAccounted
  <1>1. TelemetryInv => OutcomesExplained
    BY Zenon DEF TelemetryInv
  <1>2. ExportInv => ExportsAccounted
    BY Zenon DEF ExportInv
  <1> QED BY <1>1, <1>2, TelemetryInvHolds, ExportInvHolds, PTL DEF AnalyticsAccounted

\* The overlap of a replaced key and the grace period of a withdrawal are both honoured to
\* their end.
THEOREM GracePeriodsAreKept == AuthSpec /\ TelemetrySpec => GracePeriodsHold
  BY RotationsCutNobodyOff, WithdrawalsOutliveGrace, PTL DEF GracePeriodsHold
=============================================================================
