----------------------------- MODULE KeyDirectory -----------------------------
(***************************************************************************)
(* The issuer key directory (backend/issuer_key_transparency.py): an       *)
(* append-only log of key events, the key table kept with it, manifests    *)
(* and checkpoints, and a client that keeps a copy of the log and accepts  *)
(* checkpoints.  Hashes are collision-free: the tree head of a log is the  *)
(* log itself.  The publisher may show two views of the log, which is what *)
(* the checks are there to find out.                                       *)
(***************************************************************************)
EXTENDS Naturals, Sequences

CONSTANTS IssuerKeys, Views,
          MaxEvents,      \* MAX_EVENTS
          MaxTime,        \* bound on timestamps
          MaxManifests,   \* bound: manifests of a view
          Open            \* valid_until of an active key

ASSUME DirectoryAssumption == Views # {} /\ MaxTime \in Nat /\ Open \notin Nat

VARIABLES log,        \* the events of each view
          keys,       \* the key table of each view
          manifest,   \* how many manifests each view has published
          copy,       \* the client's copy of the first view's log
          copied_manifest,
          seen,       \* the checkpoints the client accepted
          time

directoryVars == <<log, keys, manifest, copy, copied_manifest, seen, time>>

Lifecycles == {"activation", "rotation", "compromise", "retirement", "checkpoint"}
KeyStatuses == {"none", "active", "rotated", "retired", "compromised"}
Event == [type : Lifecycles, key : IssuerKeys, related : IssuerKeys, time : Nat]
Entry == [from : Nat, until : Nat \cup {Open}, status : KeyStatuses]
Unknown == [from |-> 0, until |-> Open, status |-> "none"]

DirectoryInit ==
    /\ log = [v \in Views |-> <<>>] /\ keys = [v \in Views |-> [k \in IssuerKeys |-> Unknown]]
    /\ manifest = [v \in Views |-> 0]
    /\ copy = <<>> /\ copied_manifest = 0 /\ seen = <<>> /\ time = 0

Active(from) == [from |-> from, until |-> Open, status |-> "active"]
Ended(key, at, status) == [from |-> key.from, until |-> at, status |-> status]

\* append_event's conditions on the key table.  Sequence and chain hash follow from
\* appending at the end.
Accepts(table, e) ==
    CASE e.type = "activation" -> table[e.key].status # "active"
      [] e.type = "rotation" -> table[e.related].status \notin {"none", "compromised"}
      [] e.type \in {"compromise", "retirement"} -> table[e.key].status # "none"
      [] OTHER -> TRUE

\* append_event's effect on the key table.
Apply(table, e) ==
    CASE e.type = "activation" -> [table EXCEPT ![e.key] = Active(e.time)]
      [] e.type = "rotation" ->
            [[table EXCEPT ![e.related] = Ended(@, e.time, "rotated")]
                EXCEPT ![e.key] = Active(e.time)]
      [] e.type = "compromise" -> [table EXCEPT ![e.key] = Ended(@, e.time, "compromised")]
      [] e.type = "retirement" -> [table EXCEPT ![e.key] = Ended(@, e.time, "retired")]
      [] OTHER -> table

\* append_event on a view of the log.
append_event(v) ==
    /\ Len(log[v]) < MaxEvents
    /\ \E type \in Lifecycles, k, related \in IssuerKeys :
          LET e == [type |-> type, key |-> k, related |-> IF type = "rotation" THEN related ELSE k,
                    time |-> time]
          IN  /\ Accepts(keys[v], e)
              /\ keys' = [keys EXCEPT ![v] = Apply(@, e)]
              /\ log' = [log EXCEPT ![v] = Append(@, e)]
    /\ UNCHANGED <<manifest, copy, copied_manifest, seen, time>>

\* publish_manifest: each names the one before it.
publish_manifest(v) ==
    /\ manifest[v] < MaxManifests
    /\ manifest' = [manifest EXCEPT ![v] = @ + 1]
    /\ UNCHANGED <<log, keys, copy, copied_manifest, seen, time>>

\* The client brings its copy of the log up to date, from one of the views, and rebuilds
\* its directory (rebuild_directory).
Home == CHOOSE v \in Views : TRUE
sync ==
    /\ <<copy, copied_manifest>> # <<log[Home], manifest[Home]>>
    /\ copy' = log[Home] /\ copied_manifest' = manifest[Home]
    /\ UNCHANGED <<log, keys, manifest, seen, time>>

\* make_checkpoint of a view that has a manifest.
Checkpoint(v) == [head |-> log[v], count |-> Len(log[v]), manifest |-> manifest[v], time |-> time]

\* Mutant of Consistent: a checkpoint behind the copy is taken without a look at it.
Consistent_ahead_is_fine(c) ==
    /\ c.count <= Len(copy)
    /\ c.count = Len(copy) => c.head = copy /\ (copied_manifest > 0 => c.manifest = copied_manifest)

\* verify_checkpoint_consistency finds no error: the checkpoint is not ahead of the
\* copy, its head is that of the copy's prefix, and at the same length the
\* manifests agree.
Consistent(c) ==
    /\ c.count <= Len(copy)
    /\ c.head = SubSeq(copy, 1, c.count)
    /\ c.count = Len(copy) /\ copied_manifest > 0 => c.manifest = copied_manifest

\* Mutant of NoRollback: a smaller count is not noticed.
NoRollback_by_head(old, c) ==
    c.count = old.count => c.head = old.head /\ c.manifest = old.manifest

\* detect_rollback finds no error.
NoRollback(old, c) ==
    /\ c.count >= old.count
    /\ c.count = old.count => c.head = old.head /\ c.manifest = old.manifest

\* The client fetches a checkpoint and keeps it if both checks pass.
accept_checkpoint(v) ==
    LET c == Checkpoint(v)
    IN  /\ manifest[v] > 0
        /\ Consistent(c)
        /\ seen # <<>> => NoRollback(seen[Len(seen)], c) /\ seen[Len(seen)] # c
        /\ Len(seen) < MaxEvents
        /\ seen' = Append(seen, c)
        /\ UNCHANGED <<log, keys, manifest, copy, copied_manifest, time>>

PassTime ==
    /\ time < MaxTime
    /\ time' = time + 1
    /\ UNCHANGED <<log, keys, manifest, copy, copied_manifest, seen>>

DirectoryNext ==
    \/ \E v \in Views : append_event(v) \/ publish_manifest(v) \/ accept_checkpoint(v)
    \/ sync
    \/ PassTime

DirectorySpec == DirectoryInit /\ [][DirectoryNext]_directoryVars

-----------------------------------------------------------------------------
\* key_valid_for_historical_signature and key_was_compromised_at.
key_valid(table, k, at) ==
    /\ table[k].status # "none"
    /\ at >= table[k].from /\ (table[k].until # Open => at < table[k].until)

key_was_compromised_at(table, k, at) ==
    table[k].status = "compromised" /\ table[k].until # Open /\ at >= table[k].until

StartsWith(s, t) == Len(t) <= Len(s) /\ \A i \in 1 .. Len(t) : s[i] = t[i]

\* No split view is accepted: the heads of all checkpoints a client accepted, however
\* views and copy moved in between, are prefixes of one another in the order they were
\* accepted, and where their lengths agree their manifests do.
AcceptedHeadsAgree ==
    \A i, j \in DOMAIN seen : i < j =>
        /\ StartsWith(seen[j].head, seen[i].head)
        /\ seen[i].count = seen[j].count => seen[i].manifest = seen[j].manifest

\* No key is both valid and compromised at one time.
ValidOrCompromised ==
    \A v \in Views, k \in IssuerKeys, at \in 0 .. MaxTime :
        ~(key_valid(keys[v], k, at) /\ key_was_compromised_at(keys[v], k, at))

\* A step that starts a key, with an activation or as the successor of a rotation.
Starts(v, k) ==
    LET e == log'[v][Len(log'[v])]
    IN  log'[v] # log[v] /\ e.type \in {"activation", "rotation"} /\ e.key = k

\* A verdict on a signature of the past stands: rotating, retiring or compromising an
\* active key, and activating a new one, changes no answer about an earlier time.
\* (A key that is started again, activated after its end or named as the successor of a
\* rotation, is another matter: its entry forgets its earlier life.)
PastVerdictsStand ==
    [][\A v \in Views, k \in IssuerKeys, at \in 0 .. MaxTime :
          at < time /\ (keys[v][k].status = "none" \/ (keys[v][k].status = "active" /\ ~Starts(v, k)))
            => (key_valid(keys[v], k, at) <=> key_valid(keys'[v], k, at))]_directoryVars

\* What the directory told a client stays true: accepted checkpoints agree, and so do
\* the verdicts the log supports.
DirectoryKeepsItsWord == [](AcceptedHeadsAgree /\ ValidOrCompromised) /\ PastVerdictsStand
=============================================================================
