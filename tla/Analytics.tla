----------------------------- MODULE Analytics ------------------------------
(***************************************************************************)
(* The analytics pipeline of the backend in three parts, each with its own *)
(* state and lock: the replay guard, the way of an event through consent   *)
(* and the other gates, and the log with its exports.  The grace periods   *)
(* of the backend are stated together, hence RegisterAuth.                 *)
(***************************************************************************)
EXTENDS RegisterAuth, Sequences, FiniteSets, Functions
-----------------------------------------------------------------------------
(***************************************************************************)
(* The replay guard of the analytics pipeline (session_protection.py): it  *)
(* remembers the nonces it has accepted for a time and counts the events   *)
(* of a session.  A call reads the clock and prunes in one critical        *)
(* section and decides in a second one, so another call may come between   *)
(* the two and the clock may have moved on.                                *)
(***************************************************************************)

CONSTANTS Callers,          \* request threads
          Nonces,           \* well-formed nonces
          SessionTags,      \* session tags that are not oversized
          NonceTtl, ReplayWindow, MaxNonces, MaxSessionEvents, MaxPrune,
          MaxDelay,         \* a call takes at most this long between its two sections
          MaxGuardTime      \* bound on the clock

VARIABLES nonces,       \* _nonces: nonce -> the time it was recorded with
          session_log,  \* _session_timestamps and _session_counts: session -> [at, count]
          calls,        \* caller -> the time it read, or Waiting
          guard_time,
          accepted      \* history: the [nonce, at] of every answer "new", at the time it was given

ASSUME GuardAssumption == NonceTtl \in Nat /\ MaxDelay \in Nat

guardVars == <<nonces, session_log, calls, guard_time, accepted>>

Waiting == -1

GuardInit ==
    /\ nonces = <<>> /\ session_log = <<>> /\ accepted = <<>>
    /\ calls = [c \in Callers |-> Waiting] /\ guard_time = 0

-----------------------------------------------------------------------------
\* What one pass may delete: `limit` of the keys that are old, or all when they are fewer.
\* The pass follows the insertion order, which is not kept here.
Doomed(old, limit) ==
    {dead \in SUBSET old : Cardinality(dead) <= limit /\ (Cardinality(dead) = limit \/ dead = old)}

StaleNonces_at_ttl(now) == {n \in DOMAIN nonces : now - nonces[n] >= NonceTtl}
StaleNonces(now) == {n \in DOMAIN nonces : now - nonces[n] > NonceTtl}

StaleSessions(now) == {s \in DOMAIN session_log : now - session_log[s].at > ReplayWindow}

\* _prune: nonces first; sessions share what is left of the budget.
_prune(now) ==
    \E dead \in Doomed(StaleNonces(now), MaxPrune) :
        /\ nonces' = Restrict(nonces, DOMAIN nonces \ dead)
        /\ \E gone \in Doomed(StaleSessions(now), MaxPrune - Cardinality(dead)) :
              session_log' = Restrict(session_log, DOMAIN session_log \ gone)

\* verify_and_record up to the end of _prune.  A malformed nonce is refused before
\* anything is read.
enter_guard(c) ==
    /\ calls[c] = Waiting
    /\ calls' = [calls EXCEPT ![c] = guard_time]
    /\ _prune(guard_time)
    /\ UNCHANGED <<guard_time, accepted>>

\* The nonce of a call that got past the store is recorded, whatever the session says.
StorageFull == Cardinality(DOMAIN nonces) >= MaxNonces
Records(n) == ~StorageFull /\ n \notin DOMAIN nonces

\* What the second section answers for a call that read `now`; tag is "none", "long"
\* (an oversized session tag) or a session.
Answer(n, tag, now) ==
    IF StorageFull THEN "storage_full"
    ELSE IF n \in DOMAIN nonces THEN IF now - nonces[n] < NonceTtl THEN "duplicate" ELSE "expired"
    ELSE IF tag = "long" THEN "session_too_long"
    ELSE IF tag \notin DOMAIN session_log
         THEN IF tag # "none" /\ 1 > MaxSessionEvents THEN "session_too_long" ELSE "new"
    ELSE IF now - session_log[tag].at > ReplayWindow THEN "expired"
    ELSE IF session_log[tag].count + 1 > MaxSessionEvents THEN "session_too_long"
    ELSE "new"

\* f with x mapped to y.
With(f, x, y) == [z \in DOMAIN f \cup {x} |-> IF z = x THEN y ELSE f[z]]

\* An unseen session starts at `now`; one inside its window counts the event.
Counted(tag, now) ==
    IF tag \notin DOMAIN session_log THEN With(session_log, tag, [at |-> now, count |-> 1])
    ELSE IF now - session_log[tag].at > ReplayWindow THEN session_log
    ELSE [session_log EXCEPT ![tag].count = @ + 1]

verify_and_record(c, n, tag) ==
    LET now == calls[c] IN
    /\ now # Waiting
    /\ calls' = [calls EXCEPT ![c] = Waiting]
    /\ nonces' = IF Records(n) THEN With(nonces, n, now) ELSE nonces
    /\ session_log' = IF Records(n) /\ tag \in SessionTags THEN Counted(tag, now) ELSE session_log
    /\ accepted' = IF Answer(n, tag, now) = "new"
                   THEN Append(accepted, [nonce |-> n, at |-> guard_time]) ELSE accepted
    /\ UNCHANGED guard_time

\* The clock; no call is left between its sections for more than MaxDelay.
PassGuardTime ==
    /\ guard_time < MaxGuardTime
    /\ \A c \in Callers : calls[c] = Waiting \/ guard_time - calls[c] < MaxDelay
    /\ guard_time' = guard_time + 1
    /\ UNCHANGED <<nonces, session_log, calls, accepted>>

GuardNext ==
    \/ \E c \in Callers : enter_guard(c)
    \/ \E c \in Callers, n \in Nonces, tag \in SessionTags \cup {"none", "long"} :
          verify_and_record(c, n, tag)
    \/ PassGuardTime

GuardSpec == GuardInit /\ [][GuardNext]_guardVars

-----------------------------------------------------------------------------

(* A nonce is accepted again only once the guard may have forgotten it: two answers
   "new" for one nonce are more than the time to live apart, less what one call may
   linger between reading the clock and recording the nonce. *)
NonceAcceptedOnce ==
    \A i, j \in DOMAIN accepted :
        i < j /\ accepted[i].nonce = accepted[j].nonce =>
            accepted[j].at - accepted[i].at > NonceTtl - MaxDelay
-----------------------------------------------------------------------------
(***************************************************************************)
(* The analytics pipeline: consent records (consent.py), the life cycle of *)
(* an event (events.py), the sampler (sampling.py), and process_event of   *)
(* the engine (analytics_engine.py), which takes an event through the      *)
(* allow list, consent, the replay guard, sampling and redaction to the    *)
(* log.  Each gate locks only its own table, so consent may change, and    *)
(* names be blocked, while an event is between two gates.                  *)
(***************************************************************************)

CONSTANTS Workers,        \* request threads
          Accounts, NoAccount,
          EventNames, ListedNames,   \* every name used; the names on EVENT_ALLOWLIST
          Features,       \* the gates that config.features switches on
          RateOf,         \* sampling rate of a name, in buckets out of BucketMax
          BucketOf,       \* the bucket the token of <<account, name>> falls into
          BucketMax,
          GracePeriod, PruneLimit,
          MaxTelemetryTime, MaxEventsSeen, MaxDecisions,   \* bounds
          NoConsent, NoEvent

VARIABLES consents,     \* _consent_states
          allowlist,    \* extra_allowed and blocklist: [extra, blocked]
          events,       \* the event each worker is processing
          returned,     \* history: the event process_event returned last
          events_seen,         \* history: how many it has returned
          telemetry_time,
          decisions     \* history: consent decisions and list changes made

telemetryVars == <<consents, allowlist, events, returned, events_seen, telemetry_time, decisions>>

ConsentStatus == {"granted", "denied", "grace", "expired", "withdrawn", "invalid"}
ConsentRecord == [status : ConsentStatus, modified : 0 .. MaxTelemetryTime]

ASSUME TelemetryAssumption == MaxTelemetryTime \in Nat /\ NoConsent \notin ConsentRecord

Terminated == {"expired", "withdrawn", "invalid"}

\* The states the engine moves events through; cancelled, timed_out and exported are in the
\* table of the code, but no code enters them.
VALID_TRANSITIONS ==
    [created         |-> {"allowlisted", "dropped", "replay_rejected"},
     allowlisted     |-> {"consent_pending", "consent_granted", "consent_denied",
                          "replay_rejected", "dropped"},
     consent_pending |-> {"consent_granted", "consent_denied", "dropped"},
     consent_granted |-> {"sampled_in", "sampled_out", "dropped", "replay_rejected"},
     consent_denied  |-> {"dropped"},
     sampled_in      |-> {"redacted", "dropped", "failed_stable"},
     sampled_out     |-> {"dropped"},
     replay_rejected |-> {"dropped"},
     redacted        |-> {"ingested", "dropped", "failed_stable"},
     ingested        |-> {"dropped"},
     failed_stable   |-> {"dropped", "ingested"},
     dropped         |-> {}]

TelemetryInit ==
    /\ consents = [a \in Accounts |-> NoConsent]
    /\ allowlist = [extra |-> {}, blocked |-> {}]
    /\ events = [w \in Workers |-> NoEvent]
    /\ returned = NoEvent /\ events_seen = 0 /\ telemetry_time = 0 /\ decisions = 0

-----------------------------------------------------------------------------
(* events.py *)

is_allowed(name) == name \in (ListedNames \cup allowlist.extra) \ allowlist.blocked

transition_event_state_keeps_reason(e, new, reason) ==
    IF new \notin VALID_TRANSITIONS[e.state]
    THEN [e EXCEPT !.state = "failed_stable", !.reason = "invalid_transition"]
    ELSE [e EXCEPT !.state = new, !.reason = IF reason = "" \/ @ # "" THEN @ ELSE reason]
\* An invalid transition turns the event into failed_stable instead of being refused.
transition_event_state(e, new, reason) ==
    IF new \notin VALID_TRANSITIONS[e.state]
    THEN [e EXCEPT !.state = "failed_stable", !.reason = "invalid_transition"]
    ELSE [e EXCEPT !.state = new, !.reason = IF reason = "" THEN @ ELSE reason]

Refuse(e, via, gate) ==
    transition_event_state(transition_event_state(e, via, gate), "dropped", gate)

-----------------------------------------------------------------------------
(* consent.py.  The scope and the expiry of a record only enter the verdict of
   check_consent, which the engine does not use; they are left out. *)

SetConsent(a, c) == consents' = [consents EXCEPT ![a] = c]
Consent(status) ==
    [status |-> status, modified |-> telemetry_time]

\* set_consent: an equal record is only touched, which gives the same record here.
set_consent(a) ==
    /\ decisions < MaxDecisions
    /\ \E status \in ConsentStatus : SetConsent(a, Consent(status))
    /\ decisions' = decisions + 1
    /\ UNCHANGED <<allowlist, events, returned, events_seen, telemetry_time>>

\* withdraw_consent and invalidate_consent: the record is kept, or made, with the new status.
EndConsent(a, status) ==
    /\ decisions < MaxDecisions
    /\ SetConsent(a, IF consents[a] = NoConsent THEN Consent(status)
                     ELSE [consents[a] EXCEPT !.status = status, !.modified = telemetry_time])
    /\ decisions' = decisions + 1
    /\ UNCHANGED <<allowlist, events, returned, events_seen, telemetry_time>>
withdraw_consent(a) == EndConsent(a, "withdrawn")
invalidate_consent(a) == EndConsent(a, "invalid")

Prunable_any_age(dead) ==
    \A a \in dead : consents[a] # NoConsent /\ consents[a].status \in Terminated
Prunable(dead) ==
    \A a \in dead : /\ consents[a] # NoConsent /\ consents[a].status \in Terminated
                    /\ telemetry_time - consents[a].modified > GracePeriod

\* prune_expired: terminated records older than the grace period, up to a limit.
prune_expired ==
    \E dead \in SUBSET Accounts \ {{}} :
       /\ Prunable(dead) /\ Cardinality(dead) <= PruneLimit
       /\ Cardinality(dead) = PruneLimit \/ \A a \in Accounts \ dead : ~Prunable({a})
       /\ consents' = [a \in Accounts |-> IF a \in dead THEN NoConsent ELSE consents[a]]
       /\ UNCHANGED <<allowlist, events, returned, events_seen, telemetry_time, decisions>>

\* check_consent: an unknown account gets a grace record.  The engine looks at the
\* status of the record returned, not at the verdict.
StatusSeen(a) ==
    IF a = NoAccount \/ consents[a] = NoConsent THEN "grace" ELSE consents[a].status
Remembers(a) ==
    IF a # NoAccount /\ consents[a] = NoConsent THEN SetConsent(a, Consent("grace"))
    ELSE UNCHANGED consents

-----------------------------------------------------------------------------
(* sampling.py: a rate of 0 or of BucketMax decides alone; otherwise the bucket of the
   token, which depends on the account and the name only, is compared. *)
decide(e) ==
    \/ RateOf[e.name] >= BucketMax
    \/ RateOf[e.name] > 0 /\ BucketOf[<<e.account, e.name>>] < RateOf[e.name]

-----------------------------------------------------------------------------
(* process_event, one step for each gate that locks *)

Hold(w, e) == events' = [events EXCEPT ![w] = e] /\ UNCHANGED <<returned, events_seen>>
Return(w, e) == events' = [events EXCEPT ![w] = NoEvent] /\ returned' = e /\ events_seen' = events_seen + 1

admit_event(w, name, account, payload) ==
    LET e == [name |-> name, account |-> account, payload |-> payload, state |-> "created",
              reason |-> "", refused |-> "", at |-> "consent", logged |-> FALSE]
    IN  /\ events[w] = NoEvent /\ events_seen < MaxEventsSeen
        /\ IF "allowlist" \in Features /\ ~is_allowed(name)
           THEN Return(w, transition_event_state([e EXCEPT !.refused = "allowlist"], "dropped", "allowlist"))
           ELSE Hold(w, transition_event_state(e, "allowlisted", ""))
        /\ UNCHANGED <<consents, allowlist, telemetry_time, decisions>>

ConsentStep(e) ==
    CASE StatusSeen(e.account) = "granted" -> transition_event_state(e, "consent_granted", "")
      [] StatusSeen(e.account) = "denied"  ->
            Refuse([e EXCEPT !.refused = "consent"], "consent_denied", "consent")
      [] OTHER -> transition_event_state(e, "consent_pending", "")

check_consent(w) ==
    LET e == events[w] IN
    /\ e # NoEvent /\ e.at = "consent"
    /\ IF "consent" \notin Features THEN Hold(w, [e EXCEPT !.at = "replay"]) /\ UNCHANGED consents
       ELSE LET judged == [ConsentStep(e) EXCEPT !.at = "replay"] IN
            /\ Remembers(e.account)
            /\ IF judged.refused = "" THEN Hold(w, judged) ELSE Return(w, judged)
    /\ UNCHANGED <<allowlist, telemetry_time, decisions>>

\* The guard is asked only for an event with a nonce; any answer but "new" refuses it.
check_replay(w, fresh) ==
    LET e == events[w] IN
    /\ e # NoEvent /\ e.at = "replay"
    /\ IF fresh \/ "replay" \notin Features THEN Hold(w, [e EXCEPT !.at = "sample"])
       ELSE Return(w, Refuse([e EXCEPT !.refused = "replay", !.at = "sample"], "replay_rejected", "replay"))
    /\ UNCHANGED <<consents, allowlist, telemetry_time, decisions>>

\* Sampling, redaction of a payload that is not empty, the log entry, and ingestion.
Redacted(e) ==
    IF "redaction" \in Features /\ e.payload THEN transition_event_state(e, "redacted", "") ELSE e
Ingested(e) ==
    IF e.state \in {"ingested", "dropped"} THEN e ELSE transition_event_state(e, "ingested", "")

sample_and_log(w) ==
    LET e == events[w] IN
    /\ e # NoEvent /\ e.at = "sample"
    /\ Return(w,
         IF "sampling" \notin Features THEN [Ingested(Redacted(e)) EXCEPT !.logged = TRUE]
         ELSE IF ~decide(e) THEN Refuse([e EXCEPT !.refused = "sampling"], "sampled_out", "sampling")
         ELSE [Ingested(Redacted(transition_event_state(e, "sampled_in", ""))) EXCEPT !.logged = TRUE])
    /\ UNCHANGED <<consents, allowlist, telemetry_time, decisions>>

process_event(w) ==
    \/ \E name \in EventNames, account \in Accounts \cup {NoAccount}, payload \in BOOLEAN :
          admit_event(w, name, account, payload)
    \/ check_consent(w)
    \/ \E fresh \in BOOLEAN : check_replay(w, fresh)
    \/ sample_and_log(w)

\* add_allowed and block.
edit_allowlist ==
    /\ decisions < MaxDecisions /\ decisions' = decisions + 1
    /\ \E name \in EventNames :
          \/ allowlist' = [allowlist EXCEPT !.extra = @ \cup {name}]
          \/ allowlist' = [allowlist EXCEPT !.blocked = @ \cup {name}]
    /\ UNCHANGED <<consents, events, returned, events_seen, telemetry_time>>

PassTelemetryTime ==
    /\ telemetry_time < MaxTelemetryTime /\ telemetry_time' = telemetry_time + 1
    /\ UNCHANGED <<consents, allowlist, events, returned, events_seen, decisions>>

TelemetryNext ==
    \/ \E w \in Workers : process_event(w)
    \/ \E a \in Accounts : set_consent(a) \/ withdraw_consent(a) \/ invalidate_consent(a)
    \/ prune_expired \/ edit_allowlist \/ PassTelemetryTime

TelemetrySpec == TelemetryInit /\ [][TelemetryNext]_telemetryVars

-----------------------------------------------------------------------------

(* What process_event returns is explained: a dropped event was refused by exactly the
   gate its rejection_reason names and was not logged; an event no gate refused was
   logged, and one that passed in a state the life cycle has no way on from says so. *)
OutcomesExplained ==
    LET e == returned IN
    e # NoEvent =>
        /\ (e.state = "dropped") = (e.refused # "")
        /\ e.refused # "" => e.reason = e.refused /\ ~e.logged
        /\ e.refused = "" => e.logged /\ e.reason \in {"", "invalid_transition"}
        /\ e.state = "failed_stable" => e.reason = "invalid_transition"

(* A withdrawal stays on record until the account decides again or is invalidated, or the
   grace period has passed: prune_expired does not turn a fresh withdrawal into an
   unknown account, which check_consent would give a new grace record. *)
WithdrawalOutlivesGrace ==
    \A a \in Accounts :
       consents[a] # NoConsent /\ consents[a].status = "withdrawn" /\ consents'[a] # consents[a] =>
           \/ consents'[a] # NoConsent /\ decisions' = decisions + 1
           \/ telemetry_time - consents[a].modified > GracePeriod
-----------------------------------------------------------------------------
(***************************************************************************)
(* The analytics log and its exports: entries built and ingested by        *)
(* process_event and record_error (log_processor.py, analytics_engine.py), *)
(* logs imported from elsewhere, and the artifacts the export manager      *)
(* keeps in memory (export_manager.py, the export routes).  An entry is    *)
(* told apart by its duplicate key, by the faults validation would find in *)
(* its content, and by export_safe, the flag that says it found none.      *)
(***************************************************************************)

CONSTANTS EntryKeys,        \* event name, endpoint, method and status of an entry
          Faults,           \* reasons an entry is not fit for export
          MaxLogEntries,    \* max_total_entries_per_request
          DuplicateWindow,  \* the last entries a duplicate is looked for in
          MaxPerExport,     \* policy.max_artifacts_per_export
          MaxArtifacts,     \* max_artifacts_memory
          ShadowExports,    \* policy.allow_unauthenticated_export_shadow_mode
          MaxEntriesSeen, MaxExports   \* bounds

VARIABLES entries,      \* _entries
          imported,     \* what import_json_logs returned last, in a caller's hands
          artifacts,    \* _artifacts: artifact id -> artifact
          queue,        \* _artifact_queue
          built,        \* history: entries built
          exports       \* history: exports attempted, which also numbers the artifacts

ASSUME ExportAssumption == MaxPerExport \in Nat /\ MaxArtifacts \in Nat \ {0}

exportVars == <<entries, imported, artifacts, queue, built, exports>>

ExportInit ==
    /\ entries = <<>> /\ imported = <<>> /\ artifacts = <<>> /\ queue = <<>>
    /\ built = 0 /\ exports = 0

\* validate_log_export_safety: every limit, pattern and leak word is one reason.
validate_log_export_safety(e) == e.faults = {}

\* sanitize_error_context: the flag is set when the finished entry validates.
sanitize_error_context(key, faults) == [key |-> key, faults |-> faults, export_safe |-> faults = {}]

\* ingest: an unclean entry is counted and refused; the size limit and the duplicate
\* window do not apply to record_error.
ingest(e, allow_duplicate) ==
    entries' = IF /\ validate_log_export_safety(e)
                  /\ allow_duplicate \/ Len(entries) < MaxLogEntries
                  /\ allow_duplicate \/ \A i \in DOMAIN entries :
                                            i > Len(entries) - DuplicateWindow => entries[i].key # e.key
               THEN Append(entries, e) ELSE entries

Build(allow_duplicate) ==
    /\ built < MaxEntriesSeen /\ built' = built + 1
    /\ \E key \in EntryKeys, faults \in SUBSET Faults :
          ingest(sanitize_error_context(key, faults), allow_duplicate)
    /\ UNCHANGED <<imported, artifacts, queue, exports>>

log_event == Build(FALSE)
record_error == Build(TRUE)

\* import_json_logs: the flag is taken from the text; validating again does not change it.
import_json_logs ==
    /\ built < MaxEntriesSeen /\ built' = built + 1
    /\ \E key \in EntryKeys, faults \in SUBSET Faults, export_safe \in BOOLEAN :
          imported' = <<[key |-> key, faults |-> faults, export_safe |-> export_safe]>>
    /\ UNCHANGED <<entries, artifacts, queue, exports>>

\* The first n of a set of positions.
FirstOf(n, positions) == {i \in positions : Cardinality({j \in positions : j <= i}) <= n}

\* export_json_logs drops entries from the end until the text fits, but never the first.
export_json_logs(positions) ==
    IF positions = {} THEN {{}} ELSE {FirstOf(n, positions) : n \in 1 .. Cardinality(positions)}

Exportable_flagged(source) == {i \in DOMAIN source : source[i].export_safe}
\* Where create_export finds what it lets through: flagged entries that validate now.
Exportable(source) ==
    {i \in DOMAIN source : source[i].export_safe /\ validate_log_export_safety(source[i])}

\* create_export.  Without a verified token the artifact is empty, but its safety
\* signature was computed over the entries before they were dropped.
create_export(source, verified) ==
    /\ exports < MaxExports /\ exports' = exports + 1
    /\ IF ~verified /\ ~ShadowExports THEN UNCHANGED <<artifacts, queue>>
       ELSE \E fitting \in export_json_logs(IF verified THEN FirstOf(MaxPerExport, Exportable(source))
                                             ELSE {}) :
            LET artifact == [content |-> Restrict(source, fitting), verified |-> verified]
                full     == Cardinality(DOMAIN artifacts) >= MaxArtifacts /\ queue # <<>>
                kept     == DOMAIN artifacts \ (IF full THEN {Head(queue)} ELSE {})
            IN  /\ artifacts' = [i \in kept \cup {exports'} |->
                                    IF i = exports' THEN artifact ELSE artifacts[i]]
                /\ queue' = Append(IF full THEN Tail(queue) ELSE queue, exports')
    /\ UNCHANGED <<entries, imported, built>>

\* The export route: the first max_entries of the log, whatever token of 8 characters
\* or more counts as verified.
export_view ==
    \E n \in 1 .. MaxLogEntries, verified \in BOOLEAN :
        create_export(Restrict(entries, (1 .. n) \cap DOMAIN entries), verified)

export_imported == \E verified \in BOOLEAN : create_export(imported, verified)

delete_artifact_leaves_queue(i) ==
    /\ i \in DOMAIN artifacts
    /\ artifacts' = [j \in DOMAIN artifacts \ {i} |-> artifacts[j]]
    /\ UNCHANGED <<entries, imported, queue, built, exports>>
\* The list without i, which it holds at most once.
Unqueued(i) ==
    LET place == CHOOSE k \in DOMAIN queue : queue[k] = i
    IN  IF i \notin Range(queue) THEN queue
        ELSE [k \in 1 .. Len(queue) - 1 |-> queue[IF k < place THEN k ELSE k + 1]]

delete_artifact(i) ==
    /\ i \in DOMAIN artifacts
    /\ artifacts' = [j \in DOMAIN artifacts \ {i} |-> artifacts[j]]
    /\ queue' = Unqueued(i)
    /\ UNCHANGED <<entries, imported, built, exports>>

ExportNext ==
    \/ log_event \/ record_error \/ import_json_logs
    \/ export_view \/ export_imported
    \/ \E i \in DOMAIN artifacts : delete_artifact(i)

ExportSpec == ExportInit /\ [][ExportNext]_exportVars

-----------------------------------------------------------------------------

(* The artifacts in memory are accounted for: the queue lists each of them once, oldest
   first, so that evicting its head always frees a place and the memory bound holds; and
   whatever an artifact holds validated when it was exported, was flagged, and was
   asked for with a token. *)
ExportsAccounted ==
    /\ Range(queue) = DOMAIN artifacts /\ Cardinality(DOMAIN artifacts) <= MaxArtifacts
    /\ \A i, j \in DOMAIN queue : i < j => queue[i] < queue[j]
    /\ \A i \in DOMAIN artifacts :
          /\ Cardinality(DOMAIN artifacts[i].content) <= MaxPerExport
          /\ ~artifacts[i].verified => artifacts[i].content = <<>>
          /\ \A e \in Range(artifacts[i].content) : e.faults = {} /\ e.export_safe

-----------------------------------------------------------------------------

\* What analytics returns is accounted for.  A dropped event names the gate that refused
\* it and a logged one passed them all, and an export artifact holds what was fit for
\* export and is listed for eviction.
AnalyticsAccounted == OutcomesExplained /\ ExportsAccounted

\* A grace period is honoured to its end and no longer: a replaced registration key is
\* accepted exactly while its overlap lasts, and pruning the consent table does not forget
\* a withdrawal that is still within its grace period.
GracePeriodsHold ==
    /\ [][RotationWithoutDowntime]_authVars
    /\ [][WithdrawalOutlivesGrace]_telemetryVars
=============================================================================
