--------------------------- MODULE RegisterRequests ---------------------------
(***************************************************************************)
(* POST /api/proofs/register as several clients use it at once: the        *)
(* idempotency wrapper (idempotency.py) around the handler (app.py,        *)
(* register_proof_event), which inserts a row of proof_events and then     *)
(* starts its effects: cached results are dropped, webhook deliveries      *)
(* queued and a verify_tx job enqueued.  Each statement and each effect is *)
(* a step, and the request may die between any two of them.                *)
(***************************************************************************)
EXTENDS ProofEvents

CONSTANTS Clients,    \* requests in flight
          Digests,    \* canonical request digests
          RequestOf,  \* what a digest asks: key, owner, retention days, status
          Scoped,     \* clients whose credential is bound to an owner
          MaxFaults   \* bound: requests that die and effects that fail

ASSUME RegisterAssumption ==
    /\ \A d \in Digests : /\ RequestOf[d].key \in Keys
                          /\ RequestOf[d].days \in Nat
                          /\ RequestOf[d].status \in {"none", "pending"} \cup TERMINAL_STATUSES
    /\ MaxRows \in Nat

VARIABLES record,     \* idempotency_records, by digest
          client,     \* where each request is
          notices,    \* how often the deliveries of a row were queued
          jobs,       \* how often a row's verify_tx job was enqueued
          faults

requestVars == <<record, client, notices, jobs, faults>>

NoRecord == [status |-> "none", answer |-> "none"]
Free == [at |-> "free"]
RowIds == 1 .. MaxRows

RegisterInit ==
    /\ record = [d \in Digests |-> NoRecord]
    /\ client = [c \in Clients |-> Free]
    /\ notices = [i \in RowIds |-> 0] /\ jobs = [i \in RowIds |-> 0]
    /\ faults = 0

proceed(c, state) == client' = [client EXCEPT ![c] = state]
Done(d, answer) == [at |-> "done", digest |-> d, answer |-> answer]
Asked(c) == RequestOf[client[c].digest]

\* _replay_stored.
Replay(r) ==
    CASE r.status = "COMPLETED" -> r.answer
      [] r.status = "FAILED" -> "500"
      [] OTHER -> "busy"

\* A request arrives at the wrapper, authenticated.
submit(c) ==
    /\ client[c] = Free
    /\ \E d \in Digests : proceed(c, [at |-> "lookup", digest |-> d])
    /\ UNCHANGED <<record, notices, jobs, faults, proofEventVars>>

\* get_idempotency_record: a record is replayed.
get_idempotency_record(c) ==
    LET d == client[c].digest
    IN  /\ client[c].at \in {"lookup", "lost"}
        /\ proceed(c, IF record[d] # NoRecord \/ client[c].at = "lost"
                   THEN Done(d, Replay(record[d])) ELSE [at |-> "create", digest |-> d])
        /\ UNCHANGED <<record, notices, jobs, faults, proofEventVars>>

\* create_idempotency_record: inserts a PENDING record, or returns the one there is.
\* A PENDING record of another request in flight cannot be told from an own one.
create_idempotency_record(c) ==
    LET d == client[c].digest
    IN  /\ client[c].at = "create"
        /\ record' = [record EXCEPT ![d] = IF @ = NoRecord THEN [@ EXCEPT !.status = "PENDING"] ELSE @]
        /\ proceed(c, [at |-> IF record[d].status \in {"none", "PENDING"} THEN "owner" ELSE "lost",
                    digest |-> d])
        /\ UNCHANGED <<notices, jobs, faults, proofEventVars>>

\* register_proof_event, before the insert: a scoped credential needs a proof that
\* no other address owns; the lookup may fail, which answers 503.
check_owner(c) ==
    LET d == client[c].digest
        owner == find_proof_owner(ProofOf[Asked(c).key])
    IN  /\ client[c].at = "owner"
        /\ proceed(c, IF c \in Scoped /\ ~(owner \subseteq {Asked(c).owner})
                   THEN [at |-> "answer", digest |-> d, answer |-> "403"]
                   ELSE [at |-> "insert", digest |-> d])
        /\ UNCHANGED <<record, notices, jobs, faults, proofEventVars>>

owner_lookup_failed(c) ==
    /\ faults < MaxFaults
    /\ client[c].at = "owner" /\ c \in Scoped
    /\ proceed(c, [at |-> "answer", digest |-> client[c].digest, answer |-> "503"])
    /\ faults' = faults + 1
    /\ UNCHANGED <<record, notices, jobs, proofEventVars>>

\* upsert_register_event, the insert that finds the key free.
insert_register_event(c) ==
    LET q == Asked(c)
    IN  /\ client[c].at = "insert"
        /\ last_id < MaxRows
        /\ insert_row(q.key, q.owner, q.days, q.status)
        /\ proceed(c, [at |-> "effects", digest |-> client[c].digest, id |-> last_id + 1])
        /\ UNCHANGED <<revoked, receipts, day, ledger, included, reconciler,
                       record, notices, jobs, faults>>

\* upsert_register_event, the insert that finds the key taken.
skip_register_event(c) ==
    /\ client[c].at = "insert" /\ rows[Asked(c).key] # NoRow
    /\ proceed(c, [at |-> "select", digest |-> client[c].digest])
    /\ UNCHANGED <<record, notices, jobs, faults, proofEventVars>>

\* Mutant of select_register_event: a row that was found starts the effects too.
select_register_event_effects(c) ==
    LET d == client[c].digest
        row == rows[Asked(c).key]
    IN  /\ client[c].at = "select"
        /\ proceed(c, IF row = NoRow THEN [at |-> "raise", digest |-> d]
                                  ELSE [at |-> "effects", digest |-> d, id |-> row.id])
        /\ UNCHANGED <<record, notices, jobs, faults, proofEventVars>>

\* upsert_register_event, the select that follows: the row may differ from the
\* request, and it may be gone by now.
select_register_event(c) ==
    LET d == client[c].digest
        row == rows[Asked(c).key]
    IN  /\ client[c].at = "select"
        /\ proceed(c, CASE row = NoRow -> [at |-> "raise", digest |-> d]
                     [] row # NoRow /\ Conflicts(row, Asked(c).owner) ->
                            [at |-> "answer", digest |-> d, answer |-> "409"]
                     [] OTHER -> [at |-> "answer", digest |-> d, answer |-> "200"])
        /\ UNCHANGED <<record, notices, jobs, faults, proofEventVars>>

\* The effects of a created row: deliveries, then the job when there is a
\* transaction.  The cached results it drops are left out: nothing stores any.
run_effects(c) ==
    LET s == client[c]
    IN  /\ s.at = "effects"
        /\ notices' = [notices EXCEPT ![s.id] = @ + 1]
        /\ jobs' = IF TxOf[Asked(c).key] = NoTx THEN jobs ELSE [jobs EXCEPT ![s.id] = @ + 1]
        /\ proceed(c, [at |-> "answer", digest |-> s.digest, answer |-> "201"])
        /\ UNCHANGED <<record, faults, proofEventVars>>

\* Queueing the deliveries raises: the job is not enqueued either.
effects_failed(c) ==
    /\ faults < MaxFaults
    /\ client[c].at = "effects"
    /\ proceed(c, [at |-> "raise", digest |-> client[c].digest])
    /\ faults' = faults + 1
    /\ UNCHANGED <<record, notices, jobs, proofEventVars>>

\* store_response for answers below 500, clear_idempotency_record for the others.
finish(c) ==
    LET s == client[c]
    IN  /\ s.at = "answer"
        /\ record' = [record EXCEPT ![s.digest] =
              CASE s.answer # "503" -> [status |-> "COMPLETED", answer |-> s.answer]
                [] s.answer = "503" /\ @.status = "PENDING" -> NoRecord
                [] OTHER -> @]
        /\ proceed(c, Done(s.digest, s.answer))
        /\ UNCHANGED <<notices, jobs, faults, proofEventVars>>

\* store_error: the exception is recorded and raised again.
store_error(c) ==
    /\ client[c].at = "raise"
    /\ record' = [record EXCEPT ![client[c].digest] = [status |-> "FAILED", answer |-> "none"]]
    /\ proceed(c, Done(client[c].digest, "500"))
    /\ UNCHANGED <<notices, jobs, faults, proofEventVars>>

\* The process dies in the middle of a request.
RequestDies(c) ==
    /\ faults < MaxFaults
    /\ client[c].at \notin {"free", "done", "dead"}
    /\ proceed(c, [at |-> "dead"])
    /\ faults' = faults + 1
    /\ UNCHANGED <<record, notices, jobs, proofEventVars>>

\* An answered client may send another request.
again(c) ==
    /\ client[c].at \in {"done", "dead"}
    /\ proceed(c, Free)
    /\ UNCHANGED <<record, notices, jobs, faults, proofEventVars>>

Handle(c) ==
    \/ get_idempotency_record(c) \/ create_idempotency_record(c) \/ check_owner(c)
    \/ insert_register_event(c) \/ skip_register_event(c) \/ select_register_event(c)
    \/ run_effects(c) \/ finish(c) \/ store_error(c)

RegisterNext ==
    \/ \E c \in Clients : submit(c) \/ Handle(c) \/ owner_lookup_failed(c)
                          \/ effects_failed(c) \/ RequestDies(c) \/ again(c)
    \/ StoreNext /\ UNCHANGED requestVars

RegisterSpec ==
    ProofEventsInit /\ RegisterInit /\ [][RegisterNext]_<<requestVars, proofEventVars>>

-----------------------------------------------------------------------------

\* A registration is announced once: however many copies of a request run, and
\* whichever of them dies, the deliveries and the job of a row are started at most
\* once, and by the request that inserted it.
EffectsAtMostOnce ==
    \A i \in RowIds : notices[i] <= 1 /\ jobs[i] <= notices[i] /\ (i > last_id => notices[i] = 0)
=============================================================================
