----------------------------- MODULE ProofEvents -----------------------------
(***************************************************************************)
(* The backend's proof_events table (db.py): registrations are inserted    *)
(* under a unique idempotency key, reconcilers compare their transactions  *)
(* with Horizon (tx_verification.py, registration_reconcile.py), and the   *)
(* retention worker deletes what has expired (retention.py).  Every SQL    *)
(* statement is one step; a reconciler asks Horizon in one step and writes *)
(* the answer in a later one.                                              *)
(***************************************************************************)
EXTENDS Naturals, Sequences, FiniteSets, Functions

CONSTANTS Keys,          \* idempotency keys, each of one video, proof and transaction
          TxOf,          \* the transaction of a key, or NoTx
          ProofOf,
          Reconcilers,   \* worker loops, command line and endpoint calls
          WorkerLoops,   \* those of them that are worker loops
          Horizons,      \* how many Horizon URLs are configured
          MinConfirmations,
          PendingLimit,  \* rows a batch reads, 50 in the code
          PurgeBatch,
          MaxDay, MaxLedger, MaxRows,  \* bounds: days, ledgers, rows ever inserted
          NoTx

ASSUME ProofEventsAssumption ==
    /\ TxOf \in [Keys -> Range(TxOf)]
    /\ ProofOf \in [Keys -> Range(ProofOf)]
    /\ Horizons \in Nat /\ PendingLimit \in Nat \ {0} /\ PurgeBatch \in Nat \ {0}
    /\ MinConfirmations \in Nat \ {0}

VARIABLES rows,      \* the row of each key
          revoked,   \* proofs with an indexed revoke event
          last_id,   \* the serial column's last value
          receipts,  \* ids in deletion_receipts
          day,
          ledger,    \* the latest ledger of the chain
          included,  \* transactions on the chain: their ledger and success
          reconciler \* what each reconciler is about to do

proofEventVars == <<rows, revoked, last_id, receipts, day, ledger, included, reconciler>>

Txs == Range(TxOf) \ {NoTx}
Proofs == Range(ProofOf)
NoRow == [id |-> 0]
TERMINAL_STATUSES == {"confirmed", "failed", "missing"}
Present == {k \in Keys : rows[k] # NoRow}
Ids == {rows[k].id : k \in Present}
Idle == [at |-> "idle"]

ProofEventsInit ==
    /\ rows = [k \in Keys |-> NoRow]
    /\ revoked = {} /\ last_id = 0 /\ receipts = {} /\ day = 0 /\ ledger = 1
    /\ included = [t \in Txs |-> [ledger |-> 0, ok |-> FALSE]]
    /\ reconciler = [r \in Reconcilers |-> Idle]

-----------------------------------------------------------------------------
(* The table.  These operators are the statements; the steps that run them  *)
(* are the request handlers and the workers.                                *)

\* upsert_register_event, the insert: only a free key gets a row.  A request with
\* a transaction starts pending whatever status it names.
insert_row(k, owner, days, status) ==
    /\ rows[k] = NoRow
    /\ last_id' = last_id + 1
    /\ rows' = [rows EXCEPT ![k] =
          [id |-> last_id + 1, owner |-> owner, held |-> FALSE,
           status |-> IF TxOf[k] # NoTx THEN "pending" ELSE status,
           expires |-> day + days]]

\* upsert_register_event, the comparison of a found row with the request.
Conflicts(row, owner) == row.owner # owner

\* find_proof_owner: the address of the earliest register event of the proof, if any.
find_proof_owner(p) ==
    LET mine == {k \in Present : ProofOf[k] = p}
    IN  {rows[k].owner : k \in {i \in mine : \A j \in mine : rows[i].id <= rows[j].id}}

\* verify_batch's verdict on a proof, from the events it finds.
batch_status(p) ==
    LET found == {rows[k].status : k \in {j \in Present : ProofOf[j] = p}}
    IN  CASE p \in revoked -> "revoked"
          [] p \notin revoked /\ found = {} -> "not_found"
          [] p \notin revoked /\ "confirmed" \in found -> "verified"
          [] p \notin revoked /\ "confirmed" \notin found /\ "failed" \in found -> "failed"
          [] OTHER -> "pending"

\* insert_indexed_proof_event of a revocation the chain indexer found.
index_revocation(p) ==
    /\ revoked' = revoked \cup {p}
    /\ UNCHANGED <<rows, last_id, receipts, day, ledger, included, reconciler>>

\* set_legal_hold: every row the proof has now.
Held(row, hold) == [row EXCEPT !.held = hold]
set_legal_hold(p, hold) ==
    /\ rows' = [k \in Keys |-> IF k \in Present /\ ProofOf[k] = p
                               THEN Held(rows[k], hold) ELSE rows[k]]
    /\ UNCHANGED <<revoked, last_id, receipts, day, ledger, included, reconciler>>

\* EXPIRED_EVENTS_PREDICATE_SQL, shared by count_expired_events and the purge.
Expired == {k \in Present : rows[k].expires <= day /\ ~rows[k].held}

\* The rows of one batch, in the order of their ids.
PurgedRows == {k \in Expired : Cardinality({j \in Expired : rows[j].id < rows[k].id}) < PurgeBatch}

\* Mutant of purge_expired_events: the receipts are those of every expired row.
purge_receipts_all ==
    /\ Expired # {}
    /\ rows' = [k \in Keys |-> IF k \in PurgedRows THEN NoRow ELSE rows[k]]
    /\ receipts' = receipts \cup {rows[k].id : k \in Expired}
    /\ UNCHANGED <<revoked, last_id, day, ledger, included, reconciler>>

\* purge_expired_events: one statement deletes the first batch of expired rows and
\* writes their receipts.  RetentionWorker._purge repeats it while batches are full.
purge_expired_events ==
    /\ Expired # {}
    /\ rows' = [k \in Keys |-> IF k \in PurgedRows THEN NoRow ELSE rows[k]]
    /\ receipts' = receipts \cup {rows[k].id : k \in PurgedRows}
    /\ UNCHANGED <<revoked, last_id, day, ledger, included, reconciler>>

-----------------------------------------------------------------------------
(* Reconciliation. *)

\* External: what one Horizon server can answer about a transaction: it may be down,
\* it may lag behind the chain, and its fee_stats may not give the latest ledger.
Answers(t) ==
    {[kind |-> "down"]}
    \cup (IF included[t].ledger > 0
          THEN {[kind |-> "found", ok |-> included[t].ok, confirmations |-> n] :
                    n \in 0 .. ledger - included[t].ledger + 1}
          ELSE {})
    \cup {[kind |-> "not_found"]}

Earliest(S) == CHOOSE i \in S : \A j \in S : i <= j

\* Mutant of verify_transaction: an unreachable server counts as a failed transaction.
verify_transaction_down_is_failed(answers, min_confirmations) ==
    LET found == {i \in DOMAIN answers : answers[i].kind = "found"}
        first == answers[Earliest(found)]
    IN  IF found # {}
        THEN CASE ~first.ok -> "failed"
               [] first.ok /\ first.confirmations < min_confirmations -> "pending"
               [] OTHER -> "confirmed"
        ELSE IF \E i \in DOMAIN answers : answers[i].kind = "down" THEN "failed" ELSE "missing"

\* verify_transaction: the first server that knows the transaction decides (0
\* confirmations stand for an unknown depth); a server that is down matters only
\* when none knows it.
verify_transaction(answers, min_confirmations) ==
    LET found == {i \in DOMAIN answers : answers[i].kind = "found"}
        first == answers[Earliest(found)]
    IN  IF found # {}
        THEN CASE ~first.ok -> "failed"
               [] first.ok /\ first.confirmations < min_confirmations -> "pending"
               [] OTHER -> "confirmed"
        ELSE IF \E i \in DOMAIN answers : answers[i].kind = "down" THEN "error" ELSE "missing"

\* list_pending_registration_txs: the oldest pending rows.
list_pending ==
    LET pending == {k \in Present : TxOf[k] # NoTx /\ rows[k].status = "pending"}
        rank(k) == Cardinality({j \in pending : rows[j].id <= rows[k].id})
    IN  [i \in {rank(k) : k \in pending} \cap 1 .. PendingLimit |->
           TxOf[CHOOSE k \in pending : rank(k) = i]]

Asking(page, force, depth) == [at |-> "ask", page |-> page, force |-> force, depth |-> depth]

become(r, state) ==
    /\ reconciler' = [reconciler EXCEPT ![r] = state]
    /\ UNCHANGED <<rows, revoked, last_id, receipts, day, ledger, included>>

\* reconcile_pending_registrations reads its page.  tx_verification_loop goes
\* through its fallback, which asks for a single confirmation.
start_batch(r) ==
    /\ reconciler[r] = Idle /\ list_pending # <<>>
    /\ become(r, Asking(list_pending, FALSE, IF r \in WorkerLoops THEN 1 ELSE MinConfirmations))

\* reconcile_registration_confirmations for one hash, as a repair when `force`.
start_single(r) ==
    /\ reconciler[r] = Idle /\ r \notin WorkerLoops
    /\ \E t \in Txs, force \in BOOLEAN :
          become(r, Asking(<<t>>, force, MinConfirmations))

\* reconcile_registration asks Horizon about the first transaction of the page.
\* Only a terminal verdict leads to a write.
ask_horizon(r, answers) ==
    LET c == reconciler[r]
        verdict == verify_transaction(answers, c.depth)
    IN  /\ c.at = "ask"
        /\ become(r, CASE verdict \in TERMINAL_STATUSES ->
                            [at |-> "write", page |-> c.page, force |-> c.force,
                             depth |-> c.depth, verdict |-> verdict]
                       [] verdict \notin TERMINAL_STATUSES /\ Len(c.page) > 1 ->
                            Asking(Tail(c.page), c.force, c.depth)
                       [] OTHER -> Idle)

\* update_tx_status: the rows of the transaction that are still pending, or all of
\* them when forced.
WithStatus(row, status) == [row EXCEPT !.status = status]
Updated(t, status, force) ==
    [k \in Keys |-> IF k \in Present /\ TxOf[k] = t /\ (force \/ rows[k].status = "pending")
                    THEN WithStatus(rows[k], status) ELSE rows[k]]

update_tx_status(r) ==
    LET c == reconciler[r]
    IN  /\ c.at = "write"
        /\ rows' = Updated(Head(c.page), c.verdict, c.force)
        /\ reconciler' = [reconciler EXCEPT ![r] =
              IF Len(c.page) > 1 THEN Asking(Tail(c.page), c.force, c.depth) ELSE Idle]
        /\ UNCHANGED <<revoked, last_id, receipts, day, ledger, included>>

\* External: the chain closes a ledger, with a transaction or without.
CloseChainLedger ==
    /\ ledger < MaxLedger
    /\ ledger' = ledger + 1
    /\ \/ UNCHANGED included
       \/ \E t \in Txs, ok \in BOOLEAN :
             /\ included[t].ledger = 0
             /\ included' = [included EXCEPT ![t] = [ledger |-> ledger + 1, ok |-> ok]]
    /\ UNCHANGED <<rows, revoked, last_id, receipts, day, reconciler>>

\* External: a day passes.
PassDay ==
    /\ day < MaxDay
    /\ day' = day + 1
    /\ UNCHANGED <<rows, revoked, last_id, receipts, ledger, included, reconciler>>

AllAnswers(t) == [1 .. Horizons -> Answers(t)]

Reconcile(r) ==
    \/ start_batch(r)
    \/ reconciler[r].at = "ask" /\ \E answers \in AllAnswers(Head(reconciler[r].page)) :
                                       ask_horizon(r, answers)
    \/ update_tx_status(r)

StoreNext ==
    \/ \E r \in Reconcilers : Reconcile(r) \/ start_single(r)
    \/ \E p \in Proofs, hold \in BOOLEAN : set_legal_hold(p, hold)
    \/ \E p \in Proofs \ revoked : index_revocation(p)
    \/ purge_expired_events
    \/ CloseChainLedger
    \/ PassDay

-----------------------------------------------------------------------------
ProofEventsTypeOK ==
    /\ \A k \in Present : /\ rows[k].id \in 1 .. last_id
                          /\ rows[k].status \in {"none", "pending"} \cup TERMINAL_STATUSES
    /\ receipts \subseteq 1 .. last_id /\ revoked \subseteq Proofs
    /\ \A r \in Reconcilers : reconciler[r].at \in {"idle", "ask", "write"}

\* What the table says of a transaction is what the chain says: a row is confirmed
\* or failed only when its transaction is on the chain and succeeded or failed,
\* whichever of several reconcilers wrote it and however old its answer was; and
\* verify-batch calls a proof verified only then, or when a row without a
\* transaction carries the status its request named.
VerdictsMatchChain ==
    /\ \A k \in Present : TxOf[k] # NoTx =>
          /\ rows[k].status = "confirmed" => included[TxOf[k]].ledger > 0 /\ included[TxOf[k]].ok
          /\ rows[k].status = "failed" => included[TxOf[k]].ledger > 0 /\ ~included[TxOf[k]].ok
    /\ \A p \in Proofs : batch_status(p) = "verified" =>
          \E k \in Present : ProofOf[k] = p /\ (TxOf[k] = NoTx \/ included[TxOf[k]].ok)

\* Nothing vanishes: every row ever inserted is in the table or in the deletion
\* receipts, and never in both.
DeletionsAreReceipted == Ids \cup receipts = 1 .. last_id /\ Ids \cap receipts = {}

\* A registered transaction is settled sooner or later: its row leaves pending or
\* expires, also when the job that should have verified it was lost.
EveryRegistrationSettles ==
    \A k \in Keys : (k \in Present /\ rows[k].status = "pending")
                        ~> (k \notin Present \/ rows[k].status # "pending")
=============================================================================
