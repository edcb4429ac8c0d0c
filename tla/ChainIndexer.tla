----------------------------- MODULE ChainIndexer -----------------------------
(***************************************************************************)
(* The contract event indexer (backend/chain_indexer.py) and the rows it   *)
(* writes (db.py).  Every worker process runs an indexer loop, and all of  *)
(* them share one saved cursor.  A poll reads the cursor, fetches a page   *)
(* of events, inserts each lifecycle event once, queues its webhook        *)
(* deliveries and saves the page's cursor.  Each of these is a step of its *)
(* own: other indexers move in between, and the poll may end after any of  *)
(* them by an RPC or database error or by the death of the process.        *)
(*                                                                         *)
(* An event is its position on the chain, and a cursor is the position of  *)
(* the last event it covers.                                               *)
(***************************************************************************)
EXTENDS WebhookDelivery

CONSTANTS Indexers,   \* the worker processes
          Lifecycle,  \* the events whose topic classify_and_decode_event knows
          PageSize,   \* the limit of one getEvents call
          MaxAborts,  \* bound: polls that end early
          NoCursor

ASSUME IndexerAssumption ==
    /\ Events \subseteq Nat /\ \E n \in Events \cup {0} : Events = 1 .. n
    /\ Lifecycle \subseteq Events
    /\ PageSize \in Nat \ {0}
    /\ MaxAborts \in Nat
    /\ NoCursor \notin {0} \cup Events

VARIABLES head,     \* the chain: events 1 .. head have been emitted
          cursor,   \* indexer_state.cursor
          indexed,  \* the events with a row in proof_events
          poll,     \* each indexer's poll in progress
          origin,   \* history: the furthest that a poll without a cursor has started
          queuings, \* history: how often each event's deliveries were queued
          aborts

indexerVars == <<head, cursor, indexed, poll, origin, queuings, aborts>>

Resting == [at |-> "rest"]
Position == {0} \cup Events

IndexerInit ==
    /\ head \in Position
    /\ cursor = NoCursor
    /\ indexed = {}
    /\ poll = [i \in Indexers |-> Resting]
    /\ origin = 0
    /\ queuings = [e \in Events |-> 0]
    /\ aborts = 0

\* External: the contract emits its next event.
Emit ==
    /\ head + 1 \in Events
    /\ head' = head + 1
    /\ UNCHANGED <<cursor, indexed, poll, origin, queuings, aborts, webhookVars>>

\* poll_indexer_once, its start: the saved cursor, or without one the latest
\* ledger, which may or may not hold the last event.
poll_indexer_once(i) ==
    /\ poll[i] = Resting
    /\ \E after \in IF cursor = NoCursor THEN {head, head - 1} \cap Position ELSE {cursor} :
          poll' = [poll EXCEPT ![i] = [at |-> "fetch", after |-> after,
                                       fresh |-> cursor = NoCursor]]
    /\ UNCHANGED <<head, cursor, indexed, origin, queuings, aborts, webhookVars>>

\* fetch_contract_events: a page of the events emitted so far.
fetch_contract_events(i) ==
    LET p == poll[i]
        last == IF p.after + PageSize < head THEN p.after + PageSize ELSE head
    IN  /\ p.at = "fetch"
        /\ poll' = [poll EXCEPT ![i] = [at |-> "insert", next |-> p.after + 1, last |-> last,
                                        after |-> p.after, fresh |-> p.fresh]]
        /\ UNCHANGED <<head, cursor, indexed, origin, queuings, aborts, webhookVars>>

\* Mutant of insert_indexed_proof_event: an existing row is reported as created.
insert_indexed_proof_event_always_new(i) ==
    LET p == poll[i]
    IN  /\ p.at = "insert" /\ p.next <= p.last /\ p.next \in Lifecycle
        /\ indexed' = indexed \cup {p.next}
        /\ poll' = [poll EXCEPT ![i] = [p EXCEPT !.at = "queue"]]
        /\ UNCHANGED <<head, cursor, origin, queuings, aborts, webhookVars>>

\* process_events_batch goes on to the next event of its page.
Advanced(p) == [at |-> "insert", next |-> p.next + 1, last |-> p.last,
                after |-> p.after, fresh |-> p.fresh]

\* insert_indexed_proof_event: the unique (tx_hash, event_index) lets one of the
\* inserts of an event create its row; the others find it there.
insert_indexed_proof_event(i) ==
    LET p == poll[i]
    IN  /\ p.at = "insert" /\ p.next <= p.last /\ p.next \in Lifecycle
        /\ indexed' = indexed \cup {p.next}
        /\ poll' = [poll EXCEPT ![i] = IF p.next \in indexed THEN Advanced(p)
                                                             ELSE [p EXCEPT !.at = "queue"]]
        /\ UNCHANGED <<head, cursor, origin, queuings, aborts, webhookVars>>

\* process_events_batch: an event of unknown topic is counted and skipped.
skip_unknown(i) ==
    LET p == poll[i]
    IN  /\ p.at = "insert" /\ p.next <= p.last /\ p.next \notin Lifecycle
        /\ poll' = [poll EXCEPT ![i] = Advanced(p)]
        /\ UNCHANGED <<head, cursor, indexed, origin, queuings, aborts, webhookVars>>

\* process_events_batch: the deliveries of a created row are queued.
queue_new(i) ==
    LET p == poll[i]
    IN  /\ p.at = "queue"
        /\ queue_webhook_deliveries(p.next)
        /\ queuings' = [queuings EXCEPT ![p.next] = @ + 1]
        /\ poll' = [poll EXCEPT ![i] = Advanced(p)]
        /\ UNCHANGED <<head, cursor, indexed, origin, aborts,
                       batch, stage, acked, refused, crashes>>

\* process_events_batch: queueing failed; the error is logged and the page goes on.
queue_failed(i) ==
    LET p == poll[i]
    IN  /\ aborts < MaxAborts
        /\ p.at = "queue"
        /\ poll' = [poll EXCEPT ![i] = Advanced(p)]
        /\ aborts' = aborts + 1
        /\ UNCHANGED <<head, cursor, indexed, origin, queuings, webhookVars>>

\* Mutant of save_indexer_cursor: the cursor is saved before the page is processed.
save_indexer_cursor_first(i) ==
    LET p == poll[i]
    IN  \/ /\ p.at = "insert" /\ p.next <= p.last
           /\ cursor' = p.last
           /\ origin' = IF p.fresh /\ p.after > origin THEN p.after ELSE origin
           /\ UNCHANGED <<head, indexed, poll, queuings, aborts, webhookVars>>
        \/ /\ p.at = "insert" /\ p.next > p.last
           /\ poll' = [poll EXCEPT ![i] = Resting]
           /\ UNCHANGED <<head, cursor, indexed, origin, queuings, aborts, webhookVars>>

\* Mutant of save_indexer_cursor: the request's cursor is saved, not the page's.
save_indexer_cursor_old(i) ==
    LET p == poll[i]
    IN  /\ p.at = "insert" /\ p.next > p.last
        /\ cursor' = p.after
        /\ origin' = IF p.fresh /\ p.after > origin THEN p.after ELSE origin
        /\ poll' = [poll EXCEPT ![i] = Resting]
        /\ UNCHANGED <<head, indexed, queuings, aborts, webhookVars>>

\* save_indexer_cursor: the page is done.  Unless it was empty its cursor replaces
\* the saved one, whatever another indexer saved since this poll read it.
save_indexer_cursor(i) ==
    LET p == poll[i]
        moved == p.fresh \/ p.last # p.after
    IN  /\ p.at = "insert" /\ p.next > p.last
        /\ cursor' = IF moved THEN p.last ELSE cursor
        /\ origin' = IF p.fresh /\ p.after > origin THEN p.after ELSE origin
        /\ poll' = [poll EXCEPT ![i] = Resting]
        /\ UNCHANGED <<head, indexed, queuings, aborts, webhookVars>>

\* The poll ends early: an RPC or database error, or the process dies.
AbortPoll(i) ==
    /\ aborts < MaxAborts
    /\ poll[i] # Resting
    /\ poll' = [poll EXCEPT ![i] = Resting]
    /\ aborts' = aborts + 1
    /\ UNCHANGED <<head, cursor, indexed, origin, queuings, webhookVars>>

Index(i) ==
    \/ poll_indexer_once(i) \/ fetch_contract_events(i)
    \/ insert_indexed_proof_event(i) \/ skip_unknown(i)
    \/ queue_new(i) \/ save_indexer_cursor(i)

IndexerNext == Emit \/ \E i \in Indexers : Index(i) \/ queue_failed(i) \/ AbortPoll(i)

\* The indexers beside the dispatchers of what they queue.
IndexerSpec ==
    /\ IndexerInit /\ WebhookInit({})
    /\ [][IndexerNext \/ (WebhookNext /\ UNCHANGED indexerVars)]_<<indexerVars, webhookVars>>

-----------------------------------------------------------------------------
Polls ==
    [at : {"rest"}]
        \cup [at : {"fetch"}, after : Position, fresh : BOOLEAN]
        \cup [at : {"insert", "queue"}, next : {e + 1 : e \in Position}, last : Position,
              after : Position, fresh : BOOLEAN]

IndexerTypeOK ==
    /\ head \in Position
    /\ cursor \in Position \cup {NoCursor}
    /\ indexed \subseteq Lifecycle
    /\ poll \in [Indexers -> Polls]
    /\ origin \in Position
    /\ queuings \in [Events -> Nat]
    /\ aborts \in 0 .. MaxAborts

\* No lifecycle event is passed over: every one between the place indexing started
\* and the saved cursor has its row, although indexers that share the cursor save
\* it in any order and polls end between inserting and saving.
NothingSkipped ==
    cursor # NoCursor =>
        \A e \in Lifecycle : origin < e /\ e <= cursor => e \in indexed

\* Pages are read again after an abort or when two indexers overlap, but the
\* deliveries of an event are queued at most once, and only for an indexed event.
QueuedAtMostOnce ==
    \A e \in Events :
        /\ queuings[e] <= 1
        /\ queuings[e] = 1 => e \in indexed

\* The indexer neither skips nor repeats: every lifecycle event behind the saved cursor
\* has its row, and its deliveries were queued at most once, although indexers share
\* the cursor, polls end between inserting and saving, and pages are read again.
IndexedOnce == NothingSkipped /\ QueuedAtMostOnce

\* Every lifecycle event emitted after indexing started is in the end indexed, also
\* when a slow indexer moves the shared cursor back.
EveryEventIndexed ==
    \A e \in Lifecycle : e <= head ~> (e \in indexed \/ e <= origin)
=============================================================================
