------------------------------- MODULE MCBackend -------------------------------
(***************************************************************************)
(* The backend's loops for TLC: what its workers owe to what is queued for *)
(* them.  Admission control, the indexer with the deliveries it queues,    *)
(* the dispatchers of a queued backlog, the reconciler of registered       *)
(* transactions, the collector of blobs and the readiness checks share no  *)
(* step with one another, so a behaviour is about one of them: `focus`,    *)
(* chosen at the start, says which.                                        *)
(***************************************************************************)
EXTENDS ChainIndexer, Admission, ProofEvents, EvidenceBlobs, Readiness, TLC

CONSTANTS Foci, k1, k2, t1, t2, p1

VARIABLE focus

backendVars == <<focus, indexerVars, webhookVars, admissionVars, proofEventVars, blobVars, readyVars>>

\* Every subscription gets every event.
NoFilter == [s \in Subscriptions |-> Events]

\* The backoff grows from one retry to the next.
Schedule == <<1, 2>>

\* Two registrations of one proof, each with a transaction of its own.
Transactions == (k1 :> t1) @@ (k2 :> t2)
OneProof == [k \in Keys |-> p1]

\* Indexing has caught up with a chain whose deliveries are all queued.
CaughtUp ==
    /\ head = Cardinality(Events) /\ cursor = head /\ origin = 0
    /\ indexed = Lifecycle
    /\ poll = [i \in Indexers |-> Resting]
    /\ queuings = [e \in Events |-> IF e \in Lifecycle THEN 1 ELSE 0]
    /\ aborts = 0

\* Two clients have registered, and nothing has verified their transactions.
Registered ==
    /\ rows = [k \in Keys |-> [id |-> IF k = k1 THEN 1 ELSE 2, owner |-> k, held |-> FALSE,
                               status |-> "pending", expires |-> 1]]
    /\ revoked = {} /\ last_id = 2 /\ receipts = {} /\ day = 0 /\ ledger = 1
    /\ included = [t \in Txs |-> [ledger |-> 0, ok |-> FALSE]]
    /\ reconciler = [r \in Reconcilers |-> Idle]

BackendInit ==
    /\ focus \in Foci
    /\ AdmissionInit /\ BlobInit /\ ReadyInit
    /\ IF focus = "deliver" THEN CaughtUp /\ WebhookInit(Lifecycle)
                            ELSE IndexerInit /\ WebhookInit({})
    /\ IF focus = "settle" THEN Registered ELSE ProofEventsInit
    /\ focus \notin {"index", "deliver"} => head = 0

BackendNext ==
    /\ \/ focus = "index" /\ IndexerNext
       \/ focus = "deliver" /\ WebhookNext /\ UNCHANGED indexerVars
       \/ focus \notin {"index", "deliver"} /\ UNCHANGED <<indexerVars, webhookVars>>
    /\ IF focus = "admit" THEN AdmissionNext ELSE UNCHANGED admissionVars
    /\ IF focus = "settle" THEN StoreNext ELSE UNCHANGED proofEventVars
    /\ IF focus = "collect" THEN BlobNext ELSE UNCHANGED blobVars
    /\ IF focus = "ready" THEN ReadyNext ELSE UNCHANGED readyVars
    /\ UNCHANGED focus

\* The loops of indexers and dispatchers never end, every request they make ends by
\* its timeouts at the latest, time passes, a waiting thread's timeout runs out and
\* handlers return.  Nothing makes requests arrive, events happen or processes die.
QueueFairness ==
    /\ \A i \in Indexers : WF_<<indexerVars, webhookVars>>(focus = "index" /\ Index(i))
    /\ \A w \in Dispatchers : WF_webhookVars(focus = "deliver" /\ Dispatch(w))
    /\ WF_webhookVars(focus = "deliver" /\ Tick)
    /\ \A t \in Threads : WF_admissionVars(focus = "admit" /\ Serve(t))

\* A worker loop that asks about a transaction again and again is told the truth now
\* and then: the transaction with a confirmation, or that the chain has none.
TruthfulAnswer(r) ==
    /\ reconciler[r].at = "ask"
    /\ LET t == Head(reconciler[r].page)
           truth == IF included[t].ledger = 0 THEN [kind |-> "not_found"]
                    ELSE [kind |-> "found", ok |-> included[t].ok,
                          confirmations |-> ledger - included[t].ledger + 1]
       IN  ask_horizon(r, [h \in 1 .. Horizons |-> truth])

\* tx_verification_loop runs every 15 seconds whatever its last pass met; the
\* collector is run again and again, and database transactions end; GET /ready is
\* polled, a probe ends unless its dependency hangs, and cached results grow old.
WorkerFairness ==
    /\ \A r \in WorkerLoops :
          /\ WF_proofEventVars(focus = "settle" /\ Reconcile(r))
          /\ SF_proofEventVars(focus = "settle" /\ TruthfulAnswer(r))
    /\ WF_blobVars(focus = "collect" /\ (gc_select \/ gc_commit))
    /\ \A b \in Blobs : WF_blobVars(focus = "collect" /\ (gc_lock(b) \/ gc_delete(b)))
    /\ \A t \in Tenants, b \in Blobs : WF_blobVars(focus = "collect" /\ commit_tenant_ref(t, b))
    /\ \A c \in Checkers : WF_readyVars(focus = "ready" /\ CheckStep(c))
    /\ \A c \in Checkers, d \in Deps : WF_readyVars(focus = "ready" /\ attempt(c, d))
    /\ \A d \in Deps : WF_readyVars(focus = "ready" /\ Age(d))

BackendSpec == BackendInit /\ [][BackendNext]_backendVars /\ QueueFairness /\ WorkerFairness

\* Every row, count and thread of the backend's loops has its type.
TypesOK ==
    /\ WebhookTypeOK /\ IndexerTypeOK /\ AdmissionTypeOK
    /\ ProofEventsTypeOK /\ BlobTypeOK /\ ReadyTypeOK

\* What is queued is worked off.  Dispatchers settle every delivery of a backlog for
\* good, every event emitted after indexing started is indexed, and every request that
\* arrives at admission control is answered.
QueuesDrain ==
    /\ focus = "deliver" => EveryDeliverySettles
    /\ EveryEventIndexed
    /\ EveryRequestAnswered

\* What the periodic workers look after comes right in the end.  A registered
\* transaction leaves pending although the page is bounded and Horizon fails or lags, a
\* blob nobody refers to is collected although unlinks fail and collections die, and
\* GET /ready agrees with dependencies that stay as they are.
WorkersCatchUp ==
    /\ EveryRegistrationSettles
    /\ UnreferencedIsCollected
    /\ focus = "ready" => ReadinessConverges
=============================================================================
