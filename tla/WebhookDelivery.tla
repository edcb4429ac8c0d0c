--------------------------- MODULE WebhookDelivery ---------------------------
(***************************************************************************)
(* The outbound webhook queue (backend/webhook.py): the rows of            *)
(* webhook_deliveries, leased in batches by one dispatcher thread per      *)
(* backend process.  A dispatcher sends its batch one row at a time; its   *)
(* process may die at any point and restart with an empty batch.           *)
(*                                                                         *)
(* The code compares timestamps with the clock.  Only the time that is     *)
(* left matters to it, so a row holds the ticks left of its lease and of   *)
(* its backoff, and a Tick of the clock counts both down.                  *)
(***************************************************************************)
EXTENDS Naturals, Sequences, FiniteSets, Functions

CONSTANTS Subscriptions, \* the active rows of webhook_subscriptions
          Events,        \* ids of proof_events
          Wanted,        \* the events each subscription's filter lets through
          Dispatchers,   \* the WebhookWorker threads
          MAX_RETRIES,
          Backoff,       \* RETRY_BACKOFF_SECONDS, in ticks
          LeaseTicks,    \* lease_duration
          BatchLimit,    \* the limit of one lease_deliveries call
          MaxCrashes     \* bound: how often dispatcher processes die

ASSUME WebhookAssumption ==
    /\ Wanted \in [Subscriptions -> SUBSET Events]
    /\ MAX_RETRIES \in Nat
    /\ Backoff \in Seq(Nat) /\ Len(Backoff) >= MAX_RETRIES
    /\ LeaseTicks \in Nat \ {0}
    /\ BatchLimit \in Nat \ {0}
    /\ MaxCrashes \in Nat

VARIABLES row,      \* webhook_deliveries, by subscription and event
          batch,    \* what each dispatcher has leased and not yet recorded
          stage,    \* where each dispatcher is with the head of its batch
          acked,    \* history: the deliveries a receiver answered with 2xx
          refused,  \* history: failed attempts per delivery, up to a cap
          crashes

webhookVars == <<row, batch, stage, acked, refused, crashes>>

Deliveries == Subscriptions \X Events
Settled == {"success", "dead_letter"}
Statuses == {"absent", "pending", "failed"} \cup Settled
Stages == {"idle", "sending", "acked", "refused"}
Absent == [status |-> "absent", retry_count |-> 0, wait |-> 0, lease |-> 0]
NewRow == [status |-> "pending", retry_count |-> 0, wait |-> 0, lease |-> 0]
AllAttempts == MAX_RETRIES + 1

\* The deliveries of event e: one for each active subscription that wants it.
DeliveriesOf(e) == {d \in Deliveries : d[2] = e /\ e \in Wanted[d[1]]}

\* The queue before the first dispatch, holding the deliveries of some events.
WebhookInit(queued) ==
    /\ row = [d \in Deliveries |->
                 IF d[2] \in queued /\ d \in DeliveriesOf(d[2])
                 THEN NewRow ELSE Absent]
    /\ batch = [w \in Dispatchers |-> << >>]
    /\ stage = [w \in Dispatchers |-> "idle"]
    /\ acked = {}
    /\ refused = [d \in Deliveries |-> 0]
    /\ crashes = 0

\* queue_webhook_deliveries: the rows one event adds.
queue_webhook_deliveries(e) ==
    row' = [d \in Deliveries |->
               IF d \in DeliveriesOf(e) THEN NewRow
                                        ELSE row[d]]

\* Mutant of Ready: a row is selected only before its first attempt.
Ready_pending_only(d) == /\ row[d].status = "pending"
                         /\ row[d].wait = 0
                         /\ row[d].lease = 0

\* The rows lease_deliveries may select: due, unsettled and not under a lease.
Ready(d) == /\ row[d].status \in {"pending", "failed"}
            /\ row[d].wait = 0
            /\ row[d].lease = 0

\* What the statement returns for the selected rows, in whatever order.
Returned(taken) ==
    {[i \in DOMAIN s |-> [id |-> s[i], retry_count |-> row[s[i]].retry_count]] :
        s \in UNION {Bijection(1 .. n, taken) : n \in 1 .. BatchLimit}}

Leased(r) == [r EXCEPT !.lease = LeaseTicks]

\* lease_deliveries: a dispatcher with nothing in hand leases the ready rows, at
\* most BatchLimit of them, in one statement.  Which of them come first (ORDER BY
\* next_retry_at) is left open.
lease_deliveries(w) ==
    LET ready == {d \in Deliveries : Ready(d)}
    IN  /\ batch[w] = << >>
        /\ \E taken \in (SUBSET ready) \ {{}} :
              /\ Cardinality(taken) <= BatchLimit
              /\ Cardinality(taken) = BatchLimit \/ taken = ready
              /\ batch' \in {[batch EXCEPT ![w] = b] : b \in Returned(taken)}
              /\ row' = [d \in Deliveries |->
                            IF d \in taken THEN Leased(row[d]) ELSE row[d]]
        /\ UNCHANGED <<stage, acked, refused, crashes>>

\* dispatch_webhook, the request: the POST leaves for the head of the batch.
send(w) ==
    /\ batch[w] # << >>
    /\ stage[w] = "idle"
    /\ stage' = [stage EXCEPT ![w] = "sending"]
    /\ UNCHANGED <<row, batch, acked, refused, crashes>>

\* dispatch_webhook, the answer: a 2xx response, or anything else (another
\* status, a timeout, an oversized or failed response).
answer(w) ==
    LET d == Head(batch[w]).id
    IN  /\ stage[w] = "sending"
        /\ \/ /\ stage' = [stage EXCEPT ![w] = "acked"]
              /\ acked' = acked \cup {d}
              /\ UNCHANGED refused
           \/ /\ stage' = [stage EXCEPT ![w] = "refused"]
              /\ refused' = [refused EXCEPT ![d] = IF @ < AllAttempts THEN @ + 1 ELSE @]
              /\ UNCHANGED acked
        /\ UNCHANGED <<row, batch, crashes>>

\* Mutant of Outcome: a delivery is given up one retry early.
Outcome_gives_up_early(success, n) ==
    IF success THEN [status |-> "success", retry_count |-> n, wait |-> 0, lease |-> 0]
    ELSE IF n + 1 >= MAX_RETRIES
         THEN [status |-> "dead_letter", retry_count |-> n, wait |-> 0, lease |-> 0]
         ELSE [status |-> "failed", retry_count |-> n + 1, wait |-> Backoff[n + 1], lease |-> 0]

\* Mutant of Outcome: the last retry is followed by one more.
Outcome_one_too_many(success, n) ==
    IF success THEN [status |-> "success", retry_count |-> n, wait |-> 0, lease |-> 0]
    ELSE IF n > MAX_RETRIES
         THEN [status |-> "dead_letter", retry_count |-> n, wait |-> 0, lease |-> 0]
         ELSE [status |-> "failed", retry_count |-> n + 1, wait |-> Backoff[n + 1], lease |-> 0]

\* update_delivery_status: what an attempt made at retry count n leaves in its row.
Outcome(success, n) ==
    IF success THEN [status |-> "success", retry_count |-> n, wait |-> 0, lease |-> 0]
    ELSE IF n >= MAX_RETRIES
         THEN [status |-> "dead_letter", retry_count |-> n, wait |-> 0, lease |-> 0]
         ELSE [status |-> "failed", retry_count |-> n + 1, wait |-> Backoff[n + 1], lease |-> 0]

\* dispatch_webhook, the record: the row is overwritten by id alone, with the
\* retry count read when it was leased, whatever happened to it since.
update_delivery_status(w) ==
    LET it == Head(batch[w])
    IN  /\ stage[w] \in {"acked", "refused"}
        /\ row' = [row EXCEPT ![it.id] = Outcome(stage[w] = "acked", it.retry_count)]
        /\ batch' = [batch EXCEPT ![w] = Tail(@)]
        /\ stage' = [stage EXCEPT ![w] = "idle"]
        /\ UNCHANGED <<acked, refused, crashes>>

\* The dispatcher's process dies and starts again, or a database error ends its
\* round: what it held is lost, its leases stay until they run out.
CrashDispatcher(w) ==
    /\ crashes < MaxCrashes
    /\ batch[w] # << >>
    /\ crashes' = crashes + 1
    /\ batch' = [batch EXCEPT ![w] = << >>]
    /\ stage' = [stage EXCEPT ![w] = "idle"]
    /\ UNCHANGED <<row, acked, refused>>

\* The clock moves on: every lease and backoff is a tick shorter.
Aged(r) == [r EXCEPT !.wait = IF @ > 0 THEN @ - 1 ELSE 0, !.lease = IF @ > 0 THEN @ - 1 ELSE 0]
Tick ==
    /\ \E d \in Deliveries : row[d].wait > 0 \/ row[d].lease > 0
    /\ row' = [d \in Deliveries |-> Aged(row[d])]
    /\ UNCHANGED <<batch, stage, acked, refused, crashes>>

Dispatch(w) == lease_deliveries(w) \/ send(w) \/ answer(w) \/ update_delivery_status(w)

WebhookNext ==
    \/ \E w \in Dispatchers : Dispatch(w) \/ CrashDispatcher(w)
    \/ Tick

-----------------------------------------------------------------------------
DeliveryRow ==
    [status : Statuses, retry_count : 0 .. MAX_RETRIES, wait : Nat, lease : 0 .. LeaseTicks]
LeasedItem == [id : Deliveries, retry_count : 0 .. MAX_RETRIES]

WebhookTypeOK ==
    /\ row \in [Deliveries -> DeliveryRow]
    /\ batch \in [Dispatchers -> Seq(LeasedItem)]
    /\ stage \in [Dispatchers -> Stages]
    /\ acked \subseteq Deliveries
    /\ refused \in [Deliveries -> 0 .. AllAttempts]
    /\ crashes \in 0 .. MaxCrashes

\* A row marked success was acknowledged by its receiver, and a row is given up
\* only after the initial attempt and all MAX_RETRIES retries were refused, even
\* when dispatchers whose leases ran out record attempts of an older retry count.
SettledWithCause ==
    \A d \in Deliveries :
        /\ row[d].status = "success" => d \in acked
        /\ row[d].status = "dead_letter" => refused[d] = AllAttempts

\* Every queued delivery is in the end acknowledged or given up for good: crashed
\* dispatchers' leases run out, failed attempts are retried, and late records of
\* old attempts reopen a row only finitely often.
EveryDeliverySettles ==
    \A d \in Deliveries :
        [](row[d].status # "absent" => <>[](row[d].status \in Settled))

\* backend/docs/webhooks.md: "A successful attempt is marked `success` and stops
\* retrying."  update_delivery_status writes by id alone, so the late record of an
\* attempt whose lease ran out may follow the record of the one that succeeded.
SuccessIsFinal ==
    [][\A d \in Deliveries : row[d].status = "success" => row'[d].status = "success"]_row
=============================================================================
