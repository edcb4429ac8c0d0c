--------------------------- MODULE ServiceProofs ----------------------------
(***************************************************************************)
(* Services of the backend, for every value of the constants: the indexer  *)
(* with the webhook deliveries it queues, embed and extract requests, and  *)
(* the issuer key directory with its clients. The three share no state.    *)
(***************************************************************************)
EXTENDS ChainIndexer, KeyDirectory, MediaRequests, TLAPS

---------------------------------------------------------------------------
(* Webhook deliveries.                                                     *)

\* What a delivery's retry count and a dispatcher's stage say about the attempts that
\* were made: a count never exceeds the refusals so far, and the refusal that is
\* about to be recorded comes on top of the count read when the row was leased.
WebhookInv ==
    /\ WebhookTypeOK
    /\ SettledWithCause
    /\ \A d \in Deliveries : row[d].retry_count <= refused[d]
    /\ \A w \in Dispatchers :
         /\ \A n \in 1 .. Len(batch[w]) : batch[w][n].retry_count <= refused[batch[w][n].id]
         /\ stage[w] # "idle" => batch[w] # << >>
         /\ stage[w] = "acked" => Head(batch[w]).id \in acked
         /\ stage[w] = "refused" => Head(batch[w]).retry_count < refused[Head(batch[w]).id]

\* What the types of rows and leased items say about their fields.
LEMMA RowFields ==
    ASSUME NEW r \in DeliveryRow
    PROVE  /\ r.status \in Statuses /\ r.retry_count \in 0 .. MAX_RETRIES /\ r.retry_count \in Nat
           /\ r.wait \in Nat /\ r.lease \in 0 .. LeaseTicks
           /\ r = [status |-> r.status, retry_count |-> r.retry_count,
                   wait |-> r.wait, lease |-> r.lease]
  BY WebhookAssumption DEF DeliveryRow

\* A lease, and a tick of the clock, change neither the status nor the retry count.
LEMMA RowsKept ==
    ASSUME NEW r \in DeliveryRow
    PROVE  /\ Leased(r) \in DeliveryRow /\ Leased(r).status = r.status
           /\ Leased(r).retry_count = r.retry_count
           /\ Aged(r) \in DeliveryRow /\ Aged(r).status = r.status
           /\ Aged(r).retry_count = r.retry_count
  <1>1. /\ Leased(r) \in DeliveryRow /\ Leased(r).status = r.status
        /\ Leased(r).retry_count = r.retry_count
    BY WebhookAssumption DEF Leased, DeliveryRow
  <1> DEFINE x == IF r.wait > 0 THEN r.wait - 1 ELSE 0
             y == IF r.lease > 0 THEN r.lease - 1 ELSE 0
  <1>2. x \in Nat /\ y \in 0 .. LeaseTicks
    BY RowFields, WebhookAssumption
  <1>3. Aged(r) = [r EXCEPT !.wait = x, !.lease = y]
    BY DEF Aged
  <1> HIDE DEF x, y
  <1>4. /\ Aged(r) \in DeliveryRow /\ Aged(r).status = r.status
        /\ Aged(r).retry_count = r.retry_count
    BY <1>2, <1>3, Zenon DEF DeliveryRow
  <1> QED BY <1>1, <1>4

\* What the type of a leased item says about its fields.
LEMMA ItemFields ==
    ASSUME NEW b \in Seq(LeasedItem)
    PROVE  /\ \A n \in 1 .. Len(b) :
                /\ b[n].id \in Deliveries
                /\ b[n].retry_count \in 0 .. MAX_RETRIES /\ b[n].retry_count \in Nat
           /\ b # << >> => /\ Head(b).id \in Deliveries
                           /\ Head(b).retry_count \in 0 .. MAX_RETRIES /\ Head(b).retry_count \in Nat
  <1>1. \A n \in 1 .. Len(b) : b[n] \in LeasedItem
    OBVIOUS
  <1>2. b # << >> => Head(b) \in LeasedItem
    OBVIOUS
  <1>3. \A i \in LeasedItem : /\ i.id \in Deliveries
                              /\ i.retry_count \in 0 .. MAX_RETRIES /\ i.retry_count \in Nat
    BY WebhookAssumption DEF LeasedItem
  <1> QED BY <1>1, <1>2, <1>3

\* What the type invariant says about one delivery and one dispatcher.
LEMMA WebhookFields ==
    ASSUME WebhookInv
    PROVE  /\ \A d \in Deliveries : row[d] \in DeliveryRow /\ refused[d] \in Nat
           /\ \A d \in Deliveries : row[d].retry_count \in Nat /\ row[d].retry_count \in 0 .. MAX_RETRIES
           /\ \A v \in Dispatchers : batch[v] \in Seq(LeasedItem)
  BY RowFields, WebhookAssumption DEF WebhookInv, WebhookTypeOK, AllAttempts

\* The invariant holds for a queue of fresh deliveries.
LEMMA WebhookInitInv == ASSUME NEW queued, WebhookInit(queued) PROVE WebhookInv
  <1>1. \A d \in Deliveries : row[d] = Absent \/ row[d] = NewRow
    BY DEF WebhookInit
  <1>2. Absent \in DeliveryRow /\ NewRow \in DeliveryRow
    BY WebhookAssumption DEF Absent, NewRow, DeliveryRow, Statuses, Settled
  <1>3. WebhookTypeOK
    <2>1. row \in [Deliveries -> DeliveryRow]
      BY <1>1, <1>2 DEF WebhookInit
    <2>2. refused \in [Deliveries -> 0 .. AllAttempts] /\ crashes \in 0 .. MaxCrashes
      BY WebhookAssumption DEF WebhookInit, AllAttempts
    <2>3. batch \in [Dispatchers -> Seq(LeasedItem)] /\ stage \in [Dispatchers -> Stages]
      BY DEF WebhookInit, Stages
    <2> QED BY <2>1, <2>2, <2>3 DEF WebhookInit, WebhookTypeOK
  <1>4. \A d \in Deliveries : row[d].status \notin Settled /\ row[d].retry_count = 0
    BY <1>1 DEF Absent, NewRow, Settled
  <1>5. SettledWithCause /\ \A d \in Deliveries : row[d].retry_count <= refused[d]
    BY <1>4 DEF WebhookInit, SettledWithCause, Settled
  <1> QED BY <1>3, <1>5 DEF WebhookInit, WebhookInv

\* Rows are new, or keep their status and retry count.
LEMMA RowsRefreshed ==
    ASSUME WebhookInv, UNCHANGED <<batch, stage, acked, refused, crashes>>,
           row' \in [Deliveries -> DeliveryRow],
           \A d \in Deliveries :
             \/ row'[d].status = "pending" /\ row'[d].retry_count = 0
             \/ row'[d].status = row[d].status /\ row'[d].retry_count = row[d].retry_count
    PROVE  WebhookInv'
  <1>1. WebhookTypeOK' /\ \A d \in Deliveries : refused[d] \in Nat
    BY WebhookFields DEF WebhookInv, WebhookTypeOK
  <1>2. SettledWithCause' /\ \A d \in Deliveries : row'[d].retry_count <= refused[d]
    BY <1>1 DEF WebhookInv, SettledWithCause
  <1> QED BY <1>1, <1>2 DEF WebhookInv

\* queue_webhook_deliveries adds rows that no attempt was made for.
LEMMA QueueKeepsDeliveries ==
    ASSUME WebhookInv, NEW e, queue_webhook_deliveries(e),
           UNCHANGED <<batch, stage, acked, refused, crashes>>
    PROVE  WebhookInv'
  <1>1. NewRow
          \in DeliveryRow
    BY WebhookAssumption DEF NewRow, DeliveryRow, Statuses, Settled
  <1>2. row' \in [Deliveries -> DeliveryRow]
    BY <1>1 DEF queue_webhook_deliveries, WebhookInv, WebhookTypeOK
  <1>3. \A d \in Deliveries : row'[d] = row[d] \/ row'[d] = NewRow
    BY DEF queue_webhook_deliveries
  <1>4. NewRow.status = "pending" /\ NewRow.retry_count = 0
    BY DEF NewRow
  <1> QED BY <1>2, <1>3, <1>4, RowsRefreshed

\* A tick of the clock keeps the invariant.
LEMMA TickKeepsDeliveries ==
    ASSUME WebhookInv, Tick
    PROVE  WebhookInv'
  <1>1. ASSUME NEW d \in Deliveries
        PROVE  /\ row'[d] \in DeliveryRow
               /\ row'[d].status = row[d].status /\ row'[d].retry_count = row[d].retry_count
    BY WebhookFields, RowsKept DEF Tick
  <1>2. row' \in [Deliveries -> DeliveryRow]
    BY <1>1 DEF Tick
  <1> QED BY <1>1, <1>2, RowsRefreshed DEF Tick

\* One dispatcher's batch and stage change, and the attempts made only grow.
LEMMA DispatcherMoves ==
    ASSUME WebhookInv, NEW w \in Dispatchers,
           NEW b \in Seq(LeasedItem), NEW g \in Stages,
           batch' = [batch EXCEPT ![w] = b], stage' = [stage EXCEPT ![w] = g],
           row' \in [Deliveries -> DeliveryRow],
           acked \subseteq acked', acked' \subseteq Deliveries,
           refused' \in [Deliveries -> 0 .. AllAttempts],
           \A d \in Deliveries : refused[d] <= refused'[d],
           crashes' \in 0 .. MaxCrashes,
           SettledWithCause', \A d \in Deliveries : row'[d].retry_count <= refused'[d],
           \A n \in 1 .. Len(b) : b[n].retry_count <= refused'[b[n].id],
           g # "idle" => b # << >>,
           g = "acked" => Head(b).id \in acked',
           g = "refused" => Head(b).retry_count < refused'[Head(b).id]
    PROVE  WebhookInv'
  <1>1. WebhookTypeOK'
    BY DEF WebhookInv, WebhookTypeOK
  <1>2. \A v \in Dispatchers : v # w => batch'[v] = batch[v] /\ stage'[v] = stage[v]
    BY DEF WebhookInv, WebhookTypeOK
  <1>3. batch'[w] = b /\ stage'[w] = g
    BY DEF WebhookInv, WebhookTypeOK
  <1> DEFINE Held(v) ==
               /\ \A n \in 1 .. Len(batch[v]) : batch[v][n].retry_count <= refused[batch[v][n].id]
               /\ stage[v] # "idle" => batch[v] # << >>
               /\ stage[v] = "acked" => Head(batch[v]).id \in acked
               /\ stage[v] = "refused" => Head(batch[v]).retry_count < refused[Head(batch[v]).id]
  <1>4. ASSUME NEW v \in Dispatchers, v # w PROVE Held(v)'
    <2>1. Held(v) /\ batch[v] \in Seq(LeasedItem)
      BY DEF WebhookInv, WebhookTypeOK
    <2>2. \A n \in 1 .. Len(batch[v]) : batch[v][n].id \in Deliveries /\ batch[v][n].retry_count \in Nat
      BY <2>1, ItemFields
    <2>3. \A d \in Deliveries : refused[d] \in Nat /\ refused'[d] \in Nat
      BY WebhookFields, WebhookAssumption DEF AllAttempts
    <2>4. batch[v] # << >> => Head(batch[v]).id \in Deliveries /\ Head(batch[v]).retry_count \in Nat
      BY <2>1, ItemFields
    <2>5. ASSUME NEW n \in 1 .. Len(batch[v])
          PROVE  batch[v][n].retry_count <= refused'[batch[v][n].id]
      <3>1. batch[v][n].retry_count <= refused[batch[v][n].id]
        BY <2>1
      <3> QED BY <2>2, <2>3, <3>1
    <2>6. stage[v] = "refused" => Head(batch[v]).retry_count < refused'[Head(batch[v]).id]
      BY <2>1, <2>3, <2>4
    <2> QED BY <1>2, <1>4, <2>1, <2>5, <2>6
  <1>5. Held(w)'
    BY <1>3
  <1>6. \A v \in Dispatchers : Held(v)'
    BY <1>4, <1>5
  <1> HIDE DEF Held
  <1>7. WebhookTypeOK' /\ SettledWithCause' /\ \A d \in Deliveries : row'[d].retry_count <= refused'[d]
    BY <1>1
  <1> QED BY <1>6, <1>7 DEF WebhookInv, Held

\* A leased row goes into the batch with the retry count it has now.
LEMMA LeaseKeepsDeliveries ==
    ASSUME WebhookInv, NEW w \in Dispatchers, lease_deliveries(w)
    PROVE  WebhookInv'
  <1>1. PICK taken \in SUBSET Deliveries :
          /\ batch' \in {[batch EXCEPT ![w] = b] : b \in Returned(taken)}
          /\ row' = [d \in Deliveries |-> IF d \in taken THEN Leased(row[d]) ELSE row[d]]
          /\ batch[w] = << >> /\ UNCHANGED <<stage, acked, refused, crashes>>
    BY Zenon DEF lease_deliveries
  <1>2. PICK k \in 1 .. BatchLimit : \E s \in Bijection(1 .. k, taken) :
          batch' = [batch EXCEPT ![w] =
                      [n \in DOMAIN s |-> [id |-> s[n], retry_count |-> row[s[n]].retry_count]]]
    BY <1>1 DEF Returned
  <1>s. PICK s \in Bijection(1 .. k, taken) :
          batch' = [batch EXCEPT ![w] =
                      [n \in DOMAIN s |-> [id |-> s[n], retry_count |-> row[s[n]].retry_count]]]
    BY <1>2, Zenon
  <1> DEFINE b == [n \in DOMAIN s |-> [id |-> s[n], retry_count |-> row[s[n]].retry_count]]
  <1>3. s \in [1 .. k -> taken] /\ k \in Nat
    BY WebhookAssumption DEF Bijection, Injection
  <1>4. \A d \in Deliveries : row[d].retry_count \in 0 .. MAX_RETRIES /\ row[d].retry_count <= refused[d]
    BY WebhookFields, Zenon DEF WebhookInv
  <1>5. /\ b \in Seq(LeasedItem)
        /\ \A n \in 1 .. Len(b) : b[n].retry_count <= refused[b[n].id]
    <2>1. b \in [1 .. k -> LeasedItem] /\ DOMAIN b = 1 .. k
      BY <1>3, <1>4, Zenon DEF LeasedItem
    <2>2. b \in Seq(LeasedItem) /\ Len(b) = k
      <3> HIDE DEF b
      <3> QED BY <2>1, <1>3
    <2>3. \A n \in 1 .. k :
            b[n].retry_count = row[s[n]].retry_count /\ b[n].id = s[n] /\ s[n] \in Deliveries
      BY <1>3, Zenon
    <2> HIDE DEF b
    <2> QED BY <1>4, <2>2, <2>3, Zenon
  <1>6. ASSUME NEW d \in Deliveries
        PROVE  /\ row'[d] \in DeliveryRow
               /\ row'[d].status = row[d].status /\ row'[d].retry_count = row[d].retry_count
    BY <1>1, WebhookFields, RowsKept, Zenon
  <1>7. row' \in [Deliveries -> DeliveryRow]
    BY <1>1, <1>6, Zenon
  <1>8. SettledWithCause'
    BY <1>1, <1>6, Zenon DEF WebhookInv, SettledWithCause
  <1>9. stage[w] = "idle" /\ stage' = [stage EXCEPT ![w] = "idle"] /\ "idle" \in Stages
    BY <1>1, Zenon DEF WebhookInv, WebhookTypeOK, Stages
  <1>10. batch' = [batch EXCEPT ![w] = b]
    BY <1>s, Zenon
  <1>11. /\ acked' = acked /\ acked \subseteq Deliveries /\ refused' = refused
         /\ refused \in [Deliveries -> 0 .. AllAttempts]
         /\ \A d \in Deliveries : refused[d] <= refused[d]
         /\ crashes' \in 0 .. MaxCrashes
    BY <1>1, WebhookAssumption, SMTT(30) DEF WebhookInv, WebhookTypeOK, AllAttempts
  <1> HIDE DEF b
  <1> QED BY <1>4, <1>5, <1>6, <1>7, <1>8, <1>9, <1>10, <1>11, DispatcherMoves, Zenon

\* An attempt is counted when its answer arrives, and recorded from the count leased.
LEMMA AttemptKeepsDeliveries ==
    ASSUME WebhookInv, NEW w \in Dispatchers,
           send(w) \/ answer(w) \/ update_delivery_status(w) \/ CrashDispatcher(w)
    PROVE  WebhookInv'
  <1> DEFINE b == batch[w]
             it == Head(b)
             n == it.retry_count
  <1>1. /\ b \in Seq(LeasedItem)
        /\ b # << >> => it.id \in Deliveries /\ n \in 0 .. MAX_RETRIES /\ n \in Nat
        /\ \A m \in 1 .. Len(b) : b[m].id \in Deliveries
        /\ batch \in [Dispatchers -> Seq(LeasedItem)] /\ stage \in [Dispatchers -> Stages]
    BY WebhookFields, ItemFields, Zenon DEF WebhookInv, WebhookTypeOK
  <1>2. /\ acked \subseteq Deliveries
        /\ refused \in [Deliveries -> 0 .. AllAttempts]
        /\ \A d \in Deliveries : refused[d] <= refused[d] /\ refused[d] \in Nat
        /\ crashes \in 0 .. MaxCrashes
        /\ AllAttempts \in Nat
    BY WebhookFields, WebhookAssumption DEF WebhookInv, WebhookTypeOK, AllAttempts
  <1>3. /\ SettledWithCause
        /\ \A d \in Deliveries : row[d].retry_count <= refused[d] /\ row[d].retry_count \in Nat
        /\ \A m \in 1 .. Len(b) : b[m].retry_count <= refused[b[m].id]
        /\ \A m \in 1 .. Len(b) : b[m].retry_count \in Nat
        /\ stage[w] # "idle" => b # << >>
        /\ stage[w] = "acked" => it.id \in acked
        /\ stage[w] = "refused" => n < refused[it.id]
        /\ row \in [Deliveries -> DeliveryRow]
    BY <1>1, WebhookFields, ItemFields, Zenon DEF WebhookInv, WebhookTypeOK
  <1>4. b # << >> => n <= refused[it.id]
    <2>1. b # << >> => Head(b) = b[1] /\ 1 \in 1 .. Len(b)
      BY <1>1
    <2> QED BY <1>3, <2>1, Zenon
  <1>5. CASE send(w)
    <2>1. /\ batch' = [batch EXCEPT ![w] = b] /\ stage' = [stage EXCEPT ![w] = "sending"]
          /\ b # << >> /\ "sending" \in Stages /\ UNCHANGED <<row, acked, refused, crashes>>
      BY <1>1, <1>5, Zenon DEF send, Stages
    <2>2. SettledWithCause'
      BY <1>3, <2>1, Zenon DEF SettledWithCause
    <2> HIDE DEF b
    <2> QED BY <1>1, <1>2, <1>3, <2>1, <2>2, DispatcherMoves, Zenon
  <1>6. CASE answer(w) /\ stage' = [stage EXCEPT ![w] = "acked"] /\ acked' = acked \cup {it.id} /\ UNCHANGED refused
    <2>1. /\ batch' = [batch EXCEPT ![w] = b] /\ stage' = [stage EXCEPT ![w] = "acked"]
          /\ b # << >> /\ "acked" \in Stages /\ acked' = acked \cup {it.id}
          /\ UNCHANGED <<row, refused, crashes>>
      BY <1>1, <1>3, <1>6, Zenon DEF answer, Stages
    <2>2. SettledWithCause' /\ acked \subseteq acked' /\ acked' \subseteq Deliveries /\ it.id \in acked'
      BY <1>1, <1>2, <1>3, <2>1, Zenon DEF SettledWithCause
    <2> HIDE DEF b
    <2> QED BY <1>1, <1>2, <1>3, <2>1, <2>2, DispatcherMoves, Zenon
  <1>7. CASE /\ answer(w) /\ stage' = [stage EXCEPT ![w] = "refused"]
             /\ refused' = [refused EXCEPT ![it.id] = IF @ < AllAttempts THEN @ + 1 ELSE @]
             /\ UNCHANGED acked
    <2>1. /\ batch' = [batch EXCEPT ![w] = b] /\ stage' = [stage EXCEPT ![w] = "refused"]
          /\ b # << >> /\ "refused" \in Stages /\ UNCHANGED <<row, acked, crashes>>
      BY <1>1, <1>3, <1>7, Zenon DEF answer, Stages
    <2>2. /\ refused' \in [Deliveries -> 0 .. AllAttempts]
          /\ \A d \in Deliveries : refused[d] <= refused'[d] /\ refused'[d] \in Nat
          /\ \A d \in Deliveries : refused[d] = AllAttempts => refused'[d] = AllAttempts
      BY <1>1, <1>2, <1>7, <2>1
    <2>3. n < refused'[it.id]
      BY <1>1, <1>2, <1>4, <1>7, <2>1, WebhookAssumption DEF AllAttempts
    <2>4. SettledWithCause'
      BY <1>3, <2>1, <2>2, Zenon DEF SettledWithCause
    <2>5. \A d \in Deliveries : row'[d].retry_count <= refused'[d]
      BY <1>2, <1>3, <2>1, <2>2
    <2>6. ASSUME NEW m \in 1 .. Len(b) PROVE b[m].retry_count <= refused'[b[m].id]
      <3>1. PICK d \in Deliveries : d = b[m].id
        BY <1>1, Zenon
      <3>2. b[m].retry_count <= refused[d] /\ b[m].retry_count \in Nat
        BY <1>3, <3>1, Zenon
      <3> HIDE DEF b
      <3> QED BY <1>2, <2>2, <3>1, <3>2
    <2> HIDE DEF b, n
    <2> QED BY <1>1, <1>2, <1>3, <2>1, <2>2, <2>3, <2>4, <2>5, <2>6, DispatcherMoves, Zenon DEF n
  <1>8. CASE update_delivery_status(w)
    <2> DEFINE o == Outcome(stage[w] = "acked", n)
               t == Tail(b)
    <2>1. /\ row' = [row EXCEPT ![it.id] = o] /\ batch' = [batch EXCEPT ![w] = t]
          /\ stage' = [stage EXCEPT ![w] = "idle"] /\ stage[w] \in {"acked", "refused"}
          /\ UNCHANGED <<acked, refused, crashes>> /\ b # << >> /\ "idle" \in Stages
      BY <1>1, <1>3, <1>8, Zenon DEF update_delivery_status, Stages
    <2>2. /\ o \in DeliveryRow /\ o.retry_count <= refused[it.id]
          /\ o.status = "success" => it.id \in acked
          /\ o.status = "dead_letter" => refused[it.id] = AllAttempts
      <3>1. CASE stage[w] = "acked"
        BY <1>1, <1>2, <1>3, <1>4, <2>1, <3>1, WebhookAssumption
           DEF Outcome, DeliveryRow, Statuses, Settled
      <3>2. CASE stage[w] # "acked" /\ n >= MAX_RETRIES
        <4>1. o = [status |-> "dead_letter", retry_count |-> n, wait |-> 0, lease |-> 0]
          BY <3>2, Zenon DEF Outcome
        <4>2. n < refused[it.id] /\ n = MAX_RETRIES /\ refused[it.id] \in 0 .. MAX_RETRIES + 1
          BY <1>1, <1>2, <1>3, <2>1, <3>2, WebhookAssumption DEF AllAttempts
        <4> HIDE DEF o, n
        <4> QED BY <1>1, <2>1, <4>1, <4>2, WebhookAssumption
                DEF DeliveryRow, Statuses, Settled, AllAttempts
      <3>3. CASE stage[w] # "acked" /\ ~(n >= MAX_RETRIES)
        <4>1. o = [status |-> "failed", retry_count |-> n + 1, wait |-> Backoff[n + 1], lease |-> 0]
          BY <3>3, Zenon DEF Outcome
        <4>2. /\ n < refused[it.id] /\ refused[it.id] \in Nat
              /\ n + 1 \in 0 .. MAX_RETRIES /\ n + 1 \in 1 .. Len(Backoff)
          BY <1>1, <1>2, <1>3, <2>1, <3>3, WebhookAssumption
        <4>3. \A m \in 1 .. Len(Backoff) : Backoff[m] \in Nat
          BY WebhookAssumption
        <4>4. n \in Nat
          BY <1>1, <2>1, Zenon
        <4> HIDE DEF o, n
        <4> QED BY <4>1, <4>2, <4>3, <4>4, WebhookAssumption DEF DeliveryRow, Statuses
      <3> QED BY <3>1, <3>2, <3>3, Zenon
    <2>3. /\ t \in Seq(LeasedItem)
          /\ \A m \in 1 .. Len(t) : m + 1 \in 1 .. Len(b) /\ t[m] = b[m + 1]
      BY <1>1, <2>1
    <2>4. \A m \in 1 .. Len(t) : t[m].retry_count <= refused[t[m].id]
      BY <1>3, <2>3, Zenon
    <2> HIDE DEF o, t
    <2>5. /\ row' \in [Deliveries -> DeliveryRow]
          /\ \A d \in Deliveries : row'[d] = IF d = it.id THEN o ELSE row[d]
      BY <1>1, <1>3, <2>1, <2>2, Zenon
    <2>6. SettledWithCause' /\ \A d \in Deliveries : row'[d].retry_count <= refused[d]
      BY <1>3, <2>1, <2>2, <2>5, Zenon DEF SettledWithCause
    <2> QED BY <1>1, <1>2, <1>3, <2>1, <2>3, <2>4, <2>5, <2>6, DispatcherMoves, Zenon
  <1>9. CASE CrashDispatcher(w)
    <2>1. /\ batch' = [batch EXCEPT ![w] = << >>] /\ stage' = [stage EXCEPT ![w] = "idle"]
          /\ UNCHANGED <<row, acked, refused>> /\ "idle" \in Stages
          /\ << >> \in Seq(LeasedItem) /\ Len(<< >>) = 0
      BY <1>9 DEF CrashDispatcher, Stages
    <2>2. crashes' \in 0 .. MaxCrashes
      BY <1>2, <1>9, WebhookAssumption DEF CrashDispatcher
    <2>3. SettledWithCause'
      BY <1>3, <2>1, Zenon DEF SettledWithCause
    <2> DEFINE e == << >>
    <2>4. /\ e \in Seq(LeasedItem) /\ batch' = [batch EXCEPT ![w] = e]
          /\ \A m \in 1 .. Len(e) : e[m].retry_count <= refused[e[m].id]
      BY <2>1
    <2> HIDE DEF e
    <2> QED BY <1>1, <1>2, <1>3, <2>1, <2>2, <2>3, <2>4, DispatcherMoves, Zenon
  <1> QED BY <1>5, <1>6, <1>7, <1>8, <1>9, Zenon DEF answer

---------------------------------------------------------------------------
(* The chain indexer.                                                      *)

\* What a poll in progress stands for: the page is indexed up to `next`, what lies
\* before the page was indexed when the cursor was read, and a row waiting for its
\* deliveries was created by this poll.
PollSound(p) ==
    /\ p.at \in {"insert", "queue"} =>
         \A e \in Lifecycle : p.after < e /\ e < p.next => e \in indexed
    /\ p.at # "rest" /\ ~p.fresh =>
         \A e \in Lifecycle : origin < e /\ e <= p.after => e \in indexed
    /\ p.at = "queue" => p.next \in indexed /\ queuings[p.next] = 0

\* At most one poll waits to queue the deliveries of a row.
IndexerInv ==
    /\ IndexerTypeOK
    /\ NothingSkipped
    /\ QueuedAtMostOnce
    /\ \A i \in Indexers : PollSound(poll[i])
    /\ \A i, j \in Indexers :
         i # j /\ poll[i].at = "queue" /\ poll[j].at = "queue" => poll[i].next # poll[j].next

\* Events and cursor positions are numbers, and positions have no gaps.
LEMMA EventsAreNumbers ==
    /\ Events \subseteq Nat /\ Lifecycle \subseteq Nat
    /\ \A e \in Position : e \in Nat
    /\ \A e \in Position : \A d \in Nat : d <= e => d \in Position
    /\ NoCursor \notin Position /\ PageSize \in Nat
  <1>1. PICK n \in Nat : Events = 1 .. n
    BY IndexerAssumption, Zenon
  <1>2. Position = 0 .. n
    BY <1>1 DEF Position
  <1> QED BY <1>1, <1>2, IndexerAssumption

\* A poll's fields by its stage.
LEMMA PollKinds ==
    ASSUME NEW p \in Polls
    PROVE  /\ p.at \in {"rest", "fetch", "insert", "queue"}
           /\ p.at # "rest" => p.after \in Position /\ p.fresh \in BOOLEAN
           /\ p.at \in {"insert", "queue"} =>
                /\ p.next - 1 \in Position /\ p.next \in Nat /\ p.last \in Position
                /\ p = [at |-> p.at, next |-> p.next, last |-> p.last,
                        after |-> p.after, fresh |-> p.fresh]
  BY EventsAreNumbers DEF Polls

\* One poll moves on, while what is indexed and where indexing started only grow.
LEMMA PollMoves ==
    ASSUME IndexerInv, NEW i \in Indexers, NEW q \in Polls,
           poll' = [poll EXCEPT ![i] = q], head' = head,
           indexed \subseteq indexed', indexed' \subseteq Lifecycle,
           origin' \in Position, origin <= origin',
           queuings' \in [Events -> Nat], aborts' \in 0 .. MaxAborts,
           cursor' \in Position \cup {NoCursor},
           NothingSkipped', QueuedAtMostOnce', PollSound(q)',
           \A j \in Indexers : j # i /\ poll[j].at = "queue" =>
               /\ queuings'[poll[j].next] = 0
               /\ q.at = "queue" => q.next # poll[j].next
    PROVE  IndexerInv'
  <1>1. IndexerTypeOK'
    BY Zenon DEF IndexerInv, IndexerTypeOK
  <1>2. poll'[i] = q /\ \A j \in Indexers : j # i => poll'[j] = poll[j]
    BY Zenon DEF IndexerInv, IndexerTypeOK
  <1>3. ASSUME NEW j \in Indexers, j # i PROVE PollSound(poll[j])'
    <2> DEFINE p == poll[j]
    <2>1. PollSound(p) /\ p \in Polls /\ poll'[j] = p
      BY <1>2, <1>3, Zenon DEF IndexerInv, IndexerTypeOK
    <2>2. p.at = "queue" => p.next \in indexed' /\ queuings'[p.next] = 0
      BY <1>3, <2>1, Zenon DEF PollSound
    <2>3. p.at # "rest" /\ ~p.fresh =>
            \A e \in Lifecycle : origin' < e /\ e <= p.after => e \in indexed'
      <3>1. origin \in Nat /\ origin' \in Nat /\ Lifecycle \subseteq Nat
        BY EventsAreNumbers, Zenon DEF IndexerInv, IndexerTypeOK
      <3> QED BY <2>1, <3>1 DEF PollSound
    <2>4. p.at \in {"insert", "queue"} =>
            \A e \in Lifecycle : p.after < e /\ e < p.next => e \in indexed'
      BY <2>1, Zenon DEF PollSound
    <2> QED BY <2>1, <2>2, <2>3, <2>4, Zenon DEF PollSound
  <1>4. \A j \in Indexers : PollSound(poll[j])'
    BY <1>2, <1>3, Zenon DEF PollSound
  <1>5. \A k, j \in Indexers :
          k # j /\ poll'[k].at = "queue" /\ poll'[j].at = "queue" => poll'[k].next # poll'[j].next
    BY <1>2 DEF IndexerInv
  <1> QED BY <1>1, <1>4, <1>5, Zenon DEF IndexerInv

\* The invariant holds before the first poll.
LEMMA IndexerInitInv == IndexerInit => IndexerInv
  <1> SUFFICES ASSUME IndexerInit PROVE IndexerInv
    BY Zenon
  <1>1. \A i \in Indexers : poll[i] = Resting /\ poll[i].at = "rest"
    BY Zenon DEF IndexerInit, Resting
  <1>2. Resting \in Polls /\ 0 \in Position
    BY Zenon DEF Resting, Polls, Position
  <1>3. IndexerTypeOK
    BY <1>2, IndexerAssumption DEF IndexerInit, IndexerTypeOK
  <1>4. NothingSkipped /\ QueuedAtMostOnce
    BY DEF IndexerInit, NothingSkipped, QueuedAtMostOnce
  <1> QED BY <1>1, <1>3, <1>4, Zenon DEF IndexerInv, PollSound

\* The facts every step of a poll starts from.
LEMMA PollFacts ==
    ASSUME IndexerInv, NEW i \in Indexers
    PROVE  /\ poll[i] \in Polls /\ PollSound(poll[i])
           /\ indexed \subseteq Lifecycle /\ origin \in Position /\ origin \in Nat
           /\ origin <= origin /\ queuings \in [Events -> Nat] /\ aborts \in 0 .. MaxAborts
           /\ cursor \in Position \cup {NoCursor} /\ head \in Position
           /\ NothingSkipped /\ QueuedAtMostOnce
           /\ \A j \in Indexers : poll[j].at = "queue" =>
                /\ queuings[poll[j].next] = 0 /\ poll[j].next \in indexed
                /\ j # i /\ poll[i].at = "queue" => poll[i].next # poll[j].next
  BY EventsAreNumbers DEF IndexerInv, IndexerTypeOK, PollSound

\* Beginning, fetching, skipping and aborting write no row: only the poll moves.
LEMMA ReadingKeepsIndex ==
    ASSUME IndexerInv, NEW i \in Indexers,
           \/ poll_indexer_once(i) \/ fetch_contract_events(i) \/ skip_unknown(i)
           \/ queue_failed(i) \/ AbortPoll(i)
    PROVE  IndexerInv'
  <1> DEFINE p == poll[i]
  <1>1. /\ p \in Polls /\ PollSound(p)
        /\ NothingSkipped /\ QueuedAtMostOnce
        /\ UNCHANGED <<head, cursor, indexed, origin, queuings>>
    BY PollFacts, Zenon DEF poll_indexer_once, fetch_contract_events, skip_unknown, queue_failed, AbortPoll
  <1>2. NothingSkipped' /\ QueuedAtMostOnce' /\ aborts' \in 0 .. MaxAborts
    <2>1. aborts' \in 0 .. MaxAborts
      BY PollFacts, IndexerAssumption
         DEF poll_indexer_once, fetch_contract_events, skip_unknown, queue_failed, AbortPoll
    <2> QED BY <1>1, <2>1, Zenon DEF NothingSkipped, QueuedAtMostOnce
  <1>3. ASSUME NEW q \in Polls, poll' = [poll EXCEPT ![i] = q], PollSound(q), q.at # "queue"
        PROVE  IndexerInv'
    <2>1. PollSound(q)'
      BY <1>1, <1>3, Zenon DEF PollSound
    <2>2. \A j \in Indexers : poll[j].at = "queue" => queuings'[poll[j].next] = 0
      BY <1>1, PollFacts, Zenon
    <2>3. /\ indexed' \subseteq Lifecycle /\ indexed \subseteq indexed'
          /\ origin' \in Position /\ origin <= origin'
          /\ queuings' \in [Events -> Nat] /\ cursor' \in Position \cup {NoCursor} /\ head' = head
      BY <1>1, PollFacts, Zenon
    <2> QED BY <1>2, <1>3, <2>1, <2>2, <2>3, PollMoves, Zenon
  <1>4. CASE AbortPoll(i)
    <2>1. Resting \in Polls /\ PollSound(Resting) /\ Resting.at # "queue"
      BY Zenon DEF Resting, Polls, PollSound
    <2> QED BY <1>3, <1>4, <2>1, Zenon DEF AbortPoll
  <1>5. CASE poll_indexer_once(i)
    <2>1. PICK after \in IF cursor = NoCursor THEN {head, head - 1} \cap Position ELSE {cursor} :
            poll' = [poll EXCEPT ![i] = [at |-> "fetch", after |-> after, fresh |-> cursor = NoCursor]]
      BY <1>5, Zenon DEF poll_indexer_once
    <2> DEFINE q == [at |-> "fetch", after |-> after, fresh |-> cursor = NoCursor]
    <2>2. after \in Position /\ (cursor # NoCursor => after = cursor)
      BY PollFacts, Zenon
    <2>3. (cursor = NoCursor) \in BOOLEAN
      BY Zenon
    <2>4. q \in Polls /\ q.at = "fetch" /\ q.after = after /\ q.fresh = (cursor = NoCursor)
      BY <2>2, <2>3, Zenon DEF Polls
    <2> HIDE DEF q
    <2>5. PollSound(q)
      BY <1>1, <2>2, <2>4, Zenon DEF PollSound, NothingSkipped
    <2> QED BY <1>3, <2>1, <2>4, <2>5, Zenon DEF q
  <1>6. CASE fetch_contract_events(i)
    <2> DEFINE last == IF p.after + PageSize < head THEN p.after + PageSize ELSE head
               q == [at |-> "insert", next |-> p.after + 1, last |-> last,
                     after |-> p.after, fresh |-> p.fresh]
    <2>1. poll' = [poll EXCEPT ![i] = q] /\ p.at = "fetch"
      BY <1>6, Zenon DEF fetch_contract_events
    <2>2. p.after \in Position /\ p.fresh \in BOOLEAN
      BY <1>1, <2>1, PollKinds, Zenon
    <2>3. last \in Position /\ p.after + 1 \in {e + 1 : e \in Position}
      BY <2>2, PollFacts, EventsAreNumbers, SMTT(30)
    <2> HIDE DEF last
    <2>4. /\ q \in Polls /\ q.at = "insert" /\ q.after = p.after /\ q.fresh = p.fresh
          /\ q.next = p.after + 1
      BY <2>2, <2>3, Zenon DEF Polls
    <2> HIDE DEF q
    <2>5. \A e \in Lifecycle : ~(p.after < e /\ e < p.after + 1)
      <3>1. PICK c \in Nat : c = p.after
        BY <2>2, EventsAreNumbers, Zenon
      <3>2. \A e \in Nat : ~(c < e /\ e < c + 1)
        BY SMTT(30)
      <3> QED BY <3>1, <3>2, EventsAreNumbers, Zenon
    <2>6. PollSound(q)
      BY <1>1, <2>1, <2>4, <2>5, Zenon DEF PollSound
    <2> QED BY <1>3, <2>1, <2>4, <2>6, Zenon
  <1>7. CASE skip_unknown(i) \/ queue_failed(i)
    <2>1. /\ p.at \in {"insert", "queue"}
          /\ skip_unknown(i) => p.at = "insert" /\ p.next <= p.last /\ p.next \notin Lifecycle
          /\ queue_failed(i) => p.at = "queue" /\ p.next \in indexed
      BY <1>1, <1>7, Zenon DEF skip_unknown, queue_failed, PollSound
    <2>2. /\ p.next - 1 \in Position /\ p.next \in Nat /\ p.last \in Position
          /\ p.after \in Position /\ p.fresh \in BOOLEAN
          /\ p = [at |-> p.at, next |-> p.next, last |-> p.last, after |-> p.after, fresh |-> p.fresh]
      BY <1>1, <2>1, PollKinds, Zenon
    <2> DEFINE q == Advanced(p)
    <2>3. poll' = [poll EXCEPT ![i] = q]
      BY <1>7, Zenon DEF skip_unknown, queue_failed
    <2>4. p.next \in Position
      BY <1>7, <2>1, <2>2, PollFacts, EventsAreNumbers, IndexerAssumption, ZenonT(30) DEF Position
    <2>5. /\ q \in Polls /\ q.at = "insert" /\ q.after = p.after /\ q.fresh = p.fresh
          /\ q.next = p.next + 1
      BY <2>2, <2>4, Zenon DEF Polls, Advanced
    <2> HIDE DEF q
    <2>6. \A e \in Lifecycle : e < p.next + 1 => e < p.next \/ e = p.next
      BY <2>2, EventsAreNumbers, SMTT(30)
    <2>7. PollSound(q)
      BY <1>1, <1>7, <2>1, <2>5, <2>6, Zenon DEF PollSound
    <2> QED BY <1>3, <2>3, <2>5, <2>7, Zenon
  <1> QED BY <1>4, <1>5, <1>6, <1>7, Zenon

\* The insert creates a row nobody queued for yet, or moves past one that is there.
LEMMA InsertKeepsIndex ==
    ASSUME IndexerInv, NEW i \in Indexers, insert_indexed_proof_event(i)
    PROVE  IndexerInv'
  <1>0. PICK p : p = poll[i]
    BY Zenon
  <1>1. /\ p \in Polls /\ PollSound(p) /\ NothingSkipped /\ QueuedAtMostOnce
        /\ p.at = "insert" /\ p.next <= p.last /\ p.next \in Lifecycle
        /\ UNCHANGED <<head, cursor, origin, queuings, aborts>>
        /\ indexed' = indexed \cup {p.next}
    BY <1>0, PollFacts, Zenon DEF insert_indexed_proof_event
  <1>2. /\ p.next - 1 \in Position /\ p.next \in Nat /\ p.last \in Position
        /\ p.after \in Position /\ p.fresh \in BOOLEAN /\ p.next \in Events
        /\ p = [at |-> "insert", next |-> p.next, last |-> p.last, after |-> p.after, fresh |-> p.fresh]
    BY <1>1, PollKinds, IndexerAssumption, Zenon
  <1>q. PICK q : q = IF p.next \in indexed
                     THEN Advanced(p)
                     ELSE [at |-> "queue", next |-> p.next, last |-> p.last,
                           after |-> p.after, fresh |-> p.fresh]
    BY Zenon
  <1>3. poll' = [poll EXCEPT ![i] = q]
    <2>1. [p EXCEPT !.at = "queue"] = [at |-> "queue", next |-> p.next, last |-> p.last,
                                       after |-> p.after, fresh |-> p.fresh]
      BY <1>2
    <2>2. poll' = [poll EXCEPT ![i] = IF p.next \in indexed THEN Advanced(p)
                                                           ELSE [p EXCEPT !.at = "queue"]]
      BY <1>0, Zenon DEF insert_indexed_proof_event
    <2> QED BY <1>q, <2>1, <2>2, Zenon
  <1>4. p.next + 1 \in {e + 1 : e \in Position}
    BY <1>1, <1>2, EventsAreNumbers, IndexerAssumption, Zenon
  <1>5. /\ q \in Polls /\ q.after = p.after /\ q.fresh = p.fresh
        /\ p.next \in indexed => q.at = "insert" /\ q.next = p.next + 1
        /\ p.next \notin indexed => q.at = "queue" /\ q.next = p.next
    BY <1>2, <1>4, <1>q DEF Polls, Advanced
  <1>6. p.next \notin indexed => queuings[p.next] = 0
    BY <1>1, <1>2, PollFacts DEF QueuedAtMostOnce
  <1>7. NothingSkipped' /\ QueuedAtMostOnce'
    BY <1>1, Zenon DEF NothingSkipped, QueuedAtMostOnce
  <1>8. \A e \in Lifecycle : e < p.next + 1 => e < p.next \/ e = p.next
    BY <1>2, EventsAreNumbers
  <1>9. PollSound(q)'
    <2>1. CASE p.next \in indexed
      BY <1>1, <1>5, <1>8, <2>1, Zenon DEF PollSound
    <2>2. CASE p.next \notin indexed
      BY <1>1, <1>5, <1>6, <2>2, Zenon DEF PollSound
    <2> QED BY <2>1, <2>2, Zenon
  <1>10. \A j \in Indexers : j # i /\ poll[j].at = "queue" =>
           queuings'[poll[j].next] = 0 /\ (q.at = "queue" => q.next # poll[j].next)
    BY <1>1, <1>5, PollFacts, Zenon
  <1>11. /\ indexed \subseteq indexed' /\ indexed' \subseteq Lifecycle
         /\ origin' \in Position /\ origin <= origin'
         /\ queuings' \in [Events -> Nat] /\ aborts' \in 0 .. MaxAborts
         /\ cursor' \in Position \cup {NoCursor} /\ head' = head
    BY <1>1, PollFacts, Zenon
  <1> QED BY <1>3, <1>5, <1>7, <1>9, <1>10, <1>11, PollMoves, Zenon

\* The deliveries of a created row are queued by the one poll that created it.
LEMMA QueueingKeepsIndex ==
    ASSUME IndexerInv, NEW i \in Indexers, queue_new(i)
    PROVE  IndexerInv'
  <1>0. PICK p : p = poll[i]
    BY Zenon
  <1>1. /\ p \in Polls /\ PollSound(p) /\ NothingSkipped /\ QueuedAtMostOnce /\ p.at = "queue"
        /\ queuings' = [queuings EXCEPT ![p.next] = @ + 1]
        /\ UNCHANGED <<head, cursor, origin, indexed, aborts>>
    BY <1>0, PollFacts, Zenon DEF queue_new
  <1>2. /\ p.next \in indexed /\ queuings[p.next] = 0 /\ p.next \in Events
        /\ p.last \in Position /\ p.after \in Position /\ p.fresh \in BOOLEAN
        /\ p = [at |-> "queue", next |-> p.next, last |-> p.last, after |-> p.after, fresh |-> p.fresh]
    BY <1>1, PollKinds, PollFacts, IndexerAssumption, Zenon DEF PollSound
  <1>q. PICK q : q = Advanced(p)
    BY Zenon
  <1>3. poll' = [poll EXCEPT ![i] = q]
    BY <1>0, <1>q, Zenon DEF queue_new
  <1>4. p.next \in Nat /\ p.next \in Position
    BY <1>2, EventsAreNumbers, Zenon DEF Position
  <1>5. /\ q \in Polls /\ q.after = p.after /\ q.fresh = p.fresh
        /\ q.at = "insert" /\ q.next = p.next + 1
    BY <1>2, <1>4, <1>q, Zenon DEF Polls, Advanced
  <1>6. queuings' \in [Events -> Nat]
        /\ \A e \in Events : queuings'[e] = IF e = p.next THEN 1 ELSE queuings[e]
    BY <1>1, <1>2, PollFacts
  <1>7. NothingSkipped' /\ QueuedAtMostOnce'
    BY <1>1, <1>2, <1>6 DEF NothingSkipped, QueuedAtMostOnce
  <1>8. \A e \in Lifecycle : e < p.next + 1 => e < p.next \/ e = p.next
    BY <1>4, EventsAreNumbers
  <1>9. PollSound(q)'
    BY <1>1, <1>2, <1>5, <1>8, Zenon DEF PollSound
  <1>10. \A j \in Indexers : j # i /\ poll[j].at = "queue" => queuings'[poll[j].next] = 0
    BY <1>0, <1>1, <1>6, PollFacts, IndexerAssumption, Zenon
  <1>11. /\ indexed \subseteq indexed' /\ indexed' \subseteq Lifecycle
         /\ origin' \in Position /\ origin <= origin' /\ aborts' \in 0 .. MaxAborts
         /\ cursor' \in Position \cup {NoCursor} /\ head' = head
    BY <1>1, PollFacts, Zenon
  <1> QED BY <1>3, <1>5, <1>6, <1>7, <1>9, <1>10, <1>11, PollMoves, Zenon

\* The saved cursor covers a page that is indexed, and what lies before it.
LEMMA SavingKeepsIndex ==
    ASSUME IndexerInv, NEW i \in Indexers, save_indexer_cursor(i)
    PROVE  IndexerInv'
  <1>0. PICK p : p = poll[i]
    BY Zenon
  <1>1. /\ p \in Polls /\ PollSound(p) /\ NothingSkipped /\ QueuedAtMostOnce
        /\ p.at = "insert" /\ p.next > p.last
        /\ cursor' = IF p.fresh \/ p.last # p.after THEN p.last ELSE cursor
        /\ origin' = IF p.fresh /\ p.after > origin THEN p.after ELSE origin
        /\ poll' = [poll EXCEPT ![i] = Resting]
        /\ UNCHANGED <<head, indexed, queuings, aborts>>
    BY <1>0, PollFacts, Zenon DEF save_indexer_cursor
  <1>2. /\ p.next \in Nat /\ p.last \in Position /\ p.after \in Position /\ p.last \in Nat
        /\ p.after \in Nat /\ origin \in Nat /\ Lifecycle \subseteq Nat
    BY <1>1, PollKinds, PollFacts, EventsAreNumbers, Zenon
  <1>3. origin' \in Position /\ origin' \in Nat /\ origin <= origin' /\ (p.fresh => p.after <= origin')
    BY <1>1, <1>2, PollFacts
  <1>4. ASSUME NEW e \in Lifecycle, origin' < e, e <= p.last PROVE e \in indexed
    <2>1. CASE p.after < e
      BY <1>1, <1>2, <1>4, <2>1 DEF PollSound
    <2>2. CASE e <= p.after
      BY <1>1, <1>2, <1>3, <1>4, <2>2 DEF PollSound
    <2> QED BY <1>2, <2>1, <2>2
  <1>5. NothingSkipped'
    <2>1. CASE cursor' = p.last
      BY <1>1, <1>4, <2>1, Zenon DEF NothingSkipped
    <2>2. CASE cursor' = cursor
      <3>1. ASSUME NEW e \in Lifecycle, cursor # NoCursor, origin' < e, e <= cursor PROVE e \in indexed
        BY <1>1, <1>2, <1>3, <3>1, SMTT(30) DEF NothingSkipped
      <3> QED BY <1>1, <2>2, <3>1, Zenon DEF NothingSkipped
    <2> QED BY <1>1, <2>1, <2>2, Zenon
  <1>6. QueuedAtMostOnce' /\ Resting \in Polls /\ PollSound(Resting)' /\ Resting.at = "rest"
    BY <1>1, Zenon DEF QueuedAtMostOnce, Resting, Polls, PollSound
  <1>7. \A j \in Indexers : poll[j].at = "queue" => queuings'[poll[j].next] = 0
    BY <1>1, PollFacts, Zenon
  <1>8. /\ indexed \subseteq indexed' /\ indexed' \subseteq Lifecycle
        /\ queuings' \in [Events -> Nat] /\ aborts' \in 0 .. MaxAborts
        /\ cursor' \in Position \cup {NoCursor} /\ head' = head
    BY <1>1, <1>2, PollFacts, Zenon
  <1> QED BY <1>1, <1>3, <1>5, <1>6, <1>7, <1>8, PollMoves, Zenon

\* The chain grows.
LEMMA EmitKeepsIndex == ASSUME IndexerInv, Emit PROVE IndexerInv'
  <1>1. UNCHANGED <<cursor, indexed, poll, origin, queuings, aborts>> /\ head' \in Position
    BY Zenon DEF Emit, Position
  <1>2. IndexerTypeOK' /\ NothingSkipped' /\ QueuedAtMostOnce'
    BY <1>1, Zenon DEF IndexerInv, IndexerTypeOK, NothingSkipped, QueuedAtMostOnce
  <1>3. \A i \in Indexers : PollSound(poll[i])'
    BY <1>1, Zenon DEF IndexerInv, PollSound
  <1> QED BY <1>1, <1>2, <1>3, Zenon DEF IndexerInv

\* chain_indexer.py and webhook.py together.  The indexers, which share one cursor and
\* whose polls end anywhere, leave no lifecycle event behind the cursor without its row
\* and queue its deliveries at most once; and a delivery is marked success only when
\* its receiver acknowledged it, and given up only after all its attempts were refused,
\* also when dispatchers die or record attempts under leases that ran out.
THEOREM QueuedAndSettledSoundly ==
    IndexerSpec => [](IndexerTypeOK /\ IndexedOnce /\ WebhookTypeOK /\ SettledWithCause)
  <1>1. IndexerInit /\ WebhookInit({}) => IndexerInv /\ WebhookInv
    BY IndexerInitInv, WebhookInitInv, Zenon
  <1>2. ASSUME IndexerInv, WebhookInv, IndexerNext PROVE IndexerInv' /\ WebhookInv'
    <2>1. CASE Emit
      BY <1>2, <2>1, EmitKeepsIndex, Zenon DEF Emit, webhookVars, WebhookInv, WebhookTypeOK, SettledWithCause
    <2>2. ASSUME NEW i \in Indexers, Index(i) \/ queue_failed(i) \/ AbortPoll(i)
          PROVE  IndexerInv' /\ WebhookInv'
      <3>1. IndexerInv'
        BY <1>2, <2>2, ReadingKeepsIndex, InsertKeepsIndex, QueueingKeepsIndex, SavingKeepsIndex, Zenon DEF Index
      <3>2. CASE queue_new(i)
        BY <1>2, <3>1, <3>2, QueueKeepsDeliveries, Zenon DEF queue_new
      <3>3. CASE UNCHANGED webhookVars
        BY <1>2, <3>1, <3>3, Zenon DEF webhookVars, WebhookInv, WebhookTypeOK, SettledWithCause
      <3>4. queue_new(i) \/ UNCHANGED webhookVars
        BY <2>2, Zenon DEF Index, poll_indexer_once, fetch_contract_events, insert_indexed_proof_event,
                    skip_unknown, save_indexer_cursor, queue_failed, AbortPoll
      <3> QED BY <3>2, <3>3, <3>4, Zenon
    <2> QED BY <1>2, <2>1, <2>2, Zenon DEF IndexerNext
  <1>3. ASSUME IndexerInv, UNCHANGED indexerVars PROVE IndexerInv'
    <2>1. IndexerTypeOK' /\ NothingSkipped' /\ QueuedAtMostOnce' /\ poll' = poll
      BY <1>3, Zenon DEF indexerVars, IndexerInv, IndexerTypeOK, NothingSkipped, QueuedAtMostOnce
    <2>2. \A i \in Indexers : PollSound(poll[i])'
      BY <1>3, Zenon DEF indexerVars, IndexerInv, PollSound
    <2> QED BY <1>3, <2>1, <2>2, Zenon DEF IndexerInv
  <1>4. ASSUME WebhookInv, WebhookNext \/ UNCHANGED webhookVars PROVE WebhookInv'
    <2>1. CASE UNCHANGED webhookVars
      BY <1>4, <2>1, Zenon DEF webhookVars, WebhookInv, WebhookTypeOK, SettledWithCause
    <2>2. CASE WebhookNext
      BY <1>4, <2>2, LeaseKeepsDeliveries, AttemptKeepsDeliveries, TickKeepsDeliveries, Zenon
         DEF WebhookNext, Dispatch
    <2> QED BY <1>4, <2>1, <2>2, Zenon
  <1>5. /\ IndexerInv /\ WebhookInv
        /\ [IndexerNext \/ (WebhookNext /\ UNCHANGED indexerVars)]_<<indexerVars, webhookVars>>
        => IndexerInv' /\ WebhookInv'
    BY <1>2, <1>3, <1>4, Zenon
  <1>6. IndexerInv /\ WebhookInv => IndexerTypeOK /\ IndexedOnce /\ WebhookTypeOK /\ SettledWithCause
    BY Zenon DEF IndexerInv, WebhookInv, IndexedOnce
  <1> QED BY <1>1, <1>5, <1>6, PTL DEF IndexerSpec

\* What a subscriber relies on, whatever the dispatchers do: a lifecycle event behind the
\* saved cursor of chain_indexer.py has its row, and its deliveries were queued once.
THEOREM EventsAreIndexedOnce == IndexerSpec => []IndexedOnce
  BY QueuedAndSettledSoundly, PTL

---------------------------------------------------------------------------
(* Embed and extract requests.                                             *)

MediaPhases == {"arrived", "validated", "isolated", "open", "processed", "hashed", "recorded",
                "ended", "dead"}

MediaTypeOK ==
    /\ video \in UploadsTried /\ phase \in MediaPhases
    /\ quarantined \in BOOLEAN /\ wkey \in BOOLEAN /\ recorded \in BOOLEAN

\* What is on disk and in memory in each phase.
LeftBehind ==
    /\ phase \in {"arrived", "validated", "isolated", "hashed", "recorded", "ended"} =>
          workspace = {} /\ ~wkey
    /\ phase \in {"arrived", "validated", "hashed", "recorded", "ended"} => ~quarantined
    /\ phase = "dead" => ~wkey

\* What has been checked by then.
CheckedFirst == phase \notin {"arrived", "ended", "dead"} \/ recorded => sniff_media_type_stream(video)

\* What a success rests on.
SuccessIsRecorded == (phase = "recorded" => recorded) /\ (replied = 200 => recorded)

MediaInv == MediaTypeOK /\ LeftBehind /\ CheckedFirst /\ SuccessIsRecorded

\* The scan of the saved file repeats that of the stream, unless the cap of the normalized
\* name cut the extension short.
LEMMA SecondScanAgrees ==
    ASSUME NEW u \in UploadsTried, sniff_media_type_stream(u), ~Truncated(u)
    PROVE  verify_consistency(u)
  <1>1. u.stem \in Nat
    BY MediaAssumption DEF UploadsTried
  <1>2. CASE u.stem = 0
    BY <1>2, Zenon DEF sniff_media_type_stream, verify_consistency, normalize_filename, NoName
  <1>3. CASE u.stem # 0
    <2>1. u.ext = "none" \/ NameCap - u.stem >= ExtLen
      BY <1>1, <1>3, MediaAssumption DEF Truncated
    <2>2. normalize_filename(u) = [stem |-> u.stem, ext |-> u.ext]
      BY <1>3, <2>1, Zenon DEF normalize_filename
    <2>3. normalize_filename(u) # NoName /\ normalize_filename(u).ext = u.ext
      BY <1>3, <2>2 DEF NoName
    <2> QED BY <2>3, Zenon DEF sniff_media_type_stream, verify_consistency
  <1> QED BY <1>2, <1>3, Zenon

\* Each phase leaves to the next what it has to.
LEMMA MediaStep ==
    ASSUME MediaInv, [MediaNext]_mediaVars
    PROVE  MediaInv'
  <1>0. UNCHANGED video
    BY ZenonT(30) DEF MediaNext, ValidateUpload, isolate_upload, OpenWorkspace, RunFfmpeg, __exit__,
           RecordEvent, NotifyHooks, ProcessDies, Enter, Abort, ReplyWith, mediaVars
  <1>s. sniff_media_type_stream(video)' <=> sniff_media_type_stream(video)
    BY <1>0, Zenon DEF sniff_media_type_stream, HeaderAgrees, _detect_format_family
  <1> USE DEF MediaInv, MediaTypeOK
  <1>1. CASE ValidateUpload
    <2> USE <1>1 DEF ValidateUpload, validate_video_upload, Enter, Abort
    <2>1. MediaTypeOK'
      BY <1>0, Zenon DEF MediaPhases
    <2>2. LeftBehind'
      BY Zenon DEF LeftBehind
    <2>3. CheckedFirst'
      BY <1>s, Zenon DEF CheckedFirst
    <2>4. SuccessIsRecorded'
      BY DEF SuccessIsRecorded
    <2> QED BY <2>1, <2>2, <2>3, <2>4, Zenon
  <1>2. CASE isolate_upload
    <2> USE <1>2 DEF isolate_upload, Enter, Abort
    <2>1. MediaTypeOK'
      BY <1>0, Zenon DEF MediaPhases
    <2>2. LeftBehind'
      BY Zenon DEF LeftBehind
    <2>3. CheckedFirst'
      BY <1>s, Zenon DEF CheckedFirst
    <2>4. SuccessIsRecorded'
      BY DEF SuccessIsRecorded
    <2> QED BY <2>1, <2>2, <2>3, <2>4, Zenon
  <1>3. CASE OpenWorkspace
    <2> USE <1>3 DEF OpenWorkspace, Enter, Abort
    <2>1. MediaTypeOK'
      BY <1>0, Zenon DEF MediaPhases
    <2>2. LeftBehind'
      BY Zenon DEF LeftBehind
    <2>3. CheckedFirst'
      BY <1>s, Zenon DEF CheckedFirst
    <2>4. SuccessIsRecorded'
      BY DEF SuccessIsRecorded
    <2> QED BY <2>1, <2>2, <2>3, <2>4, Zenon
  <1>4. CASE RunFfmpeg
    <2> USE <1>4 DEF RunFfmpeg, Enter, Abort
    <2>1. MediaTypeOK'
      BY <1>0, Zenon DEF MediaPhases
    <2>2. LeftBehind'
      BY Zenon DEF LeftBehind
    <2>3. CheckedFirst'
      BY <1>s, Zenon DEF CheckedFirst
    <2>4. SuccessIsRecorded'
      BY DEF SuccessIsRecorded
    <2> QED BY <2>1, <2>2, <2>3, <2>4, Zenon
  <1>5. CASE __exit__
    <2> USE <1>5 DEF __exit__
    <2>1. MediaTypeOK'
      BY <1>0, Zenon DEF MediaPhases
    <2>2. LeftBehind'
      BY Zenon DEF LeftBehind
    <2>3. CheckedFirst'
      BY <1>s, Zenon DEF CheckedFirst
    <2>4. SuccessIsRecorded'
      BY Zenon DEF SuccessIsRecorded
    <2> QED BY <2>1, <2>2, <2>3, <2>4, Zenon
  <1>6. CASE RecordEvent
    <2> USE <1>6 DEF RecordEvent, ReplyWith
    <2>1. MediaTypeOK'
      BY <1>0, ZenonT(30) DEF MediaPhases
    <2>2. LeftBehind'
      BY DEF LeftBehind
    <2>3. CheckedFirst'
      BY <1>s, Zenon DEF CheckedFirst
    <2>4. SuccessIsRecorded'
      BY DEF SuccessIsRecorded
    <2> QED BY <2>1, <2>2, <2>3, <2>4, Zenon
  <1>7. CASE NotifyHooks
    <2> USE <1>7 DEF NotifyHooks, ReplyWith
    <2>1. MediaTypeOK'
      BY <1>0, Zenon DEF MediaPhases
    <2>2. LeftBehind'
      BY DEF LeftBehind
    <2>3. CheckedFirst'
      BY <1>s, Zenon DEF CheckedFirst
    <2>4. SuccessIsRecorded'
      BY DEF SuccessIsRecorded
    <2> QED BY <2>1, <2>2, <2>3, <2>4, Zenon
  <1>8. CASE ProcessDies
    <2> USE <1>8 DEF ProcessDies
    <2>1. MediaTypeOK'
      BY <1>0, Zenon DEF MediaPhases
    <2>2. LeftBehind'
      BY Zenon DEF LeftBehind
    <2>3. CheckedFirst'
      BY <1>s, Zenon DEF CheckedFirst
    <2>4. SuccessIsRecorded'
      BY Zenon DEF SuccessIsRecorded
    <2> QED BY <2>1, <2>2, <2>3, <2>4, Zenon
  <1>9. CASE UNCHANGED mediaVars
    BY <1>9, <1>s, Zenon DEF mediaVars, LeftBehind, CheckedFirst, SuccessIsRecorded
  <1> QED BY <1>1, <1>2, <1>3, <1>4, <1>5, <1>6, <1>7, <1>8, <1>9, Zenon DEF MediaNext

\* An embed or extract request (app.py, quarantine.py, workspace.py), for any families,
\* name cap and upload: whichever step fails, an answered request leaves no copy, no
\* file and no key, and an event is recorded only for an upload whose bytes, type and
\* name agree.
THEOREM RequestsLeaveNothing == MediaSpec => []RequestLeavesNothing
  <1>1. MediaInit(UploadsTried) => MediaInv
    <2> SUFFICES ASSUME MediaInit(UploadsTried) PROVE MediaInv
      BY Zenon
    <2>1. MediaTypeOK
      BY Zenon DEF MediaInit, MediaTypeOK, MediaPhases
    <2>2. LeftBehind /\ CheckedFirst
      BY Zenon DEF MediaInit, LeftBehind, CheckedFirst
    <2>3. SuccessIsRecorded
      BY DEF MediaInit, SuccessIsRecorded
    <2> QED BY <2>1, <2>2, <2>3, Zenon DEF MediaInv
  <1>2. MediaInv /\ [MediaNext]_mediaVars => MediaInv'
    BY MediaStep, Zenon
  <1>3. MediaInv => RequestLeavesNothing
    <2> SUFFICES ASSUME MediaInv PROVE RequestLeavesNothing
      BY Zenon
    <2>1. recorded => /\ video.header \in Families
                      /\ video.ext \in {"none", video.header}
                      /\ video.mime \in {"none", "octet-stream", video.header}
      BY Zenon DEF MediaInv, CheckedFirst, sniff_media_type_stream, HeaderAgrees, _detect_format_family
    <2>2. phase = "validated" /\ ~Truncated(video) => verify_consistency(video)
      BY SecondScanAgrees, Zenon DEF MediaInv, MediaTypeOK, CheckedFirst
    <2>3. /\ phase = "ended" => ~quarantined /\ workspace = {} /\ ~wkey
          /\ phase = "dead" => ~wkey
          /\ wkey => phase \in {"open", "processed"}
          /\ replied = 200 => recorded
      BY Zenon DEF MediaInv, MediaTypeOK, MediaPhases, LeftBehind, SuccessIsRecorded
    <2> QED BY <2>1, <2>2, <2>3, Zenon DEF RequestLeavesNothing
  <1> QED BY <1>1, <1>2, <1>3, PTL DEF MediaSpec

---------------------------------------------------------------------------
(* The issuer key directory.                                               *)

SignedHead == [head : Seq(Event), count : Nat, manifest : Nat, time : Nat]

DirectoryTypeOK ==
    /\ log \in [Views -> Seq(Event)] /\ manifest \in [Views -> Nat]
    /\ keys \in [Views -> [IssuerKeys -> Entry]]
    /\ copy \in Seq(Event) /\ copied_manifest \in Nat
    /\ seen \in Seq(SignedHead) /\ time \in Nat

\* An active key has no end yet.
ActiveIsOpen ==
    \A v \in Views, k \in IssuerKeys : keys[v][k].status = "active" => keys[v][k].until = Open

\* The client's copy is a prefix of the view it follows.
CopyFollowsHome == StartsWith(log[Home], copy)

\* An accepted head is a prefix of the copy, and counts never go back.
HeadIsCopied(c) == c.count = Len(c.head) /\ StartsWith(copy, c.head)
Follows(c, d) == c.count <= d.count /\ (c.count = d.count => c.manifest = d.manifest)
HeadsFollow ==
    /\ \A i \in DOMAIN seen : HeadIsCopied(seen[i])
    /\ \A i, j \in DOMAIN seen : i < j => Follows(seen[i], seen[j])

DirectoryInv == DirectoryTypeOK /\ ActiveIsOpen /\ CopyFollowsHome /\ HeadsFollow

\* Prefixes of prefixes, and what is appended.
LEMMA Prefixes ==
    ASSUME NEW s \in Seq(Event), NEW t \in Seq(Event), NEW u \in Seq(Event), NEW e \in Event
    PROVE  /\ StartsWith(s, s) /\ StartsWith(Append(s, e), s)
           /\ StartsWith(s, t) /\ StartsWith(t, u) => StartsWith(s, u)
           /\ StartsWith(s, t) /\ StartsWith(s, u) /\ Len(t) <= Len(u) => StartsWith(u, t)
           /\ \A n \in 0 .. Len(s) : t = SubSeq(s, 1, n) => StartsWith(s, t)
  <1>1. StartsWith(s, s)
    BY DEF StartsWith
  <1>2. StartsWith(Append(s, e), s)
    BY DEF StartsWith
  <1>3. StartsWith(s, t) /\ StartsWith(t, u) => StartsWith(s, u)
    BY DEF StartsWith
  <1>4. StartsWith(s, t) /\ StartsWith(s, u) /\ Len(t) <= Len(u) => StartsWith(u, t)
    BY DEF StartsWith
  <1>5. ASSUME NEW n \in 0 .. Len(s), t = SubSeq(s, 1, n) PROVE StartsWith(s, t)
    BY <1>5, SMTT(30) DEF StartsWith
  <1> QED BY <1>1, <1>2, <1>3, <1>4, <1>5, Zenon

\* What an event does to the entry of a key: a key it ends keeps its start and ends
\* now, a key it starts is active from now on, and any other stays as it is.
LEMMA EntryAfter ==
    ASSUME NEW table \in [IssuerKeys -> Entry], NEW e \in Event, NEW k \in IssuerKeys
    PROVE  /\ Apply(table, e) \in [IssuerKeys -> Entry]
           /\ \/ Apply(table, e)[k] = table[k]
              \/ Apply(table, e)[k] = Active(e.time) /\ e.type \in {"activation", "rotation"} /\ e.key = k
              \/ /\ \E s \in {"rotated", "retired", "compromised"} :
                       Apply(table, e)[k] = Ended(table[k], e.time, s)
                 /\ e.type \notin {"activation", "checkpoint"}
                 /\ k = IF e.type = "rotation" THEN e.related ELSE e.key
  <1>0. e.type \in Lifecycles /\ e.key \in IssuerKeys /\ e.related \in IssuerKeys /\ e.time \in Nat
    BY Zenon DEF Event
  <1>1. Active(e.time) \in Entry
    BY <1>0, Zenon DEF Active, Entry, KeyStatuses
  <1>2. \A j \in IssuerKeys : \A s \in {"rotated", "retired", "compromised"} :
           Ended(table[j], e.time, s) \in Entry
    BY <1>0, Zenon DEF Ended, Entry, KeyStatuses
  <1> USE DEF Lifecycles
  <1>3. CASE e.type = "activation"
    BY <1>0, <1>1, <1>3, Zenon DEF Apply
  <1>4. CASE e.type = "rotation"
    BY <1>0, <1>1, <1>2, <1>4, Zenon DEF Apply
  <1>5. CASE e.type = "compromise"
    BY <1>0, <1>2, <1>5, Zenon DEF Apply
  <1>6. CASE e.type = "retirement"
    BY <1>0, <1>2, <1>6, Zenon DEF Apply
  <1>7. CASE e.type = "checkpoint"
    BY <1>7, Zenon DEF Apply
  <1> QED BY <1>0, <1>3, <1>4, <1>5, <1>6, <1>7, Zenon

\* What a step of append_event does.
LEMMA Appends ==
    ASSUME DirectoryInv, NEW v \in Views, append_event(v)
    PROVE  \E e \in Event : /\ e.time = time /\ Accepts(keys[v], e)
                            /\ keys' = [keys EXCEPT ![v] = Apply(@, e)]
                            /\ log' = [log EXCEPT ![v] = Append(@, e)]
  <1>1. PICK type \in Lifecycles, k \in IssuerKeys, related \in IssuerKeys :
           LET e == [type |-> type, key |-> k, related |-> IF type = "rotation" THEN related ELSE k,
                    time |-> time]
           IN  /\ Accepts(keys[v], e)
               /\ keys' = [keys EXCEPT ![v] = Apply(@, e)]
               /\ log' = [log EXCEPT ![v] = Append(@, e)]
    BY Zenon DEF append_event
  <1> DEFINE e == [type |-> type, key |-> k, related |-> IF type = "rotation" THEN related ELSE k,
                   time |-> time]
  <1>2. e \in Event /\ e.time = time
    BY Zenon DEF Event, DirectoryInv, DirectoryTypeOK
  <1> QED BY <1>1, <1>2, Zenon

\* An event reaches one view, whose log grows and whose table follows.
LEMMA AppendKeepsDirectory ==
    ASSUME DirectoryInv, NEW v \in Views, append_event(v)
    PROVE  DirectoryInv'
  <1>0. DirectoryTypeOK /\ ActiveIsOpen /\ CopyFollowsHome /\ HeadsFollow
    BY Zenon DEF DirectoryInv
  <1>1. PICK e \in Event : /\ keys' = [keys EXCEPT ![v] = Apply(@, e)]
                           /\ log' = [log EXCEPT ![v] = Append(@, e)]
    BY Appends, Zenon
  <1>2. UNCHANGED <<manifest, copy, copied_manifest, seen, time>>
    BY Zenon DEF append_event
  <1>3. log[v] \in Seq(Event) /\ keys[v] \in [IssuerKeys -> Entry] /\ Home \in Views
    BY <1>0, DirectoryAssumption, Zenon DEF DirectoryTypeOK, Home
  <1>4. Append(log[v], e) \in Seq(Event) /\ Apply(keys[v], e) \in [IssuerKeys -> Entry]
    <2>1. IssuerKeys # {} => Apply(keys[v], e) \in [IssuerKeys -> Entry]
      BY <1>3, EntryAfter, Zenon
    <2>2. e.key \in IssuerKeys
      BY Zenon DEF Event
    <2> QED BY <1>3, <2>1, <2>2, SMTT(30)
  <1>5. DirectoryTypeOK'
    BY <1>0, <1>1, <1>2, <1>4, Zenon DEF DirectoryTypeOK
  <1>6. ActiveIsOpen'
    <2> SUFFICES ASSUME NEW w \in Views, NEW k \in IssuerKeys, keys'[w][k].status = "active"
                 PROVE  keys'[w][k].until = Open
      BY Zenon DEF ActiveIsOpen
    <2>1. CASE w # v
      <3>1. keys'[w] = keys[w]
        BY <1>0, <1>1, <2>1, ZenonT(30) DEF DirectoryTypeOK
      <3> QED BY <1>0, <3>1, Zenon DEF ActiveIsOpen
    <2>2. CASE w = v
      <3>1. keys'[v] = Apply(keys[v], e)
        BY <1>0, <1>1, Zenon DEF DirectoryTypeOK
      <3>2. \/ Apply(keys[v], e)[k] = keys[v][k]
            \/ Apply(keys[v], e)[k] = Active(e.time)
            \/ \E s \in {"rotated", "retired", "compromised"} :
                  Apply(keys[v], e)[k] = Ended(keys[v][k], e.time, s)
        BY <1>3, EntryAfter, Zenon
      <3>3. Active(e.time).until = Open
        BY Zenon DEF Active
      <3>4. \A s : Ended(keys[v][k], e.time, s).status = s
        BY Zenon DEF Ended
      <3> QED BY <1>0, <2>2, <3>1, <3>2, <3>3, <3>4 DEF ActiveIsOpen
    <2> QED BY <2>1, <2>2, Zenon
  <1>7. CopyFollowsHome'
    <2>1. CASE v = Home
      <3>1. log'[Home] = Append(log[Home], e)
        BY <1>0, <1>1, <1>3, <2>1, Zenon DEF DirectoryTypeOK
      <3>2. /\ log[Home] \in Seq(Event) /\ copy \in Seq(Event) /\ Append(log[Home], e) \in Seq(Event)
            /\ StartsWith(log[Home], copy)
        BY <1>0, <1>3, <1>4, <2>1, Zenon DEF DirectoryTypeOK, CopyFollowsHome
      <3>3. StartsWith(Append(log[Home], e), log[Home])
        BY <3>2, Prefixes, Zenon
      <3>4. StartsWith(Append(log[Home], e), copy)
        BY <3>2, <3>3, Prefixes, Zenon
      <3> QED BY <1>2, <3>1, <3>4, Zenon DEF CopyFollowsHome
    <2>2. CASE v # Home
      <3>1. log'[Home] = log[Home]
        BY <1>0, <1>1, <1>3, <2>2, Zenon DEF DirectoryTypeOK
      <3> QED BY <1>0, <1>2, <3>1, Zenon DEF CopyFollowsHome
    <2> QED BY <2>1, <2>2, Zenon
  <1>8. HeadsFollow'
    BY <1>0, <1>2, Zenon DEF HeadsFollow, HeadIsCopied
  <1> QED BY <1>5, <1>6, <1>7, <1>8, Zenon DEF DirectoryInv

\* The copy moves on along the view it follows, so that accepted heads stay prefixes.
LEMMA SyncKeepsDirectory ==
    ASSUME DirectoryInv, sync
    PROVE  DirectoryInv'
  <1>0. DirectoryTypeOK /\ ActiveIsOpen /\ CopyFollowsHome /\ HeadsFollow /\ Home \in Views
    BY DirectoryAssumption, Zenon DEF DirectoryInv, Home
  <1>1. /\ copy' = log[Home] /\ copied_manifest' = manifest[Home]
        /\ UNCHANGED <<log, keys, manifest, seen, time>>
    BY Zenon DEF sync
  <1>2. DirectoryTypeOK' /\ ActiveIsOpen'
    BY <1>0, <1>1, Zenon DEF DirectoryTypeOK, ActiveIsOpen
  <1>3. log[Home] \in Seq(Event) /\ copy \in Seq(Event) /\ StartsWith(log[Home], copy)
    BY <1>0, Zenon DEF DirectoryTypeOK, CopyFollowsHome
  <1>4. CopyFollowsHome'
    <2>1. StartsWith(log[Home], log[Home])
      BY <1>3, SMTT(30) DEF StartsWith
    <2> QED BY <1>1, <2>1, Zenon DEF CopyFollowsHome
  <1>5. ASSUME NEW i \in DOMAIN seen PROVE HeadIsCopied(seen[i])'
    <2>1. seen[i].head \in Seq(Event) /\ seen[i].count = Len(seen[i].head)
          /\ StartsWith(copy, seen[i].head)
      <3>1. seen[i] \in SignedHead /\ HeadIsCopied(seen[i])
        BY <1>0 DEF DirectoryTypeOK, HeadsFollow
      <3> QED BY <3>1, Zenon DEF HeadIsCopied, SignedHead
    <2>2. StartsWith(log[Home], seen[i].head)
      BY <1>3, <2>1 DEF StartsWith
    <2> QED BY <1>1, <2>1, <2>2, Zenon DEF HeadIsCopied
  <1>6. HeadsFollow'
    BY <1>0, <1>1, <1>5, Zenon DEF HeadsFollow
  <1> QED BY <1>2, <1>4, <1>6, Zenon DEF DirectoryInv

\* A checkpoint is accepted when it is a prefix of the copy and does not go back.
LEMMA AcceptKeepsDirectory ==
    ASSUME DirectoryInv, NEW v \in Views, accept_checkpoint(v)
    PROVE  DirectoryInv'
  <1>0. DirectoryTypeOK /\ ActiveIsOpen /\ CopyFollowsHome /\ HeadsFollow
    BY Zenon DEF DirectoryInv
  <1>1. PICK c : c = Checkpoint(v)
    BY Zenon
  <1>2. /\ Consistent(c) /\ (seen # <<>> => NoRollback(seen[Len(seen)], c))
        /\ seen' = Append(seen, c)
        /\ UNCHANGED <<log, keys, manifest, copy, copied_manifest, time>>
    BY <1>1, ZenonT(30) DEF accept_checkpoint
  <1>3. c \in SignedHead /\ c.count = Len(c.head) /\ c.head \in Seq(Event)
    BY <1>0, <1>1 DEF DirectoryTypeOK, SignedHead, Checkpoint
  <1>c. copy \in Seq(Event) /\ Len(copy) \in Nat
    BY <1>0 DEF DirectoryTypeOK
  <1>4. StartsWith(copy, c.head)
    <2>1. c.count \in 0 .. Len(copy) /\ c.head = SubSeq(copy, 1, c.count)
      BY <1>2, <1>3, <1>c DEF Consistent, SignedHead
    <2> QED BY <1>3, <1>c, <2>1 DEF StartsWith
  <1>5. DirectoryTypeOK' /\ ActiveIsOpen' /\ CopyFollowsHome'
    BY <1>0, <1>2, <1>3 DEF DirectoryTypeOK, ActiveIsOpen, CopyFollowsHome
  <1>6. PICK s \in Seq(SignedHead) : s = seen
    BY <1>0, Zenon DEF DirectoryTypeOK
  <1>7. \A i \in DOMAIN Append(s, c) : \/ i \in DOMAIN s /\ Append(s, c)[i] = s[i]
                                       \/ i = Len(s) + 1 /\ Append(s, c)[i] = c
    BY <1>3
  <1>8. \A i \in DOMAIN s : i \in Nat /\ i <= Len(s) /\ s[i] \in SignedHead
    BY <1>6
  <1>9. \A i \in DOMAIN s : Follows(s[i], c)
    <2> SUFFICES ASSUME NEW i \in DOMAIN s PROVE Follows(s[i], c)
      BY Zenon
    <2>1. Len(s) \in DOMAIN s /\ s # <<>> /\ s[Len(s)] \in SignedHead /\ s[i] \in SignedHead
      BY <1>6
    <2>2. NoRollback(s[Len(s)], c)
      BY <1>2, <1>6, <2>1, Zenon
    <2>3. Follows(s[Len(s)], c)
      BY <1>3, <2>1, <2>2, Zenon DEF Follows, NoRollback, SignedHead
    <2>4. i = Len(s) \/ Follows(s[i], s[Len(s)])
      BY <1>0, <1>6, <1>8, <2>1 DEF HeadsFollow
    <2> QED BY <1>3, <2>1, <2>3, <2>4, SMTT(30) DEF Follows, SignedHead
  <1>10. ASSUME NEW i \in DOMAIN Append(s, c), NEW j \in DOMAIN Append(s, c), i < j
         PROVE  Follows(Append(s, c)[i], Append(s, c)[j])
    <2>1. i \in DOMAIN s
      BY <1>7, <1>8, <1>10
    <2>2. CASE j \in DOMAIN s /\ Append(s, c)[j] = s[j]
      BY <1>0, <1>6, <1>7, <1>8, <1>10, <2>1, <2>2, SMTT(30) DEF HeadsFollow
    <2>3. CASE j = Len(s) + 1 /\ Append(s, c)[j] = c
      BY <1>7, <1>8, <1>9, <2>1, <2>3, SMTT(30)
    <2> QED BY <1>7, <2>2, <2>3, Zenon
  <1>11. ASSUME NEW i \in DOMAIN Append(s, c) PROVE HeadIsCopied(Append(s, c)[i])
    BY <1>0, <1>3, <1>4, <1>6, <1>7, <1>11, Zenon DEF HeadsFollow, HeadIsCopied
  <1>12. HeadsFollow'
    BY <1>2, <1>6, <1>10, <1>11, Zenon DEF HeadsFollow, HeadIsCopied
  <1> QED BY <1>5, <1>12, Zenon DEF DirectoryInv

\* A verdict about the past is the same after a step, for a key that was unknown or
\* that was active and is not started again.
LEMMA VerdictStands ==
    ASSUME DirectoryInv, NEW w \in Views, append_event(w), NEW v \in Views,
           NEW k \in IssuerKeys, NEW at \in 0 .. MaxTime, at < time,
           keys[v][k].status = "none" \/ (keys[v][k].status = "active" /\ ~Starts(v, k))
    PROVE  key_valid(keys[v], k, at) <=> key_valid(keys'[v], k, at)
  <1>0. DirectoryTypeOK /\ ActiveIsOpen /\ at \in Nat /\ time \in Nat /\ Open \notin Nat
    BY DirectoryAssumption, SMTT(30) DEF DirectoryInv, DirectoryTypeOK
  <1>1. PICK e \in Event : /\ e.time = time /\ Accepts(keys[w], e)
                           /\ keys' = [keys EXCEPT ![w] = Apply(@, e)]
                           /\ log' = [log EXCEPT ![w] = Append(@, e)]
    BY Appends, Zenon
  <1>2. CASE w # v
    <2>1. keys'[v] = keys[v]
      BY <1>0, <1>1, <1>2, Zenon DEF DirectoryTypeOK
    <2> QED BY <2>1, Zenon
  <1>3. CASE w = v
    <2>1. /\ keys'[v] = Apply(keys[v], e) /\ keys[v] \in [IssuerKeys -> Entry]
          /\ log'[v] = Append(log[v], e) /\ log[v] \in Seq(Event)
      BY <1>0, <1>1, <1>3, Zenon DEF DirectoryTypeOK
    <2>2. log'[v] # log[v] /\ log'[v][Len(log'[v])] = e
      <3>1. PICK s \in Seq(Event) : s = log[v]
        BY <2>1, Zenon
      <3>2. Len(Append(s, e)) = Len(s) + 1 /\ Append(s, e)[Len(s) + 1] = e /\ Len(s) \in Nat
        OBVIOUS
      <3>3. Append(s, e) # s
        BY <3>2, SMTT(30)
      <3> QED BY <2>1, <3>1, <3>2, <3>3, ZenonT(30)
    <2>3. PICK old \in Entry : old = keys[v][k]
      BY <2>1, Zenon
    <2>4. PICK new \in Entry : new = keys'[v][k]
      BY <2>1, EntryAfter, Zenon
    <2>5. \/ new = old
          \/ new = Active(time) /\ e.type \in {"activation", "rotation"} /\ e.key = k
          \/ /\ \E s \in {"rotated", "retired", "compromised"} : new = Ended(old, time, s)
             /\ e.type \notin {"activation", "checkpoint"}
             /\ k = IF e.type = "rotation" THEN e.related ELSE e.key
      <3>1. PICK table \in [IssuerKeys -> Entry] : table = keys[v]
        BY <2>1, Zenon
      <3>2. old = table[k] /\ new = Apply(table, e)[k] /\ e.time = time
        BY <1>1, <2>1, <2>3, <2>4, <3>1, Zenon
      <3> QED BY <3>2, EntryAfter, Zenon
    <2>6. CASE new = old
      BY <2>3, <2>4, <2>6, Zenon DEF key_valid
    <2>7. CASE new = Active(time) /\ e.type \in {"activation", "rotation"} /\ e.key = k
      <3>1. Starts(v, k)
        BY <2>2, <2>7, Zenon DEF Starts
      <3>2. old.status = "none"
        BY <2>3, <3>1, Zenon
      <3>3. ~(at >= new.from)
        BY <1>0, <2>7, SMTT(30) DEF Active
      <3> QED BY <2>3, <2>4, <3>2, <3>3, Zenon DEF key_valid
    <2>8. CASE /\ \E s \in {"rotated", "retired", "compromised"} : new = Ended(old, time, s)
               /\ e.type \notin {"activation", "checkpoint"}
               /\ k = IF e.type = "rotation" THEN e.related ELSE e.key
      <3>1. old.status # "none"
        BY <1>1, <1>3, <2>3, <2>8, ZenonT(30) DEF Accepts, Event, Lifecycles
      <3>2. old.status = "active" /\ old.until = Open
        BY <1>0, <2>3, <3>1, Zenon DEF ActiveIsOpen
      <3>3. new.from = old.from /\ new.until = time /\ new.status # "none"
        BY <2>8 DEF Ended
      <3> QED BY <1>0, <2>3, <2>4, <3>2, <3>3, Zenon DEF key_valid
    <2> QED BY <2>5, <2>6, <2>7, <2>8, Zenon
  <1> QED BY <1>2, <1>3, Zenon

\* The key directory and its clients (issuer_key_transparency.py), with any number of
\* keys, events and views: whatever views a publisher shows, the checkpoints a client
\* accepted agree with one another, no key is valid and compromised at once, and no
\* later event changes a verdict about the past.
THEOREM DirectoryKeepsItsPromises == DirectorySpec => DirectoryKeepsItsWord
  <1> DEFINE Stands == \A v \in Views, k \in IssuerKeys, at \in 0 .. MaxTime :
               at < time /\ (keys[v][k].status = "none" \/ (keys[v][k].status = "active" /\ ~Starts(v, k)))
                 => (key_valid(keys[v], k, at) <=> key_valid(keys'[v], k, at))
  <1>1. DirectoryInit => DirectoryInv
    <2> SUFFICES ASSUME DirectoryInit PROVE DirectoryInv
      BY Zenon
    <2>1. DirectoryTypeOK /\ ActiveIsOpen
      BY DEF DirectoryInit, DirectoryTypeOK, ActiveIsOpen, Unknown, Entry, KeyStatuses
    <2>2. log[Home] = <<>> /\ copy = <<>>
      BY DirectoryAssumption, Zenon DEF DirectoryInit, Home
    <2>3. CopyFollowsHome /\ HeadsFollow
      BY <2>2, SMTT(30) DEF DirectoryInit, CopyFollowsHome, HeadsFollow, StartsWith
    <2> QED BY <2>1, <2>3, Zenon DEF DirectoryInv
  <1>2. DirectoryInv /\ UNCHANGED <<log, keys, copy, seen>> /\ manifest' \in [Views -> Nat]
           /\ copied_manifest' \in Nat /\ time' \in Nat => DirectoryInv'
    BY Zenon DEF DirectoryInv, DirectoryTypeOK, ActiveIsOpen, CopyFollowsHome, HeadsFollow, HeadIsCopied
  <1>3. ASSUME DirectoryInv, [DirectoryNext]_directoryVars
        PROVE  DirectoryInv'
    <2>0. manifest \in [Views -> Nat] /\ copied_manifest \in Nat /\ time \in Nat
      BY <1>3, Zenon DEF DirectoryInv, DirectoryTypeOK
    <2>1. CASE UNCHANGED directoryVars
      BY <1>2, <1>3, <2>0, <2>1, Zenon DEF directoryVars
    <2>2. ASSUME NEW v \in Views, publish_manifest(v) PROVE DirectoryInv'
      BY <1>2, <1>3, <2>0, <2>2 DEF publish_manifest
    <2>3. CASE PassTime
      BY <1>2, <1>3, <2>0, <2>3 DEF PassTime
    <2> QED BY <1>3, <2>1, <2>2, <2>3, AppendKeepsDirectory, AcceptKeepsDirectory,
               SyncKeepsDirectory, Zenon DEF DirectoryNext
  <1>4. DirectoryInv => AcceptedHeadsAgree
    <2> SUFFICES ASSUME DirectoryInv, NEW i \in DOMAIN seen, NEW j \in DOMAIN seen, i < j
                 PROVE  /\ StartsWith(seen[j].head, seen[i].head)
                        /\ seen[i].count = seen[j].count => seen[i].manifest = seen[j].manifest
      BY Zenon DEF AcceptedHeadsAgree
    <2>1. /\ HeadIsCopied(seen[i]) /\ HeadIsCopied(seen[j]) /\ Follows(seen[i], seen[j])
          /\ seen[i] \in SignedHead /\ seen[j] \in SignedHead /\ copy \in Seq(Event)
      BY SMTT(30) DEF DirectoryInv, HeadsFollow, DirectoryTypeOK
    <2>2. seen[i].head \in Seq(Event) /\ seen[j].head \in Seq(Event)
      BY <2>1, Zenon DEF SignedHead
    <2> QED BY <2>1, <2>2 DEF HeadIsCopied, Follows, StartsWith
  <1>5. DirectoryInv => ValidOrCompromised
    <2> SUFFICES ASSUME DirectoryInv, NEW v \in Views, NEW k \in IssuerKeys, NEW at \in 0 .. MaxTime
                 PROVE  ~(key_valid(keys[v], k, at) /\ key_was_compromised_at(keys[v], k, at))
      BY Zenon DEF ValidOrCompromised
    <2>1. keys[v][k] \in Entry
      BY Zenon DEF DirectoryInv, DirectoryTypeOK
    <2> QED BY <2>1, DirectoryAssumption DEF Entry, key_valid, key_was_compromised_at
  <1>6. DirectoryInv /\ [DirectoryNext]_directoryVars => [Stands]_directoryVars
    <2>1. ASSUME DirectoryInv, NEW v \in Views, append_event(v) PROVE Stands
      BY <2>1, VerdictStands, Zenon
    <2>2. ASSUME UNCHANGED keys PROVE Stands
      BY <2>2, Zenon
    <2>3. DirectoryNext => UNCHANGED keys \/ \E v \in Views : append_event(v)
      BY Zenon DEF DirectoryNext, publish_manifest, accept_checkpoint, sync, PassTime
    <2> QED BY <2>1, <2>2, <2>3, Zenon DEF directoryVars
  <1> HIDE DEF Stands
  <1>7. DirectorySpec => [](AcceptedHeadsAgree /\ ValidOrCompromised) /\ [][Stands]_directoryVars
    BY <1>1, <1>3, <1>4, <1>5, <1>6, PTL DEF DirectorySpec
  <1> QED BY <1>7, Zenon DEF DirectoryKeepsItsWord, PastVerdictsStand, Stands
=============================================================================
