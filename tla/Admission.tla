------------------------------ MODULE Admission ------------------------------
(***************************************************************************)
(* The backend's admission control (backend/admission.py): request threads *)
(* share a semaphore of execution slots, a bounded count of waiters and a  *)
(* count per client identity.  The counts change under a lock, the wait    *)
(* for a slot and the return of one happen outside it, so each is a step   *)
(* of its own.                                                             *)
(***************************************************************************)
EXTENDS Naturals, FiniteSets

CONSTANTS Threads,          \* the server's request threads
          Identities,
          max_concurrent,
          max_queue,
          max_per_identity

ASSUME AdmissionAssumption ==
    /\ IsFiniteSet(Threads) /\ Identities # {}
    /\ max_concurrent \in Nat /\ max_queue \in Nat /\ max_per_identity \in Nat

VARIABLES slots,            \* the semaphore's value
          current_queue,
          identity_counts,  \* an identity without an entry counts 0
          identity,         \* whose request each thread serves
          pc                \* where each thread is in require_capacity

admissionVars == <<slots, current_queue, identity_counts, identity, pc>>

Steps == {"free", "arrived", "waiting", "granted", "timed_out", "running", "returning", "rejected"}

AdmissionInit ==
    /\ slots = max_concurrent
    /\ current_queue = 0
    /\ identity_counts = [c \in Identities |-> 0]
    /\ identity = [t \in Threads |-> CHOOSE c \in Identities : TRUE]
    /\ pc = [t \in Threads |-> "free"]

goto(t, step) == pc' = [pc EXCEPT ![t] = step]
count(t, n) == identity_counts' = [identity_counts EXCEPT ![identity[t]] = n]

\* A request of some client reaches a free thread.
arrive(t) ==
    /\ pc[t] = "free"
    /\ \E c \in Identities : identity' = [identity EXCEPT ![t] = c]
    /\ goto(t, "arrived")
    /\ UNCHANGED <<slots, current_queue, identity_counts>>

\* acquire, first critical section: the identity is at its limit.
identity_limit(t) ==
    /\ pc[t] = "arrived"
    /\ identity_counts[identity[t]] >= max_per_identity
    /\ goto(t, "rejected")
    /\ UNCHANGED <<slots, current_queue, identity_counts, identity>>

\* acquire, first critical section: a slot is free and taken at once.
acquire_now(t) ==
    /\ pc[t] = "arrived"
    /\ identity_counts[identity[t]] < max_per_identity
    /\ slots > 0
    /\ slots' = slots - 1
    /\ count(t, identity_counts[identity[t]] + 1)
    /\ goto(t, "running")
    /\ UNCHANGED <<current_queue, identity>>

\* acquire, first critical section: no slot, and too many wait already.
queue_full(t) ==
    /\ pc[t] = "arrived"
    /\ identity_counts[identity[t]] < max_per_identity
    /\ slots = 0
    /\ current_queue >= max_queue
    /\ goto(t, "rejected")
    /\ UNCHANGED <<slots, current_queue, identity_counts, identity>>

\* acquire, first critical section: no slot, so the request joins the queue.
join_queue(t) ==
    /\ pc[t] = "arrived"
    /\ identity_counts[identity[t]] < max_per_identity
    /\ slots = 0
    /\ current_queue < max_queue
    /\ current_queue' = current_queue + 1
    /\ count(t, identity_counts[identity[t]] + 1)
    /\ goto(t, "waiting")
    /\ UNCHANGED <<slots, identity>>

\* acquire, outside the lock: the semaphore wakes a waiter.
semaphore_granted(t) ==
    /\ pc[t] = "waiting"
    /\ slots > 0
    /\ slots' = slots - 1
    /\ goto(t, "granted")
    /\ UNCHANGED <<current_queue, identity_counts, identity>>

\* Mutant of semaphore_timeout: the wait for a slot has no end.
semaphore_timeout_never(t) ==
    /\ pc[t] = "waiting"
    /\ FALSE
    /\ UNCHANGED admissionVars

\* acquire, outside the lock: the wait ends with no slot to take.
semaphore_timeout(t) ==
    /\ pc[t] = "waiting"
    /\ slots = 0
    /\ goto(t, "timed_out")
    /\ UNCHANGED <<slots, current_queue, identity_counts, identity>>

\* Mutant of leave_queue: a request that timed out stays counted.
leave_queue_leaks(t) ==
    /\ pc[t] \in {"granted", "timed_out"}
    /\ current_queue' = current_queue - 1
    /\ IF pc[t] = "granted" THEN goto(t, "running") ELSE goto(t, "rejected")
    /\ UNCHANGED <<slots, identity_counts, identity>>

\* acquire, second critical section: the request leaves the queue, and undoes its
\* identity's count if it got no slot.
leave_queue(t) ==
    /\ pc[t] \in {"granted", "timed_out"}
    /\ current_queue' = current_queue - 1
    /\ IF pc[t] = "granted" THEN goto(t, "running") /\ UNCHANGED identity_counts
       ELSE goto(t, "rejected") /\ count(t, identity_counts[identity[t]] - 1)
    /\ UNCHANGED <<slots, identity>>

\* release, under the lock: the handler has returned or raised.
release_identity(t) ==
    /\ pc[t] = "running"
    /\ count(t, identity_counts[identity[t]] - 1)
    /\ goto(t, "returning")
    /\ UNCHANGED <<slots, current_queue, identity>>

\* release, after the lock: the slot goes back.
release_slot(t) ==
    /\ pc[t] = "returning"
    /\ slots' = slots + 1
    /\ goto(t, "free")
    /\ UNCHANGED <<current_queue, identity_counts, identity>>

\* require_capacity answers a rejected request with 429 or 503.
reject(t) ==
    /\ pc[t] = "rejected"
    /\ goto(t, "free")
    /\ UNCHANGED <<slots, current_queue, identity_counts, identity>>

acquire(t) ==
    \/ identity_limit(t) \/ acquire_now(t) \/ queue_full(t) \/ join_queue(t)
    \/ semaphore_granted(t) \/ semaphore_timeout(t) \/ leave_queue(t)
release(t) == release_identity(t) \/ release_slot(t)

\* What a thread does for its request once it has one.
Serve(t) == acquire(t) \/ release(t) \/ reject(t)

AdmissionNext == \E t \in Threads : arrive(t) \/ Serve(t)

AdmissionSpec == AdmissionInit /\ [][AdmissionNext]_admissionVars

-----------------------------------------------------------------------------
AdmissionTypeOK ==
    /\ slots \in Nat
    /\ current_queue \in Nat
    /\ identity_counts \in [Identities -> Nat]
    /\ identity \in [Threads -> Identities]
    /\ pc \in [Threads -> Steps]

At(steps) == {t \in Threads : pc[t] \in steps}
Holding == At({"granted", "running", "returning"})
Queued == At({"waiting", "granted", "timed_out"})
Counted(c) == {t \in At({"waiting", "granted", "timed_out", "running"}) : identity[t] = c}

\* No path loses or doubles a slot or a count, although the wait for a slot and its
\* return happen outside the lock.  The semaphore and the threads holding a slot
\* make up max_concurrent, the queue count is the number of requests between
\* joining and leaving, and an identity's count is the number of its requests
\* admitted or waiting; each is within its limit.
CapacityExact ==
    /\ slots + Cardinality(Holding) = max_concurrent
    /\ current_queue = Cardinality(Queued)
    /\ current_queue <= max_queue
    /\ \A c \in Identities :
          /\ identity_counts[c] = Cardinality(Counted(c))
          /\ identity_counts[c] <= max_per_identity

\* Every request is answered: it runs and returns, or is rejected.  A newcomer may
\* take a slot ahead of the queue, so the timeout is what guarantees it.
EveryRequestAnswered == \A t \in Threads : pc[t] = "arrived" ~> pc[t] = "free"
=============================================================================
