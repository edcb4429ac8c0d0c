--------------------------- MODULE BackendProofs ----------------------------
(***************************************************************************)
(* The backend beside the chain, for every value of the constants:         *)
(* admission control, evidence blobs with their collector, and the         *)
(* registrations that clients, the reconciler and the retention worker     *)
(* share. The three share no state.                                        *)
(***************************************************************************)
EXTENDS Admission, EvidenceBlobs, RegisterRequests, FiniteSetTheorems,
        WellFoundedInduction, TLAPS

---------------------------------------------------------------------------
(* Admission control.                                                      *)

\* The sizes of two sets of threads that agree on every thread but t.
Moved(t, A, B) ==
    /\ Cardinality(A) \in Nat
    /\ (t \in A <=> t \in B) => Cardinality(B) = Cardinality(A)
    /\ t \notin A /\ t \in B => Cardinality(B) = Cardinality(A) + 1
    /\ t \in A /\ t \notin B => Cardinality(A) > 0 /\ Cardinality(B) = Cardinality(A) - 1

\* Sets of threads that differ in one thread at most.
LEMMA OneThreadMoves ==
    ASSUME NEW A \in SUBSET Threads, NEW B \in SUBSET Threads, NEW t \in Threads,
           \A u \in Threads : u # t => (u \in A <=> u \in B)
    PROVE  Moved(t, A, B)
  <1>1. IsFiniteSet(A)
    BY FS_Subset, AdmissionAssumption
  <1>2. Cardinality(A) \in Nat /\ (Cardinality(A) = 0 <=> A = {})
    BY <1>1, FS_CardinalityType, FS_EmptySet
  <1>3. ASSUME t \in A <=> t \in B PROVE B = A
    BY <1>3
  <1>4. ASSUME t \notin A, t \in B PROVE Cardinality(B) = Cardinality(A) + 1
    <2>1. B = A \cup {t}
      BY <1>4
    <2> QED BY <1>1, <1>4, <2>1, FS_AddElement
  <1>5. ASSUME t \in A, t \notin B
        PROVE  Cardinality(A) > 0 /\ Cardinality(B) = Cardinality(A) - 1
    <2>1. B = A \ {t} /\ A # {}
      BY <1>5
    <2>2. Cardinality(B) = Cardinality(A) - 1
      BY <1>1, <1>5, <2>1, FS_RemoveElement
    <2> QED BY <1>2, <2>1, <2>2
  <1> QED BY <1>2, <1>3, <1>4, <1>5 DEF Moved

\* Where a thread is counted is decided by its own step and identity, so when it
\* alone moves, each count changes by its own part in it.
Sized(t) ==
    /\ Moved(t, Holding, Holding')
    /\ Moved(t, Queued, Queued')
    /\ \A c \in Identities : Moved(t, Counted(c), Counted(c)')

\* A step of one thread changes each counted set by that thread at most.
LEMMA ThreadMoves ==
    ASSUME AdmissionTypeOK, NEW t \in Threads, NEW step \in Steps, goto(t, step),
           \A u \in Threads : u # t => identity'[u] = identity[u]
    PROVE  Sized(t)
  <1>1. \A u \in Threads : u # t => pc'[u] = pc[u]
    BY DEF goto, AdmissionTypeOK
  <1>2. Moved(t, Holding, Holding')
    <2>1. Holding \in SUBSET Threads /\ Holding' \in SUBSET Threads
      BY DEF Holding, At
    <2>2. \A u \in Threads : u # t => (u \in Holding <=> u \in Holding')
      BY <1>1 DEF Holding, At
    <2> QED BY <2>1, <2>2, OneThreadMoves
  <1>3. Moved(t, Queued, Queued')
    <2>1. Queued \in SUBSET Threads /\ Queued' \in SUBSET Threads
      BY DEF Queued, At
    <2>2. \A u \in Threads : u # t => (u \in Queued <=> u \in Queued')
      BY <1>1 DEF Queued, At
    <2> QED BY <2>1, <2>2, OneThreadMoves
  <1>4. ASSUME NEW c \in Identities PROVE Moved(t, Counted(c), Counted(c)')
    <2>1. Counted(c) \in SUBSET Threads /\ Counted(c)' \in SUBSET Threads
      BY DEF Counted, At
    <2>2. \A u \in Threads : u # t => (u \in Counted(c) <=> u \in Counted(c)')
      BY <1>1 DEF Counted, At
    <2> QED BY <2>1, <2>2, OneThreadMoves
  <1> QED BY <1>2, <1>3, <1>4 DEF Sized

\* The counts t has a part in, before and after it moves to step.
Placed(t, step) ==
    /\ t \in Holding <=> pc[t] \in {"granted", "running", "returning"}
    /\ t \in Holding' <=> step \in {"granted", "running", "returning"}
    /\ t \in Queued <=> pc[t] \in {"waiting", "granted", "timed_out"}
    /\ t \in Queued' <=> step \in {"waiting", "granted", "timed_out"}
    /\ \A c \in Identities :
         /\ t \in Counted(c) <=> /\ pc[t] \in {"waiting", "granted", "timed_out", "running"}
                                 /\ identity[t] = c
         /\ t \in Counted(c)' <=> /\ step \in {"waiting", "granted", "timed_out", "running"}
                                  /\ identity'[t] = c

\* Where the thread is after its step.
LEMMA ThreadPlaced ==
    ASSUME AdmissionTypeOK, NEW t \in Threads, NEW step \in Steps, goto(t, step)
    PROVE  Placed(t, step) /\ pc' \in [Threads -> Steps]
  <1>1. pc'[t] = step
    BY DEF goto, AdmissionTypeOK
  <1>2. Placed(t, step)
    BY <1>1 DEF Placed, Holding, Queued, Counted, At
  <1>3. pc' \in [Threads -> Steps]
    BY DEF goto, AdmissionTypeOK
  <1> QED BY <1>2, <1>3

---------------------------------------------------------------------------
(* The steps of a request.                                                 *)

AdmissionInv == AdmissionTypeOK /\ CapacityExact

\* A thread that arrives, is refused or answered moves between steps that count
\* nowhere.
LEMMA UncountedMove ==
    ASSUME AdmissionInv, NEW t \in Threads,
           NEW step \in {"arrived", "rejected", "free"}, goto(t, step),
           pc[t] \in {"free", "arrived", "rejected"},
           NEW c \in Identities, identity' = [identity EXCEPT ![t] = c],
           UNCHANGED <<slots, current_queue, identity_counts>>
    PROVE  AdmissionInv'
  <1>1. step \in Steps /\ identity' \in [Threads -> Identities]
        /\ \A u \in Threads : u # t => identity'[u] = identity[u]
    BY DEF Steps, AdmissionInv, AdmissionTypeOK
  <1>2. Sized(t) /\ Placed(t, step) /\ pc' \in [Threads -> Steps]
    BY <1>1, ThreadMoves, ThreadPlaced DEF AdmissionInv
  <1>3. /\ Cardinality(Holding') = Cardinality(Holding)
        /\ Cardinality(Queued') = Cardinality(Queued)
        /\ \A d \in Identities : Cardinality(Counted(d)') = Cardinality(Counted(d))
    BY <1>2 DEF Sized, Placed, Moved
  <1> QED BY <1>1, <1>2, <1>3 DEF AdmissionInv, AdmissionTypeOK, CapacityExact

\* acquire keeps the invariant in and between its critical sections.
LEMMA AcquireKeeps ==
    ASSUME AdmissionInv, NEW t \in Threads, acquire(t)
    PROVE  AdmissionInv'
  <1> USE DEF AdmissionInv
  <1>0. /\ identity[t] \in Identities /\ identity = [identity EXCEPT ![t] = identity[t]]
        /\ {"arrived", "rejected", "waiting", "granted", "timed_out", "running"} \subseteq Steps
    BY DEF AdmissionTypeOK, Steps
  <1>1. CASE identity_limit(t) \/ queue_full(t)
    BY <1>0, <1>1, UncountedMove DEF identity_limit, queue_full
  <1>2. CASE acquire_now(t)
    <2>1. goto(t, "running") /\ UNCHANGED identity
      BY <1>2 DEF acquire_now
    <2>2. Sized(t) /\ Placed(t, "running") /\ pc' \in [Threads -> Steps]
      BY <1>0, <2>1, ThreadMoves, ThreadPlaced
    <2>3. /\ Cardinality(Holding') = Cardinality(Holding) + 1
          /\ Cardinality(Queued') = Cardinality(Queued)
          /\ \A c \in Identities : Cardinality(Counted(c)') =
               IF c = identity[t] THEN Cardinality(Counted(c)) + 1 ELSE Cardinality(Counted(c))
      BY <1>2, <2>1, <2>2 DEF Sized, Placed, Moved, acquire_now
    <2>4. AdmissionTypeOK'
      BY <1>0, <1>2, <2>2 DEF AdmissionTypeOK, acquire_now, count
    <2> QED BY <1>0, <1>2, <2>2, <2>3, <2>4, AdmissionAssumption
            DEF AdmissionTypeOK, CapacityExact, Sized, Moved, acquire_now, count
  <1>3. CASE join_queue(t)
    <2>1. goto(t, "waiting") /\ UNCHANGED identity
      BY <1>3 DEF join_queue
    <2>2. Sized(t) /\ Placed(t, "waiting") /\ pc' \in [Threads -> Steps]
      BY <1>0, <2>1, ThreadMoves, ThreadPlaced
    <2>3. /\ Cardinality(Holding') = Cardinality(Holding)
          /\ Cardinality(Queued') = Cardinality(Queued) + 1
          /\ \A c \in Identities : Cardinality(Counted(c)') =
               IF c = identity[t] THEN Cardinality(Counted(c)) + 1 ELSE Cardinality(Counted(c))
      BY <1>3, <2>1, <2>2 DEF Sized, Placed, Moved, join_queue
    <2>4. AdmissionTypeOK'
      BY <1>0, <1>3, <2>2 DEF AdmissionTypeOK, join_queue, count
    <2> QED BY <1>0, <1>3, <2>2, <2>3, <2>4, AdmissionAssumption
            DEF AdmissionTypeOK, CapacityExact, Sized, Moved, join_queue, count
  <1>4. CASE semaphore_granted(t)
    <2>1. goto(t, "granted") /\ UNCHANGED identity
      BY <1>4 DEF semaphore_granted
    <2>2. Sized(t) /\ Placed(t, "granted") /\ pc' \in [Threads -> Steps]
      BY <1>0, <2>1, ThreadMoves, ThreadPlaced
    <2>3. /\ Cardinality(Holding') = Cardinality(Holding) + 1
          /\ Cardinality(Queued') = Cardinality(Queued)
          /\ \A c \in Identities : Cardinality(Counted(c)') = Cardinality(Counted(c))
      BY <1>4, <2>1, <2>2 DEF Sized, Placed, Moved, semaphore_granted
    <2>4. AdmissionTypeOK'
      BY <1>4, <2>2 DEF AdmissionTypeOK, semaphore_granted
    <2> QED BY <1>4, <2>2, <2>3, <2>4, AdmissionAssumption
            DEF AdmissionTypeOK, CapacityExact, Sized, Moved, semaphore_granted
  <1>5. CASE semaphore_timeout(t)
    <2>1. goto(t, "timed_out") /\ UNCHANGED identity
      BY <1>5 DEF semaphore_timeout
    <2>2. Sized(t) /\ Placed(t, "timed_out") /\ pc' \in [Threads -> Steps]
      BY <1>0, <2>1, ThreadMoves, ThreadPlaced
    <2>3. /\ Cardinality(Holding') = Cardinality(Holding)
          /\ Cardinality(Queued') = Cardinality(Queued)
          /\ \A c \in Identities : Cardinality(Counted(c)') = Cardinality(Counted(c))
      BY <1>5, <2>1, <2>2 DEF Sized, Placed, Moved, semaphore_timeout
    <2> QED BY <1>5, <2>2, <2>3 DEF AdmissionTypeOK, CapacityExact, semaphore_timeout
  <1>6. CASE leave_queue(t) /\ pc[t] = "granted"
    <2>1. goto(t, "running") /\ UNCHANGED identity
      BY <1>6 DEF leave_queue
    <2>2. Sized(t) /\ Placed(t, "running") /\ pc' \in [Threads -> Steps]
      BY <1>0, <2>1, ThreadMoves, ThreadPlaced
    <2>3. /\ Cardinality(Holding') = Cardinality(Holding)
          /\ Cardinality(Queued) > 0 /\ Cardinality(Queued') = Cardinality(Queued) - 1
          /\ \A c \in Identities : Cardinality(Counted(c)') = Cardinality(Counted(c))
      BY <1>6, <2>1, <2>2 DEF Sized, Placed, Moved
    <2> QED BY <1>6, <2>2, <2>3, AdmissionAssumption
            DEF AdmissionTypeOK, CapacityExact, leave_queue
  <1>7. CASE leave_queue(t) /\ pc[t] = "timed_out"
    <2>1. goto(t, "rejected") /\ UNCHANGED identity
      BY <1>7 DEF leave_queue
    <2>2. Sized(t) /\ Placed(t, "rejected") /\ pc' \in [Threads -> Steps]
      BY <1>0, <2>1, ThreadMoves, ThreadPlaced
    <2>3. /\ Cardinality(Holding') = Cardinality(Holding)
          /\ Cardinality(Queued) > 0 /\ Cardinality(Queued') = Cardinality(Queued) - 1
          /\ \A c \in Identities : IF c = identity[t]
               THEN /\ Cardinality(Counted(c)) > 0
                    /\ Cardinality(Counted(c)') = Cardinality(Counted(c)) - 1
               ELSE Cardinality(Counted(c)') = Cardinality(Counted(c))
      BY <1>7, <2>1, <2>2 DEF Sized, Placed, Moved
    <2>4. AdmissionTypeOK'
      BY <1>0, <1>7, <2>2, <2>3 DEF AdmissionTypeOK, CapacityExact, leave_queue, count
    <2> QED BY <1>0, <1>7, <2>3, <2>4, AdmissionAssumption
            DEF AdmissionTypeOK, CapacityExact, leave_queue, count
  <1> QED BY <1>1, <1>2, <1>3, <1>4, <1>5, <1>6, <1>7 DEF acquire, leave_queue

\* release keeps it too, with the identity's count given back before the slot.
LEMMA ReleaseKeeps ==
    ASSUME AdmissionInv, NEW t \in Threads, release(t)
    PROVE  AdmissionInv'
  <1> USE DEF AdmissionInv
  <1>0. identity[t] \in Identities /\ {"free", "returning"} \subseteq Steps
    BY DEF AdmissionTypeOK, Steps
  <1>1. CASE release_identity(t)
    <2>1. goto(t, "returning") /\ UNCHANGED identity
      BY <1>1 DEF release_identity
    <2>2. Sized(t) /\ Placed(t, "returning") /\ pc' \in [Threads -> Steps]
      BY <1>0, <2>1, ThreadMoves, ThreadPlaced, Zenon
    <2>3. /\ Cardinality(Holding') = Cardinality(Holding)
          /\ Cardinality(Queued') = Cardinality(Queued)
          /\ \A c \in Identities : IF c = identity[t]
               THEN /\ Cardinality(Counted(c)) > 0
                    /\ Cardinality(Counted(c)') = Cardinality(Counted(c)) - 1
               ELSE Cardinality(Counted(c)') = Cardinality(Counted(c))
      BY <1>1, <2>1, <2>2 DEF Sized, Placed, Moved, release_identity
    <2>4. AdmissionTypeOK'
      BY <1>0, <1>1, <2>2, <2>3 DEF AdmissionTypeOK, CapacityExact, release_identity, count
    <2> QED BY <1>0, <1>1, <2>3, <2>4, AdmissionAssumption
            DEF AdmissionTypeOK, CapacityExact, release_identity, count
  <1>2. CASE release_slot(t)
    <2>1. goto(t, "free") /\ UNCHANGED identity
      BY <1>2 DEF release_slot
    <2>2. Sized(t) /\ Placed(t, "free") /\ pc' \in [Threads -> Steps]
      BY <1>0, <2>1, ThreadMoves, ThreadPlaced
    <2>3. /\ Cardinality(Holding) \in Nat /\ Cardinality(Holding') = Cardinality(Holding) - 1
          /\ Cardinality(Queued') = Cardinality(Queued)
          /\ \A c \in Identities : Cardinality(Counted(c)') = Cardinality(Counted(c))
      BY <1>2, <2>1, <2>2 DEF Sized, Placed, Moved, release_slot
    <2> QED BY <1>2, <2>2, <2>3, AdmissionAssumption
            DEF AdmissionTypeOK, CapacityExact, release_slot
  <1> QED BY <1>1, <1>2 DEF release

---------------------------------------------------------------------------
\* Slots, queue and identity counts are exact and within their limits, however
\* the threads' critical sections, waits, timeouts and releases interleave.
THEOREM CapacityIsExact == AdmissionSpec => []CapacityExact
  <1>1. AdmissionInit => AdmissionInv
    <2> SUFFICES ASSUME AdmissionInit PROVE AdmissionInv
      OBVIOUS
    <2>1. AdmissionTypeOK
      BY AdmissionAssumption DEF AdmissionInit, AdmissionTypeOK, Steps
    <2>2. Holding = {} /\ Queued = {} /\ \A c \in Identities : Counted(c) = {}
      BY DEF AdmissionInit, Holding, Queued, Counted, At
    <2>3. CapacityExact
      BY <2>2, FS_EmptySet, AdmissionAssumption DEF AdmissionInit, CapacityExact
    <2> QED BY <2>1, <2>3 DEF AdmissionInv
  <1>2. AdmissionInv /\ [AdmissionNext]_admissionVars => AdmissionInv'
    <2> SUFFICES ASSUME AdmissionInv, [AdmissionNext]_admissionVars PROVE AdmissionInv'
      OBVIOUS
    <2>1. ASSUME NEW t \in Threads, arrive(t) PROVE AdmissionInv'
      BY <2>1, UncountedMove, Zenon DEF arrive
    <2>2. ASSUME NEW t \in Threads, reject(t) PROVE AdmissionInv'
      <3>1. identity[t] \in Identities /\ identity' = [identity EXCEPT ![t] = identity[t]]
        BY <2>2 DEF reject, AdmissionInv, AdmissionTypeOK
      <3> QED BY <2>2, <3>1, UncountedMove, Zenon DEF reject
    <2>3. CASE UNCHANGED admissionVars
      BY <2>3 DEF admissionVars, AdmissionInv, AdmissionTypeOK, CapacityExact, Holding,
                  Queued, Counted, At
    <2> QED BY <2>1, <2>2, <2>3, AcquireKeeps, ReleaseKeeps DEF AdmissionNext, Serve
  <1>3. AdmissionInv => CapacityExact
    BY DEF AdmissionInv
  <1> QED BY <1>1, <1>2, <1>3, PTL DEF AdmissionSpec

---------------------------------------------------------------------------
(* Evidence blobs.                                                         *)

\* The collection holds every row it is about to delete, and no reference is
\* being inserted to a row it holds.  An uncommitted reference is a tenant's first.
BlobInv ==
    /\ BlobTypeOK
    /\ RefsHaveBlobs
    /\ gc \in [at : {"idle", "lock", "delete"}, taken : SUBSET recorded,
               locked : SUBSET recorded, deleted : SUBSET recorded]
    /\ gc.at = "delete" => gc.taken \subseteq gc.locked
    /\ \A p \in inserting : refs[p[1]][p[2]] = 0 /\ p[2] \notin gc.locked

\* The invariant holds for an empty store.
LEMMA BlobInitInv == BlobInit => BlobInv
  BY BlobAssumption DEF BlobInit, NoGc, BlobInv, BlobTypeOK, RefsHaveBlobs

\* A tenant's count of one blob changes.
LEMMA RefChanges ==
    ASSUME refs \in [Tenants -> [Blobs -> 0 .. MaxRefs]], NEW t \in Tenants, NEW b \in Blobs,
           NEW n \in 0 .. MaxRefs, refs' = [refs EXCEPT ![t][b] = n]
    PROVE  /\ refs' \in [Tenants -> [Blobs -> 0 .. MaxRefs]]
           /\ \A u \in Tenants, c \in Blobs :
                refs'[u][c] = IF u = t /\ c = b THEN n ELSE refs[u][c]
  OBVIOUS

\* Storing a file or a row disturbs no reference.
LEMMA StoringKeepsBlobs ==
    ASSUME BlobInv, NEW b \in Blobs, write_file(b) \/ record_blob(b)
    PROVE  BlobInv'
  <1>1. CASE write_file(b)
    BY <1>1 DEF write_file, BlobInv, BlobTypeOK, RefsHaveBlobs
  <1>2. CASE record_blob(b)
    <2>1. recorded \subseteq recorded' /\ recorded' \subseteq Blobs
      BY <1>2 DEF record_blob, BlobInv, BlobTypeOK
    <2>2. older' \subseteq recorded' \X recorded'
      BY <1>2 DEF record_blob, BlobInv, BlobTypeOK
    <2> QED BY <1>2, <2>1, <2>2 DEF record_blob, BlobInv, BlobTypeOK, RefsHaveBlobs
  <1> QED BY <1>1, <1>2

\* A first reference is inserted to a recorded blob that no collection holds, and
\* its commit, the later counts and the removals leave the rows alone.
LEMMA ReferencingKeepsBlobs ==
    ASSUME BlobInv, NEW t \in Tenants, NEW b \in Blobs,
           \/ insert_tenant_ref(t, b) \/ commit_tenant_ref(t, b)
           \/ increment_tenant_ref(t, b) \/ remove_tenant_ref(t, b)
    PROVE  BlobInv'
  <1>0. refs \in [Tenants -> [Blobs -> 0 .. MaxRefs]] /\ refs[t][b] \in 0 .. MaxRefs
    BY DEF BlobInv, BlobTypeOK
  <1>1. CASE insert_tenant_ref(t, b)
    BY <1>1 DEF insert_tenant_ref, BlobInv, BlobTypeOK, RefsHaveBlobs
  <1>2. CASE commit_tenant_ref(t, b)
    <2>1. refs[t][b] = 0 /\ b \in recorded
      BY <1>2 DEF commit_tenant_ref, BlobInv, RefsHaveBlobs
    <2>2. refs' = [refs EXCEPT ![t][b] = 1] /\ 1 \in 0 .. MaxRefs
      BY <1>0, <1>2, <2>1, BlobAssumption DEF commit_tenant_ref
    <2>3. /\ refs' \in [Tenants -> [Blobs -> 0 .. MaxRefs]]
          /\ \A u \in Tenants, c \in Blobs :
               refs'[u][c] = IF u = t /\ c = b THEN 1 ELSE refs[u][c]
      BY <1>0, <2>2, RefChanges
    <2>4. \A p \in inserting' : refs'[p[1]][p[2]] = 0
      BY <1>2, <2>3 DEF commit_tenant_ref, BlobInv, BlobTypeOK
    <2> QED BY <1>2, <2>1, <2>3, <2>4 DEF commit_tenant_ref, BlobInv, BlobTypeOK, RefsHaveBlobs
  <1>3. CASE increment_tenant_ref(t, b) \/ remove_tenant_ref(t, b)
    <2>1. PICK n \in 0 .. MaxRefs : refs' = [refs EXCEPT ![t][b] = n]
      BY <1>0, <1>3, BlobAssumption DEF increment_tenant_ref, remove_tenant_ref
    <2>2. /\ refs' \in [Tenants -> [Blobs -> 0 .. MaxRefs]]
          /\ \A u \in Tenants, c \in Blobs :
               refs'[u][c] = IF u = t /\ c = b THEN n ELSE refs[u][c]
      BY <1>0, <2>1, RefChanges
    <2>3. refs[t][b] > 0 /\ UNCHANGED <<recorded, older, file, inserting, gc>>
      BY <1>0, <1>3 DEF increment_tenant_ref, remove_tenant_ref
    <2>4. b \in recorded /\ <<t, b>> \notin inserting
      BY <2>3, <1>0 DEF BlobInv, RefsHaveBlobs
    <2>5. \A p \in inserting : refs'[p[1]][p[2]] = 0
      BY <2>2, <2>4, SMTT(30) DEF BlobInv, BlobTypeOK
    <2> QED BY <2>2, <2>3, <2>4, <2>5 DEF BlobInv, BlobTypeOK, RefsHaveBlobs
  <1> QED BY <1>1, <1>2, <1>3

\* The steps of a collection before its commit, and its death, change no row and no
\* reference; it takes a row only when no insert holds it.
LEMMA CollectingKeepsBlobs ==
    ASSUME BlobInv,
           \/ gc_select \/ gc_crash
           \/ \E b \in Blobs : gc_lock(b) \/ gc_delete(b) \/ gc_skip(b)
    PROVE  BlobInv'
  <1>1. CASE gc_select
    <2>1. Candidates \subseteq recorded
      BY DEF Candidates, Oldest
    <2> QED BY <1>1, <2>1, Zenon DEF gc_select, NoGc, BlobInv, BlobTypeOK, RefsHaveBlobs
  <1>2. CASE gc_crash
    BY <1>2 DEF gc_crash, NoGc, BlobInv, BlobTypeOK, RefsHaveBlobs
  <1>3. ASSUME NEW b \in Blobs, gc_lock(b) PROVE BlobInv'
    <2>1. b \in recorded /\ \A p \in inserting : p[2] # b
      <3>1. \A p \in inserting : p = <<p[1], p[2]>> /\ p[1] \in Tenants
        BY DEF BlobInv, BlobTypeOK
      <3>2. b \in gc.taken /\ \A t \in Tenants : <<t, b>> \notin inserting
        BY <1>3, Zenon DEF gc_lock
      <3>3. b \in recorded
        BY <3>2, Zenon DEF BlobInv
      <3> QED BY <3>1, <3>2, <3>3
    <2> DEFINE held == gc.locked \cup {b}
               at == IF held = gc.taken THEN "delete" ELSE "lock"
    <2>2. /\ gc' = [gc EXCEPT !.locked = held, !.at = at]
          /\ UNCHANGED <<recorded, older, file, refs, inserting>>
      BY <1>3, Zenon DEF gc_lock
    <2>3. at \in {"lock", "delete"} /\ (at = "delete" => gc.taken = held) /\ held \subseteq recorded
          /\ gc.deleted \subseteq held
      BY <2>1 DEF BlobInv, BlobTypeOK
    <2>4. \A p \in inserting : p[2] \notin held
      BY <2>1 DEF BlobInv
    <2> HIDE DEF held, at
    <2>5. gc' = [at |-> at, taken |-> gc.taken, locked |-> held, deleted |-> gc.deleted]
      BY <2>2, Zenon DEF BlobInv
    <2> QED BY <2>2, <2>3, <2>4, <2>5 DEF BlobInv, BlobTypeOK, RefsHaveBlobs
  <1>4. ASSUME NEW b \in Blobs, gc_delete(b) \/ gc_skip(b) PROVE BlobInv'
    BY <1>4 DEF gc_delete, gc_skip, BlobInv, BlobTypeOK, RefsHaveBlobs
  <1> QED BY <1>1, <1>2, <1>3, <1>4

\* The commit deletes rows that no insert holds, with all their references.
LEMMA CommitKeepsBlobs ==
    ASSUME BlobInv, gc_commit
    PROVE  BlobInv'
  <1>1. gc.deleted \subseteq gc.locked
    BY DEF BlobInv, BlobTypeOK
  <1>2. refs' \in [Tenants -> [Blobs -> 0 .. MaxRefs]]
    BY BlobAssumption DEF gc_commit, BlobInv, BlobTypeOK
  <1>3. recorded' \subseteq Blobs /\ older' \subseteq recorded' \X recorded'
    BY DEF gc_commit, BlobInv, BlobTypeOK
  <1>4. RefsHaveBlobs'
    BY <1>1 DEF gc_commit, BlobInv, BlobTypeOK, RefsHaveBlobs
  <1>5. \A p \in inserting : refs'[p[1]][p[2]] = 0
    BY DEF gc_commit, BlobInv, BlobTypeOK
  <1> QED BY <1>2, <1>3, <1>4, <1>5 DEF gc_commit, NoGc, BlobInv, BlobTypeOK

\* evidence_storage.py never leaves a reference, committed or being inserted, to a
\* blob without a row, however the collector's snapshot, locks, unlinks, commit and
\* death interleave with tenants that add and drop references.
THEOREM ReferencesAreKept == BlobSpec => [](BlobTypeOK /\ RefsHaveBlobs)
  <1>1. BlobInv /\ [BlobNext]_blobVars => BlobInv'
    <2> SUFFICES ASSUME BlobInv, [BlobNext]_blobVars PROVE BlobInv'
      OBVIOUS
    <2>1. CASE UNCHANGED blobVars
      BY <2>1 DEF blobVars, BlobInv, BlobTypeOK, RefsHaveBlobs
    <2> QED BY <2>1, StoringKeepsBlobs, ReferencingKeepsBlobs, CollectingKeepsBlobs,
               CommitKeepsBlobs DEF BlobNext, Collect
  <1>2. BlobInv => BlobTypeOK /\ RefsHaveBlobs
    BY DEF BlobInv
  <1> QED BY <1>1, <1>2, BlobInitInv, PTL DEF BlobSpec

---------------------------------------------------------------------------
(* Registrations: rows, reconcilers and requests.                          *)

Statuses == {"none", "pending"} \cup TERMINAL_STATUSES

\* A row of proof_events; nothing depends on its owner.
IsRow(r) ==
    /\ r = [id |-> r.id, owner |-> r.owner, held |-> r.held, status |-> r.status,
            expires |-> r.expires]
    /\ r.id \in Nat \ {0}
    /\ r.status \in Statuses

\* What a status claims about its transaction, the chain bears out.
Agrees(status, t) ==
    /\ status = "confirmed" => included[t].ledger > 0 /\ included[t].ok
    /\ status = "failed" => included[t].ledger > 0 /\ ~included[t].ok

RowSound(k) ==
    /\ IsRow(rows[k]) /\ rows[k].id <= last_id
    /\ TxOf[k] # NoTx => Agrees(rows[k].status, TxOf[k])

IdsDistinct == \A j, k \in Present : rows[j].id = rows[k].id => j = k

TableInv ==
    /\ rows = [k \in Keys |-> rows[k]]
    /\ last_id \in Nat /\ revoked \subseteq Proofs /\ receipts \subseteq 1 .. last_id
    /\ included \in [Txs -> [ledger : Nat, ok : BOOLEAN]] /\ ledger \in Nat
    /\ \A k \in Present : RowSound(k)
    /\ IdsDistinct
    /\ DeletionsAreReceipted

\* A reconciler holds a verdict from before; the chain still bears it out.
Sound(c) ==
    /\ c.at \in {"idle", "ask", "write"}
    /\ c.at = "write" =>
         /\ c.verdict \in TERMINAL_STATUSES
         /\ Head(c.page) \in Txs => Agrees(c.verdict, Head(c.page))

ReconcilerInv ==
    /\ reconciler = [r \in Reconcilers |-> reconciler[r]]
    /\ \A r \in Reconcilers : Sound(reconciler[r])

---------------------------------------------------------------------------
(* The table.                                                              *)

\* A hold and a verdict change one field of a row.
LEMMA RowChanges ==
    ASSUME NEW r, IsRow(r), NEW h, NEW s \in Statuses
    PROVE  /\ IsRow(Held(r, h)) /\ Held(r, h).id = r.id /\ Held(r, h).status = r.status
           /\ IsRow(WithStatus(r, s)) /\ WithStatus(r, s).id = r.id
           /\ WithStatus(r, s).status = s
  BY DEF IsRow, Held, WithStatus

\* A row is not the absence of one.
LEMMA RowIsPresent ==
    ASSUME NEW r, IsRow(r)
    PROVE  r # NoRow
  BY DEF IsRow, NoRow

\* Rows keep their ids, and whatever status they get the chain bears out.
LEMMA RowsRewritten ==
    ASSUME TableInv, UNCHANGED <<revoked, last_id, receipts, ledger, included>>,
           rows' = [k \in Keys |-> rows'[k]],
           \A k \in Keys :
             \/ rows'[k] = rows[k]
             \/ /\ k \in Present /\ IsRow(rows'[k]) /\ rows'[k].id = rows[k].id
                /\ TxOf[k] # NoTx => Agrees(rows'[k].status, TxOf[k])
    PROVE  TableInv'
  <1>1. Present' = Present /\ Present \subseteq Keys
    BY RowIsPresent DEF Present
  <1>2. \A k \in Present : rows'[k].id = rows[k].id
    BY <1>1
  <1>3. ASSUME NEW k \in Present PROVE RowSound(k)'
    <2>1. CASE rows'[k] = rows[k]
      BY <2>1 DEF TableInv, RowSound, Agrees
    <2>2. CASE /\ IsRow(rows'[k]) /\ rows'[k].id = rows[k].id
               /\ TxOf[k] # NoTx => Agrees(rows'[k].status, TxOf[k])
      BY <2>2, Zenon DEF TableInv, RowSound, Agrees
    <2> QED BY <1>1, <2>1, <2>2
  <1>4. Ids' = Ids
    BY <1>1, <1>2 DEF Ids
  <1>5. DeletionsAreReceipted'
    BY <1>4 DEF TableInv, DeletionsAreReceipted
  <1>6. IdsDistinct'
    <2> SUFFICES ASSUME NEW j \in Present, NEW k \in Present, rows'[j].id = rows'[k].id
                 PROVE  j = k
      BY <1>1 DEF IdsDistinct
    <2>1. rows[j].id = rows[k].id
      BY <1>2
    <2> QED BY <2>1, Zenon DEF TableInv, IdsDistinct
  <1> QED BY <1>1, <1>3, <1>5, <1>6 DEF TableInv

\* An insert takes the next id, which no row and no receipt has.
LEMMA InsertKeepsTable ==
    ASSUME TableInv, NEW k \in Keys, NEW o, NEW d \in Nat, NEW s \in Statuses,
           insert_row(k, o, d, s), UNCHANGED <<revoked, receipts, ledger, included>>
    PROVE  TableInv'
  <1> DEFINE n == [id |-> last_id + 1, owner |-> o, held |-> FALSE,
                   status |-> IF TxOf[k] # NoTx THEN "pending" ELSE s, expires |-> day + d]
  <1>1. /\ rows[k] = NoRow /\ last_id' = last_id + 1
        /\ rows' = [rows EXCEPT ![k] = n]
    BY DEF insert_row
  <1>2. IsRow(n) /\ n.id = last_id + 1 /\ (TxOf[k] # NoTx => n.status = "pending")
    BY DEF IsRow, TableInv, Statuses
  <1> HIDE DEF n
  <1>3. rows'[k] = n /\ \A j \in Keys : j # k => rows'[j] = rows[j]
    BY <1>1 DEF TableInv
  <1>4. rows' = [j \in Keys |-> rows'[j]]
    BY <1>1 DEF TableInv
  <1>5. Present' = Present \cup {k} /\ k \notin Present /\ Present \subseteq Keys
    BY <1>1, <1>2, <1>3, RowIsPresent DEF Present
  <1>6. ASSUME NEW j \in Present' PROVE RowSound(j)'
    <2>1. CASE j = k
      BY <1>1, <1>2, <1>3, <2>1 DEF RowSound, Agrees, TableInv, IsRow
    <2>2. CASE j # k
      BY <1>1, <1>3, <1>5, <2>2 DEF RowSound, Agrees, TableInv, IsRow
    <2> QED BY <2>1, <2>2
  <1>7. \A j \in Present : rows[j].id \in 1 .. last_id /\ rows'[j].id = rows[j].id
    <2>1. \A j \in Present : rows'[j] = rows[j]
      BY <1>3, <1>5
    <2>2. \A j \in Present : rows[j].id \in Nat \ {0} /\ rows[j].id <= last_id
      BY Zenon DEF TableInv, RowSound, IsRow
    <2> QED BY <2>1, <2>2, SMTT(30) DEF TableInv
  <1>8. IdsDistinct'
    <2> SUFFICES ASSUME NEW i \in Present \cup {k}, NEW j \in Present \cup {k},
                        rows'[i].id = rows'[j].id
                 PROVE  i = j
      BY <1>5 DEF IdsDistinct
    <2>1. \A i1 \in Present : rows'[i1].id # last_id + 1
      BY <1>7 DEF TableInv
    <2>2. CASE i \in Present /\ j \in Present
      BY <1>7, <2>2 DEF TableInv, IdsDistinct
    <2> QED BY <1>2, <1>3, <2>1, <2>2
  <1>9. Ids' = Ids \cup {last_id + 1}
    BY <1>2, <1>3, <1>5, <1>7 DEF Ids
  <1>10. DeletionsAreReceipted' /\ receipts \subseteq 1 .. last_id + 1
    BY <1>1, <1>9, SMTT(30) DEF TableInv, DeletionsAreReceipted
  <1> QED BY <1>1, <1>4, <1>6, <1>8, <1>10 DEF TableInv

\* A purge moves ids from the table to the receipts.
LEMMA PurgeKeepsTable ==
    ASSUME TableInv, purge_expired_events
    PROVE  TableInv'
  <1>1. /\ rows' = [k \in Keys |-> IF k \in PurgedRows THEN NoRow ELSE rows[k]]
        /\ receipts' = receipts \cup {rows[k].id : k \in PurgedRows}
        /\ UNCHANGED <<revoked, last_id, ledger, included>>
    BY DEF purge_expired_events
  <1>2. PurgedRows \subseteq Present /\ Present \subseteq Keys
    BY DEF PurgedRows, Expired, Present
  <1>3. /\ Present' = Present \ PurgedRows
        /\ \A k \in Present' : rows'[k] = rows[k]
    BY <1>1, <1>2 DEF Present
  <1>4. rows' = [k \in Keys |-> rows'[k]]
    BY <1>1
  <1>5. \A k \in Present' : RowSound(k)'
    BY <1>1, <1>3, Zenon DEF TableInv, RowSound, Agrees
  <1>6. IdsDistinct'
    BY <1>3 DEF TableInv, IdsDistinct
  <1>7. Ids' = {rows[k].id : k \in Present \ PurgedRows}
    BY <1>3 DEF Ids
  <1>8. {rows[k].id : k \in PurgedRows} \subseteq Ids
    BY <1>2 DEF Ids
  <1>9. Ids = Ids' \cup {rows[k].id : k \in PurgedRows}
    BY <1>2, <1>7, <1>8, Zenon DEF Ids
  <1>10. Ids' \cap {rows[k].id : k \in PurgedRows} = {}
    BY <1>2, <1>7 DEF TableInv, IdsDistinct
  <1>11. DeletionsAreReceipted' /\ receipts' \subseteq 1 .. last_id
    BY <1>1, <1>8, <1>9, <1>10 DEF TableInv, DeletionsAreReceipted
  <1> QED BY <1>1, <1>4, <1>5, <1>6, <1>11 DEF TableInv

\* A transaction that is on the chain stays as it is.
LEMMA ChainGrows ==
    ASSUME TableInv, CloseChainLedger
    PROVE  /\ \A t \in Txs : \A s : Agrees(s, t) => Agrees(s, t)'
           /\ included' \in [Txs -> [ledger : Nat, ok : BOOLEAN]] /\ ledger' \in Nat
  <1>1. ledger' \in Nat
    BY DEF CloseChainLedger, TableInv
  <1>2. CASE UNCHANGED included
    BY <1>1, <1>2 DEF Agrees, TableInv
  <1>3. ASSUME NEW t \in Txs, NEW ok \in BOOLEAN, included[t].ledger = 0,
               included' = [included EXCEPT ![t] = [ledger |-> ledger + 1, ok |-> ok]]
        PROVE  /\ \A u \in Txs : \A s : Agrees(s, u) => Agrees(s, u)'
               /\ included' \in [Txs -> [ledger : Nat, ok : BOOLEAN]]
    <2>1. included' \in [Txs -> [ledger : Nat, ok : BOOLEAN]]
      BY <1>3 DEF TableInv
    <2>2. \A u \in Txs : u # t => included'[u] = included[u]
      BY <1>3 DEF TableInv
    <2>3. \A s : Agrees(s, t) => s \notin {"confirmed", "failed"}
      BY <1>3 DEF Agrees
    <2>4. ASSUME NEW u \in Txs, NEW s, Agrees(s, u) PROVE Agrees(s, u)'
      BY <2>2, <2>3, <2>4 DEF Agrees
    <2> QED BY <2>1, <2>4
  <1> QED BY <1>1, <1>2, <1>3 DEF CloseChainLedger

---------------------------------------------------------------------------
(* Reconcilers.                                                            *)

\* A set of positions has a first one.
LEMMA FirstPosition ==
    ASSUME NEW T, T \subseteq Nat, T # {}
    PROVE  Earliest(T) \in T
  <1> DEFINE R == OpToRel(<, Nat)
  <1>1. IsWellFoundedOn(R, Nat)
    BY NatLessThanWellFounded, Zenon
  <1>2. PICK x \in T : \A y \in T : ~(<<y, x>> \in R)
    <2> HIDE DEF R
    <2> QED BY <1>1, WFMin, Zenon
  <1>3. \A y \in T : ~(y < x)
    BY <1>2, Zenon DEF OpToRel
  <1>4. \A y \in T : x <= y
    <2> HIDE DEF R
    <2> QED BY <1>3
  <1> QED BY <1>4, Zenon DEF Earliest

\* A server that knows the transaction tells what the chain says of it.
LEMMA FoundIsTrue ==
    ASSUME NEW t, NEW a \in Answers(t), a.kind = "found"
    PROVE  included[t].ledger > 0 /\ a.ok = included[t].ok
  BY DEF Answers

\* verify_transaction: a terminal verdict is borne out by the chain.
LEMMA VerdictSound ==
    ASSUME NEW t, NEW answers \in AllAnswers(t), NEW m,
           verify_transaction(answers, m) \in TERMINAL_STATUSES
    PROVE  Agrees(verify_transaction(answers, m), t)
  <1> DEFINE found == {i \in DOMAIN answers : answers[i].kind = "found"}
             first == answers[Earliest(found)]
             v == verify_transaction(answers, m)
  <1>1. CASE found = {}
    <2>1. v \in {"error", "missing"}
      BY <1>1 DEF verify_transaction
    <2> QED BY <2>1 DEF Agrees
  <1>2. CASE found # {}
    <2>1. Earliest(found) \in found
      BY <1>2, FirstPosition, SMTT(30) DEF AllAnswers
    <2>2. first \in Answers(t) /\ first.kind = "found"
      BY <2>1 DEF AllAnswers
    <2>3. included[t].ledger > 0 /\ first.ok = included[t].ok
      BY <2>2, FoundIsTrue
    <2>4. v = CASE ~first.ok -> "failed"
                [] first.ok /\ first.confirmations < m -> "pending"
                [] OTHER -> "confirmed"
      BY <1>2 DEF verify_transaction
    <2>5. (v = "confirmed" => first.ok) /\ (v = "failed" => ~first.ok)
      <3> HIDE DEF first, v
      <3> QED BY <2>4
    <2> QED BY <2>3, <2>5 DEF Agrees
  <1> QED BY <1>1, <1>2

\* One reconciler moves on.
LEMMA ReconcilerMoves ==
    ASSUME ReconcilerInv, UNCHANGED included, NEW r \in Reconcilers, NEW c, Sound(c),
           reconciler' = [reconciler EXCEPT ![r] = c]
    PROVE  ReconcilerInv'
  <1>1. reconciler'[r] = c /\ \A q \in Reconcilers : q # r => reconciler'[q] = reconciler[q]
    BY DEF ReconcilerInv
  <1>2. ASSUME NEW q \in Reconcilers PROVE Sound(reconciler[q])'
    <2>1. Sound(reconciler'[q])
      BY <1>1 DEF ReconcilerInv
    <2> QED BY <2>1 DEF Sound, Agrees
  <1> QED BY <1>2 DEF ReconcilerInv

\* A reconciler that rests or is about to ask holds no verdict yet.
LEMMA Waiting ==
    ASSUME NEW page, NEW force, NEW depth
    PROVE  Sound(Asking(page, force, depth)) /\ Sound(Idle)
  BY DEF Sound, Asking, Idle

\* A reconciler's step keeps the invariant.
LEMMA ReconcileStep ==
    ASSUME TableInv, ReconcilerInv, NEW r \in Reconcilers, Reconcile(r) \/ start_single(r)
    PROVE  TableInv' /\ ReconcilerInv'
  <1>1. ASSUME NEW c, Sound(c), become(r, c) PROVE TableInv' /\ ReconcilerInv'
    <2>1. UNCHANGED <<rows, revoked, last_id, receipts, ledger, included>>
      BY <1>1 DEF become
    <2>2. UNCHANGED <<Ids, Present>>
      BY <2>1 DEF Ids, Present
    <2>3. TableInv'
      BY <2>1, <2>2 DEF TableInv, RowSound, Agrees, IdsDistinct, DeletionsAreReceipted
    <2> QED BY <1>1, <2>1, <2>3, ReconcilerMoves, Zenon DEF become
  <1>2. CASE start_batch(r) \/ start_single(r)
    BY <1>1, <1>2, Waiting, Zenon DEF start_batch, start_single
  <1>3. ASSUME NEW answers \in AllAnswers(Head(reconciler[r].page)), ask_horizon(r, answers)
        PROVE  TableInv' /\ ReconcilerInv'
    <2> DEFINE c == reconciler[r]
               v == verify_transaction(answers, c.depth)
               w == [at |-> "write", page |-> c.page, force |-> c.force,
                     depth |-> c.depth, verdict |-> v]
    <2>1. CASE v \in TERMINAL_STATUSES
      <3>1. Agrees(v, Head(c.page))
        BY <2>1, VerdictSound
      <3>2. Sound(w)
        BY <2>1, <3>1 DEF Sound
      <3>3. become(r, w)
        BY <1>3, <2>1 DEF ask_horizon
      <3> QED BY <1>1, <3>2, <3>3
    <2>2. CASE v \notin TERMINAL_STATUSES
      <3>1. become(r, Asking(Tail(c.page), c.force, c.depth)) \/ become(r, Idle)
        BY <1>3, <2>2 DEF ask_horizon
      <3> QED BY <1>1, <3>1, Waiting
    <2> QED BY <2>1, <2>2
  <1>4. CASE update_tx_status(r)
    <2> DEFINE c == reconciler[r]
    <2>1. /\ c.at = "write" /\ rows' = Updated(Head(c.page), c.verdict, c.force)
          /\ UNCHANGED <<revoked, last_id, receipts, day, ledger, included>>
      BY <1>4 DEF update_tx_status
    <2>2. c.verdict \in Statuses /\ (Head(c.page) \in Txs => Agrees(c.verdict, Head(c.page)))
      BY <2>1, Zenon DEF ReconcilerInv, Sound, Statuses
    <2>3. rows' = [k \in Keys |-> rows'[k]]
      BY <2>1, ZenonT(30) DEF Updated
    <2>4. ASSUME NEW k \in Keys, rows'[k] # rows[k]
          PROVE  /\ k \in Present /\ IsRow(rows'[k]) /\ rows'[k].id = rows[k].id
                 /\ TxOf[k] # NoTx => Agrees(rows'[k].status, TxOf[k])
      <3>1. /\ k \in Present /\ TxOf[k] = Head(c.page)
            /\ rows'[k] = WithStatus(rows[k], c.verdict)
        BY <2>1, <2>4 DEF Updated
      <3>2. IsRow(rows[k])
        BY <3>1, SMTT(30) DEF TableInv, RowSound
      <3>3. TxOf[k] # NoTx => TxOf[k] \in Txs
        BY ProofEventsAssumption, Zenon DEF Txs
      <3> QED BY <2>2, <3>1, <3>2, <3>3, RowChanges, SMTT(30)
    <2>5. TableInv'
      BY <2>1, <2>3, <2>4, RowsRewritten
    <2>6. ReconcilerInv'
      BY <1>4, <2>1, Waiting, ReconcilerMoves, Zenon DEF update_tx_status
    <2> QED BY <2>5, <2>6
  <1> QED BY <1>2, <1>3, <1>4 DEF Reconcile

\* A step of the table's workers, or of the chain, keeps the table and what the
\* reconcilers hold, and gives out no id.
LEMMA StoreStep ==
    ASSUME TableInv, ReconcilerInv, StoreNext
    PROVE  TableInv' /\ ReconcilerInv' /\ last_id' = last_id
  <1>1. ASSUME NEW r \in Reconcilers, Reconcile(r) \/ start_single(r)
        PROVE  TableInv' /\ ReconcilerInv' /\ last_id' = last_id
    <2>1. last_id' = last_id
      BY <1>1, Zenon DEF Reconcile, start_single, start_batch, ask_horizon, update_tx_status, become
    <2> QED BY <1>1, <2>1, ReconcileStep
  <1>2. ASSUME NEW p \in Proofs, NEW hold \in BOOLEAN, set_legal_hold(p, hold)
        PROVE  TableInv' /\ ReconcilerInv' /\ last_id' = last_id
    <2>1. /\ rows' = [k \in Keys |-> IF k \in Present /\ ProofOf[k] = p
                                     THEN Held(rows[k], hold) ELSE rows[k]]
          /\ UNCHANGED <<revoked, last_id, receipts, day, ledger, included, reconciler>>
      BY <1>2 DEF set_legal_hold
    <2>2. rows' = [k \in Keys |-> rows'[k]]
      BY <2>1, Zenon
    <2>3. ASSUME NEW k \in Keys, rows'[k] # rows[k]
          PROVE  /\ k \in Present /\ IsRow(rows'[k]) /\ rows'[k].id = rows[k].id
                 /\ TxOf[k] # NoTx => Agrees(rows'[k].status, TxOf[k])
      <3>1. k \in Present /\ rows'[k] = Held(rows[k], hold)
        BY <2>1, <2>3
      <3>2. IsRow(rows[k]) /\ (TxOf[k] # NoTx => Agrees(rows[k].status, TxOf[k]))
        BY <3>1 DEF TableInv, RowSound
      <3>3. "none" \in Statuses
        BY Zenon DEF Statuses
      <3> QED BY <3>1, <3>2, <3>3, RowChanges, SMTT(30)
    <2>4. TableInv'
      BY <2>1, <2>2, <2>3, RowsRewritten, Zenon
    <2> QED BY <2>1, <2>4 DEF ReconcilerInv, Sound, Agrees
  <1>3. ASSUME NEW p \in Proofs, index_revocation(p)
        PROVE  TableInv' /\ ReconcilerInv' /\ last_id' = last_id
    <2>1. /\ revoked' \subseteq Proofs \/ ~(revoked \subseteq Proofs)
          /\ UNCHANGED <<rows, last_id, receipts, ledger, included, reconciler>>
      BY <1>3 DEF index_revocation
    <2>2. UNCHANGED <<Ids, Present>>
      BY <2>1 DEF Ids, Present
    <2> QED BY <2>1, <2>2, Zenon DEF TableInv, RowSound, Agrees, IdsDistinct,
                 DeletionsAreReceipted, ReconcilerInv, Sound
  <1>4. CASE purge_expired_events
    <2>1. UNCHANGED <<last_id, included, reconciler>>
      BY <1>4 DEF purge_expired_events
    <2> QED BY <1>4, <2>1, PurgeKeepsTable DEF ReconcilerInv, Sound, Agrees
  <1>5. CASE CloseChainLedger
    <2>1. UNCHANGED <<rows, revoked, last_id, receipts, reconciler>>
      BY <1>5 DEF CloseChainLedger
    <2>2. /\ \A t \in Txs : \A s : Agrees(s, t) => Agrees(s, t)'
          /\ included' \in [Txs -> [ledger : Nat, ok : BOOLEAN]] /\ ledger' \in Nat
      BY <1>5, ChainGrows
    <2>3. UNCHANGED <<Ids, Present>>
      BY <2>1 DEF Ids, Present
    <2>4. ASSUME NEW k \in Present PROVE RowSound(k)'
      <3>1. k \in Keys /\ RowSound(k)
        BY DEF Present, TableInv
      <3>2. TxOf[k] # NoTx => TxOf[k] \in Txs
        BY <3>1, ProofEventsAssumption DEF Txs
      <3>3. TxOf[k] # NoTx => Agrees(rows[k].status, TxOf[k])'
        BY <2>1, <2>2, <3>1, <3>2 DEF RowSound
      <3> QED BY <2>1, <3>1, <3>3 DEF RowSound
    <2>5. TableInv'
      BY <2>1, <2>2, <2>3, <2>4, Zenon DEF TableInv, IdsDistinct, DeletionsAreReceipted
    <2>6. ReconcilerInv'
      BY <2>1, <2>2 DEF ReconcilerInv, Sound
    <2> QED BY <2>1, <2>5, <2>6
  <1>6. CASE PassDay
    <2>1. UNCHANGED <<rows, revoked, last_id, receipts, ledger, included, reconciler>>
      BY <1>6 DEF PassDay
    <2>2. UNCHANGED <<Ids, Present>>
      BY <2>1 DEF Ids, Present
    <2> QED BY <2>1, <2>2, Zenon DEF TableInv, RowSound, Agrees, IdsDistinct,
                 DeletionsAreReceipted, ReconcilerInv, Sound
  <1> QED BY <1>1, <1>2, <1>3, <1>4, <1>5, <1>6 DEF StoreNext

\* What the table shows follows.
LEMMA TableShows ==
    ASSUME TableInv, ReconcilerInv
    PROVE  ProofEventsTypeOK /\ VerdictsMatchChain /\ DeletionsAreReceipted
  <1>1. ProofEventsTypeOK
    <2>1. ASSUME NEW k \in Present
          PROVE  rows[k].id \in 1 .. last_id /\ rows[k].status \in Statuses
      <3>1. rows[k].id \in Nat \ {0} /\ rows[k].id <= last_id /\ rows[k].status \in Statuses
        BY Zenon DEF TableInv, RowSound, IsRow
      <3> QED BY <3>1 DEF TableInv
    <2>2. \A r \in Reconcilers : reconciler[r].at \in {"idle", "ask", "write"}
      BY DEF ReconcilerInv, Sound
    <2> QED BY <2>1, <2>2 DEF TableInv, Statuses, ProofEventsTypeOK
  <1>2. ASSUME NEW k \in Present, TxOf[k] # NoTx
        PROVE  Agrees(rows[k].status, TxOf[k])
    BY <1>2 DEF TableInv, RowSound
  <1>3. ASSUME NEW p \in Proofs, batch_status(p) = "verified"
        PROVE  \E k \in Present : ProofOf[k] = p /\ (TxOf[k] = NoTx \/ included[TxOf[k]].ok)
    <2> DEFINE found == {rows[k].status : k \in {j \in Present : ProofOf[j] = p}}
    <2>1. "confirmed" \in found
      <3> HIDE DEF found
      <3>1. batch_status(p) =
               CASE p \in revoked -> "revoked"
                 [] p \notin revoked /\ found = {} -> "not_found"
                 [] p \notin revoked /\ "confirmed" \in found -> "verified"
                 [] p \notin revoked /\ "confirmed" \notin found /\ "failed" \in found -> "failed"
                 [] OTHER -> "pending"
        BY DEF batch_status, found
      <3> QED BY <1>3, <3>1
    <2>2. PICK k \in Present : ProofOf[k] = p /\ rows[k].status = "confirmed"
      BY <2>1
    <2> QED BY <1>2, <2>2 DEF Agrees
  <1>4. VerdictsMatchChain
    BY <1>2, <1>3 DEF VerdictsMatchChain, Agrees
  <1> QED BY <1>1, <1>4 DEF TableInv

---------------------------------------------------------------------------
(* Requests.                                                               *)

\* A request that is about to start the effects of a row is the one that inserted it,
\* and nothing has started them.
AboutToStart(s) ==
    s.at = "effects" =>
       s.id \in RowIds /\ s.id <= last_id /\ notices[s.id] = 0 /\ jobs[s.id] = 0

Carries(s) == s.at \notin {"free", "dead"} => s.digest \in Digests

EachItsOwn ==
    \A a, b \in Clients :
       client[a].at = "effects" /\ client[b].at = "effects" /\ client[a].id = client[b].id
          => a = b

RequestInv ==
    /\ client = [c \in Clients |-> client[c]]
    /\ \A c \in Clients : Carries(client[c]) /\ AboutToStart(client[c])
    /\ EachItsOwn
    /\ notices \in [RowIds -> Nat] /\ jobs \in [RowIds -> Nat]
    /\ \A i \in RowIds : /\ notices[i] <= 1 /\ jobs[i] <= notices[i]
                         /\ i > last_id => notices[i] = 0

\* A request moves on without starting anything.
LEMMA RequestMoves ==
    ASSUME RequestInv, NEW c \in Clients, NEW s, s.at # "effects", Carries(s), proceed(c, s),
           UNCHANGED <<notices, jobs, last_id>>
    PROVE  RequestInv'
  <1>1. /\ client'[c] = s /\ \A b \in Clients : b # c => client'[b] = client[b]
        /\ client' = [b \in Clients |-> client'[b]]
    BY DEF proceed, RequestInv
  <1>2. \A b \in Clients : Carries(client'[b])
    BY <1>1 DEF RequestInv
  <1>3. \A b \in Clients : AboutToStart(client'[b])
    BY <1>1, ZenonT(30) DEF RequestInv, AboutToStart
  <1>4. \A b \in Clients : AboutToStart(client[b])' /\ Carries(client[b])'
    BY <1>2, <1>3 DEF AboutToStart, Carries
  <1>5. EachItsOwn'
    BY <1>1 DEF RequestInv, EachItsOwn
  <1> QED BY <1>1, <1>4, <1>5 DEF RequestInv

\* The insert gives the request an id that nobody has.
LEMMA InsertStartsFresh ==
    ASSUME TableInv, RequestInv, NEW c \in Clients, insert_register_event(c)
    PROVE  TableInv' /\ RequestInv'
  <1> DEFINE s == [at |-> "effects", digest |-> client[c].digest, id |-> last_id + 1]
             q == Asked(c)
  <1>1. /\ client[c].at = "insert" /\ last_id < MaxRows /\ last_id' = last_id + 1
        /\ insert_row(q.key, q.owner, q.days, q.status) /\ proceed(c, s)
        /\ UNCHANGED <<revoked, receipts, ledger, included, notices, jobs>>
    BY Zenon DEF insert_register_event, insert_row
  <1>2. client[c].digest \in Digests
    BY <1>1, Zenon DEF RequestInv, Carries
  <1>3. q.key \in Keys /\ q.days \in Nat /\ q.status \in Statuses
    BY <1>2, RegisterAssumption, ZenonT(30) DEF Asked, Statuses
  <1>4. TableInv'
    BY <1>1, <1>3, InsertKeepsTable
  <1>5. last_id \in Nat /\ last_id + 1 \in RowIds
    BY <1>1, RegisterAssumption DEF TableInv, RowIds
  <1>6. /\ client'[c] = s /\ \A b \in Clients : b # c => client'[b] = client[b]
        /\ client' = [b \in Clients |-> client'[b]]
    BY <1>1 DEF proceed, RequestInv
  <1>7. s.at = "effects" /\ s.id = last_id + 1 /\ s.digest = client[c].digest
    OBVIOUS
  <1> HIDE DEF s, q
  <1>8. notices[last_id + 1] = 0 /\ jobs[last_id + 1] = 0
    BY <1>5 DEF RequestInv
  <1>9. ASSUME NEW b \in Clients PROVE AboutToStart(client[b])' /\ Carries(client[b])'
    <2>1. CASE b = c
      BY <1>1, <1>2, <1>5, <1>6, <1>7, <1>8, <2>1, SMTT(30) DEF AboutToStart, Carries
    <2>2. CASE b # c
      <3>1. AboutToStart(client[b]) /\ Carries(client[b])
        BY DEF RequestInv
      <3>2. RowIds \subseteq Nat
        BY DEF RowIds
      <3> QED BY <1>1, <1>5, <1>6, <2>2, <3>1, <3>2 DEF AboutToStart, Carries
    <2> QED BY <2>1, <2>2
  <1>10. \A b \in Clients : b # c /\ client'[b].at = "effects" => client'[b].id # last_id + 1
    <2>1. \A b \in Clients : client[b].at = "effects" => client[b].id \in RowIds /\ client[b].id <= last_id
      BY DEF RequestInv, AboutToStart
    <2> QED BY <1>5, <1>6, <2>1 DEF RowIds
  <1>11. EachItsOwn'
    BY <1>6, <1>7, <1>10 DEF EachItsOwn, RequestInv
  <1>12. \A i \in RowIds : i > last_id + 1 => notices[i] = 0
    BY <1>5 DEF RequestInv, RowIds
  <1> QED BY <1>1, <1>4, <1>6, <1>9, <1>11, <1>12, Zenon DEF RequestInv

\* The request that inserted the row starts its effects, and moves on.
LEMMA EffectsStartOnce ==
    ASSUME TableInv, RequestInv, NEW c \in Clients, run_effects(c)
    PROVE  RequestInv'
  <1> DEFINE s == [at |-> "answer", digest |-> client[c].digest, answer |-> "201"]
             i == client[c].id
  <1>1. /\ client[c].at = "effects" /\ proceed(c, s) /\ last_id' = last_id
        /\ notices' = [notices EXCEPT ![i] = @ + 1]
        /\ jobs' = jobs \/ jobs' = [jobs EXCEPT ![i] = @ + 1]
    BY Zenon DEF run_effects, proofEventVars
  <1>2. /\ i \in RowIds /\ i <= last_id /\ notices[i] = 0 /\ jobs[i] = 0
        /\ client[c].digest \in Digests
    BY <1>1 DEF RequestInv, AboutToStart, Carries
  <1>3. /\ notices' \in [RowIds -> Nat] /\ jobs' \in [RowIds -> Nat]
        /\ notices'[i] = 1 /\ jobs'[i] \in {0, 1}
        /\ \A j \in RowIds : j # i => notices'[j] = notices[j] /\ jobs'[j] = jobs[j]
    BY <1>1, <1>2 DEF RequestInv
  <1>4. /\ client'[c] = s /\ \A b \in Clients : b # c => client'[b] = client[b]
        /\ client' = [b \in Clients |-> client'[b]]
    BY <1>1 DEF proceed, RequestInv
  <1>5. s.at = "answer" /\ s.digest = client[c].digest
    OBVIOUS
  <1> HIDE DEF s
  <1>6. ASSUME NEW b \in Clients PROVE AboutToStart(client[b])' /\ Carries(client[b])'
    <2>1. CASE b = c
      BY <1>2, <1>4, <1>5, <2>1, ZenonT(30) DEF AboutToStart, Carries
    <2>2. CASE b # c
      <3>1. AboutToStart(client[b]) /\ Carries(client[b])
        BY DEF RequestInv
      <3>2. client[b].at = "effects" => client[b].id # i
        BY <1>1, <2>2 DEF RequestInv, EachItsOwn
      <3> QED BY <1>1, <1>3, <1>4, <2>2, <3>1, <3>2 DEF AboutToStart, Carries
    <2> QED BY <2>1, <2>2
  <1>7. EachItsOwn'
    BY <1>4, <1>5 DEF EachItsOwn, RequestInv
  <1>8. \A j \in RowIds : /\ notices'[j] <= 1 /\ jobs'[j] <= notices'[j]
                          /\ j > last_id => notices'[j] = 0
    BY <1>2, <1>3, SMTT(30) DEF RequestInv, RowIds, TableInv
  <1> QED BY <1>1, <1>3, <1>4, <1>6, <1>7, <1>8, Zenon DEF RequestInv

\* Every other step of a request only moves it.
LEMMA QuietSteps ==
    ASSUME RequestInv, NEW c \in Clients,
           \/ submit(c) \/ get_idempotency_record(c) \/ create_idempotency_record(c)
           \/ check_owner(c) \/ skip_register_event(c) \/ select_register_event(c)
           \/ finish(c) \/ store_error(c) \/ owner_lookup_failed(c) \/ effects_failed(c)
           \/ RequestDies(c) \/ again(c)
    PROVE  RequestInv' /\ UNCHANGED proofEventVars
  <1> DEFINE d == client[c].digest
             Moves == \E s : /\ s.at # "effects" /\ Carries(s) /\ proceed(c, s)
                             /\ UNCHANGED <<notices, jobs, proofEventVars>>
  <1>1. SUFFICES Moves
    BY <1>1, RequestMoves DEF proofEventVars
  <1>2. client[c].at \notin {"free", "dead"} => d \in Digests
    BY Zenon DEF RequestInv, Carries
  <1>3. CASE submit(c)
    <2>1. PICK e \in Digests : proceed(c, [at |-> "lookup", digest |-> e])
      BY <1>3, Zenon DEF submit
    <2> QED BY <1>3, <2>1, Zenon DEF submit, Carries
  <1>4. CASE get_idempotency_record(c)
    BY <1>2, <1>4, Zenon DEF get_idempotency_record, Carries, Done
  <1>5. CASE create_idempotency_record(c)
    BY <1>2, <1>5, Zenon DEF create_idempotency_record, Carries
  <1>6. CASE check_owner(c)
    BY <1>2, <1>6, ZenonT(30) DEF check_owner, Carries
  <1>7. CASE skip_register_event(c)
    BY <1>2, <1>7, Zenon DEF skip_register_event, Carries
  <1>8. CASE select_register_event(c)
    BY <1>2, <1>8 DEF select_register_event, Carries
  <1>9. CASE finish(c)
    BY <1>2, <1>9, Zenon DEF finish, Carries, Done
  <1>10. CASE store_error(c)
    BY <1>2, <1>10, ZenonT(30) DEF store_error, Carries, Done
  <1>11. CASE owner_lookup_failed(c)
    BY <1>2, <1>11, ZenonT(30) DEF owner_lookup_failed, Carries
  <1>12. CASE effects_failed(c)
    BY <1>2, <1>12, Zenon DEF effects_failed, Carries
  <1>13. CASE RequestDies(c) \/ again(c)
    BY <1>13, ZenonT(30) DEF RequestDies, again, Carries, Free
  <1> QED BY <1>3, <1>4, <1>5, <1>6, <1>7, <1>8, <1>9, <1>10, <1>11, <1>12, <1>13, Zenon

RecordInv == TableInv /\ ReconcilerInv /\ RequestInv

\* Nothing that the invariant reads changes.
LEMMA TableStays ==
    ASSUME TableInv, ReconcilerInv, UNCHANGED proofEventVars
    PROVE  TableInv' /\ ReconcilerInv'
  <1>1. UNCHANGED <<rows, revoked, last_id, receipts, ledger, included, reconciler>>
    BY DEF proofEventVars
  <1>2. UNCHANGED <<Ids, Present>>
    BY <1>1 DEF Ids, Present
  <1> QED BY <1>1, <1>2, Zenon DEF TableInv, RowSound, Agrees, IdsDistinct,
               DeletionsAreReceipted, ReconcilerInv, Sound

\* The invariant holds before the first request.
LEMMA RecordInit ==
    ASSUME ProofEventsInit, RegisterInit
    PROVE  RecordInv
  <1>1. Present = {} /\ Ids = {}
    BY DEF ProofEventsInit, Present, Ids
  <1>2. TableInv
    BY <1>1 DEF ProofEventsInit, TableInv, IdsDistinct, DeletionsAreReceipted
  <1>3. ReconcilerInv
    BY DEF ProofEventsInit, ReconcilerInv, Sound, Idle
  <1>4. \A c \in Clients : client[c] = [at |-> "free"]
    BY DEF RegisterInit, Free
  <1>5. RequestInv
    BY <1>4 DEF RegisterInit, RequestInv, AboutToStart, Carries, EachItsOwn
  <1> QED BY <1>2, <1>3, <1>5 DEF RecordInv

\* Every step of a client, a reconciler or the retention worker keeps the invariant.
LEMMA RecordStep ==
    ASSUME RecordInv, [RegisterNext]_<<requestVars, proofEventVars>>
    PROVE  RecordInv'
  <1>1. ASSUME NEW c \in Clients, insert_register_event(c) PROVE RecordInv'
    <2>1. UNCHANGED <<included, reconciler>>
      BY <1>1 DEF insert_register_event
    <2>2. ReconcilerInv'
      BY <2>1 DEF RecordInv, ReconcilerInv, Sound, Agrees
    <2> QED BY <1>1, <2>2, InsertStartsFresh, ZenonT(30) DEF RecordInv
  <1>2. ASSUME NEW c \in Clients, run_effects(c) PROVE RecordInv'
    <2>1. UNCHANGED proofEventVars
      BY <1>2 DEF run_effects
    <2> QED BY <1>2, <2>1, EffectsStartOnce, TableStays, ZenonT(30) DEF RecordInv
  <1>3. ASSUME NEW c \in Clients,
               submit(c) \/ Handle(c) \/ owner_lookup_failed(c)
                  \/ effects_failed(c) \/ RequestDies(c) \/ again(c)
        PROVE  RecordInv'
    BY <1>1, <1>2, <1>3, QuietSteps, TableStays DEF RecordInv, Handle
  <1>4. CASE StoreNext /\ UNCHANGED requestVars
    <2>1. UNCHANGED <<client, notices, jobs>>
      BY <1>4 DEF requestVars
    <2>2. TableInv' /\ ReconcilerInv' /\ last_id' = last_id
      BY <1>4, StoreStep DEF RecordInv
    <2>3. RequestInv'
      BY <2>1, <2>2 DEF RecordInv, RequestInv, AboutToStart, Carries, EachItsOwn
    <2> QED BY <2>2, <2>3 DEF RecordInv
  <1>5. CASE UNCHANGED <<requestVars, proofEventVars>>
    <2>1. UNCHANGED <<client, notices, jobs, last_id>> /\ UNCHANGED proofEventVars
      BY <1>5 DEF requestVars, proofEventVars
    <2>2. RequestInv'
      BY <2>1 DEF RecordInv, RequestInv, AboutToStart, Carries, EachItsOwn
    <2> QED BY <2>1, <2>2, TableStays DEF RecordInv
  <1> QED BY <1>3, <1>4, <1>5 DEF RegisterNext

\* The invariant holds in every behaviour.
LEMMA RecordInvariance ==
    RegisterSpec => []RecordInv
  <1>1. ProofEventsInit /\ RegisterInit => RecordInv
    BY RecordInit
  <1>2. RecordInv /\ [RegisterNext]_<<requestVars, proofEventVars>> => RecordInv'
    BY RecordStep
  <1> QED BY <1>1, <1>2, PTL DEF RegisterSpec

\* What proof_events says of a transaction is what the chain says, for any number of
\* requests, reconcilers and Horizon servers: verify_transaction takes up only answers
\* the chain bears out, and update_tx_status may write them late because a
\* transaction on the chain stays as it is.
THEOREM VerdictsAreBorneOut ==
    RegisterSpec => [](ProofEventsTypeOK /\ VerdictsMatchChain)
  <1>1. RecordInv => ProofEventsTypeOK /\ VerdictsMatchChain
    BY TableShows DEF RecordInv
  <1> QED BY <1>1, RecordInvariance, PTL

\* No row vanishes: an id that upsert_register_event gave out is in the table until
\* purge_expired_events moves it to the deletion receipts.
THEOREM RowsAreAccountedFor ==
    RegisterSpec => []DeletionsAreReceipted
  <1>1. RecordInv => DeletionsAreReceipted
    BY TableShows DEF RecordInv
  <1> QED BY <1>1, RecordInvariance, PTL

\* Concurrent copies of POST /api/proofs/register start a row's deliveries and its
\* verify_tx job at most once: only the request whose insert found the key free gets
\* to its effects, and it leaves them by whatever step it takes.
THEOREM RegistrationsAnnouncedOnce ==
    RegisterSpec => []EffectsAtMostOnce
  <1>1. RecordInv => EffectsAtMostOnce
    BY DEF RecordInv, RequestInv, EffectsAtMostOnce
  <1> QED BY <1>1, RecordInvariance, PTL
=============================================================================
