---------------------------- MODULE EvidenceBlobs ----------------------------
(***************************************************************************)
(* Encrypted evidence shared between tenants (evidence_storage.py): rows   *)
(* of blobs, counted references of tenants, files, and the retention       *)
(* worker's collection of blobs nobody refers to.  The collection is one   *)
(* database transaction, but its files are removed at once.  Its           *)
(* select ... for update sees the references of one snapshot and then      *)
(* locks the rows it found, waiting for whoever holds them; a new          *)
(* reference holds its blob's row from its insert to its commit, by the    *)
(* foreign key.  An uncommitted collection is in `gc`, an uncommitted      *)
(* reference in `inserting`.                                               *)
(***************************************************************************)
EXTENDS Naturals, FiniteSets

CONSTANTS Blobs,       \* content hashes
          Tenants,
          GcBatch,     \* rows one collection takes
          MaxRefs,     \* bound: references of one tenant to one blob
          MaxInserts,  \* bound: first references ever made
          MaxGcFaults  \* bound: failed unlinks and crashes

ASSUME BlobAssumption ==
    /\ MaxRefs \in Nat \ {0}
    /\ GcBatch \in Nat \ {0}

VARIABLES recorded,    \* the blobs with a row
          older,       \* the order of created_at: <<a, b>> when a was recorded before b
          file,        \* blobs with a file
          refs,        \* ref_count by tenant and blob, 0 without a row
          inserting,   \* references inserted and not committed
          inserts,     \* first references ever made
          gc,          \* the collection in progress
          gc_faults

blobVars == <<recorded, older, file, refs, inserting, inserts, gc, gc_faults>>

NoGc == [at |-> "idle", taken |-> {}, locked |-> {}, deleted |-> {}]

BlobInit ==
    /\ recorded = {} /\ older = {} /\ file = {}
    /\ refs = [t \in Tenants |-> [b \in Blobs |-> 0]]
    /\ inserting = {} /\ inserts = 0 /\ gc = NoGc /\ gc_faults = 0

Referenced(b) == \E t \in Tenants : refs[t][b] > 0

\* External caller: the encrypted file is written.
write_file(b) ==
    /\ b \notin file
    /\ file' = file \cup {b}
    /\ UNCHANGED <<recorded, older, refs, inserting, inserts, gc, gc_faults>>

\* record_blob: on conflict do nothing, after a deletion in progress.
record_blob(b) ==
    /\ b \in file /\ b \notin recorded
    /\ recorded' = recorded \cup {b}
    /\ older' = older \cup (recorded \X {b})
    /\ UNCHANGED <<file, refs, inserting, inserts, gc, gc_faults>>

\* record_tenant_ref, a tenant's first reference: the foreign key needs the row and
\* locks it until the commit.
insert_tenant_ref(t, b) ==
    /\ inserts < MaxInserts /\ inserts' = inserts + 1
    /\ refs[t][b] = 0 /\ <<t, b>> \notin inserting
    /\ b \in recorded /\ b \notin gc.locked
    /\ inserting' = inserting \cup {<<t, b>>}
    /\ UNCHANGED <<recorded, older, file, refs, gc, gc_faults>>

commit_tenant_ref(t, b) ==
    /\ <<t, b>> \in inserting
    /\ inserting' = inserting \ {<<t, b>>}
    /\ refs' = [refs EXCEPT ![t][b] = @ + 1]
    /\ UNCHANGED <<recorded, older, file, inserts, gc, gc_faults>>

\* record_tenant_ref of a tenant that has one: the count changes, no key does.
increment_tenant_ref(t, b) ==
    /\ refs[t][b] \in 1 .. MaxRefs - 1
    /\ refs' = [refs EXCEPT ![t][b] = @ + 1]
    /\ UNCHANGED <<recorded, older, file, inserting, inserts, gc, gc_faults>>

\* remove_tenant_ref: counts down, and deletes the last one.
remove_tenant_ref(t, b) ==
    /\ refs[t][b] > 0
    /\ refs' = [refs EXCEPT ![t][b] = @ - 1]
    /\ UNCHANGED <<recorded, older, file, inserting, inserts, gc, gc_faults>>

\* The oldest GcBatch of some rows.
Oldest(S) == {b \in S : Cardinality({a \in S : <<a, b>> \in older}) < GcBatch}

\* Mutant of Candidates: the oldest rows are taken before references are looked at.
Candidates_limit_first == {b \in Oldest(recorded) : ~Referenced(b)}

\* The blobs a collection finds: the oldest rows without a reference it can see.
Candidates == Oldest({b \in recorded : ~Referenced(b)})

\* collect_unreferenced_blobs: the snapshot of its select.
gc_select ==
    /\ gc = NoGc /\ Candidates # {}
    /\ gc' = [NoGc EXCEPT !.at = "lock", !.taken = Candidates]
    /\ UNCHANGED <<recorded, older, file, refs, inserting, inserts, gc_faults>>

\* `for update` gets a row once no insert holds it.  The row itself has not changed,
\* so its references are not looked at again.
gc_lock(b) ==
    /\ gc.at = "lock" /\ b \in gc.taken \ gc.locked
    /\ \A t \in Tenants : <<t, b>> \notin inserting
    /\ LET held == gc.locked \cup {b}
       IN  gc' = [gc EXCEPT !.locked = held, !.at = IF held = gc.taken THEN "delete" ELSE "lock"]
    /\ UNCHANGED <<recorded, older, file, refs, inserting, inserts, gc_faults>>

\* The file is unlinked, then the row deleted.
gc_delete(b) ==
    /\ gc.at = "delete" /\ b \in gc.taken \ gc.deleted
    /\ file' = file \ {b}
    /\ gc' = [gc EXCEPT !.deleted = @ \cup {b}]
    /\ UNCHANGED <<recorded, older, refs, inserting, inserts, gc_faults>>

\* The unlink fails: the row stays for the next run.
gc_skip(b) ==
    /\ gc_faults < MaxGcFaults
    /\ gc.at = "delete" /\ b \in gc.taken \ gc.deleted
    /\ gc' = [gc EXCEPT !.taken = @ \ {b}]
    /\ gc_faults' = gc_faults + 1
    /\ UNCHANGED <<recorded, older, file, refs, inserting, inserts>>

\* Mutant of gc_commit: the references of a deleted blob stay.
gc_commit_no_cascade ==
    /\ gc.at = "delete" /\ gc.taken = gc.deleted
    /\ recorded' = recorded \ gc.deleted
    /\ older' = {p \in older : p[1] \notin gc.deleted /\ p[2] \notin gc.deleted}
    /\ gc' = NoGc
    /\ UNCHANGED <<file, refs, inserting, inserts, gc_faults>>

\* The commit deletes the rows and, by the foreign key's cascade, their references.
gc_commit ==
    /\ gc.at = "delete" /\ gc.taken = gc.deleted
    /\ recorded' = recorded \ gc.deleted
    /\ older' = {p \in older : p[1] \notin gc.deleted /\ p[2] \notin gc.deleted}
    /\ refs' = [t \in Tenants |-> [b \in Blobs |-> IF b \in gc.deleted THEN 0 ELSE refs[t][b]]]
    /\ gc' = NoGc
    /\ UNCHANGED <<file, inserting, inserts, gc_faults>>

\* The worker dies: the transaction is undone, the unlinks are not.
gc_crash ==
    /\ gc_faults < MaxGcFaults
    /\ gc # NoGc
    /\ gc' = NoGc
    /\ gc_faults' = gc_faults + 1
    /\ UNCHANGED <<recorded, older, file, refs, inserting, inserts>>

Collect == gc_select \/ gc_commit \/ \E b \in Blobs : gc_lock(b) \/ gc_delete(b)

BlobNext ==
    \/ \E b \in Blobs : write_file(b) \/ record_blob(b) \/ gc_skip(b)
    \/ \E t \in Tenants, b \in Blobs :
          \/ insert_tenant_ref(t, b) \/ commit_tenant_ref(t, b)
          \/ increment_tenant_ref(t, b) \/ remove_tenant_ref(t, b)
    \/ Collect
    \/ gc_crash

BlobSpec == BlobInit /\ [][BlobNext]_blobVars

-----------------------------------------------------------------------------
BlobTypeOK ==
    /\ recorded \subseteq Blobs /\ older \subseteq recorded \X recorded /\ file \subseteq Blobs
    /\ refs \in [Tenants -> [Blobs -> 0 .. MaxRefs]]
    /\ inserting \subseteq Tenants \X Blobs
    /\ gc.deleted \subseteq gc.locked /\ gc.locked \subseteq recorded

\* A reference, also one that is being inserted, is to a blob that has a row,
\* whatever a collection in progress does.
RefsHaveBlobs ==
    /\ \A t \in Tenants, b \in Blobs : refs[t][b] > 0 => b \in recorded
    /\ \A p \in inserting : p[2] \in recorded

\* A blob that nobody refers to is collected in the end, although unlinks fail,
\* collections die, each takes a bounded batch and new references make it wait.
UnreferencedIsCollected ==
    \A b \in Blobs : (b \in recorded /\ ~Referenced(b)) ~> (b \notin recorded \/ Referenced(b))
=============================================================================
