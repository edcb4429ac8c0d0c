----------------------------- MODULE WorkProofs -----------------------------
(***************************************************************************)
(* What outlives a request, for every value of the constants: jobs and     *)
(* their files, resumable uploads, and the two ledgers of the database,    *)
(* that of its migrations and that of the lineage of artifacts.            *)
(***************************************************************************)
EXTENDS Uploads, Lineage, TLAPS

\* The next chunk of a commit, the least listed one, is below the others.
LEMMA LeastIsBelow ==
    ASSUME NEW S \in SUBSET Int, NEW i \in S, \A k \in S : i <= k, NEW j \in S \ {i}
    PROVE  i < j
  OBVIOUS

\* The indexes of chunks are numbers.
LEMMA IndexesAreNumbers == ChunkIndexes \in SUBSET Int
  BY UploadAssumption

\* Only one member of a set is least: two processes that hold the first pending migration
\* hold the same one.
LEMMA LeastIsUnique ==
    ASSUME NEW S \in SUBSET Int, NEW i \in S, \A k \in S : i <= k, NEW j \in S, \A k \in S : j <= k
    PROVE  i = j
  OBVIOUS

\* A count taken before a row was appended is neither ahead of the rows nor equal to them.
LEMMA AppendedAfter ==
    ASSUME NEW n \in Nat, NEW began \in Nat, began <= n
    PROVE  began <= n + 1 /\ began # n + 1 /\ 0 <= n + 1
  OBVIOUS

\* An empty sequence has no elements.
LEMMA NothingInEmpty == Range(<<>>) = {}
  BY DEF Range

---------------------------------------------------------------------------
(* Media jobs.                                                             *)

Thread == [job : JobIds, born : Nat, kind : Kinds,
           at : {"work", "complete", "retry", "fatal"}]

Own(file, number) == file # NoFile /\ file.by = number

JobTypeOK ==
    /\ store \in [JobIds -> Job \cup {NoJob}] /\ next_id \in Nat /\ born \in Nat
    /\ in_file \in [JobIds -> JobFile \cup {NoFile}]
    /\ out_file \in [JobIds -> JobFile \cup {NoFile}]
    /\ threads \in SUBSET Thread /\ stopping \in BOOLEAN /\ today \in Nat
    /\ \A t, u \in threads : t = u

\* Ids are handed out in order.
NextIsFree == \A j \in JobIds : j >= next_id => store[j] = NoJob

\* A thread works on the job it leased; it has its input until the output is there,
\* and at shutdown, when others may change the job, no time passes.
Working(t) ==
    /\ store[t.job] # NoJob /\ store[t.job].born = t.born /\ store[t.job].kind = t.kind
    /\ store[t.job].completed = NoFile
    /\ ~stopping => store[t.job].status = "running"
    /\ stopping => store[t.job].failed = today
    /\ t.at # "complete" => Own(in_file[t.job], t.born)
    /\ t.at = "complete" => in_file[t.job] = NoFile
    /\ t.at = "complete" /\ t.kind = "embed" => Own(out_file[t.job], t.born)

\* A job that is not done has no completion time and, unless a thread used it up, its input.
Awaits(j) ==
    store[j] # NoJob /\ store[j].status \in {"pending", "running"} =>
       /\ store[j].completed = NoFile
       /\ \/ Own(in_file[j], store[j].born)
          \/ in_file[j] = NoFile /\ \E t \in threads : t.job = j /\ t.at = "complete"

\* A completed embedding has its output until it is purged.
Delivers(j) ==
    store[j] # NoJob /\ store[j].status = "completed" /\ store[j].kind = "embed"
       /\ ~store[j].purged => Own(out_file[j], store[j].born)

JobInv ==
    /\ JobTypeOK /\ NextIsFree
    /\ \A t \in threads : Working(t)
    /\ \A j \in JobIds : Awaits(j) /\ Delivers(j)

\* What the store's updates write.
LEMMA JobFields ==
    ASSUME NEW job \in Job, today \in Nat, NEW s \in {"pending", "running"} \cup Terminal,
           NEW fatal \in BOOLEAN
    PROVE  /\ InStatus(job, s) \in Job /\ InStatus(job, s).status = s
           /\ InStatus(job, s).born = job.born /\ InStatus(job, s).kind = job.kind
           /\ InStatus(job, s).purged = job.purged /\ InStatus(job, s).failed = job.failed
           /\ InStatus(job, s).completed = job.completed
           /\ Completed(job) \in Job /\ Completed(job).status = "completed"
           /\ Completed(job).born = job.born /\ Completed(job).kind = job.kind
           /\ Completed(job).purged = job.purged
           /\ Purged(job) \in Job /\ Purged(job).status = job.status
           /\ Purged(job).born = job.born /\ Purged(job).kind = job.kind /\ Purged(job).purged
           /\ Purged(job).completed = job.completed /\ Purged(job).failed = job.failed
           /\ Failed(job, fatal) \in Job
           /\ Failed(job, fatal).status = IF fatal THEN "failed" ELSE "pending"
           /\ Failed(job, fatal).born = job.born /\ Failed(job, fatal).kind = job.kind
           /\ Failed(job, fatal).purged = job.purged /\ Failed(job, fatal).failed = today
           /\ Failed(job, fatal).completed = job.completed
  <1>1. /\ InStatus(job, s) \in Job /\ InStatus(job, s).status = s
        /\ InStatus(job, s).born = job.born /\ InStatus(job, s).kind = job.kind
        /\ InStatus(job, s).purged = job.purged /\ InStatus(job, s).failed = job.failed
        /\ InStatus(job, s).completed = job.completed
    BY DEF Job, InStatus
  <1>2. /\ Completed(job) \in Job /\ Completed(job).status = "completed"
        /\ Completed(job).born = job.born /\ Completed(job).kind = job.kind
        /\ Completed(job).purged = job.purged
    BY Zenon DEF Job, Completed, Terminal
  <1>3. /\ Purged(job) \in Job /\ Purged(job).status = job.status
        /\ Purged(job).born = job.born /\ Purged(job).kind = job.kind /\ Purged(job).purged
        /\ Purged(job).completed = job.completed /\ Purged(job).failed = job.failed
    BY Zenon DEF Job, Purged
  <1>4. /\ Failed(job, fatal) \in Job
        /\ Failed(job, fatal).status = IF fatal THEN "failed" ELSE "pending"
        /\ Failed(job, fatal).born = job.born /\ Failed(job, fatal).kind = job.kind
        /\ Failed(job, fatal).purged = job.purged /\ Failed(job, fatal).failed = today
        /\ Failed(job, fatal).completed = job.completed
    BY Zenon DEF Job, Failed, Terminal
  <1> QED BY <1>1, <1>2, <1>3, <1>4

\* A job is enqueued under an id that is free, with its input.
LEMMA EnqueueKeepsJobs ==
    ASSUME JobInv, enqueue_job
    PROVE  JobInv'
  <1>0. JobTypeOK /\ NextIsFree /\ NoJob \notin Job /\ NoFile \notin JobFile /\ JobIds \subseteq Nat
    BY JobAssumption DEF JobInv
  <1>1. PICK kind \in Kinds : /\ SetJob(next_id, NewJob(kind))
                              /\ in_file' = [in_file EXCEPT ![next_id] = FileOf(NewJob(kind))]
    BY Zenon DEF enqueue_job
  <1>2. /\ next_id \in JobIds /\ next_id' = next_id + 1 /\ born' = born + 1
        /\ UNCHANGED <<stopping, out_file, threads, today>>
    BY DEF enqueue_job
  <1> DEFINE n == NewJob(kind)
             f == FileOf(NewJob(kind))
  <1>3. /\ n \in Job /\ n.status = "pending" /\ n.born = born + 1 /\ n.completed = NoFile
        /\ f \in JobFile /\ f.by = born + 1
    BY <1>0 DEF JobTypeOK, Job, JobFile, NewJob, FileOf
  <1> HIDE DEF n, f
  <1>4. /\ store'[next_id] = n /\ \A j \in JobIds : j # next_id => store'[j] = store[j]
        /\ store' \in [JobIds -> Job \cup {NoJob}]
    BY <1>0, <1>1, <1>2, <1>3 DEF SetJob, JobTypeOK, n
  <1>5. /\ in_file'[next_id] = f /\ \A j \in JobIds : j # next_id => in_file'[j] = in_file[j]
        /\ in_file' \in [JobIds -> JobFile \cup {NoFile}]
    BY <1>0, <1>1, <1>2, <1>3 DEF JobTypeOK, f
  <1>6. JobTypeOK'
    BY <1>0, <1>2, <1>4, <1>5 DEF JobTypeOK
  <1>7. NextIsFree'
    BY <1>0, <1>2, <1>4 DEF NextIsFree, JobTypeOK
  <1>8. store[next_id] = NoJob
    BY <1>0, <1>2 DEF NextIsFree, JobTypeOK
  <1>9. ASSUME NEW t \in threads' PROVE Working(t)'
    <2>1. t \in threads /\ Working(t) /\ t.job \in JobIds /\ t.job # next_id
      BY <1>0, <1>2, <1>8 DEF JobInv, Working, JobTypeOK, Thread
    <2> QED BY <1>2, <1>4, <1>5, <2>1 DEF Working, Own
  <1>10. ASSUME NEW j \in JobIds PROVE Awaits(j)' /\ Delivers(j)'
    <2>1. CASE j = next_id
      BY <1>0, <1>3, <1>4, <1>5, <2>1 DEF Awaits, Delivers, Own
    <2>2. CASE j # next_id
      BY <1>2, <1>4, <1>5, <2>2 DEF JobInv, Awaits, Delivers, Own
    <2> QED BY <2>1, <2>2
  <1> QED BY <1>6, <1>7, <1>9, <1>10 DEF JobInv

\* Cancelling takes a pending job out of the queue, also one whose thread runs on at
\* shutdown.
LEMMA CancelKeepsJobs ==
    ASSUME JobInv, NEW i \in JobIds, cancel_job(i)
    PROVE  JobInv'
  <1>0. JobTypeOK /\ NextIsFree /\ NoJob \notin Job /\ JobIds \subseteq Nat
    BY JobAssumption DEF JobInv
  <1>1. /\ store[i] # NoJob /\ store[i].status = "pending"
        /\ SetJob(i, InStatus(store[i], "cancelled"))
        /\ UNCHANGED <<stopping, next_id, born, in_file, out_file, threads, today>>
    BY DEF cancel_job
  <1>2. store[i] \in Job
    BY <1>0, <1>1 DEF JobTypeOK
  <1> DEFINE n == InStatus(store[i], "cancelled")
  <1>3. /\ n \in Job /\ n.status = "cancelled" /\ n.born = store[i].born
        /\ n.kind = store[i].kind /\ n.failed = store[i].failed
        /\ n.completed = store[i].completed
    BY <1>2 DEF Job, InStatus, Terminal
  <1>4. store'[i] = n /\ \A j \in JobIds : j # i => store'[j] = store[j]
    BY <1>0, <1>1 DEF SetJob, JobTypeOK
  <1>5. store' \in [JobIds -> Job \cup {NoJob}]
    BY <1>0, <1>1, <1>3 DEF SetJob, JobTypeOK
  <1> HIDE DEF n
  <1>6. JobTypeOK'
    BY <1>0, <1>1, <1>5 DEF JobTypeOK
  <1>7. NextIsFree'
    BY <1>0, <1>1, <1>4 DEF NextIsFree, JobTypeOK
  <1>8. ASSUME NEW t \in threads' PROVE Working(t)'
    <2>1. t \in threads /\ Working(t) /\ t.job \in JobIds
      BY <1>0, <1>1 DEF JobInv, JobTypeOK, Thread
    <2>2. CASE t.job = i
      BY <1>0, <1>1, <1>3, <1>4, <2>1, <2>2 DEF Working, Own
    <2>3. CASE t.job # i
      BY <1>1, <1>4, <2>1, <2>3 DEF Working, Own
    <2> QED BY <2>2, <2>3
  <1>9. ASSUME NEW j \in JobIds PROVE Awaits(j)' /\ Delivers(j)'
    <2>1. CASE j = i
      BY <1>3, <1>4, <2>1 DEF Awaits, Delivers
    <2>2. CASE j # i
      BY <1>1, <1>4, <2>2 DEF JobInv, Awaits, Delivers, Own
    <2> QED BY <2>1, <2>2
  <1> QED BY <1>6, <1>7, <1>8, <1>9 DEF JobInv

\* The worker leases a job that still has its input, and starts its only thread.
LEMMA LeaseKeepsJobs ==
    ASSUME JobInv, NEW i \in JobIds, lease_job(i)
    PROVE  JobInv'
  <1>0. JobTypeOK /\ NextIsFree /\ NoJob \notin Job /\ JobIds \subseteq Nat
    BY JobAssumption DEF JobInv
  <1> DEFINE u == [job |-> i, born |-> store[i].born, kind |-> store[i].kind, at |-> "work"]
             n == InStatus(store[i], "running")
  <1>1. /\ store[i] # NoJob /\ store[i].status = "pending" /\ threads = {} /\ ~stopping
        /\ SetJob(i, n) /\ threads' = {u}
        /\ UNCHANGED <<stopping, next_id, born, in_file, out_file, today>>
    BY DEF lease_job
  <1>2. store[i] \in Job
    BY <1>0, <1>1 DEF JobTypeOK
  <1>3. /\ n \in Job /\ n.status = "running" /\ n.born = store[i].born
        /\ n.kind = store[i].kind /\ n.completed = store[i].completed
        /\ u \in Thread /\ u.job = i /\ u.born = store[i].born /\ u.kind = store[i].kind
        /\ u.at = "work"
    BY <1>2 DEF Job, InStatus, Thread
  <1>4. store'[i] = n /\ \A j \in JobIds : j # i => store'[j] = store[j]
    BY <1>0, <1>1 DEF SetJob, JobTypeOK
  <1>5. store' \in [JobIds -> Job \cup {NoJob}]
    BY <1>0, <1>1, <1>3 DEF SetJob, JobTypeOK
  <1> HIDE DEF n, u
  <1>6. JobTypeOK'
    BY <1>0, <1>1, <1>3, <1>5 DEF JobTypeOK
  <1>7. NextIsFree'
    BY <1>0, <1>1, <1>4 DEF NextIsFree, JobTypeOK
  <1>8. Own(in_file[i], store[i].born) /\ store[i].completed = NoFile
    BY <1>1 DEF JobInv, Awaits
  <1>9. ASSUME NEW t \in threads' PROVE Working(t)'
    BY <1>0, <1>1, <1>3, <1>4, <1>8 DEF Working, Own
  <1>10. ASSUME NEW j \in JobIds PROVE Awaits(j)' /\ Delivers(j)'
    <2>1. CASE j = i
      BY <1>1, <1>3, <1>4, <1>8, <2>1 DEF Awaits, Delivers, Own
    <2>2. CASE j # i
      BY <1>1, <1>4, <2>2 DEF JobInv, Awaits, Delivers, Own
    <2> QED BY <2>1, <2>2
  <1> QED BY <1>6, <1>7, <1>9, <1>10 DEF JobInv

\* What is known of the only thread, and of the jobs it does not work on.
LEMMA OnlyThread ==
    ASSUME JobInv, NEW t \in threads
    PROVE  /\ threads = {t} /\ t \in Thread /\ t.job \in JobIds /\ t.born \in Nat
           /\ t.kind \in Kinds
           /\ Working(t) /\ store[t.job] \in Job
           /\ \A j \in JobIds \ {t.job} :
                 store[j] # NoJob /\ store[j].status \in {"pending", "running"} =>
                    store[j].completed = NoFile /\ Own(in_file[j], store[j].born)
  <1>1. threads = {t} /\ t \in Thread /\ Working(t)
    BY DEF JobInv, JobTypeOK
  <1>2. t.job \in JobIds /\ t.born \in Nat /\ t.kind \in Kinds
    BY <1>1 DEF Thread
  <1>3. store[t.job] \in Job
    BY <1>1, <1>2 DEF JobInv, JobTypeOK, Working
  <1>4. \A j \in JobIds \ {t.job} :
           store[j] # NoJob /\ store[j].status \in {"pending", "running"} =>
              store[j].completed = NoFile /\ Own(in_file[j], store[j].born)
    BY <1>1 DEF JobInv, Awaits
  <1> QED BY <1>1, <1>2, <1>3, <1>4

\* The thread writes the output of the job it leased and uses up that job's input.
LEMMA ProcessKeepsJobs ==
    ASSUME JobInv, NEW t \in threads, process_job(t)
    PROVE  JobInv'
  <1>0. JobTypeOK /\ NextIsFree /\ NoFile \notin JobFile
    BY JobAssumption DEF JobInv
  <1>1. /\ threads = {t} /\ t \in Thread /\ t.job \in JobIds /\ t.born \in Nat /\ t.kind \in Kinds
        /\ Working(t) /\ store[t.job] \in Job
        /\ \A j \in JobIds \ {t.job} :
                 store[j] # NoJob /\ store[j].status \in {"pending", "running"} =>
                    store[j].completed = NoFile /\ Own(in_file[j], store[j].born)
    BY OnlyThread
  <1>2. t.at = "work" /\ UNCHANGED <<stopping, store, next_id, born, today>>
    BY DEF process_job
  <1>3. PICK step \in {"complete", "retry", "fatal"} :
           /\ Becomes(t, step)
           /\ step = "complete" =>
                 /\ out_file' = IF t.kind # "embed" THEN out_file
                                ELSE [out_file EXCEPT ![t.job] = [by |-> t.born, day |-> today]]
                 /\ in_file' = [in_file EXCEPT ![t.job] = NoFile]
           /\ step # "complete" => UNCHANGED <<in_file, out_file>>
    BY DEF process_job
  <1> DEFINE u == [t EXCEPT !.at = step]
             f == [by |-> t.born, day |-> today]
  <1>4. /\ threads' = {u} /\ u \in Thread /\ u.job = t.job /\ u.born = t.born
        /\ u.kind = t.kind /\ u.at = step
    BY <1>1, <1>3 DEF Becomes, Thread
  <1>5. f \in JobFile /\ f.by = t.born /\ f # NoFile
    BY <1>0, <1>1 DEF JobTypeOK, JobFile
  <1> HIDE DEF u
  <1>6. /\ in_file' \in [JobIds -> JobFile \cup {NoFile}]
        /\ out_file' \in [JobIds -> JobFile \cup {NoFile}]
        /\ \A j \in JobIds \ {t.job} : in_file'[j] = in_file[j] /\ out_file'[j] = out_file[j]
        /\ step = "complete" => in_file'[t.job] = NoFile
        /\ step = "complete" /\ t.kind = "embed" => out_file'[t.job] = f
        /\ step = "complete" /\ t.kind # "embed" => out_file'[t.job] = out_file[t.job]
    BY <1>0, <1>1, <1>3, <1>5 DEF JobTypeOK
  <1> HIDE DEF f
  <1>7. JobTypeOK' /\ NextIsFree'
    BY <1>0, <1>2, <1>4, <1>6 DEF JobTypeOK, NextIsFree
  <1>8. Working(u)'
    <2>1. CASE step = "complete"
      BY <1>1, <1>2, <1>4, <1>5, <1>6, <2>1 DEF Working, Own
    <2>2. CASE step # "complete"
      BY <1>1, <1>2, <1>3, <1>4, <2>2 DEF Working, Own
    <2> QED BY <2>1, <2>2
  <1>9. \A s \in threads' : Working(s)'
    BY <1>4, <1>8
  <1>10. ASSUME NEW j \in JobIds PROVE Awaits(j)'
    <2>1. CASE j # t.job
      BY <1>1, <1>2, <1>6, <2>1 DEF Awaits, Own
    <2>2. CASE j = t.job /\ step = "complete"
      BY <1>1, <1>2, <1>4, <1>6, <2>2 DEF Awaits, Working
    <2>3. CASE j = t.job /\ step # "complete"
      BY <1>1, <1>2, <1>3, <2>3 DEF Awaits, Working, Own
    <2> QED BY <2>1, <2>2, <2>3
  <1>11. ASSUME NEW j \in JobIds PROVE Delivers(j)'
    <2>0. Delivers(j)
      BY DEF JobInv
    <2>1. CASE j # t.job
      BY <1>2, <1>6, <2>0, <2>1 DEF Delivers, Own
    <2>2. CASE j = t.job /\ step = "complete"
      BY <1>1, <1>2, <1>5, <1>6, <2>0, <2>2 DEF Delivers, Working, Own
    <2>3. CASE j = t.job /\ step # "complete"
      BY <1>2, <1>3, <2>0, <2>3 DEF Delivers, Own
    <2> QED BY <2>1, <2>2, <2>3
  <1> QED BY <1>7, <1>9, <1>10, <1>11 DEF JobInv

\* The thread's last step on its job: it is completed with the output there is, or put
\* back or failed with the input there still is.
LEMMA EndKeepsJobs ==
    ASSUME JobInv, NEW t \in threads, complete_job(t) \/ fail_job(t)
    PROVE  JobInv'
  <1>0. JobTypeOK /\ NextIsFree /\ NoJob \notin Job /\ JobIds \subseteq Nat
    BY JobAssumption DEF JobInv
  <1>1. /\ threads = {t} /\ t \in Thread /\ t.job \in JobIds /\ t.born \in Nat /\ t.kind \in Kinds
        /\ Working(t) /\ store[t.job] \in Job
        /\ \A j \in JobIds \ {t.job} :
                 store[j] # NoJob /\ store[j].status \in {"pending", "running"} =>
                    store[j].completed = NoFile /\ Own(in_file[j], store[j].born)
    BY OnlyThread
  <1>2. PICK n : /\ SetJob(t.job, n)
                 /\ \/ n = Completed(store[t.job]) /\ t.at = "complete"
                    \/ n = Failed(store[t.job], t.at = "fatal") /\ t.at # "complete"
    BY DEF complete_job, fail_job
  <1>3. threads' = {} /\ UNCHANGED <<stopping, next_id, born, in_file, out_file, today>>
    BY DEF complete_job, fail_job
  <1>4. /\ n \in Job /\ n.born = store[t.job].born /\ n.kind = store[t.job].kind
        /\ \/ n.status = "completed" /\ t.at = "complete"
           \/ /\ n.status \in {"pending", "failed"} /\ t.at # "complete"
              /\ n.completed = store[t.job].completed
    <2>1. CASE n = Completed(store[t.job]) /\ t.at = "complete"
      BY <1>0, <1>1, <2>1, JobFields DEF JobTypeOK
    <2>2. CASE n = Failed(store[t.job], t.at = "fatal") /\ t.at # "complete"
      <3>1. (t.at = "fatal") \in BOOLEAN
        OBVIOUS
      <3>2. /\ n \in Job /\ n.born = store[t.job].born /\ n.kind = store[t.job].kind
            /\ n.status = IF t.at = "fatal" THEN "failed" ELSE "pending"
            /\ n.completed = store[t.job].completed
        BY <1>0, <1>1, <2>2, <3>1, JobFields, Zenon DEF JobTypeOK
      <3> QED BY <2>2, <3>2
    <2> QED BY <1>2, <2>1, <2>2
  <1>5. store'[t.job] = n /\ \A j \in JobIds : j # t.job => store'[j] = store[j]
    BY <1>0, <1>1, <1>2 DEF SetJob, JobTypeOK
  <1>6. store' \in [JobIds -> Job \cup {NoJob}]
    BY <1>0, <1>1, <1>2, <1>4 DEF SetJob, JobTypeOK
  <1>7. JobTypeOK'
    BY <1>0, <1>3, <1>6 DEF JobTypeOK
  <1>8. NextIsFree'
    BY <1>0, <1>1, <1>3, <1>5 DEF NextIsFree, JobTypeOK, Working
  <1>9. ASSUME NEW j \in JobIds PROVE Awaits(j)' /\ Delivers(j)'
    <2>0. Delivers(j)
      BY DEF JobInv
    <2>1. CASE j # t.job
      BY <1>1, <1>3, <1>5, <2>0, <2>1 DEF Awaits, Delivers, Own
    <2>2. CASE j = t.job
      BY <1>1, <1>3, <1>4, <1>5, <2>2 DEF Awaits, Delivers, Working, Own
    <2> QED BY <2>1, <2>2
  <1> QED BY <1>3, <1>7, <1>8, <1>9 DEF JobInv

\* At shutdown the job goes back to the queue, marked with the day, while its thread
\* runs on.
LEMMA ReleaseKeepsJobs ==
    ASSUME JobInv, NEW t \in threads, release_job(t)
    PROVE  JobInv'
  <1>0. JobTypeOK /\ NextIsFree /\ NoJob \notin Job /\ JobIds \subseteq Nat
    BY JobAssumption DEF JobInv
  <1>1. /\ threads = {t} /\ t \in Thread /\ t.job \in JobIds /\ t.born \in Nat /\ t.kind \in Kinds
        /\ Working(t) /\ store[t.job] \in Job
        /\ \A j \in JobIds \ {t.job} :
                 store[j] # NoJob /\ store[j].status \in {"pending", "running"} =>
                    store[j].completed = NoFile /\ Own(in_file[j], store[j].born)
    BY OnlyThread
  <1> DEFINE n == Failed(store[t.job], FALSE)
  <1>2. /\ SetJob(t.job, n) /\ stopping'
        /\ stopping' \in BOOLEAN /\ UNCHANGED <<next_id, born, in_file, out_file, threads, today>>
    BY Zenon DEF release_job
  <1>3. /\ n \in Job /\ n.born = store[t.job].born /\ n.kind = store[t.job].kind
        /\ n.status = "pending" /\ n.completed = store[t.job].completed /\ n.failed = today
    BY <1>0, <1>1, JobFields, Zenon DEF JobTypeOK
  <1> HIDE DEF n
  <1>4. store'[t.job] = n /\ \A j \in JobIds : j # t.job => store'[j] = store[j]
    BY <1>0, <1>1, <1>2 DEF SetJob, JobTypeOK
  <1>5. store' \in [JobIds -> Job \cup {NoJob}]
    BY <1>0, <1>1, <1>2, <1>3 DEF SetJob, JobTypeOK
  <1>6. JobTypeOK'
    BY <1>0, <1>2, <1>5 DEF JobTypeOK
  <1>7. NextIsFree'
    BY <1>0, <1>1, <1>2, <1>4 DEF NextIsFree, JobTypeOK, Working
  <1>8. Working(t)'
    BY <1>0, <1>1, <1>2, <1>3, <1>4, ZenonT(30) DEF Working, Own
  <1>9. \A s \in threads' : Working(s)'
    BY <1>1, <1>2, <1>8
  <1>10. ASSUME NEW j \in JobIds PROVE Awaits(j)' /\ Delivers(j)'
    <2>0. Delivers(j)
      BY ZenonT(30) DEF JobInv
    <2>1. CASE j # t.job
      BY <1>1, <1>2, <1>4, <2>0, <2>1 DEF Awaits, Delivers, Own
    <2>2. CASE j = t.job
      BY <1>1, <1>2, <1>3, <1>4, <2>2 DEF Awaits, Delivers, Working, Own
    <2> QED BY <2>1, <2>2
  <1> QED BY <1>6, <1>7, <1>9, <1>10 DEF JobInv

\* The sweeper takes no file that a thread, or a job that still has to run, needs.
LEMMA SweepKeepsJobs ==
    ASSUME JobInv, JobTtl > 0, sweep_job_files
    PROVE  JobInv'
  <1>0. JobTypeOK /\ NextIsFree /\ NoJob \notin Job /\ NoFile \notin Nat /\ JobTtl \in Nat
    BY JobAssumption, ZenonT(30) DEF JobInv
  <1> DEFINE swept(j) == Sweepable(j, in_file[j]) \/ Sweepable(j, out_file[j])
  <1>1. /\ in_file' = [j \in JobIds |-> IF Sweepable(j, in_file[j]) THEN NoFile ELSE in_file[j]]
        /\ out_file' = [j \in JobIds |-> IF Sweepable(j, out_file[j]) THEN NoFile ELSE out_file[j]]
        /\ store' = [j \in JobIds |-> IF store[j] # NoJob /\ swept(j)
                                      THEN Purged(store[j]) ELSE store[j]]
        /\ UNCHANGED <<stopping, next_id, born, threads, today>>
    BY DEF sweep_job_files
  <1>2. ASSUME NEW j \in JobIds
        PROVE  /\ store[j] = NoJob => store'[j] = NoJob
               /\ store[j] # NoJob =>
                     /\ store'[j] \in Job /\ store'[j].status = store[j].status
                     /\ store'[j].born = store[j].born /\ store'[j].kind = store[j].kind
                     /\ store'[j].completed = store[j].completed
                     /\ store'[j].failed = store[j].failed
                     /\ swept(j) => store'[j].purged
                     /\ ~swept(j) => store'[j] = store[j]
               /\ ~swept(j) => in_file'[j] = in_file[j] /\ out_file'[j] = out_file[j]
    <2>1. store[j] # NoJob => store[j] \in Job
      BY <1>0 DEF JobTypeOK
    <2>2. CASE store[j] # NoJob /\ swept(j)
      <3>1. store'[j] = Purged(store[j])
        BY <1>1, <2>2
      <3>2. /\ Purged(store[j]) \in Job /\ Purged(store[j]).status = store[j].status
            /\ Purged(store[j]).born = store[j].born /\ Purged(store[j]).kind = store[j].kind
            /\ Purged(store[j]).purged /\ Purged(store[j]).completed = store[j].completed
            /\ Purged(store[j]).failed = store[j].failed
        BY <2>1, <2>2, Zenon DEF Job, Purged
      <3> QED BY <2>2, <3>1, <3>2
    <2>3. CASE ~(store[j] # NoJob /\ swept(j))
      BY <1>1, <2>1, <2>3
    <2> QED BY <2>2, <2>3
  <1>3. ASSUME NEW j \in JobIds, store[j] # NoJob, swept(j)
        PROVE  store[j].status \in Terminal /\ today - EndedOn(store[j]) >= JobTtl
    BY <1>3 DEF Sweepable
  <1>4. /\ in_file' \in [JobIds -> JobFile \cup {NoFile}]
        /\ out_file' \in [JobIds -> JobFile \cup {NoFile}]
    BY <1>0, <1>1 DEF JobTypeOK
  <1>5. store' \in [JobIds -> Job \cup {NoJob}]
    <2>1. \A j \in JobIds : store'[j] \in Job \cup {NoJob}
      BY <1>2
    <2>2. store' = [j \in JobIds |-> store'[j]]
      BY <1>1
    <2> QED BY <2>1, <2>2
  <1> HIDE DEF swept
  <1>6. JobTypeOK'
    BY <1>0, <1>1, <1>4, <1>5 DEF JobTypeOK
  <1>7. NextIsFree'
    BY <1>0, <1>1, <1>2, ZenonT(30) DEF NextIsFree
  <1>8. ASSUME NEW t \in threads' PROVE Working(t)'
    <2>1. t \in threads
      BY <1>1
    <2>2. Working(t) /\ t.job \in JobIds
      BY <2>1, OnlyThread
    <2>3. ~swept(t.job)
      <3>1. CASE ~stopping
        BY <1>3, <2>2, <3>1 DEF Working, Terminal
      <3>2. CASE stopping
        <4>1. EndedOn(store[t.job]) = today
          BY <1>0, <2>2, <3>2 DEF Working, EndedOn, JobTypeOK
        <4>2. ~(today - today >= JobTtl)
          BY <1>0 DEF JobTypeOK
        <4> QED BY <1>3, <2>2, <4>1, <4>2 DEF Working
      <3> QED BY <3>1, <3>2
    <2>4. store'[t.job] = store[t.job] /\ in_file'[t.job] = in_file[t.job]
          /\ out_file'[t.job] = out_file[t.job]
      BY <1>2, <2>2, <2>3 DEF Working
    <2> QED BY <1>1, <2>2, <2>4 DEF Working, Own
  <1>9. ASSUME NEW j \in JobIds PROVE Awaits(j)' /\ Delivers(j)'
    <2>0. Awaits(j) /\ Delivers(j)
      BY ZenonT(30) DEF JobInv
    <2>1. CASE swept(j)
      BY <1>2, <1>3, <2>1 DEF Awaits, Delivers, Terminal
    <2>2. CASE ~swept(j)
      <3>1. store'[j] = store[j] /\ in_file'[j] = in_file[j] /\ out_file'[j] = out_file[j]
        BY <1>2, <2>2
      <3> QED BY <1>1, <2>0, <3>1, ZenonT(30) DEF Awaits, Delivers, Own
    <2> QED BY <2>1, <2>2
  <1> QED BY <1>6, <1>7, <1>8, <1>9 DEF JobInv

\* Every step of the job store, its thread and the sweeper keeps the invariant.
LEMMA JobStep ==
    ASSUME JobInv, JobTtl > 0, [JobNext]_jobVars
    PROVE  JobInv'
  <1>1. CASE UNCHANGED jobVars
    BY <1>1, ZenonT(30) DEF JobInv, JobTypeOK, NextIsFree, Working, Awaits, Delivers, Own, jobVars
  <1>2. CASE Restart
    <2>1. JobTypeOK /\ store' = [j \in JobIds |-> NoJob] /\ next_id' = 1 /\ threads' = {}
          /\ stopping' = FALSE /\ UNCHANGED <<born, in_file, out_file, today>>
      BY <1>2 DEF Restart, JobInv
    <2>2. JobTypeOK' /\ NextIsFree'
      BY <2>1, Zenon DEF JobTypeOK, NextIsFree
    <2> QED BY <2>1, <2>2 DEF JobInv, Awaits, Delivers
  <1>3. CASE NextDay
    <2>1. /\ JobTypeOK /\ NextIsFree /\ ~stopping /\ today' = today + 1
          /\ UNCHANGED <<stopping, store, next_id, born, in_file, out_file, threads>>
      BY <1>3 DEF NextDay, JobInv
    <2>2. JobTypeOK' /\ NextIsFree'
      BY <2>1 DEF JobTypeOK, NextIsFree
    <2> QED BY <2>1, <2>2 DEF JobInv, Working, Awaits, Delivers, Own
  <1> QED BY <1>1, <1>2, <1>3, EnqueueKeepsJobs, CancelKeepsJobs, LeaseKeepsJobs,
             ProcessKeepsJobs, EndKeepsJobs, ReleaseKeepsJobs, SweepKeepsJobs, ZenonT(30) DEF JobNext

\* Jobs have their own input until they are done, and downloads are their own output.
LEMMA JobFilesServeTheirWork ==
    JobTtl > 0 /\ JobSpec => [](UnfinishedKeepsInput /\ DownloadIsOwnOutput)
  <1> SUFFICES ASSUME JobTtl > 0
               PROVE  JobSpec => [](UnfinishedKeepsInput /\ DownloadIsOwnOutput)
    OBVIOUS
  <1>1. JobInit => JobInv
    <2> SUFFICES ASSUME JobInit PROVE JobInv
      OBVIOUS
    <2>1. JobTypeOK /\ NextIsFree
      BY Zenon DEF JobInit, JobTypeOK, NextIsFree
    <2> QED BY <2>1 DEF JobInit, JobInv, Awaits, Delivers
  <1>2. JobInv /\ [JobNext]_jobVars => JobInv'
    BY JobStep, ZenonT(30)
  <1>3. JobInv => UnfinishedKeepsInput /\ DownloadIsOwnOutput
    <2> SUFFICES ASSUME JobInv PROVE UnfinishedKeepsInput /\ DownloadIsOwnOutput
      OBVIOUS
    <2>1. UnfinishedKeepsInput
      BY DEF JobInv, Awaits, UnfinishedKeepsInput, Own
    <2>2. ASSUME NEW j \in JobIds
          PROVE  /\ Download(j) = "file" => out_file[j].by = store[j].born
                 /\ Download(j) = "410" => store[j].purged
      <3>1. Delivers(j)
        BY DEF JobInv
      <3>2. store[j] # NoJob => store[j].purged \in BOOLEAN
        BY DEF JobInv, JobTypeOK, Job
      <3>3. CASE store[j] = NoJob
        BY <3>3 DEF Download
      <3>4. CASE store[j] # NoJob /\ store[j].purged
        BY <3>4 DEF Download
      <3>5. CASE store[j] # NoJob /\ ~store[j].purged
                    /\ (store[j].kind # "embed" \/ store[j].status # "completed")
        BY <3>5 DEF Download
      <3>6. CASE store[j] # NoJob /\ ~store[j].purged
                    /\ store[j].kind = "embed" /\ store[j].status = "completed"
        BY <3>1, <3>6 DEF Download, Delivers, Own
      <3> QED BY <3>3, <3>4, <3>5, <3>6
    <2> QED BY <2>1, <2>2 DEF DownloadIsOwnOutput
  <1> QED BY <1>1, <1>2, <1>3, PTL DEF JobSpec

---------------------------------------------------------------------------
(* Resumable uploads.                                                      *)

ChunkRequest == [pc : {"idle", "open", "stream"}, index : ChunkIndexes \cup {0}, version : Nat]
Commit == [pc : {"idle", "concat", "embed", "record"}, listed : SUBSET ChunkIndexes,
           hash : Seq(Chunk), embedded : Seq(Chunk), missing : SUBSET ChunkIndexes]

UploadTypeOK ==
    /\ chunks \in [ChunkIndexes -> Chunk \cup {NoUpload}]
    /\ combined \in Seq(Chunk) \cup {NoUpload}
    /\ chunk_req \in [ChunkRequests -> ChunkRequest]
    /\ commit_req \in [CommitRequests -> Commit]
    /\ versions \in Nat /\ acknowledged \in SUBSET Chunk /\ aborted \in SUBSET ChunkIndexes
    /\ committed \in Commit /\ overlapped \in BOOLEAN
    /\ \A u \in ChunkRequests : chunk_req[u].pc # "idle" => chunk_req[u].index \in ChunkIndexes

\* A chunk file holds what its sender was told had arrived.
StoredIsAcknowledged ==
    \A i \in ChunkIndexes : chunks[i] # NoUpload => chunks[i] \in acknowledged /\ chunks[i].index = i

\* Chunks of `acks` in ascending order.
InOrder(s, acks) ==
    /\ \A i \in DOMAIN s : s[i] \in acks
    /\ \A i, j \in DOMAIN s : i < j => s[i].index < s[j].index

\* What a commit has read comes before what it still has to read.
CommitSound(q, acks, failed) ==
    /\ InOrder(q.hash, acks) /\ InOrder(q.embedded, acks)
    /\ \A k \in DOMAIN q.hash : \A i \in q.listed : q.hash[k].index < i
    /\ q.missing \subseteq failed

\* Until a session is committed, only a failed request removes a chunk.
ChunksAreKept ==
    committed.pc # "record" =>
        \A a \in acknowledged : chunks[a.index] # NoUpload \/ a.index \in aborted

\* A commit that is alone embeds what it has assembled.
CommitsAlone ==
    ~overlapped =>
        /\ \A c, d \in CommitRequests : commit_req[c].pc # "idle" /\ commit_req[d].pc # "idle" => c = d
        /\ \A c \in CommitRequests :
              /\ commit_req[c].pc = "embed" => combined = commit_req[c].hash
              /\ commit_req[c].pc = "record" => commit_req[c].embedded = commit_req[c].hash
        /\ committed.pc = "record" => committed.hash = committed.embedded

UploadInv ==
    /\ UploadTypeOK /\ StoredIsAcknowledged /\ ChunksAreKept /\ CommitsAlone
    /\ \A c \in CommitRequests : CommitSound(commit_req[c], acknowledged, aborted)
    /\ combined # NoUpload => InOrder(combined, acknowledged)
    /\ CommitSound(committed, acknowledged, aborted)

\* What more is acknowledged or aborted leaves every commit as sound as it was.
LEMMA SoundStaysSound ==
    ASSUME NEW q, NEW A, NEW B \in SUBSET A, NEW C, NEW D \in SUBSET C, NEW s
    PROVE  /\ CommitSound(q, B, D) => CommitSound(q, A, C)
           /\ InOrder(s, B) => InOrder(s, A)
  BY Zenon DEF CommitSound, InOrder

\* A commit about to begin is sound.
LEMMA IdleIsSound ==
    ASSUME NEW A, NEW D
    PROVE  CommitSound(IdleCommit, A, D) /\ IdleCommit \in Commit
  BY DEF CommitSound, InOrder, IdleCommit, Commit

\* Chunk requests that only look up the session or open their temporary file.
LEMMA ChunkStart ==
    ASSUME UploadInv, NEW u \in ChunkRequests, upload_chunk(u) \/ open_chunk(u)
    PROVE  UploadInv'
  <1>1. UNCHANGED <<chunks, combined, commit_req, acknowledged, aborted, committed, overlapped>>
    BY Zenon DEF upload_chunk, open_chunk
  <1>2. versions' \in Nat /\ chunk_req' \in [ChunkRequests -> ChunkRequest]
        /\ \A w \in ChunkRequests : chunk_req'[w].pc # "idle" => chunk_req'[w].index \in ChunkIndexes
    <2>1. CASE upload_chunk(u)
      BY <2>1 DEF upload_chunk, UploadInv, UploadTypeOK, ChunkRequest
    <2>2. CASE open_chunk(u)
      BY <2>2, Zenon DEF open_chunk, UploadInv, UploadTypeOK, ChunkRequest
    <2> QED BY <2>1, <2>2, Zenon
  <1>3. UploadTypeOK'
    BY <1>1, <1>2, Zenon DEF UploadInv, UploadTypeOK
  <1> QED BY <1>1, <1>3, Zenon DEF UploadInv, StoredIsAcknowledged, ChunksAreKept, CommitsAlone

\* A chunk is moved into place and acknowledged at once.
LEMMA ChunkStored ==
    ASSUME UploadInv, NEW u \in ChunkRequests, hash_stream_to_path(u)
    PROVE  UploadInv'
  <1> DEFINE i == chunk_req[u].index
             content == Content(i, chunk_req[u].version, TRUE)
  <1>1. /\ chunk_req[u].pc = "stream"
        /\ chunks' = [chunks EXCEPT ![i] = content]
        /\ acknowledged' = acknowledged \cup {content}
        /\ chunk_req' = [chunk_req EXCEPT ![u] = IdleChunk]
        /\ UNCHANGED <<combined, commit_req, versions, aborted, committed, overlapped>>
    BY Zenon DEF hash_stream_to_path
  <1>2. i \in ChunkIndexes /\ content \in Chunk /\ content.index = i
    BY <1>1, Zenon DEF UploadInv, UploadTypeOK, Content, Chunk, ChunkRequest
  <1> HIDE DEF i, content
  <1>3. UploadTypeOK'
    BY <1>1, <1>2, Zenon DEF UploadInv, UploadTypeOK, IdleChunk, ChunkRequest
  <1>4. StoredIsAcknowledged'
    BY <1>1, <1>2, ZenonT(30) DEF UploadInv, UploadTypeOK, StoredIsAcknowledged
  <1>5. ChunksAreKept'
    <2> SUFFICES ASSUME committed.pc # "record", NEW a \in acknowledged'
                 PROVE  chunks'[a.index] # NoUpload \/ a.index \in aborted
      BY <1>1, Zenon DEF ChunksAreKept
    <2>1. a.index \in ChunkIndexes
      BY <1>3, Zenon DEF UploadTypeOK, Chunk
    <2>2. content # NoUpload
      BY <1>2, UploadAssumption, Zenon
    <2> QED BY <1>1, <1>2, <2>1, <2>2, Zenon DEF UploadInv, UploadTypeOK, ChunksAreKept
  <1>6. CommitsAlone'
    BY <1>1, Zenon DEF UploadInv, CommitsAlone
  <1>7. acknowledged \in SUBSET acknowledged' /\ aborted \in SUBSET aborted'
    BY <1>1, Zenon
  <1> QED BY <1>1, <1>3, <1>4, <1>5, <1>6, <1>7, SoundStaysSound, Zenon DEF UploadInv

\* A request that fails takes the stored chunk with it.
LEMMA ChunkAborted ==
    ASSUME UploadInv, NEW u \in ChunkRequests, abort_chunk(u)
    PROVE  UploadInv'
  <1> DEFINE i == chunk_req[u].index
  <1>1. /\ chunk_req[u].pc = "stream"
        /\ chunks' = [chunks EXCEPT ![i] = NoUpload]
        /\ aborted' = aborted \cup {i}
        /\ chunk_req' = [chunk_req EXCEPT ![u] = IdleChunk]
        /\ UNCHANGED <<combined, commit_req, versions, acknowledged, committed, overlapped>>
    BY Zenon DEF abort_chunk
  <1>2. i \in ChunkIndexes
    BY <1>1, Zenon DEF UploadInv, UploadTypeOK
  <1> HIDE DEF i
  <1>3. UploadTypeOK'
    BY <1>1, <1>2, Zenon DEF UploadInv, UploadTypeOK, IdleChunk, ChunkRequest
  <1>4. StoredIsAcknowledged'
    BY <1>1, <1>2, ZenonT(30) DEF UploadInv, UploadTypeOK, StoredIsAcknowledged
  <1>5. ChunksAreKept'
    <2> SUFFICES ASSUME committed.pc # "record", NEW a \in acknowledged
                 PROVE  chunks'[a.index] # NoUpload \/ a.index \in aborted'
      BY <1>1, ZenonT(30) DEF ChunksAreKept
    <2>1. a.index \in ChunkIndexes
      BY <1>3, ZenonT(30) DEF UploadInv, UploadTypeOK, Chunk
    <2> QED BY <1>1, <1>2, <2>1, Zenon DEF UploadInv, UploadTypeOK, ChunksAreKept
  <1>6. CommitsAlone'
    BY <1>1, Zenon DEF UploadInv, CommitsAlone
  <1>7. acknowledged \in SUBSET acknowledged' /\ aborted \in SUBSET aborted'
    BY <1>1, ZenonT(30)
  <1> QED BY <1>1, <1>3, <1>4, <1>5, <1>6, <1>7, SoundStaysSound, Zenon DEF UploadInv

\* A commit lists the chunks there are; what is missing from a first commit was aborted.
LEMMA CommitStart ==
    ASSUME UploadInv, NEW c \in CommitRequests, commit_upload_session(c)
    PROVE  UploadInv'
  <1> DEFINE missing == IF committed.pc = "record" THEN {}
                        ELSE {a.index : a \in acknowledged} \ PresentChunks
             q == Listing(PresentChunks, missing)
  <1>1. /\ commit_req[c].pc = "idle"
        /\ commit_req' = [commit_req EXCEPT ![c] = q]
        /\ overlapped' = (overlapped \/ \E d \in CommitRequests : commit_req[d].pc # "idle")
        /\ UNCHANGED <<chunks, combined, chunk_req, versions, acknowledged, aborted, committed>>
    BY Zenon DEF commit_upload_session
  <1>2. PresentChunks \subseteq ChunkIndexes
    BY Zenon DEF PresentChunks
  <1>3. missing \subseteq aborted
    <2> SUFFICES ASSUME committed.pc # "record", NEW a \in acknowledged, a.index \notin PresentChunks
                 PROVE  a.index \in aborted
      BY Zenon
    <2>1. a.index \in ChunkIndexes
      BY Zenon DEF UploadInv, UploadTypeOK, Chunk
    <2> QED BY <2>1, Zenon DEF UploadInv, ChunksAreKept, PresentChunks
  <1> HIDE DEF missing
  <1>4. missing \subseteq ChunkIndexes
    BY <1>3, Zenon DEF UploadInv, UploadTypeOK
  <1>5. q \in Commit /\ q.pc = "concat" /\ CommitSound(q, acknowledged, aborted)
    <2>1. /\ q.pc = "concat" /\ q.listed = PresentChunks /\ q.hash = <<>> /\ q.embedded = <<>>
          /\ q.missing = missing
      BY Zenon DEF Listing, IdleCommit
    <2>2. q \in Commit
      BY <1>2, <1>4, IdleIsSound, Zenon DEF Listing, Commit
    <2>3. InOrder(<<>>, acknowledged)
      BY DEF InOrder
    <2> QED BY <1>3, <2>1, <2>2, <2>3 DEF CommitSound
  <1> HIDE DEF q
  <1>6. commit_req'[c] = q /\ \A d \in CommitRequests : d # c => commit_req'[d] = commit_req[d]
    BY <1>1, Zenon DEF UploadInv, UploadTypeOK
  <1>7. UploadTypeOK'
    <2>1. commit_req' \in [CommitRequests -> Commit]
      BY <1>1, <1>5, Zenon DEF UploadInv, UploadTypeOK
    <2>2. overlapped' \in BOOLEAN
      BY <1>1, ZenonT(30)
    <2> QED BY <1>1, <2>1, <2>2, Zenon DEF UploadInv, UploadTypeOK
  <1>8. CommitsAlone'
    <2> SUFFICES ASSUME ~overlapped'
                 PROVE  CommitsAlone'
      BY Zenon DEF CommitsAlone
    <2>1. ~overlapped /\ \A d \in CommitRequests : commit_req[d].pc = "idle"
      BY <1>1, ZenonT(30)
    <2>2. \A d \in CommitRequests : d # c => commit_req'[d].pc = "idle"
      BY <1>6, <2>1, ZenonT(30)
    <2>3. committed.pc = "record" => committed.hash = committed.embedded
      BY <2>1, Zenon DEF UploadInv, CommitsAlone
    <2> QED BY <1>1, <1>5, <1>6, <2>2, <2>3, ZenonT(30) DEF CommitsAlone
  <1>9. \A d \in CommitRequests : CommitSound(commit_req'[d], acknowledged', aborted')
    BY <1>1, <1>5, <1>6, ZenonT(30) DEF UploadInv
  <1> QED BY <1>1, <1>7, <1>8, <1>9, ZenonT(30) DEF UploadInv, StoredIsAcknowledged, ChunksAreKept

\* A commit that reads its next chunk.
LEMMA ChunkRead ==
    ASSUME UploadInv, NEW c \in CommitRequests, NEW i \in commit_req[c].listed,
           commit_req[c].pc = "concat", chunks[i] # NoUpload,
           \A k \in commit_req[c].listed : i <= k,
           commit_req' = [commit_req EXCEPT ![c] = Reading(commit_req[c], i, chunks[i])],
           UNCHANGED <<chunks, combined, chunk_req, versions, acknowledged, aborted, committed,
                       overlapped>>
    PROVE  UploadInv'
  <1> DEFINE q == commit_req[c]
             n == Reading(q, i, chunks[i])
  <1>1. /\ q \in Commit /\ CommitSound(q, acknowledged, aborted) /\ q.pc = "concat"
        /\ q.listed \subseteq ChunkIndexes /\ i \in ChunkIndexes
    BY ZenonT(30) DEF UploadInv, UploadTypeOK, Commit
  <1>2. chunks[i] \in acknowledged /\ chunks[i].index = i /\ chunks[i] \in Chunk
    BY <1>1, ZenonT(30) DEF UploadInv, UploadTypeOK, StoredIsAcknowledged
  <1>3. PICK x : x = chunks[i]
    BY Zenon
  <1>4. /\ n \in Commit /\ n.pc = "concat" /\ n.listed = q.listed \ {i}
        /\ n.hash = Append(q.hash, x) /\ n.embedded = q.embedded /\ n.missing = q.missing
    <2>1. /\ n.pc = "concat" /\ n.listed = q.listed \ {i} /\ n.hash = Append(q.hash, x)
          /\ n.embedded = q.embedded /\ n.missing = q.missing
      BY <1>1, <1>3, ZenonT(30) DEF Reading, Commit
    <2>2. Append(q.hash, x) \in Seq(Chunk)
      BY <1>1, <1>2, <1>3 DEF Commit
    <2>3. n = [q EXCEPT !.listed = q.listed \ {i}, !.hash = Append(q.hash, x)]
      BY <1>1, <1>3, Zenon DEF Reading, Commit
    <2>4. n \in Commit
      BY <1>1, <2>2, <2>3, Zenon DEF Commit
    <2> QED BY <2>1, <2>4, Zenon
  <1>5. commit_req'[c] = n /\ \A d \in CommitRequests : d # c => commit_req'[d] = commit_req[d]
    BY Zenon DEF UploadInv, UploadTypeOK
  <1>6. q.hash \in Seq(Chunk)
    BY <1>1, ZenonT(30) DEF Commit
  <1> HIDE DEF n
  <1>7. CommitSound(n, acknowledged, aborted)
    <2>1. InOrder(n.embedded, acknowledged) /\ n.missing \subseteq aborted
      BY <1>1, <1>4, Zenon DEF CommitSound
    <2>2. PICK h : h = q.hash
      BY Zenon
    <2>3. /\ h \in Seq(Chunk) /\ \A k \in DOMAIN h : h[k] \in acknowledged /\ h[k].index < i
          /\ \A k, j \in DOMAIN h : k < j => h[k].index < h[j].index
          /\ \A k \in DOMAIN h : \A j \in q.listed : h[k].index < j
      BY <1>1, <1>6, <2>2, Zenon DEF CommitSound, InOrder
    <2>4. \A k \in DOMAIN Append(h, x) : \/ k \in DOMAIN h /\ Append(h, x)[k] = h[k]
                                         \/ k = Len(h) + 1 /\ Append(h, x)[k] = x
      BY <1>2, <1>3, <2>3
    <2>5. \A k \in DOMAIN h : k <= Len(h)
      BY <2>3
    <2>6. InOrder(Append(h, x), acknowledged)
      <3>1. \A k \in DOMAIN Append(h, x) : Append(h, x)[k] \in acknowledged
        BY <1>2, <1>3, <2>3, <2>4, Zenon
      <3>2. ASSUME NEW k \in DOMAIN Append(h, x), NEW j \in DOMAIN Append(h, x), k < j
            PROVE  Append(h, x)[k].index < Append(h, x)[j].index
        <4>1. k \in DOMAIN h
          BY <2>3, <2>4, <2>5, <3>2
        <4> QED BY <1>2, <1>3, <2>3, <2>4, <3>2, <4>1
      <3> QED BY <3>1, <3>2, Zenon DEF InOrder
    <2>7. ASSUME NEW k \in DOMAIN Append(h, x), NEW j \in q.listed \ {i}
          PROVE  Append(h, x)[k].index < j
      <3>1. i < j
        BY <1>1, LeastIsBelow, IndexesAreNumbers, Zenon
      <3> QED BY <1>2, <1>3, <2>3, <2>4, <3>1, ZenonT(30)
    <2> QED BY <1>4, <2>1, <2>2, <2>6, <2>7, ZenonT(30) DEF CommitSound
  <1>8. UploadTypeOK'
    BY <1>4, Zenon DEF UploadInv, UploadTypeOK, n
  <1>9. CommitsAlone'
    <2>1. \A d \in CommitRequests : commit_req'[d].pc = commit_req[d].pc
      BY <1>1, <1>4, <1>5, Zenon
    <2>2. \A d \in CommitRequests : commit_req[d].pc # "concat" => commit_req'[d] = commit_req[d]
      BY <1>1, <1>5, ZenonT(30)
    <2> QED BY <2>1, <2>2, ZenonT(30) DEF UploadInv, CommitsAlone
  <1>10. \A d \in CommitRequests : CommitSound(commit_req'[d], acknowledged', aborted')
    BY <1>5, <1>7, ZenonT(30) DEF UploadInv
  <1> QED BY <1>8, <1>9, <1>10, Zenon DEF UploadInv, StoredIsAcknowledged, ChunksAreKept

\* A commit that fails leaves its slot idle, and leaves or removes the assembled file.
LEMMA CommitFailed ==
    ASSUME UploadInv, NEW c \in CommitRequests, commit_req[c].pc # "idle", FailCommit(c),
           combined' = combined \/ (combined' = NoUpload /\ commit_req[c].pc = "concat"),
           UNCHANGED <<chunks, chunk_req, versions, acknowledged, aborted, committed, overlapped>>
    PROVE  UploadInv'
  <1>1. /\ commit_req' \in [CommitRequests -> Commit] /\ commit_req'[c] = IdleCommit
        /\ \A d \in CommitRequests : d # c => commit_req'[d] = commit_req[d]
    BY IdleIsSound, Zenon DEF FailCommit, UploadInv, UploadTypeOK
  <1>2. UploadTypeOK'
    BY <1>1, Zenon DEF UploadInv, UploadTypeOK
  <1>3. \A d \in CommitRequests : CommitSound(commit_req'[d], acknowledged', aborted')
    BY <1>1, IdleIsSound, Zenon DEF UploadInv
  <1>4. CommitsAlone'
    <2> SUFFICES ASSUME ~overlapped
                 PROVE  CommitsAlone'
      BY Zenon DEF CommitsAlone
    <2>1. \A d \in CommitRequests : d # c => commit_req[d].pc = "idle"
      BY Zenon DEF UploadInv, CommitsAlone
    <2>2. IdleCommit.pc = "idle"
      BY Zenon DEF IdleCommit
    <2>3. \A d \in CommitRequests : commit_req'[d].pc = "idle"
      BY <1>1, <2>1, <2>2, Zenon
    <2> QED BY <2>3, ZenonT(30) DEF UploadInv, CommitsAlone
  <1> QED BY <1>2, <1>3, <1>4, Zenon DEF UploadInv, StoredIsAcknowledged, ChunksAreKept

\* hash_paths_concat reads the next chunk, moves the result into place or fails.
LEMMA CommitReads ==
    ASSUME UploadInv, NEW c \in CommitRequests, hash_paths_concat(c)
    PROVE  UploadInv'
  <1> DEFINE q == commit_req[c]
  <1>0. /\ q.pc = "concat"
        /\ UNCHANGED <<chunks, chunk_req, versions, acknowledged, aborted, committed, overlapped>>
    BY Zenon DEF hash_paths_concat
  <1>1. CASE /\ \E i \in q.listed :
                   /\ chunks[i] # NoUpload /\ \A k \in q.listed : i <= k
                   /\ commit_req' = [commit_req EXCEPT ![c] = Reading(q, i, chunks[i])]
             /\ UNCHANGED combined
    BY <1>0, <1>1, ChunkRead, Zenon
  <1>2. CASE combined' = q.hash /\ commit_req' = [commit_req EXCEPT ![c].pc = "embed"]
    <2> DEFINE n == [q EXCEPT !.pc = "embed"]
    <2>1. q \in Commit /\ CommitSound(q, acknowledged, aborted)
      BY Zenon DEF UploadInv, UploadTypeOK
    <2>2. /\ n \in Commit /\ n.pc = "embed" /\ n.listed = q.listed /\ n.hash = q.hash
          /\ n.embedded = q.embedded /\ n.missing = q.missing /\ q.hash \in Seq(Chunk)
      BY <2>1, Zenon DEF Commit
    <2>3. CommitSound(n, acknowledged, aborted) /\ InOrder(q.hash, acknowledged)
      BY <2>1, <2>2, Zenon DEF CommitSound
    <2> HIDE DEF n
    <2>4. /\ commit_req' \in [CommitRequests -> Commit] /\ commit_req'[c] = n
          /\ \A d \in CommitRequests : d # c => commit_req'[d] = commit_req[d]
      BY <1>2, <2>2, Zenon DEF UploadInv, UploadTypeOK, n
    <2>5. UploadTypeOK'
      BY <1>0, <1>2, <2>2, <2>4, Zenon DEF UploadInv, UploadTypeOK
    <2>6. CommitsAlone'
      <3> SUFFICES ASSUME ~overlapped
                   PROVE  CommitsAlone'
        BY <1>0, ZenonT(30) DEF CommitsAlone
      <3>1. \A d \in CommitRequests : d # c => commit_req'[d].pc = "idle"
        BY <1>0, <2>4, ZenonT(30) DEF UploadInv, CommitsAlone
      <3>2. committed.pc = "record" => committed.hash = committed.embedded
        BY ZenonT(30) DEF UploadInv, CommitsAlone
      <3> QED BY <1>0, <1>2, <2>2, <2>4, <3>1, <3>2, Zenon DEF CommitsAlone
    <2>7. \A d \in CommitRequests : CommitSound(commit_req'[d], acknowledged', aborted')
      BY <1>0, <2>3, <2>4, Zenon DEF UploadInv
    <2> QED BY <1>0, <1>2, <2>3, <2>5, <2>6, <2>7, Zenon DEF UploadInv, StoredIsAcknowledged, ChunksAreKept
  <1>3. CASE combined' = NoUpload /\ FailCommit(c)
    BY <1>0, <1>3, CommitFailed, Zenon
  <1> QED BY <1>1, <1>2, <1>3, Zenon DEF hash_paths_concat

\* The assembled file is embedded, or the commit fails.
LEMMA CommitEmbeds ==
    ASSUME UploadInv, NEW c \in CommitRequests, embed_combined(c)
    PROVE  UploadInv'
  <1> DEFINE q == commit_req[c]
  <1>0. /\ q.pc = "embed"
        /\ UNCHANGED <<chunks, combined, chunk_req, versions, acknowledged, aborted, committed,
                       overlapped>>
    BY ZenonT(30) DEF embed_combined
  <1>1. CASE combined # NoUpload /\ commit_req' = [commit_req EXCEPT ![c] = Embedding(@, combined)]
    <2> DEFINE n == Embedding(q, combined)
    <2>1. q \in Commit /\ CommitSound(q, acknowledged, aborted) /\ InOrder(combined, acknowledged)
          /\ combined \in Seq(Chunk)
      BY <1>1, Zenon DEF UploadInv, UploadTypeOK
    <2>2. /\ n.pc = "record" /\ n.listed = q.listed /\ n.hash = q.hash
          /\ n.embedded = combined /\ n.missing = q.missing
      BY <2>1, Zenon DEF Commit, Embedding
    <2>3. n \in Commit
      BY <2>1, Zenon DEF Commit, Embedding
    <2>4. CommitSound(n, acknowledged, aborted)
      BY <2>1, <2>2, Zenon DEF CommitSound
    <2> HIDE DEF n
    <2>5. /\ commit_req' \in [CommitRequests -> Commit] /\ commit_req'[c] = n
          /\ \A d \in CommitRequests : d # c => commit_req'[d] = commit_req[d]
      BY <1>1, <2>3, Zenon DEF UploadInv, UploadTypeOK, n
    <2>6. UploadTypeOK'
      BY <1>0, <2>5, ZenonT(30) DEF UploadInv, UploadTypeOK
    <2>7. CommitsAlone'
      <3> SUFFICES ASSUME ~overlapped
                   PROVE  CommitsAlone'
        BY <1>0, ZenonT(30) DEF CommitsAlone
      <3>1. (\A d \in CommitRequests : d # c => commit_req'[d].pc = "idle") /\ combined = q.hash
        BY <1>0, <2>5, ZenonT(30) DEF UploadInv, CommitsAlone
      <3>2. committed.pc = "record" => committed.hash = committed.embedded
        BY ZenonT(30) DEF UploadInv, CommitsAlone
      <3> QED BY <1>0, <2>2, <2>5, <3>1, <3>2, ZenonT(30) DEF CommitsAlone
    <2>8. \A d \in CommitRequests : CommitSound(commit_req'[d], acknowledged', aborted')
      BY <1>0, <2>4, <2>5, ZenonT(30) DEF UploadInv
    <2> QED BY <1>0, <2>6, <2>7, <2>8, Zenon DEF UploadInv, StoredIsAcknowledged, ChunksAreKept
  <1>2. CASE FailCommit(c)
    BY <1>0, <1>2, CommitFailed, Zenon
  <1> QED BY <1>1, <1>2, Zenon DEF embed_combined

\* The commit is answered and the session removed, or it fails at the last check.
LEMMA CommitFinishes ==
    ASSUME UploadInv, NEW c \in CommitRequests, finish_commit(c)
    PROVE  UploadInv'
  <1> DEFINE q == commit_req[c]
  <1>0. /\ q.pc = "record" /\ FailCommit(c)
        /\ UNCHANGED <<chunk_req, versions, acknowledged, aborted, overlapped>>
    BY ZenonT(30) DEF finish_commit
  <1>1. CASE /\ committed' = q /\ combined' = NoUpload
             /\ chunks' = [i \in ChunkIndexes |-> NoUpload]
    <2>1. q \in Commit /\ CommitSound(q, acknowledged, aborted)
      BY Zenon DEF UploadInv, UploadTypeOK
    <2>2. /\ commit_req' \in [CommitRequests -> Commit] /\ commit_req'[c] = IdleCommit
          /\ \A d \in CommitRequests : d # c => commit_req'[d] = commit_req[d]
      BY <1>0, IdleIsSound, Zenon DEF FailCommit, UploadInv, UploadTypeOK
    <2>3. UploadTypeOK'
      BY <1>0, <1>1, <2>1, <2>2, Zenon DEF UploadInv, UploadTypeOK
    <2>4. CommitsAlone'
      <3> SUFFICES ASSUME ~overlapped
                   PROVE  CommitsAlone'
        BY <1>0, ZenonT(30) DEF CommitsAlone
      <3>1. (\A d \in CommitRequests : commit_req'[d].pc = "idle") /\ q.embedded = q.hash
        BY <1>0, <2>2 DEF UploadInv, CommitsAlone, IdleCommit
      <3> QED BY <1>1, <3>1, Zenon DEF CommitsAlone
    <2>5. \A d \in CommitRequests : CommitSound(commit_req'[d], acknowledged', aborted')
      BY <1>0, <2>2, IdleIsSound, Zenon DEF UploadInv
    <2>6. StoredIsAcknowledged' /\ ChunksAreKept'
      BY <1>0, <1>1, Zenon DEF StoredIsAcknowledged, ChunksAreKept
    <2> QED BY <1>0, <1>1, <2>1, <2>3, <2>4, <2>5, <2>6, Zenon DEF UploadInv
  <1>2. CASE UNCHANGED <<committed, combined, chunks>>
    BY <1>0, <1>2, CommitFailed, Zenon
  <1> QED BY <1>1, <1>2, Zenon DEF finish_commit

\* The files of the media work, with any number of jobs, sessions, chunks, requests,
\* restarts and days: a job that still has to run has its own input, a download is the
\* job's own output, and a committed video is made of acknowledged chunks in order.
\* Job files have to live for some time: with a job_file_ttl of zero the sweeper may take
\* the input of a job that was cancelled while its thread ran on at shutdown.
THEOREM StoredFilesServeTheirWork ==
    JobTtl > 0 /\ JobSpec /\ UploadSpec => []FilesServeTheirWork
  <1> SUFFICES ASSUME JobTtl > 0
               PROVE  JobSpec /\ UploadSpec => []FilesServeTheirWork
    BY Zenon
  <1>1. UploadInit => UploadInv
    <2> SUFFICES ASSUME UploadInit PROVE UploadInv
      BY Zenon
    <2>1. UploadTypeOK
      BY IdleIsSound, Zenon DEF UploadInit, UploadTypeOK, IdleChunk, ChunkRequest
    <2>2. CommitsAlone
      BY Zenon DEF UploadInit, CommitsAlone, IdleCommit
    <2>3. CommitSound(committed, acknowledged, aborted)
          /\ \A c \in CommitRequests : CommitSound(commit_req[c], acknowledged, aborted)
      BY IdleIsSound, Zenon DEF UploadInit
    <2> QED BY <2>1, <2>2, <2>3, Zenon DEF UploadInit, UploadInv, StoredIsAcknowledged, ChunksAreKept
  <1>2. UploadInv /\ [UploadNext]_uploadVars => UploadInv'
    <2>1. ASSUME UploadInv, UNCHANGED uploadVars PROVE UploadInv'
      <3>1. UploadTypeOK' /\ StoredIsAcknowledged'
        BY <2>1, Zenon DEF UploadInv, UploadTypeOK, StoredIsAcknowledged, uploadVars
      <3>2. ChunksAreKept' /\ CommitsAlone'
        BY <2>1, ZenonT(30) DEF UploadInv, ChunksAreKept, CommitsAlone, uploadVars
      <3> QED BY <2>1, <3>1, <3>2, ZenonT(30) DEF UploadInv, uploadVars
    <2> QED BY <2>1, ChunkStart, ChunkStored, ChunkAborted, CommitStart, CommitReads,
               CommitEmbeds, CommitFinishes, Zenon DEF UploadNext
  <1>3. UploadInv => CommittedIsAcknowledged
    BY Zenon DEF UploadInv, CommittedIsAcknowledged, CommitSound, InOrder, CommitsAlone
  <1>4. UploadSpec => []CommittedIsAcknowledged
    BY <1>1, <1>2, <1>3, PTL DEF UploadSpec
  <1>5. JobSpec => [](UnfinishedKeepsInput /\ DownloadIsOwnOutput)
    BY JobFilesServeTheirWork, Zenon
  <1> QED BY <1>4, <1>5, PTL DEF FilesServeTheirWork

---------------------------------------------------------------------------
(* Schema migrations.                                                      *)

Live(id) == MIGRATIONS[id] \subseteq live_columns

Starter == [pc : {"down", "refused", "apply", "record", "serving"}, release : Releases \cup {Down.release},
            applied : SUBSET Int, enforce : BOOLEAN]

\* A starting process has applied what it passes over; between the two transactions of a
\* migration the SQL is committed and the row is not.
Started(p) ==
    /\ \A id \in starter[p].applied : Live(id)
    /\ starter[p].pc = "record" =>
          \A id \in Current(p) :
             Live(id) /\ <<id, _compute_checksum(starter[p].release, id)>> \in executed
    /\ starter[p].pc = "serving" => Pending(p) = {}

MigrationInv ==
    /\ starter \in [Starters -> Starter] /\ DOMAIN migration_ledger \subseteq Int
    /\ \A id \in DOMAIN migration_ledger : <<id, migration_ledger[id]>> \in executed /\ Live(id)
    /\ \A p \in Starters : Started(p)

\* No step drops a column or forgets a migration that was committed.
LEMMA SchemaGrows ==
    ASSUME MigrationNext
    PROVE  live_columns \subseteq live_columns' /\ executed \subseteq executed'
  BY Zenon DEF MigrationNext, run_migrations, execute, _record_migration, serve, Crash

\* The processes that do not take the step are as they were.
LEMMA OthersStarted ==
    ASSUME live_columns \subseteq live_columns', executed \subseteq executed', NEW q, starter'[q] = starter[q],
           Started(q)
    PROVE  Started(q)'
  <1>1. Pending(q)' = Pending(q) /\ Current(q)' = Current(q)
    BY ZenonT(30) DEF Pending, Current
  <1> QED BY <1>1, ZenonT(30) DEF Started, Live

\* A process that is not running.
LEMMA DownStarter == Down \in Starter /\ Down.pc = "down" /\ Down.applied = {}
  <1> DEFINE any == CHOOSE r \in Releases : TRUE
  <1>1. Down = [pc |-> "down", release |-> any, applied |-> {}, enforce |-> TRUE]
    BY Zenon DEF Down
  <1> HIDE DEF any
  <1> QED BY <1>1, Zenon DEF Starter

\* Every step of every starting process, and its death, keeps the invariant of the ledger.
LEMMA MigrationInvHolds == MigrationSpec => []MigrationInv
  <1>1. ASSUME MigrationInit PROVE MigrationInv
    <2>1. \A p \in Starters : starter[p] = Down
      BY <1>1, Zenon DEF MigrationInit
    <2>3. \A p \in Starters : Started(p)
      BY <2>1, DownStarter, Zenon DEF Started
    <2> QED BY <1>1, DownStarter, <2>1, <2>3, Zenon DEF MigrationInit, MigrationInv
  <1>2. ASSUME MigrationInv, [MigrationNext]_migrationVars PROVE MigrationInv'
    <2>1. CASE UNCHANGED migrationVars
      <3>1. live_columns' = live_columns /\ executed' = executed /\ starter' = starter
            /\ migration_ledger' = migration_ledger
        BY <2>1, Zenon DEF migrationVars
      <3>2. \A q \in Starters : Started(q)'
        BY <1>2, <3>1, OthersStarted, Zenon DEF MigrationInv
      <3> QED BY <1>2, <3>1, <3>2, Zenon DEF MigrationInv, Live
    <2>2. ASSUME NEW p \in Starters,
                 run_migrations(p) \/ execute(p) \/ _record_migration(p) \/ serve(p) \/ Crash(p)
          PROVE  MigrationInv'
      <3>1. live_columns \subseteq live_columns' /\ executed \subseteq executed'
        BY <2>2, SchemaGrows, Zenon DEF MigrationNext
      <3>2. \A q \in Starters : q # p => starter'[q] = starter[q]
        BY <1>2, <2>2, Zenon DEF MigrationInv, run_migrations, execute, _record_migration, serve, Crash
      <3>3. SUFFICES /\ starter' \in [Starters -> Starter]
                     /\ DOMAIN migration_ledger' \subseteq Int
                     /\ \A id \in DOMAIN migration_ledger' :
                           <<id, migration_ledger'[id]>> \in executed' /\ Live(id)'
                     /\ Started(p)'
        BY <1>2, <3>1, <3>2, OthersStarted, Zenon DEF MigrationInv
      <3>4. CASE run_migrations(p)
        <4>1. PICK release \in Releases, enforce \in BOOLEAN, pc \in {"refused", "apply"} :
                 starter' = [starter EXCEPT ![p] = [pc |-> pc, release |-> release,
                                applied |-> DOMAIN migration_ledger, enforce |-> enforce]]
          BY <3>4, Zenon DEF run_migrations
        <4>2. migration_ledger' = migration_ledger
          BY <3>4, Zenon DEF run_migrations
        <4>3. starter'[p].pc = pc /\ starter'[p].applied = DOMAIN migration_ledger
          BY <1>2, <4>1, ZenonT(30) DEF MigrationInv
        <4>4. starter' \in [Starters -> Starter]
          BY <1>2, <4>1, Zenon DEF MigrationInv, Starter
        <4>5. Started(p)'
          BY <1>2, <3>1, <4>3, Zenon DEF MigrationInv, Started, Live
        <4> QED BY <1>2, <3>1, <4>2, <4>4, <4>5, Zenon DEF MigrationInv, Live
      <3>5. CASE execute(p)
        <4>1. PICK id \in Current(p) :
                 /\ live_columns' = live_columns \cup MIGRATIONS[id]
                 /\ executed' = executed \cup {<<id, _compute_checksum(starter[p].release, id)>>}
          BY <3>5, Zenon DEF execute
        <4>2. starter' = [starter EXCEPT ![p].pc = "record"] /\ migration_ledger' = migration_ledger
          BY <3>5, Zenon DEF execute
        <4>3. starter' \in [Starters -> Starter] /\ starter'[p] = [starter[p] EXCEPT !.pc = "record"]
          BY <1>2, <4>2, Zenon DEF MigrationInv, Starter
        <4>4. starter'[p].applied = starter[p].applied /\ starter'[p].release = starter[p].release
              /\ starter'[p].pc = "record"
          BY <1>2, <4>3, Zenon DEF MigrationInv, Starter
        <4>5. Current(p)' = Current(p)
          BY <4>4, ZenonT(30) DEF Pending, Current
        <4>6. \A other \in Current(p) : other = id
          <5>1. Pending(p) \in SUBSET Int
            BY DEF Pending
          <5> QED BY <4>1, <5>1, LeastIsUnique, ZenonT(30) DEF Current
        <4>7. Started(p)'
          BY <1>2, <3>1, <4>1, <4>4, <4>5, <4>6, ZenonT(30) DEF MigrationInv, Started, Live
        <4> QED BY <1>2, <3>1, <4>2, <4>3, <4>7, Zenon DEF MigrationInv, Live
      <3>6. CASE _record_migration(p)
        <4>1. starter[p].pc = "record" /\ executed' = executed /\ live_columns' = live_columns
          BY <3>6, Zenon DEF _record_migration
        <4>2. PICK id \in Current(p) :
                 /\ starter' = [starter EXCEPT ![p].pc = "apply", ![p].applied = @ \cup {id}]
                 /\ migration_ledger' = [i \in DOMAIN migration_ledger \cup {id} |->
                        IF i \in DOMAIN migration_ledger THEN migration_ledger[i]
                        ELSE _compute_checksum(starter[p].release, id)]
          BY <3>6, Zenon DEF _record_migration
        <4>3. Live(id) /\ <<id, _compute_checksum(starter[p].release, id)>> \in executed
          BY <1>2, <4>1, ZenonT(30) DEF MigrationInv, Started
        <4>4. id \in Int
          BY DEF Current, Pending
        <4>5. starter' \in [Starters -> Starter] /\ starter'[p].applied = starter[p].applied \cup {id}
              /\ starter'[p].pc = "apply"
          BY <1>2, <4>2, <4>4, Zenon DEF MigrationInv, Starter
        <4>6. Started(p)'
          BY <1>2, <4>1, <4>3, <4>5, Zenon DEF MigrationInv, Started, Live
        <4> QED BY <1>2, <4>1, <4>2, <4>3, <4>4, <4>5, <4>6, Zenon DEF MigrationInv, Live
      <3>7. CASE serve(p)
        <4>1. starter' = [starter EXCEPT ![p].pc = "serving"] /\ Pending(p) = {}
              /\ migration_ledger' = migration_ledger
          BY <3>7, Zenon DEF serve
        <4>2. /\ starter' \in [Starters -> Starter] /\ starter'[p].pc = "serving"
              /\ starter'[p].applied = starter[p].applied /\ starter'[p].release = starter[p].release
          BY <1>2, <4>1, Zenon DEF MigrationInv, Starter
        <4>3. Started(p)'
          BY <1>2, <3>1, <4>1, <4>2, ZenonT(30) DEF MigrationInv, Started, Live, Pending
        <4> QED BY <1>2, <3>1, <4>1, <4>2, <4>3, Zenon DEF MigrationInv, Live
      <3>8. CASE Crash(p)
        <4>1. starter' = [starter EXCEPT ![p] = Down] /\ migration_ledger' = migration_ledger
          BY <3>8, Zenon DEF Crash
        <4>2. starter' \in [Starters -> Starter] /\ starter'[p] = Down
          BY <1>2, DownStarter, <4>1, ZenonT(30) DEF MigrationInv
        <4>3. Started(p)'
          BY <4>2, DownStarter, Zenon DEF Started
        <4> QED BY <1>2, <3>1, <4>1, <4>2, <4>3, Zenon DEF MigrationInv, Live
      <3> QED BY <2>2, <3>4, <3>5, <3>6, <3>7, <3>8, Zenon
    <2> QED BY <1>2, <2>1, <2>2, Zenon DEF MigrationNext
  <1> QED BY <1>1, <1>2, PTL DEF MigrationSpec

\* The invariant says in particular that the ledger is not ahead of the schema.
LEMMA LedgerIsBehind == MigrationInv => LedgerBehindSchema
  <1> SUFFICES ASSUME MigrationInv PROVE LedgerBehindSchema
    BY Zenon
  <1>1. ASSUME NEW p \in Starters, starter[p].pc = "serving",
               NEW id \in 1 .. LastMigration[starter[p].release]
        PROVE  MIGRATIONS[id] \subseteq live_columns
    <2>1. Pending(p) = {} /\ \A i \in starter[p].applied : Live(i)
      BY <1>1, Zenon DEF MigrationInv, Started
    <2>2. id \in starter[p].applied
      BY <1>1, <2>1, Zenon DEF Pending
    <2> QED BY <2>1, <2>2, ZenonT(30) DEF Live
  <1> QED BY <1>1, Zenon DEF MigrationInv, LedgerBehindSchema, Live

---------------------------------------------------------------------------
(* Lineage.                                                                *)

LineageRecord == [output : Artifacts \cup {0}, parents : Seq(Artifacts), began : Nat]

Registering == [pc : {"idle", "walk", "duplicate", "insert"}, output : Artifacts \cup {0},
                parents : Seq(Artifacts), roots : Seq(Artifacts), stack : Seq(Artifacts),
                visited : SUBSET Artifacts, began : Nat]

\* The artifacts whose ancestors do not include o: they are in a set that is closed
\* under taking parents and does not contain o.
Safe(o) == {a \in Artifacts : \E C \in SUBSET Artifacts :
               a \in C /\ o \notin C /\ \A c \in C : Derived(c) \subseteq C}

\* What a walk has established, as long as no record was added since the request began:
\* every parent is safe, visited or still to be walked, and the parents of what it has
\* visited are visited or on the stack.
Walked(q) ==
    /\ q.output \in Artifacts /\ q.output \notin q.visited
    /\ \A a \in Range(q.parents) :
          a \in Range(q.roots) \/ a \in Range(q.stack) \/ a \in q.visited \/ a \in Safe(q.output)
    /\ \A a \in q.visited : Derived(a) \subseteq q.visited \cup Range(q.stack)

Ready(q) ==
    /\ q.pc \in {"duplicate", "insert"} => q.stack = <<>> /\ q.roots = <<>> /\ q.visited = {}
    /\ q.pc = "insert" => find_lineage_by_output_digest(q.output) = {}

OneRecordEach == \A i, j \in DOMAIN lineage : i # j => lineage[i].output # lineage[j].output

LineageTypeOK ==
    /\ lineage \in Seq(LineageRecord) /\ request \in [Registrants -> Registering]
    /\ \A r \in Registrants :
          request[r].began <= Len(lineage) /\ (request[r].pc = "walk" => request[r].stack # <<>>)

Alone(q) == Unoverlapped /\ q.pc # "idle" /\ q.began = Len(lineage)

LineageInv ==
    /\ LineageTypeOK
    /\ Unoverlapped => Acyclic /\ OneRecordEach
    /\ \A r \in Registrants : Alone(request[r]) => Walked(request[r]) /\ Ready(request[r])

\* What is visited when a walk has nothing left to visit is safe.
LEMMA WalkEnds ==
    ASSUME NEW q \in Registering, Walked(q), q.stack = <<>>
    PROVE  q.visited \subseteq Safe(q.output)
  <1>1. Range(q.stack) = {}
    BY DEF Range
  <1>2. \A c \in q.visited : Derived(c) \subseteq q.visited
    BY <1>1, Zenon DEF Walked
  <1>3. q.visited \in SUBSET Artifacts /\ q.output \notin q.visited
    BY Zenon DEF Registering, Walked
  <1> QED BY <1>2, <1>3, Zenon DEF Safe

\* The elements of a sequence by its first element, and those of a concatenation.
LEMMA RangeOfParts ==
    ASSUME NEW S, NEW s \in Seq(S), NEW t \in Seq(S)
    PROVE  /\ s # <<>> => /\ Head(s) \in S /\ Tail(s) \in Seq(S)
                          /\ Range(s) = {Head(s)} \cup Range(Tail(s))
           /\ s \o t \in Seq(S) /\ Range(s \o t) = Range(s) \cup Range(t)
           /\ \A a \in S : <<a>> \in Seq(S) /\ Range(<<a>>) = {a}
           /\ Range(<<>>) = {}
  <1>1. ASSUME s # <<>> PROVE Range(s) = {Head(s)} \cup Range(Tail(s))
    <2>1. DOMAIN s = 1 .. Len(s) /\ DOMAIN Tail(s) = 1 .. Len(Tail(s)) /\ Head(s) = s[1] /\ 1 \in 1 .. Len(s)
      BY <1>1
    <2>2. \A i \in 1 .. Len(s) : i = 1 \/ (i - 1 \in 1 .. Len(Tail(s)) /\ Tail(s)[i - 1] = s[i])
      BY <1>1
    <2>3. \A j \in 1 .. Len(Tail(s)) : j + 1 \in 1 .. Len(s) /\ Tail(s)[j] = s[j + 1]
      BY <1>1
    <2>4. Range(s) \subseteq {Head(s)} \cup Range(Tail(s))
      BY <2>1, <2>2, Zenon DEF Range
    <2>5. ASSUME NEW x \in Range(Tail(s)) PROVE x \in Range(s)
      <3>1. PICK j \in 1 .. Len(Tail(s)) : x = Tail(s)[j]
        BY <2>1, Zenon DEF Range
      <3>2. j + 1 \in DOMAIN s /\ x = s[j + 1]
        BY <2>1, <2>3, <3>1, Zenon
      <3> QED BY <3>2, Zenon DEF Range
    <2>6. Head(s) \in Range(s)
      BY <2>1, Zenon DEF Range
    <2> QED BY <2>4, <2>5, <2>6, Zenon
  <1>2. Range(s \o t) = Range(s) \cup Range(t)
    <2>1. DOMAIN s = 1 .. Len(s) /\ DOMAIN t = 1 .. Len(t) /\ DOMAIN (s \o t) = 1 .. Len(s \o t)
      OBVIOUS
    <2>2. \A i \in 1 .. Len(s \o t) :
              \/ i \in 1 .. Len(s) /\ (s \o t)[i] = s[i]
              \/ i - Len(s) \in 1 .. Len(t) /\ (s \o t)[i] = t[i - Len(s)]
      OBVIOUS
    <2>3. /\ \A i \in 1 .. Len(s) : i \in 1 .. Len(s \o t) /\ (s \o t)[i] = s[i]
          /\ \A i \in 1 .. Len(t) : i + Len(s) \in 1 .. Len(s \o t) /\ (s \o t)[i + Len(s)] = t[i]
      OBVIOUS
    <2>4. Range(s \o t) \subseteq Range(s) \cup Range(t)
      BY <2>1, <2>2, Zenon DEF Range
    <2>5. Range(s) \subseteq Range(s \o t) /\ Range(t) \subseteq Range(s \o t)
      BY <2>1, <2>3, Zenon DEF Range
    <2> QED BY <2>4, <2>5, Zenon
  <1>3. \A a \in S : Range(<<a>>) = {a}
    BY DEF Range
  <1>4. Range(<<>>) = {}
    BY DEF Range
  <1> QED BY <1>1, <1>2, <1>3, <1>4

\* The request after the next parent is taken up, or after the last one is done.
LEMMA NextRootFields ==
    ASSUME NEW q \in Registering, q.pc = "walk"
    PROVE  LET v == validate_lineage_graph(q) IN
           /\ v \in Registering /\ v.began = q.began /\ v.parents = q.parents /\ v.output = q.output
           /\ \/ v = q /\ q.stack # <<>>
              \/ /\ v.pc = "duplicate" /\ q.stack = <<>> /\ q.roots = <<>>
                 /\ v.stack = <<>> /\ v.roots = <<>> /\ v.visited = {}
              \/ /\ v.pc = "walk" /\ q.stack = <<>> /\ v.stack # <<>> /\ v.visited = {}
                 /\ Range(v.stack) \cup Range(v.roots) = Range(q.roots)
  <1> DEFINE v == validate_lineage_graph(q)
  <1>1. CASE q.stack # <<>>
    BY <1>1, Zenon DEF validate_lineage_graph
  <1>2. CASE q.stack = <<>> /\ q.roots = <<>>
    <2>1. v = [q EXCEPT !.pc = "duplicate", !.visited = {}]
      BY <1>2, ZenonT(30) DEF validate_lineage_graph
    <2> QED BY <1>2, <2>1, Zenon DEF Registering
  <1>3. CASE q.stack = <<>> /\ q.roots # <<>>
    <2>1. v = [q EXCEPT !.roots = Tail(@), !.stack = <<Head(q.roots)>>, !.visited = {}]
      BY <1>3, Zenon DEF validate_lineage_graph
    <2>2. q.roots \in Seq(Artifacts)
      BY ZenonT(30) DEF Registering
    <2>3. /\ Head(q.roots) \in Artifacts /\ Tail(q.roots) \in Seq(Artifacts)
          /\ Range(q.roots) = {Head(q.roots)} \cup Range(Tail(q.roots))
          /\ <<Head(q.roots)>> \in Seq(Artifacts) /\ Range(<<Head(q.roots)>>) = {Head(q.roots)}
      BY <1>3, <2>2, RangeOfParts, ZenonT(30)
    <2>4. /\ v \in Registering /\ v.began = q.began /\ v.pc = "walk" /\ v.visited = {}
          /\ v.stack = <<Head(q.roots)>> /\ v.roots = Tail(q.roots) /\ v.parents = q.parents
          /\ v.output = q.output
      BY <2>1, <2>3, Zenon DEF Registering
    <2> HIDE DEF v
    <2>5. <<Head(q.roots)>> # <<>>
      BY Zenon
    <2> QED BY <1>3, <2>3, <2>4, <2>5, ZenonT(30) DEF v
  <1> QED BY <1>1, <1>2, <1>3, ZenonT(30)

\* Taking up the next parent keeps what the walk has established.
LEMMA NextRoot ==
    ASSUME NEW q \in Registering, q.pc = "walk", Walked(q)
    PROVE  Walked(validate_lineage_graph(q)) /\ Ready(validate_lineage_graph(q))
  <1> DEFINE v == validate_lineage_graph(q)
  <1>1. CASE v = q /\ q.stack # <<>>
    BY <1>1, Zenon DEF Ready
  <1>2. CASE q.stack = <<>> /\ ~(v = q /\ q.stack # <<>>)
    <2>1. /\ v.parents = q.parents /\ v.output = q.output /\ v.visited = {}
          /\ Range(v.stack) \cup Range(v.roots) = Range(q.roots)
          /\ v.pc \in {"walk", "duplicate"}
          /\ v.pc = "duplicate" => v.stack = <<>> /\ v.roots = <<>>
      <3> HIDE DEF v
      <3> QED BY <1>2, NothingInEmpty, NextRootFields, Zenon DEF v
    <2>2. q.visited \subseteq Safe(q.output) /\ Range(q.stack) = {}
      BY <1>2, WalkEnds DEF Range
    <2> HIDE DEF v
    <2>3. Walked(v)
      BY <2>1, <2>2, Zenon DEF Walked
    <2>4. Ready(v)
      BY <2>1, Zenon DEF Ready
    <2> QED BY <2>3, <2>4, ZenonT(30) DEF v
  <1> QED BY <1>1, <1>2, NextRootFields, ZenonT(30)

\* One visit keeps what the walk has established.
LEMMA OneVisit ==
    ASSUME NEW q \in Registering, q.stack # <<>>, NEW more \in Seq(Artifacts)
    PROVE  LET id == Head(q.stack)
               v == [q EXCEPT !.stack = more \o Tail(@), !.visited = @ \cup {id}] IN
           /\ v \in Registering /\ v.began = q.began /\ v.pc = q.pc /\ id \in Artifacts
           /\ Walked(q) /\ (id \in q.visited \/ (id # q.output /\ Derived(id) \subseteq Range(more)))
                => Walked(v)
  <1> DEFINE id == Head(q.stack)
             v == [q EXCEPT !.stack = more \o Tail(@), !.visited = @ \cup {id}]
  <1>1. q.stack \in Seq(Artifacts) /\ q.visited \in SUBSET Artifacts
    BY ZenonT(30) DEF Registering
  <1>2. id \in Artifacts /\ Tail(q.stack) \in Seq(Artifacts) /\ Range(q.stack) = {id} \cup Range(Tail(q.stack))
    BY <1>1, RangeOfParts, ZenonT(30)
  <1>3. more \o Tail(q.stack) \in Seq(Artifacts)
        /\ Range(more \o Tail(q.stack)) = Range(more) \cup Range(Tail(q.stack))
    <2> DEFINE rest == Tail(q.stack)
    <2>1. rest \in Seq(Artifacts)
      BY <1>2, Zenon
    <2> HIDE DEF rest
    <2>2. more \o rest \in Seq(Artifacts) /\ Range(more \o rest) = Range(more) \cup Range(rest)
      BY <2>1, RangeOfParts
    <2> QED BY <2>2, ZenonT(30) DEF rest
  <1>4. /\ v \in Registering /\ v.began = q.began /\ v.pc = q.pc
        /\ v.stack = more \o Tail(q.stack) /\ v.visited = q.visited \cup {id} /\ v.roots = q.roots
        /\ v.parents = q.parents /\ v.output = q.output
    BY <1>1, <1>2, <1>3, Zenon DEF Registering
  <1> HIDE DEF v, id
  <1>5. ASSUME Walked(q), id \in q.visited \/ (id # q.output /\ Derived(id) \subseteq Range(more))
        PROVE  Walked(v)
    <2>1. v.output \in Artifacts /\ v.output \notin v.visited
      BY <1>4, <1>5, Zenon DEF Walked
    <2>2. ASSUME NEW a \in Range(v.parents)
          PROVE  a \in Range(v.roots) \/ a \in Range(v.stack) \/ a \in v.visited \/ a \in Safe(v.output)
      BY <1>2, <1>3, <1>4, <1>5, <2>2, Zenon DEF Walked
    <2>3. ASSUME NEW a \in v.visited PROVE Derived(a) \subseteq v.visited \cup Range(v.stack)
      BY <1>2, <1>3, <1>4, <1>5, <2>3, Zenon DEF Walked
    <2> QED BY <2>1, <2>2, <2>3, ZenonT(30) DEF Walked
  <1> QED BY <1>2, <1>4, <1>5, Zenon DEF v, id

\* A step that changes one request and no record keeps the invariant, when the request
\* it leaves is sound.
LEMMA RequestStep ==
    ASSUME LineageInv, NEW r \in Registrants, NEW v \in Registering, v.began <= Len(lineage),
           v.pc = "walk" => v.stack # <<>>, Alone(v) => Walked(v) /\ Ready(v),
           lineage' = lineage, request' = [request EXCEPT ![r] = v]
    PROVE  LineageInv'
  <1>1. \A q \in Registrants : request'[q] = IF q = r THEN v ELSE request[q]
    BY ZenonT(30) DEF LineageInv, LineageTypeOK
  <1>2. LineageTypeOK'
    BY <1>1, ZenonT(30) DEF LineageInv, LineageTypeOK
  <1>3. \A a : Derived(a)' = Derived(a) /\ find_lineage_by_output_digest(a)' = find_lineage_by_output_digest(a)
    BY ZenonT(30) DEF Derived, find_lineage_by_output_digest
  <1>4. Unoverlapped' = Unoverlapped /\ (Acyclic /\ OneRecordEach => Acyclic' /\ OneRecordEach')
    BY <1>3, Zenon DEF Unoverlapped, Acyclic, OneRecordEach
  <1>5. \A o : Safe(o)' = Safe(o)
    BY <1>3, Zenon DEF Safe
  <1>6. ASSUME NEW q \in Registrants, Alone(request[q])'
        PROVE  Walked(request[q])' /\ Ready(request[q])'
    <2>1. PICK w \in Registering : w = request'[q] /\ (Alone(w) => Walked(w) /\ Ready(w))
      BY <1>1, Zenon DEF LineageInv, LineageTypeOK
    <2>2. Alone(w)
      BY <1>4, <1>6, <2>1, ZenonT(30) DEF Alone
    <2> QED BY <1>3, <1>5, <2>1, <2>2, Zenon DEF Walked, Ready
  <1> QED BY <1>2, <1>4, <1>6, ZenonT(30) DEF LineageInv

\* The request that is not there.
LEMMA IdleRequest ==
    NoRequest \in Registering /\ NoRequest.pc = "idle" /\ NoRequest.began = 0 /\ NoRequest.visited = {}
  BY DEF NoRequest, Registering

\* A request that is refused leaves the records alone.
LEMMA FinishStep ==
    ASSUME LineageInv, NEW r \in Registrants, Finish(r)
    PROVE  LineageInv'
  <1>1. lineage \in Seq(LineageRecord)
    BY Zenon DEF LineageInv, LineageTypeOK
  <1>2. 0 <= Len(lineage) /\ ~Alone(NoRequest)
    BY <1>1, IdleRequest DEF Alone
  <1> QED BY <1>2, RequestStep, IdleRequest, Zenon DEF Finish

\* A walk that has looked up one id and goes on with its parents, or with the next one.
LEMMA VisitStep ==
    ASSUME LineageInv, NEW r \in Registrants, request[r].pc = "walk", NEW more \in Seq(Artifacts),
           Visited(r, more),
           Unoverlapped => \/ Head(request[r].stack) \in request[r].visited
                           \/ /\ Head(request[r].stack) # request[r].output
                              /\ Derived(Head(request[r].stack)) \subseteq Range(more)
    PROVE  LineageInv'
  <1> DEFINE q == request[r]
             w == [q EXCEPT !.stack = more \o Tail(@), !.visited = @ \cup {Head(q.stack)}]
             v == validate_lineage_graph(w)
  <1>1. /\ q \in Registering /\ q.stack # <<>> /\ q.began <= Len(lineage)
        /\ Alone(q) => Walked(q)
    BY Zenon DEF LineageInv, LineageTypeOK
  <1>2. request' = [request EXCEPT ![r] = v] /\ lineage' = lineage
    BY Zenon DEF Visited
  <1>3. w \in Registering /\ w.began = q.began /\ w.pc = "walk" /\ (Alone(q) => Walked(w))
    <2> HIDE DEF q
    <2>1. Alone(q) => Unoverlapped
      BY ZenonT(30) DEF Alone
    <2> QED BY <1>1, <2>1, OneVisit, Zenon DEF q
  <1> HIDE DEF w, q
  <1>4. v \in Registering /\ v.began = q.began /\ (v.pc = "walk" => v.stack # <<>>)
    BY <1>3, NextRootFields, ZenonT(30)
  <1>5. Alone(v) => Walked(v) /\ Ready(v)
    <2>1. Alone(v) => Alone(q)
      BY <1>3, <1>4, Zenon DEF Alone, q
    <2> QED BY <1>3, <2>1, NextRoot, ZenonT(30)
  <1> HIDE DEF v
  <1> QED BY <1>1, <1>2, <1>4, <1>5, RequestStep, Zenon

\* What the query for a record finds when every output has one.
LEMMA FoundParents ==
    ASSUME LineageTypeOK, NEW id, NEW rec \in find_lineage_by_output_digest(id)
    PROVE  /\ rec.parents \in Seq(Artifacts) /\ rec.output = id
           /\ OneRecordEach => Derived(id) = Range(rec.parents)
  <1>1. PICK i \in DOMAIN lineage : rec = lineage[i] /\ rec.output = id
    BY Zenon DEF find_lineage_by_output_digest, Range
  <1>2. rec \in LineageRecord
    BY <1>1 DEF LineageTypeOK
  <1>3. ASSUME OneRecordEach, NEW other \in find_lineage_by_output_digest(id) PROVE other = rec
    <2>1. PICK j \in DOMAIN lineage : other = lineage[j] /\ other.output = id
      BY <1>3, Zenon DEF find_lineage_by_output_digest, Range
    <2> QED BY <1>1, <1>3, <2>1, Zenon DEF OneRecordEach
  <1>4. OneRecordEach => find_lineage_by_output_digest(id) = {rec}
    BY <1>3, Zenon
  <1> QED BY <1>1, <1>2, <1>4, Zenon DEF LineageRecord, Derived

\* The steps of a request before its insert.
LEMMA LineageStep ==
    ASSUME LineageInv, NEW r \in Registrants,
           register_lineage_event(r) \/ _contains_in_ancestry(r) \/ check_duplicate(r)
    PROVE  LineageInv'
  <1>1. CASE register_lineage_event(r)
    <2>1. PICK output \in Artifacts, parents \in ParentLists :
             request' = [request EXCEPT ![r] = validate_lineage_graph(
                [NoRequest EXCEPT !.pc = "walk", !.output = output, !.parents = parents,
                                  !.roots = parents, !.began = Len(lineage)])]
      BY <1>1, Zenon DEF register_lineage_event
    <2> DEFINE w == [NoRequest EXCEPT !.pc = "walk", !.output = output, !.parents = parents,
                                      !.roots = parents, !.began = Len(lineage)]
               v == validate_lineage_graph(w)
    <2>2. lineage' = lineage /\ request' = [request EXCEPT ![r] = v]
      BY <1>1, <2>1, Zenon DEF register_lineage_event
    <2>3. parents \in Seq(Artifacts) /\ Len(lineage) \in Nat
      BY LineageAssumption DEF LineageInv, LineageTypeOK
    <2>4. /\ w \in Registering /\ w.pc = "walk" /\ w.began = Len(lineage) /\ w.visited = {}
          /\ w.output = output /\ w.parents = parents /\ w.roots = parents
      BY <2>3, IdleRequest, Zenon DEF Registering
    <2> HIDE DEF w
    <2>5. Walked(w)
      BY <2>4, Zenon DEF Walked
    <2>6. /\ v \in Registering /\ v.began = Len(lineage) /\ (v.pc = "walk" => v.stack # <<>>)
      BY <2>4, NextRootFields, ZenonT(30)
    <2>7. Walked(v) /\ Ready(v)
      BY <2>4, <2>5, NextRoot, ZenonT(30)
    <2> HIDE DEF v
    <2>8. v.began <= Len(lineage)
      BY <2>3, <2>6
    <2> QED BY <2>2, <2>6, <2>7, <2>8, RequestStep, Zenon
  <1>2. CASE _contains_in_ancestry(r)
    <2> DEFINE id == Head(request[r].stack)
    <2>1. /\ request[r].pc = "walk"
          /\ \/ id \in request[r].visited /\ Visited(r, <<>>)
             \/ Finish(r)
             \/ id # request[r].output /\ find_lineage_by_output_digest(id) = {} /\ Visited(r, <<>>)
             \/ id # request[r].output /\ \E rec \in find_lineage_by_output_digest(id) : Visited(r, rec.parents)
      BY <1>2, Zenon DEF _contains_in_ancestry
    <2>2. <<>> \in Seq(Artifacts)
      OBVIOUS
    <2>3. find_lineage_by_output_digest(id) = {} => Derived(id) = {}
      BY ZenonT(30) DEF Derived
    <2>4. ASSUME NEW rec \in find_lineage_by_output_digest(id), id # request[r].output, Visited(r, rec.parents)
          PROVE  LineageInv'
      <3>1. rec.parents \in Seq(Artifacts) /\ (Unoverlapped => Derived(id) \subseteq Range(rec.parents))
        BY <2>4, FoundParents, Zenon DEF LineageInv
      <3> HIDE DEF id
      <3> QED BY <2>1, <2>4, <3>1, VisitStep, Zenon DEF id
    <2> QED BY <2>1, <2>2, <2>3, <2>4, VisitStep, FinishStep, Zenon
  <1>3. CASE check_duplicate(r)
    <2>1. CASE Finish(r)
      BY <2>1, FinishStep, Zenon
    <2>2. CASE ~Finish(r)
      <3> DEFINE q == request[r]
                 v == [q EXCEPT !.pc = "insert"]
      <3>1. /\ q.pc = "duplicate" /\ find_lineage_by_output_digest(q.output) = {}
            /\ request' = [request EXCEPT ![r].pc = "insert"] /\ lineage' = lineage
        BY <1>3, <2>2, ZenonT(30) DEF check_duplicate
      <3>2. q \in Registering /\ q.began <= Len(lineage) /\ (Alone(q) => Walked(q) /\ Ready(q))
        BY Zenon DEF LineageInv, LineageTypeOK
      <3>3. request' = [request EXCEPT ![r] = v]
        BY <3>1, Zenon
      <3>4. /\ v \in Registering /\ v.began = q.began /\ v.pc = "insert" /\ v.stack = q.stack
            /\ v.roots = q.roots /\ v.visited = q.visited /\ v.parents = q.parents /\ v.output = q.output
        BY <3>2, Zenon DEF Registering
      <3> HIDE DEF v, q
      <3>5. Alone(v) => Walked(v) /\ Ready(v)
        <4>1. Alone(v) => Alone(q)
          BY <3>1, <3>4, ZenonT(30) DEF Alone
        <4>2. Walked(q) => Walked(v)
          BY <3>4, Zenon DEF Walked
        <4>3. Ready(q) => Ready(v)
          BY <3>1, <3>4, Zenon DEF Ready
        <4> QED BY <3>2, <4>1, <4>2, <4>3, Zenon
      <3> QED BY <3>1, <3>2, <3>3, <3>4, <3>5, RequestStep, Zenon
    <2> QED BY <2>1, <2>2, Zenon
  <1> QED BY <1>1, <1>2, <1>3, Zenon

\* A record whose parents are all safe from its output, and the first for that output,
\* keeps the derivations free of cycles: from a set that meets every one of its
\* artifacts' parents, what is safe could be cut out with the same property before.
LEMMA InsertIsAcyclic ==
    ASSUME LineageTypeOK, Acyclic, OneRecordEach, NEW rec \in LineageRecord, lineage' = Append(lineage, rec),
           find_lineage_by_output_digest(rec.output) = {}, Range(rec.parents) \subseteq Safe(rec.output)
    PROVE  Acyclic' /\ OneRecordEach'
  <1> DEFINE o == rec.output
  <1>1. lineage \in Seq(LineageRecord)
    BY Zenon DEF LineageTypeOK
  <1>2. /\ DOMAIN lineage = 1 .. Len(lineage) /\ DOMAIN lineage' = 1 .. Len(lineage) + 1
        /\ lineage'[Len(lineage) + 1] = rec /\ \A i \in 1 .. Len(lineage) : lineage'[i] = lineage[i]
    BY <1>1
  <1>3. \A i \in DOMAIN lineage : lineage[i].output # o
    BY Zenon DEF find_lineage_by_output_digest, Range
  <1>4. OneRecordEach'
    BY <1>1, <1>2, <1>3 DEF OneRecordEach
  <1>5. Range(lineage') = Range(lineage) \cup {rec}
    <2>1. \A i \in DOMAIN lineage' : i \in DOMAIN lineage \/ i = Len(lineage) + 1
      BY <1>1, <1>2
    <2>2. \A i \in DOMAIN lineage : i \in DOMAIN lineage'
      BY <1>1, <1>2
    <2>3. Len(lineage) + 1 \in DOMAIN lineage'
      BY <1>1, <1>2
    <2> QED BY <1>2, <2>1, <2>2, <2>3, Zenon DEF Range
  <1>6. Derived(o) = {} /\ \A a : a # o => Derived(a)' = Derived(a)
    BY <1>5, Zenon DEF Derived, find_lineage_by_output_digest
  <1>7. Derived(o)' = Range(rec.parents)
    <2>1. find_lineage_by_output_digest(o)' = {rec}
      <3>1. \A e \in Range(lineage) : e.output # o
        BY <1>3, Zenon DEF Range
      <3> QED BY <1>5, <3>1, Zenon DEF find_lineage_by_output_digest
    <2> QED BY <2>1, Zenon DEF Derived
  <1>8. o \notin Safe(o) /\ \A a \in Safe(o) : Derived(a) \subseteq Safe(o)
    BY Zenon DEF Safe
  <1> HIDE DEF o
  <1>9. ASSUME NEW S \in SUBSET Artifacts, S # {}, \A a \in S : Derived(a)' \cap S # {}
        PROVE  FALSE
    <2>1. CASE o \notin S
      BY <1>6, <1>9, <2>1, Zenon DEF Acyclic
    <2>2. CASE o \in S
      <3> DEFINE T == S \cap Safe(o)
      <3>1. T # {}
        BY <1>7, <1>9, <2>2, Zenon DEF o
      <3>2. \A a \in T : Derived(a) \cap T # {}
        BY <1>6, <1>8, <1>9, Zenon
      <3>3. T \in SUBSET Artifacts
        BY <1>9, Zenon
      <3> QED BY <3>1, <3>2, <3>3, Zenon DEF Acyclic
    <2> QED BY <2>1, <2>2, Zenon
  <1> QED BY <1>4, <1>9, Zenon DEF Acyclic

\* The insert of a request that walked the whole ancestry keeps the records acyclic.
LEMMA InsertStep ==
    ASSUME LineageInv, NEW r \in Registrants, insert_lineage_event(r)
    PROVE  LineageInv'
  <1> DEFINE q == request[r]
             rec == [output |-> q.output, parents |-> q.parents, began |-> q.began]
  <1>1. /\ q.pc = "insert" /\ request' = [request EXCEPT ![r] = NoRequest]
        /\ lineage' = lineage \/ lineage' = Append(lineage, rec)
    BY Zenon DEF insert_lineage_event
  <1>2. CASE lineage' = lineage
    BY <1>1, <1>2, FinishStep, Zenon DEF Finish
  <1>3. CASE lineage' = Append(lineage, rec)
    <2>1. /\ lineage \in Seq(LineageRecord) /\ request \in [Registrants -> Registering]
          /\ q \in Registering /\ q.began <= Len(lineage)
      BY ZenonT(30) DEF LineageInv, LineageTypeOK
    <2>2. rec \in LineageRecord /\ rec.output = q.output /\ rec.parents = q.parents /\ rec.began = q.began
      BY <2>1, ZenonT(30) DEF Registering, LineageRecord
    <2> HIDE DEF rec, q
    <2>3. /\ Len(lineage) \in Nat /\ Len(lineage') = Len(lineage) + 1 /\ lineage' \in Seq(LineageRecord)
          /\ lineage'[Len(lineage) + 1] = rec /\ \A i \in 1 .. Len(lineage) : lineage'[i] = lineage[i]
          /\ DOMAIN lineage = 1 .. Len(lineage) /\ DOMAIN lineage' = 1 .. Len(lineage) + 1
      BY <1>3, <2>1, <2>2
    <2>4. \A p \in Registrants : request'[p] = NoRequest \/ request'[p] = request[p]
      BY <1>1, <2>1, ZenonT(30)
    <2>5. LineageTypeOK'
      <3>1. request' \in [Registrants -> Registering]
        BY <1>1, <2>1, IdleRequest, ZenonT(30)
      <3>2. \A p \in Registrants : request[p].began <= Len(lineage) /\ request[p].began \in Nat
            /\ (request[p].pc = "walk" => request[p].stack # <<>>)
        BY <2>1, ZenonT(30) DEF LineageInv, LineageTypeOK, Registering
      <3>3. \A p \in Registrants : /\ request'[p].began <= Len(lineage')
                                    /\ (request'[p].pc = "walk" => request'[p].stack # <<>>)
        <4>1. \A p \in Registrants : request[p].began <= Len(lineage') /\ 0 <= Len(lineage')
          BY <2>3, <3>2, AppendedAfter, Zenon
        <4> QED BY <2>4, <3>2, <4>1, IdleRequest, Zenon
      <3> QED BY <2>3, <3>1, <3>3, ZenonT(30) DEF LineageTypeOK
    <2>6. ASSUME NEW p \in Registrants PROVE ~Alone(request[p])'
      <3>1. request[p].began <= Len(lineage) /\ request[p].began \in Nat
        BY <2>1, ZenonT(30) DEF LineageInv, LineageTypeOK, Registering
      <3>2. request[p].began # Len(lineage')
        BY <2>3, <3>1, AppendedAfter, Zenon
      <3> QED BY <2>4, <3>2, IdleRequest, Zenon DEF Alone
    <2>7. ASSUME Unoverlapped' PROVE Acyclic' /\ OneRecordEach'
      <3>1. Unoverlapped /\ q.began = Len(lineage)
        BY <2>2, <2>3, <2>7 DEF Unoverlapped
      <3>2. Walked(q) /\ Ready(q)
        BY <1>1, <3>1, ZenonT(30) DEF LineageInv, Alone, q
      <3>3. Range(q.stack) = {} /\ Range(q.roots) = {} /\ q.visited = {}
            /\ find_lineage_by_output_digest(q.output) = {}
        BY <1>1, <3>2, NothingInEmpty, Zenon DEF Ready, q
      <3>4. Range(rec.parents) \subseteq Safe(rec.output)
        BY <2>2, <3>2, <3>3, Zenon DEF Walked
      <3>5. LineageTypeOK /\ Acyclic /\ OneRecordEach
        BY <3>1, Zenon DEF LineageInv
      <3> QED BY <1>3, <2>2, <3>3, <3>4, <3>5, InsertIsAcyclic, ZenonT(30)
    <2> QED BY <2>5, <2>6, <2>7, ZenonT(30) DEF LineageInv
  <1> QED BY <1>1, <1>2, <1>3, ZenonT(30)

\* Every step of every registration keeps the invariant of the lineage records.
LEMMA LineageInvHolds == LineageSpec => []LineageInv
  <1>1. ASSUME LineageInit PROVE LineageInv
    <2>1. /\ lineage = <<>> /\ request \in [Registrants -> Registering]
          /\ \A r \in Registrants : request[r] = NoRequest
      BY <1>1, IdleRequest, Zenon DEF LineageInit
    <2>2. LineageTypeOK
      BY <2>1, IdleRequest DEF LineageTypeOK
    <2>3. \A r \in Registrants : ~Alone(request[r])
      BY <2>1, IdleRequest, Zenon DEF Alone
    <2>4. \A a : Derived(a) = {}
      BY <2>1 DEF Derived, find_lineage_by_output_digest, Range
    <2>5. Acyclic /\ OneRecordEach
      BY <2>1, <2>4 DEF Acyclic, OneRecordEach
    <2> QED BY <2>2, <2>3, <2>5, Zenon DEF LineageInv
  <1>2. ASSUME LineageInv, [LineageNext]_lineageVars PROVE LineageInv'
    <2>1. CASE UNCHANGED lineageVars
      <3>1. lineage' = lineage /\ request' = request
        BY <2>1, ZenonT(30) DEF lineageVars
      <3>2. CASE Registrants = {}
        <4>1. \A a : Derived(a)' = Derived(a)
          BY <3>1, Zenon DEF Derived, find_lineage_by_output_digest
        <4> QED BY <1>2, <3>1, <3>2, <4>1, Zenon DEF LineageInv, LineageTypeOK, Unoverlapped, Acyclic, OneRecordEach
      <3>3. ASSUME NEW r \in Registrants PROVE LineageInv'
        <4>1. request' = [request EXCEPT ![r] = request[r]]
          BY <1>2, <3>1, Zenon DEF LineageInv, LineageTypeOK
        <4> QED BY <1>2, <3>1, <4>1, RequestStep, Zenon DEF LineageInv, LineageTypeOK
      <3> QED BY <3>2, <3>3, Zenon
    <2>2. ASSUME NEW r \in Registrants,
                 \/ register_lineage_event(r) \/ _contains_in_ancestry(r)
                 \/ check_duplicate(r) \/ insert_lineage_event(r)
          PROVE  LineageInv'
      BY <1>2, <2>2, LineageStep, InsertStep, Zenon
    <2> QED BY <1>2, <2>1, <2>2, Zenon DEF LineageNext
  <1> QED BY <1>1, <1>2, PTL DEF LineageSpec

(* The two ledgers of the database are sound, for any releases and edited migrations, any
   number of processes that start and die at any point, any artifacts and any lists of
   parents: run_migrations records only what it has committed, and lineage records that
   were registered one at a time never make an artifact its own ancestor. *)
THEOREM BothLedgersAreSound == MigrationSpec /\ LineageSpec => []LedgersAreSound
  <1>1. MigrationInv => LedgerBehindSchema
    BY LedgerIsBehind, Zenon
  <1>2. LineageInv => LineageSoundAlone
    BY Zenon DEF LineageInv, LineageSoundAlone, OneRecordEach
  <1> QED BY <1>1, <1>2, MigrationInvHolds, LineageInvHolds, PTL DEF LedgersAreSound
=============================================================================
