------------------------------- MODULE JobQueue -------------------------------
(***************************************************************************)
(* The media jobs of a backend process: the job store in memory (db.py),   *)
(* the worker loop with the thread that runs a leased job (worker.py), and *)
(* the files of the jobs on disk with the sweeper that removes them        *)
(* (storage.py).  Jobs are lost and their ids start again when the process *)
(* restarts; the files stay.  A file records which enqueued job wrote it,  *)
(* as a number that never repeats.                                         *)
(***************************************************************************)
EXTENDS Naturals, FiniteSets

CONSTANTS JobIds,       \* 1 .. the ids handed out between restarts
          MaxBorn,      \* bound: jobs ever enqueued
          JobTtl,       \* config.job_file_ttl_seconds, in days
          MaxJobDay,    \* bound on the clock
          MaxShutdowns, \* bound: releases at shutdown and restarts
          NoJob, NoFile

Terminal == {"completed", "failed", "cancelled"}
Kinds == {"embed", "extract"}
Job == [kind : Kinds, status : {"pending", "running"} \cup Terminal, born : Nat,
        purged : BOOLEAN, created : Nat, completed : Nat \cup {NoFile}, failed : Nat \cup {NoFile}]
JobFile == [by : Nat, day : Nat]

ASSUME JobAssumption ==
    /\ JobIds \subseteq Nat \ {0}
    /\ JobTtl \in Nat
    /\ NoJob \notin Job
    /\ NoFile \notin Nat /\ NoFile \notin JobFile

VARIABLES store,      \* _JOBS
          next_id,    \* _next_job_id
          born,       \* jobs ever enqueued
          in_file,    \* job_<id>_input: who wrote it and when
          out_file,   \* job_<id>_output
          threads,    \* the thread of the job in progress, if any, with what it has done
          stopping,   \* the worker's stop event
          shutdowns,
          today

jobVars == <<store, next_id, born, in_file, out_file, threads, stopping, shutdowns, today>>

JobInit ==
    /\ store = [j \in JobIds |-> NoJob] /\ next_id = 1 /\ born = 0
    /\ in_file = [j \in JobIds |-> NoFile] /\ out_file = [j \in JobIds |-> NoFile]
    /\ threads = {} /\ stopping = FALSE /\ shutdowns = 0 /\ today = 0

FileOf(job) == [by |-> job.born, day |-> today]
SetJob(j, job) == store' = [store EXCEPT ![j] = job]
InStatus(job, status) == [job EXCEPT !.status = status]
Completed(job) == [job EXCEPT !.status = "completed", !.completed = today]
Purged(job) == [job EXCEPT !.purged = TRUE]
NewJob(kind) ==
    [kind |-> kind, status |-> "pending", born |-> born + 1, purged |-> FALSE,
     created |-> today, completed |-> NoFile, failed |-> NoFile]

\* External caller: the input is stored and the job enqueued (enqueue_job).
enqueue_job ==
    /\ next_id \in JobIds /\ born < MaxBorn
    /\ \E kind \in Kinds :
          /\ SetJob(next_id, NewJob(kind))
          /\ in_file' = [in_file EXCEPT ![next_id] = FileOf(NewJob(kind))]
    /\ next_id' = next_id + 1 /\ born' = born + 1
    /\ UNCHANGED <<stopping, out_file, threads, shutdowns, today>>

\* cancel_job: only a pending job can be cancelled.
cancel_job(j) ==
    /\ store[j] # NoJob /\ store[j].status = "pending"
    /\ SetJob(j, InStatus(store[j], "cancelled"))
    /\ UNCHANGED <<stopping, next_id, born, in_file, out_file, threads, shutdowns, today>>

\* lease_job: the oldest pending job; run_worker starts its thread and waits for it
\* before it leases the next one.
lease_job(j) ==
    /\ ~stopping /\ threads = {}
    /\ store[j] # NoJob /\ store[j].status = "pending"
    /\ \A i \in JobIds : i < j => (store[i] = NoJob \/ store[i].status # "pending")
    /\ SetJob(j, InStatus(store[j], "running"))
    /\ threads' = {[job |-> j, born |-> store[j].born, kind |-> store[j].kind, at |-> "work"]}
    /\ UNCHANGED <<stopping, next_id, born, in_file, out_file, shutdowns, today>>

Becomes(t, step) == threads' = {[t EXCEPT !.at = step]}

\* process_embed and process_extract: the output is written and the event recorded,
\* and the input is removed; the job is completed later.  Without an input, or on
\* another error, nothing is done.
process_job(t) ==
    /\ t.at = "work"
    /\ \/ /\ in_file[t.job] # NoFile
          /\ out_file' = IF t.kind # "embed" THEN out_file
                         ELSE [out_file EXCEPT ![t.job] = [by |-> t.born, day |-> today]]
          /\ in_file' = [in_file EXCEPT ![t.job] = NoFile]
          /\ Becomes(t, "complete")
       \/ Becomes(t, "retry") /\ UNCHANGED <<in_file, out_file>>
       \/ in_file[t.job] # NoFile /\ Becomes(t, "fatal") /\ UNCHANGED <<in_file, out_file>>
    /\ UNCHANGED <<stopping, store, next_id, born, shutdowns, today>>

\* complete_job, whatever the job's status is by now.
complete_job(t) ==
    /\ t.at = "complete"
    /\ SetJob(t.job, Completed(store[t.job]))
    /\ threads' = {}
    /\ UNCHANGED <<stopping, next_id, born, in_file, out_file, shutdowns, today>>

\* fail_job: a ValueError is final, any other error puts the job back.
Failed(job, fatal) ==
    [job EXCEPT !.status = IF fatal THEN "failed" ELSE "pending", !.failed = today]

fail_job(t) ==
    /\ t.at \in {"retry", "fatal"}
    /\ SetJob(t.job, Failed(store[t.job], t.at = "fatal"))
    /\ threads' = {}
    /\ UNCHANGED <<stopping, next_id, born, in_file, out_file, shutdowns, today>>

\* run_worker at shutdown: the grace period is over and the job goes back to the
\* queue, while its thread runs on.
release_job(t) ==
    /\ shutdowns < MaxShutdowns
    /\ ~stopping
    /\ SetJob(t.job, Failed(store[t.job], FALSE))
    /\ stopping' = TRUE
    /\ shutdowns' = shutdowns + 1
    /\ UNCHANGED <<next_id, born, in_file, out_file, threads, today>>

\* The process ends, after a release or by a crash, and starts again: the store and
\* the thread are gone.
Restart ==
    /\ stopping \/ shutdowns < MaxShutdowns
    /\ store' = [j \in JobIds |-> NoJob] /\ next_id' = 1 /\ threads' = {}
    /\ stopping' = FALSE
    /\ shutdowns' = IF stopping THEN shutdowns ELSE shutdowns + 1
    /\ UNCHANGED <<born, in_file, out_file, today>>

\* When a job ended, as sweep_job_files finds out: the first timestamp that is set.
\* cancel_job sets none.
EndedOn(job) ==
    IF job.completed # NoFile THEN job.completed
    ELSE IF job.failed # NoFile THEN job.failed ELSE job.created

\* Mutant of Sweepable: the age of the file decides, whatever became of its job.
Sweepable_by_age(j, file) == file # NoFile /\ today - file.day >= JobTtl

\* sweep_job_files removes a file of a job that ended JobTtl ago, and a file without
\* a job that was written JobTtl ago.
Sweepable(j, file) ==
    /\ file # NoFile
    /\ IF store[j] = NoJob THEN today - file.day >= JobTtl
       ELSE store[j].status \in Terminal /\ today - EndedOn(store[j]) >= JobTtl

\* Mutant of sweep_job_files: the job is not marked as purged.
sweep_job_files_unmarked ==
    /\ \E j \in JobIds : Sweepable(j, in_file[j]) \/ Sweepable(j, out_file[j])
    /\ in_file' = [j \in JobIds |-> IF Sweepable(j, in_file[j]) THEN NoFile ELSE in_file[j]]
    /\ out_file' = [j \in JobIds |-> IF Sweepable(j, out_file[j]) THEN NoFile ELSE out_file[j]]
    /\ UNCHANGED <<stopping, store, next_id, born, threads, shutdowns, today>>

sweep_job_files ==
    LET swept(j) == Sweepable(j, in_file[j]) \/ Sweepable(j, out_file[j])
    IN  /\ \E j \in JobIds : swept(j)
        /\ in_file' = [j \in JobIds |-> IF Sweepable(j, in_file[j]) THEN NoFile ELSE in_file[j]]
        /\ out_file' = [j \in JobIds |-> IF Sweepable(j, out_file[j]) THEN NoFile ELSE out_file[j]]
        /\ store' = [j \in JobIds |-> IF store[j] # NoJob /\ swept(j)
                                      THEN Purged(store[j]) ELSE store[j]]
        /\ UNCHANGED <<stopping, next_id, born, threads, shutdowns, today>>

\* A stopping process is gone within seconds.
NextDay ==
    /\ today < MaxJobDay /\ ~stopping
    /\ today' = today + 1
    /\ UNCHANGED <<stopping, store, next_id, born, in_file, out_file, threads, shutdowns>>

\* download_job_result: what GET /api/jobs/<id>/download answers.
Download(j) ==
    CASE store[j] = NoJob -> "404"
      [] store[j] # NoJob /\ store[j].purged -> "410"
      [] store[j] # NoJob /\ ~store[j].purged
            /\ (store[j].kind # "embed" \/ store[j].status # "completed") -> "400"
      [] OTHER -> IF out_file[j] = NoFile THEN "410" ELSE "file"

JobNext ==
    \/ enqueue_job \/ sweep_job_files \/ Restart \/ NextDay
    \/ \E j \in JobIds : cancel_job(j) \/ lease_job(j)
    \/ \E t \in threads : process_job(t) \/ complete_job(t) \/ fail_job(t) \/ release_job(t)

JobSpec == JobInit /\ [][JobNext]_jobVars

-----------------------------------------------------------------------------

\* A job that still has to run has its own input: the sweeper leaves the files of
\* pending and running jobs alone, also when ids are used again after a restart and
\* files of an earlier life are about.  Only a job whose thread has used the input up,
\* and is about to mark it completed, is without.
UnfinishedKeepsInput ==
    \A j \in JobIds :
        store[j] # NoJob /\ store[j].status \in {"pending", "running"} =>
            \/ in_file[j] # NoFile /\ in_file[j].by = store[j].born
            \/ in_file[j] = NoFile /\ \E t \in threads : t.job = j /\ t.at = "complete"

\* A download is the job's own work: when the endpoint serves a file it was written by
\* this job and not by an earlier one of the same id, and a completed embed job whose
\* file is gone says so in its `purged` mark.
DownloadIsOwnOutput ==
    \A j \in JobIds :
        /\ Download(j) = "file" => out_file[j].by = store[j].born
        /\ Download(j) = "410" => store[j].purged
=============================================================================
