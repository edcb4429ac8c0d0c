------------------------------- MODULE MCRecords -------------------------------
(***************************************************************************)
(* What the backend keeps, for TLC: registrations, jobs and their files,   *)
(* resumable uploads, the issuer key directory, the schema and the lineage *)
(* of artifacts.  They share no step, so a behaviour is about one of them, *)
(* its focus.  Registrations are two foci: concurrent requests with the    *)
(* retention worker, and reconcilers with a single client whose requests   *)
(* do not fail.                                                            *)
(***************************************************************************)
EXTENDS RegisterRequests, KeyDirectory, Schema, Lineage, Uploads, TLC

CONSTANTS Foci, c1, ka, kb, t1, p1, da, db

VARIABLE focus

recordsVars == <<focus, proofEventVars, requestVars, jobVars, directoryVars,
                 migrationVars, lineageVars, uploadVars>>

\* Two registrations of one proof: one with a transaction, one without.
Transactions == (ka :> t1) @@ (kb :> NoTx)
OneProof == [k \in Keys |-> p1]
Requests ==
    (da :> [key |-> ka, owner |-> "o1", days |-> 1, status |-> "none"])
    @@ (db :> [key |-> kb, owner |-> "o2", days |-> 1, status |-> "none"])

\* A release and its successor, and one that changed a migration already released.
LastMigrations == [a |-> 2, b |-> 3, c |-> 2]
EditedMigrations == {<<"c", 2>>}

\* A release with the whole chain of migration.py.
WholeChain == [a |-> 12]

\* Lists of one and of two parents, and one too long.
ListsOfParents == {<<1>>, <<2>>, <<3>>, <<1, 2>>, <<3, 1>>, <<3, 2>>, <<1, 2, 3>>}

RecordsInit ==
    /\ focus \in Foci
    /\ ProofEventsInit /\ RegisterInit /\ JobInit /\ DirectoryInit
    /\ MigrationInit /\ LineageInit /\ UploadInit

RegisterFocus ==
    \/ focus = "register" /\ RegisterNext /\ UNCHANGED <<reconciler, ledger, included, revoked>>
    \/ /\ focus = "reconcile" /\ RegisterNext
       /\ UNCHANGED faults
       /\ \A c \in Clients \ {c1} : UNCHANGED client[c]
    \/ focus \notin {"register", "reconcile"} /\ UNCHANGED <<proofEventVars, requestVars>>

RecordsNext ==
    /\ RegisterFocus
    /\ IF focus = "jobs" THEN JobNext ELSE UNCHANGED jobVars
    /\ IF focus = "directory" THEN DirectoryNext ELSE UNCHANGED directoryVars
    /\ IF focus = "migrations" THEN MigrationNext ELSE UNCHANGED migrationVars
    /\ IF focus = "lineage" THEN LineageNext ELSE UNCHANGED lineageVars
    /\ IF focus = "uploads" THEN UploadNext ELSE UNCHANGED uploadVars
    /\ UNCHANGED focus

RecordsSpec == RecordsInit /\ [][RecordsNext]_recordsVars
=============================================================================
