------------------------------ MODULE Migrations ------------------------------
(***************************************************************************)
(* Schema migrations (migration.py): every process runs the pending ones   *)
(* at startup, several processes may start at once, each with its own      *)
(* version of the code, and may die at any point.  The SQL of a migration  *)
(* and its row in the schema_migrations ledger are separate transactions.  *)
(* What the migrations of the repository create is in Schema.              *)
(***************************************************************************)
EXTENDS Naturals, Sequences, FiniteSets

CONSTANTS MIGRATIONS,     \* the columns each migration leaves in the schema, in order
          LedgerColumns,  \* the columns of schema_migrations
          Starters,       \* processes that start the application
          Releases,       \* deployed versions of the code
          Edited,         \* <<release, id>>: the release changed the SQL of that migration
          LastMigration,  \* release -> the migrations it defines are 1 .. LastMigration[release]
          MaxStarts       \* bound on the number of starts

VARIABLES live_columns,   \* information_schema: the columns that exist
          migration_ledger, \* schema_migrations: id -> checksum, for the recorded ids
          executed,       \* history: <<id, checksum>> of the SQL that was committed
          starter,        \* process -> where its startup is
          starts

migrationVars == <<live_columns, migration_ledger, executed, starter, starts>>

-----------------------------------------------------------------------------
ASSUME MigrationsAssumption ==
    /\ LastMigration \in [Releases -> 1 .. Len(MIGRATIONS)]
    /\ Edited \subseteq Releases \X (1 .. Len(MIGRATIONS)) /\ MaxStarts \in Nat

\* _compute_checksum: the release that last edited the SQL stands for its digest.
_compute_checksum(release, id) == IF <<release, id>> \in Edited THEN release ELSE "original"

-----------------------------------------------------------------------------
Down == [pc |-> "down", release |-> CHOOSE r \in Releases : TRUE, applied |-> {}, enforce |-> TRUE]

MigrationInit ==
    /\ live_columns = {} /\ migration_ledger = [id \in {} |-> "original"] /\ executed = {}
    /\ starter = [p \in Starters |-> Down] /\ starts = 0

\* _verify_records: a row the code does not define, or with another checksum.
_verify_records(release, rows) ==
    {id \in DOMAIN rows : id > LastMigration[release] \/ rows[id] # _compute_checksum(release, id)}

\* The start of run_migrations: the ledger table, one reading of it, and the checks.
run_migrations(p) ==
    /\ starter[p].pc = "down" /\ starts < MaxStarts /\ starts' = starts + 1
    /\ \E release \in Releases, enforce \in BOOLEAN :
          starter' = [starter EXCEPT ![p] =
             [pc |-> IF _verify_records(release, migration_ledger) # {} /\ enforce THEN "refused" ELSE "apply",
              release |-> release, applied |-> DOMAIN migration_ledger, enforce |-> enforce]]
    /\ live_columns' = live_columns \cup LedgerColumns
    /\ UNCHANGED <<migration_ledger, executed>>

Pending(p) == (1 .. LastMigration[starter[p].release]) \ starter[p].applied
Current(p) == {id \in Pending(p) : \A other \in Pending(p) : id <= other}

execute_error_ignored(p) ==
    /\ starter[p].pc = "apply" /\ Pending(p) # {}
    /\ starter' = [starter EXCEPT ![p].pc = "record"]
    /\ UNCHANGED <<live_columns, executed, migration_ledger, starts>>
\* One pending migration: its SQL is committed; every statement is IF NOT EXISTS.
execute(p) ==
    /\ starter[p].pc = "apply"
    /\ \E id \in Current(p) :
          /\ live_columns' = live_columns \cup MIGRATIONS[id]
          /\ executed' = executed \cup {<<id, _compute_checksum(starter[p].release, id)>>}
    /\ starter' = [starter EXCEPT ![p].pc = "record"]
    /\ UNCHANGED <<migration_ledger, starts>>

\* _record_migration: on conflict (migration_id) do nothing.
_record_migration(p) ==
    /\ starter[p].pc = "record"
    /\ \E id \in Current(p) :
          /\ migration_ledger' = [i \in DOMAIN migration_ledger \cup {id} |->
                IF i \in DOMAIN migration_ledger THEN migration_ledger[i]
                ELSE _compute_checksum(starter[p].release, id)]
          /\ starter' = [starter EXCEPT ![p].pc = "apply", ![p].applied = @ \cup {id}]
    /\ UNCHANGED <<live_columns, executed, starts>>

\* init_db returns and the process serves requests.
serve(p) ==
    /\ starter[p].pc = "apply" /\ Pending(p) = {}
    /\ starter' = [starter EXCEPT ![p].pc = "serving"]
    /\ UNCHANGED <<live_columns, migration_ledger, executed, starts>>

\* A process dies, or a statement fails; it may be started again.
Crash(p) ==
    /\ starter[p].pc # "down" /\ starter' = [starter EXCEPT ![p] = Down]
    /\ UNCHANGED <<live_columns, migration_ledger, executed, starts>>

MigrationNext == \E p \in Starters :
    \/ run_migrations(p) \/ execute(p) \/ _record_migration(p) \/ serve(p) \/ Crash(p)

MigrationSpec == MigrationInit /\ [][MigrationNext]_migrationVars

-----------------------------------------------------------------------------
(* The ledger is never ahead of the schema: a recorded migration was committed, with the
   SQL whose checksum is recorded, whichever process died where and whoever else was
   starting; and a process that serves has every column its own release creates. *)
LedgerBehindSchema ==
    /\ \A id \in DOMAIN migration_ledger : <<id, migration_ledger[id]>> \in executed /\ MIGRATIONS[id] \subseteq live_columns
    /\ \A p \in Starters : starter[p].pc = "serving" =>
          \A id \in 1 .. LastMigration[starter[p].release] : MIGRATIONS[id] \subseteq live_columns

=============================================================================
