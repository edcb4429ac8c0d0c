-------------------------------- MODULE Schema --------------------------------
(***************************************************************************)
(* The schema of the backend's database (migration.py): the columns that   *)
(* MIGRATIONS create, and the columns detect_drift expects to find.  A     *)
(* column is <<table, name, type>>, the type as information_schema reports *)
(* it (udt_name).                                                          *)
(***************************************************************************)
EXTENDS Migrations

Columns(table, type, names) == {<<table, n, type>> : n \in names}

\* MIGRATIONS: what each one leaves in the schema.
MIGRATIONS_1_4 == <<
    Columns("proof_events", "int8", {"id"}) \cup Columns("proof_events", "jsonb", {"metadata"})
    \cup Columns("proof_events", "text", {"event_type", "file_name", "video_hash", "metadata_hash",
                                          "proof_id", "tier", "embedded_hash"})
    \cup Columns("proof_events", "timestamptz", {"created_at"}),
    Columns("lineage_events", "int8", {"id"}) \cup Columns("lineage_events", "jsonb", {"manifest"})
    \cup Columns("lineage_events", "text", {"manifest_digest", "actor_address"})
    \cup Columns("lineage_events", "_text", {"parent_proof_ids"})
    \cup Columns("lineage_events", "timestamptz", {"created_at"}),
    Columns("proof_events", "text", {"tx_hash", "tx_status", "source_address", "contract_id"}),
    Columns("proof_events", "text", {"idempotency_key"}) >>

MIGRATIONS_5_7 == <<
    Columns("blobs", "text", {"content_hash", "encrypted_dek", "storage_path"})
    \cup Columns("blobs", "int8", {"size_bytes"}) \cup Columns("blobs", "timestamptz", {"created_at"})
    \cup Columns("tenant_blob_refs", "text", {"tenant_id", "content_hash"})
    \cup Columns("tenant_blob_refs", "int4", {"ref_count"})
    \cup Columns("tenant_blob_refs", "timestamptz", {"created_at", "updated_at"}),
    Columns("webhook_subscriptions", "int8", {"id"}) \cup Columns("webhook_subscriptions", "bool", {"is_active"})
    \cup Columns("webhook_subscriptions", "text", {"url", "secret_key"})
    \cup Columns("webhook_subscriptions", "timestamptz", {"created_at"})
    \cup Columns("webhook_deliveries", "int8", {"id", "subscription_id", "event_id"})
    \cup Columns("webhook_deliveries", "text", {"status"})
    \cup Columns("webhook_deliveries", "int4", {"retry_count", "last_response_code"})
    \cup Columns("webhook_deliveries", "timestamptz", {"next_retry_at", "lease_expires_at", "created_at",
                                                       "updated_at"}),
    Columns("proof_history_events", "int8", {"id"}) \cup Columns("proof_history_events", "int4", {"reason_code"})
    \cup Columns("proof_history_events", "text", {"proof_id", "action", "actor", "contract_id", "tx_hash",
                                                  "tx_status"})
    \cup Columns("proof_history_events", "timestamptz", {"created_at"}) >>

MIGRATIONS_8_12 == <<
    Columns("proof_events", "jsonb", {"time_attestation"}) \cup Columns("proof_events", "bool", {"legal_hold"})
    \cup Columns("proof_events", "text", {"retention_class"})
    \cup Columns("proof_events", "timestamptz", {"claimed_capture_time", "expires_at"}),
    Columns("idempotency_records", "int4", {"id"})
    \cup Columns("idempotency_records", "text", {"request_digest", "request_type", "status"})
    \cup Columns("idempotency_records", "jsonb", {"response_payload", "error_payload"})
    \cup Columns("idempotency_records", "timestamptz", {"created_at", "expires_at"}),
    {},
    Columns("deletion_receipts", "int8", {"id", "event_id"})
    \cup Columns("deletion_receipts", "text", {"proof_id", "video_hash", "metadata_hash"})
    \cup Columns("deletion_receipts", "timestamptz", {"deleted_at"}),
    Columns("proof_events", "int4", {"event_index"}) \cup Columns("indexer_state", "text", {"id", "cursor"})
    \cup Columns("indexer_state", "int8", {"ledger"}) \cup Columns("indexer_state", "timestamptz", {"updated_at"}) >>

MigrationColumns == MIGRATIONS_1_4 \o MIGRATIONS_5_7 \o MIGRATIONS_8_12

MigrationsTable ==
    Columns("schema_migrations", "int4", {"id", "migration_id"})
    \cup Columns("schema_migrations", "text", {"name", "checksum"})
    \cup Columns("schema_migrations", "timestamptz", {"applied_at"})

-----------------------------------------------------------------------------
\* detect_drift: EXPECTED_TABLES, with the type names it is written in.
ExpectedProofEvents ==
    Columns("proof_events", "bigint", {"id"})
    \cup Columns("proof_events", "text", {"event_type", "file_name", "video_hash", "metadata_hash", "proof_id",
            "tier", "embedded_hash", "tx_hash", "tx_status", "source_address", "contract_id",
            "idempotency_key", "retention_class"})
    \cup Columns("proof_events", "jsonb", {"metadata", "time_attestation"})
    \cup Columns("proof_events", "timestamp with time zone", {"created_at", "claimed_capture_time", "expires_at"})
    \cup Columns("proof_events", "boolean", {"legal_hold"}) \cup Columns("proof_events", "integer", {"event_index"})
ExpectedLineage ==
    Columns("lineage_events", "bigint", {"id"}) \cup Columns("lineage_events", "jsonb", {"manifest"})
    \cup Columns("lineage_events", "text", {"manifest_digest", "actor_address", "parent_proof_ids"})
    \cup Columns("lineage_events", "timestamp with time zone", {"created_at"})
ExpectedStores ==
    Columns("blobs", "text", {"content_hash", "encrypted_dek", "storage_path"})
    \cup Columns("blobs", "bigint", {"size_bytes"}) \cup Columns("blobs", "timestamp with time zone", {"created_at"})
    \cup Columns("tenant_blob_refs", "text", {"tenant_id", "content_hash"})
    \cup Columns("tenant_blob_refs", "integer", {"ref_count"})
    \cup Columns("tenant_blob_refs", "timestamp with time zone", {"created_at", "updated_at"})
    \cup Columns("idempotency_records", "integer", {"id"})
    \cup Columns("idempotency_records", "text", {"request_digest", "request_type", "status"})
    \cup Columns("idempotency_records", "jsonb", {"response_payload", "error_payload"})
    \cup Columns("idempotency_records", "timestamp with time zone", {"created_at", "expires_at"})
    \cup Columns("deletion_receipts", "bigint", {"id", "event_id"})
    \cup Columns("deletion_receipts", "text", {"proof_id", "video_hash", "metadata_hash"})
    \cup Columns("deletion_receipts", "timestamp with time zone", {"deleted_at"})
ExpectedQueues ==
    Columns("webhook_subscriptions", "bigint", {"id"}) \cup Columns("webhook_subscriptions", "boolean", {"is_active"})
    \cup Columns("webhook_subscriptions", "text", {"url", "secret_key"})
    \cup Columns("webhook_subscriptions", "timestamp with time zone", {"created_at"})
    \cup Columns("webhook_deliveries", "bigint", {"id", "subscription_id", "event_id"})
    \cup Columns("webhook_deliveries", "text", {"status"})
    \cup Columns("webhook_deliveries", "integer", {"retry_count", "last_response_code"})
    \cup Columns("webhook_deliveries", "timestamp with time zone",
                 {"next_retry_at", "lease_expires_at", "created_at", "updated_at"})
    \cup Columns("indexer_state", "text", {"id", "cursor"}) \cup Columns("indexer_state", "bigint", {"ledger"})
    \cup Columns("indexer_state", "timestamp with time zone", {"updated_at"})
ExpectedHistory ==
    Columns("proof_history_events", "bigint", {"id"}) \cup Columns("proof_history_events", "integer", {"reason_code"})
    \cup Columns("proof_history_events", "text", {"proof_id", "action", "actor", "contract_id", "tx_hash", "tx_status"})
    \cup Columns("proof_history_events", "timestamp with time zone", {"created_at"})
    \cup Columns("schema_migrations", "integer", {"id", "migration_id"})
    \cup Columns("schema_migrations", "text", {"name", "checksum"})
    \cup Columns("schema_migrations", "timestamp with time zone", {"applied_at"})
EXPECTED_TABLES == ExpectedProofEvents \cup ExpectedLineage \cup ExpectedStores \cup ExpectedQueues
                   \cup ExpectedHistory

_types_match(actual, expected) ==
    LET alias == [int4 |-> "integer", int8 |-> "bigint", bool |-> "boolean",
                  timestamptz |-> "timestamp with time zone"]
        name(t) == IF t \in DOMAIN alias THEN alias[t] ELSE t
    IN  name(actual) = name(expected)

\* The expected columns that are missing or of another type.
detect_drift == {c \in EXPECTED_TABLES :
                    ~\E a \in live_columns : a[1] = c[1] /\ a[2] = c[2] /\ _types_match(a[3], c[3])}

(* A process that serves the newest release finds no drift: detect_drift's docstring
   says "An empty list means no drift", and the migrations create what it expects. *)
MigratedSchemaHasNoDrift ==
    \A p \in Starters :
        starter[p].pc = "serving" /\ LastMigration[starter[p].release] = Len(MIGRATIONS) => detect_drift = {}
=============================================================================
