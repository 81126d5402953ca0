SPECIFICATION Spec
CONSTANTS
    Files = {f1}
    Slots = {t1, t2}
    NoFile = NoFile
    Scopes = {"ingest", "refresh_rules", "re_analyze", "full_rebuild", "parquet_only"}
    ApiOps = {"reingest_all", "delete_file", "sync_container"}
    Faults = {"worker_lost", "worker_lost_claimed", "hard_time_limit", "broker_down_worker", "broker_down_api", "api_lost", "blob_lost"}
    Preprocessable = {f1}
    FastMode = FALSE
    Impatient = FALSE
    MaxRetries = 1
    MaxRequests = 3
    MaxFaults = 2
SYMMETRY Symmetry
INVARIANTS
    ParquetIsFresh
CHECK_DEADLOCK FALSE
