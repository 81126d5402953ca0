SPECIFICATION Spec
CONSTANTS
    Files = {f1}
    Slots = {t1, t2}
    NoFile = NoFile
    Scopes = {"ingest"}
    ApiOps = {}
    Faults = {"worker_lost_claimed"}
    Preprocessable = {}
    FastMode = TRUE
    Impatient = FALSE
    MaxRetries = 0
    MaxRequests = 1
    MaxFaults = 1
INVARIANTS
    NothingForgotten
CHECK_DEADLOCK FALSE
