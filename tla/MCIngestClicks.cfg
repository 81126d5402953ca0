SPECIFICATION Spec
CONSTANTS
    Files = {f1}
    Slots = {t1, t2, t3}
    NoFile = NoFile
    Scopes = {"ingest"}
    ApiOps = {}
    Faults = {"worker_lost", "ack_lost", "broker_down_api"}
    Preprocessable = {f1}
    FastMode = TRUE
    Impatient = TRUE
    MaxRetries = 1
    MaxRequests = 2
    MaxFaults = 1
SYMMETRY Symmetry
INVARIANTS
    TypeOK
    NothingForgotten
    IngestedIsDescribed
    FailedIsExplained
CHECK_DEADLOCK FALSE
