SPECIFICATION Spec
CONSTANTS
    Files = {f1}
    Slots = {t1, t2}
    NoFile = NoFile
    Scopes = {}
    ApiOps = {"reingest_all"}
    Faults = {}
    Preprocessable = {}
    FastMode = TRUE
    Impatient = TRUE
    MaxRetries = 0
    MaxRequests = 2
    MaxFaults = 0
INVARIANTS
    OneChainPerFile
CHECK_DEADLOCK FALSE
