SPECIFICATION FairSpec
CONSTANTS
    MaxUploads = 1
    Pages = {p1, p2}
    Keys = {"k1"}
    Accepts = {"k1"}
    Rejects = {"k1"}
    Handlers = {h1}
    Ops = {"delete", "reconcile_any"}
    Faults = {"worker_lost", "ack_lost", "handler_lost"}
    MaxRetries = 1
    MaxFaults = 1
INVARIANTS
    TypeOK
    TerminalIsDeadLettered
PROPERTIES
    EveryPageIsAccountedFor
CHECK_DEADLOCK FALSE
