SPECIFICATION Spec
CONSTANTS
    MaxUploads = 2
    Pages = {p1, p2}
    Keys = {"k1", "k2"}
    Accepts = {"k1"}
    Rejects = {"k2"}
    Handlers = {h1, h2}
    Ops = {"reconcile_settled"}
    Faults = {"worker_lost", "handler_lost", "unexpected_error", "redis_down"}
    MaxRetries = 0
    MaxFaults = 1
SYMMETRY Symmetry
INVARIANTS
    IndexedIsSearchable
PROPERTIES
    ImplementsLifecycle
CHECK_DEADLOCK FALSE
