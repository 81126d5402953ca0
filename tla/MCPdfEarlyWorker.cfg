SPECIFICATION Spec
CONSTANTS
    MaxUploads = 1
    Pages = {p1}
    Keys = {"k1"}
    Accepts = {"k1"}
    Rejects = {}
    Handlers = {h1}
    Ops = {}
    Faults = {}
    MaxRetries = 0
    MaxFaults = 0
SYMMETRY Symmetry
INVARIANTS
    WorkersFindTheirPage
CHECK_DEADLOCK FALSE
