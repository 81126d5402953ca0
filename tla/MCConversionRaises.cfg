SPECIFICATION Spec
CONSTANTS
    Files = {f1}
    Underway = {}
    Jobs = {1, 2}
    None = None
    Loops = {l1}
    Stages = {}
    Permits = 1
    Faults = {"conversion_raises"}
    MaxReingests = 0
    MaxFaults = 1
INVARIANTS
    RunningJobIsLive
CHECK_DEADLOCK FALSE
