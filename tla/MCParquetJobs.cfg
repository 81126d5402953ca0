SPECIFICATION FairSpec
CONSTANTS
    Files = {f1, f2}
    Underway = {f1}
    Jobs = {1, 2, 3, 4, 5, 6}
    None = None
    Loops = {"l1", "l2"}
    Stages = {"s1"}
    Permits = 1
    Faults = {"conversion_raises", "record_raises", "update_raises", "process_dies", "chain_ends"}
    MaxReingests = 1
    MaxFaults = 1
INVARIANTS
    TypeOK
    DoneJobHasCopy
PROPERTIES
    
    EveryListedFileIsTried
CONSTRAINT Bounds
CHECK_DEADLOCK FALSE
