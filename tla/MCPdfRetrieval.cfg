INIT Init
NEXT Next
CONSTANTS
    None = None
    Node <- Chunks
    Near <- NearestFirst
    Entities = {}
    Mentioned = {}
    RelatedTo = {}
    RowFields <- Returned
    Requests <- Asker
    TopK = 2
    GraphTopK = 2
    TopN = 2
    K = 60
    MinChunks = 1
    Budget = 4
    HasReranker = FALSE
    MaxDeletions = 0
INVARIANT ReadableChunksPass
CHECK_DEADLOCK FALSE
