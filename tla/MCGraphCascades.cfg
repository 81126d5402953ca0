SPECIFICATION FairSpec
CONSTANTS
    Docs <- AllDocs
    ChunksPerDoc = 2
    Entities <- AllEntities
    Mentioned <- TwoChunksEach
    Communities = {"c1", "c2"}
    CommunityOf <- TwoCommunities
    Late = {"d2"}
    BatchSize = 1
    Concurrent = 2
    MaxCrashes = 1
INVARIANTS
    DocumentIsGone
PROPERTIES
    BuiltAreKept
    DeletionEnds
CHECK_DEADLOCK FALSE
