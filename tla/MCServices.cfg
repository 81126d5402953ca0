SPECIFICATION MCSpec
CONSTANTS
    None = None
    Requests = {"r1", "r2"}
    Convs = {1, 2, 3}
    StartCount = 2
    MaxMessages = 4
    RegenInterval = 2
    RecentCount = 1
    LlmSlots = 1
    Slots = {1, 2}
    Plans = {"p", "z"}
    PlanRows <- SmallPlanRows
    MaxToolCalls = 2
    Element <- Evidence
    Accessible <- Retrieved
    PartSets = {{}, {"p", "t"}}
    PartCandidates = {"t", "p"}
    MaxCited = 4
    MinCoverage = 2
    TokenBudget = 6
    MinChunks = 1
    MinCitations = 1
    PdfChunks = {"c1", "card", "x"}
    Denied = {"x"}
    Cards = {"card"}
    CardSources <- SmallCardSources
    Parts = {"p", "q"}
    Mentions <- SmallMentions
    Budgets <- SmallBudgets
    TopN = 2
    Askers = {"q1", "q2"}
    HasStore = TRUE
    Fraction = 5
    Window = 40
    Batches = {"b1", "b2"}
    MaxConcurrency = 1
    MaxAttempts = 2
    Lanes = {"e1", "e2", "c1", "c2"}
    LaneKind <- SmallKind
    LaneTier <- SmallTier
    LaneWeight <- SmallWeight
    LaneDeployment <- SmallDeployment
    LaneRank <- SmallRank
    Calls = {"p1", "p2", "s1"}
    CallStyle <- SmallStyle
    CallTier <- SmallCallTier
    PoolMaxAttempts = 3
    Cooldown = 1
    MaxTime = 1
    OnboardRequests = {"r1", "r2"}
    Containers = {1, 2}
    Domains = {"d"}
    People = {"p", "q"}
    Orgs = {"o"}
    Tags = {"t"}
    DashRequests = {"r1", "r2"}
    Appends = {"r2"}
    DashPlanned <- SmallPlanned
    Concurrency = 2
    DashFiles = {"f"}
    Catalogued = {"f"}
    SafePairs = {}
    Conformed = {"f"}
    Queries <- SmallQueries
    TableMembers <- SmallMembers
    Shortlisted = {"i1"}
    Allowed = {"i1", "i2", "p1"}
    ApprovedJoins = {{"inv", "pay"}}
    Enforced = TRUE
    Planned = TRUE
    NoRows <- Without
    MaxJoins = 1
    MaxTables = 2
    MaxRepair = 2
    MeaningFiles = {1, 2}
    ColumnCount = 2
    ColumnNames = {1, 2, 3}
    Described <- SmallDescribed
    SameShape = {1, 2}
    RoleReplies <- Said
    ClassReplies <- Guesses
    Edges <- SmallEdges
    Policies <- Ways
    Ingestions = 2
    JoinFiles = {1, 2, 3}
    ChainFiles = {2}
    KeyColumn <- SmallColumn
    KeyValues = {"x", "y"}
    UbiquityCeiling = 70
    StageTries = 2
    Stored = {1}
    Created = {3}
    ChatQuestions = {1, 2}
    MaxOpens = 2
    PdfQuestions = {1}
    PdfUploads = {1, 2}
    Documents = {"d"}
    MaxPolls = 2
    UploadBatches <- TwoBatches
    PathOfFile <- SmallPaths
    UploadsAtATime = 2
    Syncs = {"s"}
    RootFolder = None
    Finalizers = {"f", "g"}
    LearnedChunks <- Learnable
    FirstChunks = {"a", "b"}
    MaxChanges = 1
    DocDate <- SmallDates
    Metrics = {"m"}
    InitialOf <- SmallInitials
    ShareOf <- Shares
    Rewordings = {None}
    MinConfidence = 6
    TaxonomyFloor = 5
    Machines <- SmallMachines
    CapacityPolicies <- SmallPolicies
    Quotas <- SmallQuotas
    PerFile = 60
    MinInstances = 1
    MaxInstances = 3
    IdleTicks = 2
    Depths = {0, 10, 25, 35}
    AllFiles <- SmallCatalog
    NameOf <- SmallNameOf
    TagOf <- SmallTagOf
    Lookups = {"l"}
    Quarantined = {"d"}
    HasParquet = {"a", "b", "c"}
    FileEdges = {{"a", "l"}, {"c", "d"}}
    UserDomains = {{}, {"x"}}
    Resolutions <- SmallResolutions
    TableRank <- SmallTableRank
    KeysOf <- SmallKeys
    DomainsOf <- SmallDomains
    HasRoles = {"a", "b", "c", "d", "l"}
    Activates <- SmallActivates
    Masters <- SmallMasters
    Primary <- SmallPrimary
    Rankings <- SmallRankings
    Wishes <- SmallWishes
    FusedFiles = 3
    LookupSlots = 1
    CandidateCap = 4
    RrfK = 60
    MaxCandidates = 6
    ExpandSlots = 1
    HardMax = 5
    MaxDomains = 3
    MinCard = 8
    Complete = 70
    Pin = 85
    KeepLevel = 70
    Seed = 18
    Emit = 14
    StreamAttempts = {1, 2}
    Versions <- ThreeVersions
    Header <- SmallHeader
    ExactNames <- ExactName
    NameParts <- PartOfName
    MarksSchema = TRUE
    RoleTokens <- SmallTokens
    BlockPieces = 2
    MaxPct = 95
    BatchPct = 5
INVARIANTS
    ConversationsAreKept
    TurnsEndWell
    PdfAnswersAreHonest
    ModelCallsAreBounded
    StateTellsWhatIsThere
    OwnersCanSignIn
    WidgetsHaveTheirPrompt
    
    FilesAreUnderstood
    PagesShowWhatIs
    ComprehensionIsSound
    CapacityFits
    ForcedFilesSurvive
    CopiesAreWhole
    ShownIsGrounded
    NoOrphansLeft
    FilesArriveWhole
    KnowledgeIsCited
    PassagesAreInScope
PROPERTIES
    ResourcesAreUsedWell
    GapsAreFilled
    EveryBusyFileSettles
CONSTRAINT Bounds
CHECK_DEADLOCK FALSE
