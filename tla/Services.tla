------------------------------- MODULE Services -------------------------------
(***************************************************************************)
(* Components that keep their state to themselves, side by side: no two of     *)
(* them share what the models keep, so a behaviour is one of the component       *)
(* that focus names, for whatever constants; the others rest.                    *)
(***************************************************************************)
EXTENDS Integers

CONSTANTS None, MinChunks, MinCitations
CONSTANTS  \* ChatConversation
    Requests, Convs, StartCount, MaxMessages, RegenInterval, RecentCount, LlmSlots
CONSTANTS  \* ChatTurn
    Slots, Plans, PlanRows, MaxToolCalls
CONSTANTS  \* PdfSynthesis
    Element, Accessible, PartSets, PartCandidates, MaxCited, MinCoverage, TokenBudget
CONSTANTS  \* PdfAgent
    PdfChunks, Denied, Cards, CardSources, Parts, Mentions, Budgets, TopN
CONSTANTS  \* PdfModelCalls
    Askers, HasStore, Fraction, Window, Batches, MaxConcurrency, MaxAttempts
CONSTANTS  \* ModelPool
    Lanes, LaneKind, LaneTier, LaneWeight, LaneDeployment, LaneRank, Calls, CallStyle, CallTier,
    PoolMaxAttempts, Cooldown, MaxTime
CONSTANTS  \* Onboarding
    OnboardRequests, Containers, Domains
CONSTANTS  \* UserAdmin
    People, Orgs, Tags
CONSTANTS  \* Dashboards
    DashRequests, Appends, DashPlanned, Concurrency, DashFiles, Catalogued, SafePairs, Conformed
CONSTANTS  \* SqlGates
    Queries, TableMembers, Shortlisted, Allowed, ApprovedJoins, Enforced, Planned, NoRows, MaxJoins,
    MaxTables, MaxRepair
CONSTANTS  \* FileMeaning
    MeaningFiles, ColumnCount, ColumnNames, Described, SameShape, RoleReplies, ClassReplies, Edges,
    Policies, Ingestions
CONSTANTS  \* SemanticJoins
    JoinFiles, ChainFiles, KeyColumn, KeyValues, UbiquityCeiling, StageTries
CONSTANTS  \* ChatClient
    Stored, Created, ChatQuestions, MaxOpens
CONSTANTS  \* PdfClient
    PdfQuestions, PdfUploads, Documents, MaxPolls
CONSTANTS  \* FileUploads
    UploadBatches, PathOfFile, UploadsAtATime, Syncs, RootFolder
CONSTANTS  \* Comprehension
    Finalizers, LearnedChunks, FirstChunks, MaxChanges, DocDate, Metrics, InitialOf, ShareOf,
    Rewordings, MinConfidence, TaxonomyFloor
CONSTANTS  \* IngestCapacity
    Machines, CapacityPolicies, Quotas, PerFile, MinInstances, MaxInstances, IdleTicks, Depths
CONSTANTS  \* ChatShortlist
    AllFiles, NameOf, TagOf, Lookups, Quarantined, HasParquet, FileEdges, UserDomains, Resolutions,
    TableRank, KeysOf, DomainsOf, HasRoles, Activates, Masters, Primary, Rankings, Wishes,
    FusedFiles, LookupSlots, CandidateCap, RrfK, MaxCandidates, ExpandSlots, HardMax, MaxDomains,
    MinCard, Complete, Pin, KeepLevel, Seed, Emit
CONSTANTS  \* ParquetStream
    StreamAttempts, Versions, Header, ExactNames, NameParts, MarksSchema, RoleTokens, BlockPieces,
    MaxPct, BatchPct

VARIABLE focus
VARIABLES  \* ChatConversation
    messages, tokens, covered, archived, opened, stream, at, conv, counted, loaded, stored, told
VARIABLES  \* ChatTurn
    turnStream, feasible, mode, node, store, count, nudges, steps, call, heard, tried, succeeded,
    rows, total, emptyPlans, said, shown, reply, raced
VARIABLES  \* PdfSynthesis
    accessible, parts, synthesisAt, context, admitted_tags, answer, citations, provenance, memo,
    conflicts
VARIABLES  \* PdfAgent
    budget, pdfNode, bypass, pdfParts, entity, used, seen, hits, turn, pdfAccessible, pdfAnswer,
    fromCache, cache
VARIABLES  \* PdfModelCalls
    cross, todo, callsAt, callsUsed, strong, batch, callsAttempt, calls, gather
VARIABLES  \* ModelPool
    now, cooling, pc, lane, poolTried, attempts, started, failedOn
VARIABLES  \* Onboarding
    state, stepsDone, container, connected, containers, roots, folders, step, onboardAt,
    onboardSeen, saw
VARIABLES  \* UserAdmin
    user, owner, assigned, granted, request
VARIABLES  \* Dashboards
    dashRows, dashFolders, parallel, dashAt, dashSeen, queries
VARIABLES  \* SqlGates
    inspected, asked, empties, place, query, current, sqlAttempt, ran, outcome
VARIABLES  \* FileMeaning
    policy, roles, class, edges, trust, chain, rebuild, begun, judged, classed
VARIABLES  \* SemanticJoins
    keyData, registry, related, approval, joinEntities, masters, contract, joinsAt, cursor,
    joinsRead, joinTries, joinSkipped
VARIABLES  \* ChatClient
    active, chatThread, chatAsked, chatStream, loads, deletes, sidebar, existing, opens, astray
VARIABLES  \* PdfClient
    pageMode, pdfThread, asking, silenced, documents, listing, everLoaded, selected, pdfShown, loop,
    polls, pollsCancelled, overwrote
VARIABLES  \* FileUploads
    batchesOpened, ctrl, panel, uploadAt, uploadsCancelled, blob, confirmAt, uploadPlace,
    uploadFolders, uploadRows, ingestStarted, sync
VARIABLES  \* Comprehension
    learnedGraph, graphChanges, background, finalizer, ontologies, glossary, glossaryPage
VARIABLES  \* IngestCapacity
    machine, capacityPolicy, profile, quota, depth, capacitySeen, idle, instances, decision
VARIABLES  \* ChatShortlist
    askStep, visibleFiles, resolvedFiles, wordEvidence, masterFiles, registryRead, foundFiles,
    foundCandidates, questionWish, valueGuard, asksSummary, asksSteps, requiredDomains, shortFiles,
    promptPaths
VARIABLES  \* ParquetStream
    csvVersion, parquetBlob, stagedBlocks, streamAt, streamOf, streamBatch, writerOpen, writerBuf,
    writerBlocks, writerClosed, streamProgress, streamResult, streamTangled

Talk == INSTANCE ChatConversation
Turn == INSTANCE ChatTurn WITH
    stream <- turnStream
Synthesis == INSTANCE PdfSynthesis WITH
    Candidates <- PartCandidates, at <- synthesisAt
Pdf == INSTANCE PdfAgent WITH
    Chunks <- PdfChunks, node <- pdfNode, accessible <- pdfAccessible, parts <- pdfParts,
    answer <- pdfAnswer
ModelCalls == INSTANCE PdfModelCalls WITH
    at <- callsAt, used <- callsUsed, attempt <- callsAttempt
Pool == INSTANCE ModelPool WITH
    tried <- poolTried, MaxAttempts <- PoolMaxAttempts
Onboard == INSTANCE Onboarding WITH
    Requests <- OnboardRequests, at <- onboardAt, seen <- onboardSeen, done <- stepsDone
Users == INSTANCE UserAdmin
Dash == INSTANCE Dashboards WITH
    Requests <- DashRequests, Files <- DashFiles, Planned <- DashPlanned, rows <- dashRows,
    at <- dashAt, seen <- dashSeen, folders <- dashFolders
Sql == INSTANCE SqlGates WITH
    Members <- TableMembers, attempt <- sqlAttempt
Meaning == INSTANCE FileMeaning WITH
    Files <- MeaningFiles, Columns <- ColumnCount, Names <- ColumnNames
Joins == INSTANCE SemanticJoins WITH
    Files <- JoinFiles, Fresh <- ChainFiles, Column <- KeyColumn, Values <- KeyValues,
    Ceiling <- UbiquityCeiling, MaxTries <- StageTries, data <- keyData, entities <- joinEntities,
    at <- joinsAt, read <- joinsRead, tries <- joinTries, skipped <- joinSkipped
Chat == INSTANCE ChatClient WITH
    Questions <- ChatQuestions, thread <- chatThread, asked <- chatAsked, stream <- chatStream
PdfPage == INSTANCE PdfClient WITH
    Questions <- PdfQuestions, Uploads <- PdfUploads, mode <- pageMode, thread <- pdfThread,
    shown <- pdfShown, cancelled <- pollsCancelled
Loading == INSTANCE FileUploads WITH
    Batches <- UploadBatches, RelativePath <- PathOfFile, MaxConcurrent <- UploadsAtATime,
    Root <- RootFolder, opened <- batchesOpened, pc <- uploadAt, request <- confirmAt,
    place <- uploadPlace, folders <- uploadFolders, rows <- uploadRows, started <- ingestStarted,
    cancelled <- uploadsCancelled
Learned == INSTANCE Comprehension WITH
    Chunks <- LearnedChunks, First <- FirstChunks, Initial <- InitialOf, Share <- ShareOf,
    graph <- learnedGraph, call <- finalizer, changes <- graphChanges, page <- glossaryPage
Capacity == INSTANCE IngestCapacity WITH
    Policies <- CapacityPolicies, policy <- capacityPolicy, seen <- capacitySeen
Shortlist == INSTANCE ChatShortlist WITH
    Catalog <- AllFiles, Keep <- KeepLevel, Domains <- UserDomains, Edges <- FileEdges,
    TopK <- FusedFiles, step <- askStep, visible <- visibleFiles, resolved <- resolvedFiles,
    evidence <- wordEvidence, registry <- registryRead, masters <- masterFiles, found <- foundFiles,
    candidates <- foundCandidates, wish <- questionWish, guarded <- valueGuard,
    summary <- asksSummary, multi <- asksSteps, required <- requiredDomains,
    shortlist <- shortFiles, paths <- promptPaths
Stream == INSTANCE ParquetStream WITH
    Attempts <- StreamAttempts, Batches <- Versions, Columns <- Header, Exact <- ExactNames,
    Within <- NameParts, Tokens <- RoleTokens, source <- csvVersion, blob <- parquetBlob,
    staged <- stagedBlocks, at <- streamAt, of <- streamOf, batch <- streamBatch,
    open <- writerOpen, buf <- writerBuf, blocks <- writerBlocks, closed <- writerClosed,
    progress <- streamProgress, result <- streamResult, tangled <- streamTangled

-----------------------------------------------------------------------------
TalkRests ==
    /\ messages = None /\ tokens = None /\ covered = None /\ archived = None /\ opened = None
    /\ stream = None /\ at = None /\ conv = None /\ counted = None /\ loaded = None
    /\ stored = None /\ told = None
TurnRests ==
    /\ turnStream = None /\ feasible = None /\ mode = None /\ node = None /\ store = None
    /\ count = None /\ nudges = None /\ steps = None /\ call = None /\ heard = None
    /\ tried = None /\ succeeded = None /\ rows = None /\ total = None /\ emptyPlans = None
    /\ said = None /\ shown = None /\ reply = None /\ raced = None
SynthesisRests ==
    /\ accessible = None /\ parts = None /\ synthesisAt = None /\ context = None
    /\ admitted_tags = None /\ answer = None /\ citations = None /\ provenance = None
    /\ memo = None /\ conflicts = None
PdfRests ==
    /\ budget = None /\ pdfNode = None /\ bypass = None /\ pdfParts = None /\ entity = None
    /\ used = None /\ seen = None /\ hits = None /\ turn = None /\ pdfAccessible = None
    /\ pdfAnswer = None /\ fromCache = None /\ cache = None
ModelCallsRests ==
    /\ cross = None /\ todo = None /\ callsAt = None /\ callsUsed = None /\ strong = None
    /\ batch = None /\ callsAttempt = None /\ calls = None /\ gather = None
PoolRests ==
    /\ now = None /\ cooling = None /\ pc = None /\ lane = None /\ poolTried = None
    /\ attempts = None /\ started = None /\ failedOn = None
OnboardRests ==
    /\ state = None /\ stepsDone = None /\ container = None /\ connected = None
    /\ containers = None /\ roots = None /\ folders = None /\ step = None /\ onboardAt = None
    /\ onboardSeen = None /\ saw = None
UsersRests ==
    /\ user = None /\ owner = None /\ assigned = None /\ granted = None /\ request = None
DashRests ==
    /\ dashRows = None /\ dashFolders = None /\ parallel = None /\ dashAt = None
    /\ dashSeen = None /\ queries = None
SqlRests ==
    /\ inspected = None /\ asked = None /\ empties = None /\ place = None /\ query = None
    /\ current = None /\ sqlAttempt = None /\ ran = None /\ outcome = None
MeaningRests ==
    /\ policy = None /\ roles = None /\ class = None /\ edges = None /\ trust = None
    /\ chain = None /\ rebuild = None /\ begun = None /\ judged = None /\ classed = None
JoinsRests ==
    /\ keyData = None /\ registry = None /\ related = None /\ approval = None
    /\ joinEntities = None /\ masters = None /\ contract = None /\ joinsAt = None /\ cursor = None
    /\ joinsRead = None /\ joinTries = None /\ joinSkipped = None
ChatRests ==
    /\ active = None /\ chatThread = None /\ chatAsked = None /\ chatStream = None /\ loads = None
    /\ deletes = None /\ sidebar = None /\ existing = None /\ opens = None /\ astray = None
PdfPageRests ==
    /\ pageMode = None /\ pdfThread = None /\ asking = None /\ silenced = None /\ documents = None
    /\ listing = None /\ everLoaded = None /\ selected = None /\ pdfShown = None /\ loop = None
    /\ polls = None /\ pollsCancelled = None /\ overwrote = None
LoadingRests ==
    /\ batchesOpened = None /\ ctrl = None /\ panel = None /\ uploadAt = None
    /\ uploadsCancelled = None /\ blob = None /\ confirmAt = None /\ uploadPlace = None
    /\ uploadFolders = None /\ uploadRows = None /\ ingestStarted = None /\ sync = None
LearnedRests ==
    /\ learnedGraph = None /\ graphChanges = None /\ background = None /\ finalizer = None
    /\ ontologies = None /\ glossary = None /\ glossaryPage = None
CapacityRests ==
    /\ machine = None /\ capacityPolicy = None /\ profile = None /\ quota = None /\ depth = None
    /\ capacitySeen = None /\ idle = None /\ instances = None /\ decision = None
ShortlistRests ==
    /\ askStep = None /\ visibleFiles = None /\ resolvedFiles = None /\ wordEvidence = None
    /\ masterFiles = None /\ registryRead = None /\ foundFiles = None /\ foundCandidates = None
    /\ questionWish = None /\ valueGuard = None /\ asksSummary = None /\ asksSteps = None
    /\ requiredDomains = None /\ shortFiles = None /\ promptPaths = None
StreamRests ==
    /\ csvVersion = None /\ parquetBlob = None /\ stagedBlocks = None /\ streamAt = None
    /\ streamOf = None /\ streamBatch = None /\ writerOpen = None /\ writerBuf = None
    /\ writerBlocks = None /\ writerClosed = None /\ streamProgress = None /\ streamResult = None
    /\ streamTangled = None

talkVars == <<messages, tokens, covered, archived, opened, stream, at, conv, counted,
              loaded, stored, told>>
turnVars == <<turnStream, feasible, mode, node, store, count, nudges, steps, call, heard,
              tried, succeeded, rows, total, emptyPlans, said, shown, reply, raced>>
synthesisVars == <<accessible, parts, synthesisAt, context, admitted_tags, answer,
                   citations, provenance, memo, conflicts>>
pdfVars == <<budget, pdfNode, bypass, pdfParts, entity, used, seen, hits, turn,
             pdfAccessible, pdfAnswer, fromCache, cache>>
modelCallsVars == <<cross, todo, callsAt, callsUsed, strong, batch, callsAttempt, calls,
                    gather>>
poolVars == <<now, cooling, pc, lane, poolTried, attempts, started, failedOn>>
onboardVars == <<state, stepsDone, container, connected, containers, roots, folders, step,
                 onboardAt, onboardSeen, saw>>
usersVars == <<user, owner, assigned, granted, request>>
dashVars == <<dashRows, dashFolders, parallel, dashAt, dashSeen, queries>>
sqlVars == <<inspected, asked, empties, place, query, current, sqlAttempt, ran, outcome>>
meaningVars == <<policy, roles, class, edges, trust, chain, rebuild, begun, judged,
                 classed>>
joinsVars == <<keyData, registry, related, approval, joinEntities, masters, contract,
               joinsAt, cursor, joinsRead, joinTries, joinSkipped>>
chatVars == <<active, chatThread, chatAsked, chatStream, loads, deletes, sidebar,
              existing, opens, astray>>
pdfPageVars == <<pageMode, pdfThread, asking, silenced, documents, listing, everLoaded,
                 selected, pdfShown, loop, polls, pollsCancelled, overwrote>>
loadingVars == <<batchesOpened, ctrl, panel, uploadAt, uploadsCancelled, blob, confirmAt,
                 uploadPlace, uploadFolders, uploadRows, ingestStarted, sync>>
learnedVars == <<learnedGraph, graphChanges, background, finalizer, ontologies, glossary,
                 glossaryPage>>
capacityVars == <<machine, capacityPolicy, profile, quota, depth, capacitySeen, idle,
                  instances, decision>>
shortlistVars == <<askStep, visibleFiles, resolvedFiles, wordEvidence, masterFiles,
                   registryRead, foundFiles, foundCandidates, questionWish, valueGuard,
                   asksSummary, asksSteps, requiredDomains, shortFiles, promptPaths>>
streamVars == <<csvVersion, parquetBlob, stagedBlocks, streamAt, streamOf, streamBatch,
                writerOpen, writerBuf, writerBlocks, writerClosed, streamProgress,
                streamResult, streamTangled>>
vars == <<focus, talkVars, turnVars, synthesisVars, pdfVars, modelCallsVars, poolVars, onboardVars,
          usersVars, dashVars, sqlVars, meaningVars, joinsVars, chatVars, pdfPageVars, loadingVars,
          learnedVars, capacityVars, shortlistVars, streamVars>>
Focuses == {"conversation", "turn", "synthesis", "pdf", "calls", "pool", "onboarding", "users",
            "dashboards", "sql", "meaning", "joins", "chat", "pdfui", "uploads", "comprehension",
            "capacity", "shortlist", "stream"}

Begins ==
    /\ IF focus = "conversation" THEN Talk!Init ELSE TalkRests
    /\ IF focus = "turn" THEN Turn!Init ELSE TurnRests
    /\ IF focus = "synthesis" THEN Synthesis!Init ELSE SynthesisRests
    /\ IF focus = "pdf" THEN Pdf!Init ELSE PdfRests
    /\ IF focus = "calls" THEN ModelCalls!Init ELSE ModelCallsRests
    /\ IF focus = "pool" THEN Pool!Init ELSE PoolRests
    /\ IF focus = "onboarding" THEN Onboard!Init ELSE OnboardRests
    /\ IF focus = "users" THEN Users!Init ELSE UsersRests
    /\ IF focus = "dashboards" THEN Dash!Init ELSE DashRests
    /\ IF focus = "sql" THEN Sql!Init ELSE SqlRests
    /\ IF focus = "meaning" THEN Meaning!Init ELSE MeaningRests
    /\ IF focus = "joins" THEN Joins!Init ELSE JoinsRests
    /\ IF focus = "chat" THEN Chat!Init ELSE ChatRests
    /\ IF focus = "pdfui" THEN PdfPage!Init ELSE PdfPageRests
    /\ IF focus = "uploads" THEN Loading!Init ELSE LoadingRests
    /\ IF focus = "comprehension" THEN Learned!Init ELSE LearnedRests
    /\ IF focus = "capacity" THEN Capacity!Init ELSE CapacityRests
    /\ IF focus = "shortlist" THEN Shortlist!Init ELSE ShortlistRests
    /\ IF focus = "stream" THEN Stream!Init ELSE StreamRests
Moves ==
    /\ IF focus = "conversation" THEN Talk!Next ELSE UNCHANGED talkVars
    /\ IF focus = "turn" THEN Turn!Next ELSE UNCHANGED turnVars
    /\ IF focus = "synthesis" THEN Synthesis!Next ELSE UNCHANGED synthesisVars
    /\ IF focus = "pdf" THEN Pdf!Next ELSE UNCHANGED pdfVars
    /\ IF focus = "calls" THEN ModelCalls!Next ELSE UNCHANGED modelCallsVars
    /\ IF focus = "pool" THEN Pool!Next ELSE UNCHANGED poolVars
    /\ IF focus = "onboarding" THEN Onboard!Next ELSE UNCHANGED onboardVars
    /\ IF focus = "users" THEN Users!Next ELSE UNCHANGED usersVars
    /\ IF focus = "dashboards" THEN Dash!Next ELSE UNCHANGED dashVars
    /\ IF focus = "sql" THEN Sql!Next ELSE UNCHANGED sqlVars
    /\ IF focus = "meaning" THEN Meaning!Next ELSE UNCHANGED meaningVars
    /\ IF focus = "joins" THEN Joins!Next ELSE UNCHANGED joinsVars
    /\ IF focus = "chat" THEN Chat!Next ELSE UNCHANGED chatVars
    /\ IF focus = "pdfui" THEN PdfPage!Next ELSE UNCHANGED pdfPageVars
    /\ IF focus = "uploads" THEN Loading!Next ELSE UNCHANGED loadingVars
    /\ IF focus = "comprehension" THEN Learned!Next ELSE UNCHANGED learnedVars
    /\ IF focus = "capacity" THEN Capacity!Next ELSE UNCHANGED capacityVars
    /\ IF focus = "shortlist" THEN Shortlist!Next ELSE UNCHANGED shortlistVars
    /\ IF focus = "stream" THEN Stream!Next ELSE UNCHANGED streamVars

Init == focus \in Focuses /\ Begins
Next == UNCHANGED focus /\ Moves
Spec == Init /\ [][Next]_vars

-----------------------------------------------------------------------------
(* What the theorems take for granted of the constants.                          *)
ConstantsOK ==
    /\ Talk!ConstantsOK /\ Turn!ConstantsOK /\ Synthesis!ConstantsOK /\ Pdf!ConstantsOK /\ ModelCalls!ConstantsOK
    /\ Pool!ConstantsOK /\ Users!ConstantsOK /\ Dash!ConstantsOK /\ Sql!ConstantsOK /\ Meaning!ConstantsOK
    /\ Joins!ConstantsOK /\ Chat!ConstantsOK /\ PdfPage!ConstantsOK /\ Learned!ConstantsOK
    /\ Capacity!ConstantsOK /\ Shortlist!ConstantsOK /\ Stream!ConstantsOK

(* A stored question is answered, or its failure is, unless its client left; tokens are those of    *)
(* messages (ChatConversation).                                                                  *)
ConversationsAreKept == focus = "conversation" => Talk!ConversationsAreKept
(* A turn ends by its own budget, no failed query passes for an answer, rows and count agree       *)
(* (ChatTurn).                                                                                   *)
TurnsEndWell == focus = "turn" => Turn!TurnsEndWell
(* Answers of the PDF agent quote what they state, name what they leave out, and are cached only   *)
(* with evidence (PdfAgent, PdfSynthesis).                                                       *)
PdfAnswersAreHonest ==
    /\ focus = "synthesis" => Synthesis!PdfAnswersAreHonest
    /\ focus = "pdf" => Pdf!PdfAnswersAreHonest
(* The budget of the strong model and the attempts of a batch are overrun by no more than the      *)
(* concurrency of the code allows (PdfModelCalls).                                               *)
ModelCallsAreBounded == focus = "calls" => ModelCalls!ModelCallsAreBounded
(* No step of an organisation is skipped, and no folder outlives its container (Onboarding).        *)
StateTellsWhatIsThere == focus = "onboarding" => Onboard!StateTellsWhatIsThere
(* Owners can sign in, and what is gone is seen by nobody (UserAdmin).                            *)
OwnersCanSignIn == focus = "users" => Users!OwnersCanSignIn
(* A board's history has the prompt of each of its widgets (Dashboards).                          *)
WidgetsHaveTheirPrompt == focus = "dashboards" => Dash!WidgetsHaveTheirPrompt
(* A repaired query asks what the agent asked (SqlGates).                                         *)
RepairKeepsTheQuestion == focus = "sql" => Sql!RepairKeepsTheQuestion
(* Contradictions between files are caught and classes corroborated (FileMeaning), and files whose  *)
(* keys overlap are joined (SemanticJoins).                                                      *)
FilesAreUnderstood ==
    /\ focus = "meaning" => Meaning!FilesAreUnderstood
    /\ focus = "joins" => Joins!MatchesAreRelated
(* A page shows what is: messages of its own thread (ChatClient), answers to its questions and a    *)
(* progress that is made (PdfClient), and files as done that are being ingested (FileUploads).     *)
PagesShowWhatIs ==
    /\ focus = "chat" => Chat!ThreadIsOfActive
    /\ focus = "pdfui" => PdfPage!ProgressHasItsLoop /\ PdfPage!QuestionsEnd
    /\ focus = "uploads" => Loading!DoneIsStarted
(* Versions of what a tenant's documents are about are whole, and what they say has its evidence   *)
(* (Comprehension).                                                                              *)
ComprehensionIsSound ==
    focus = "comprehension" => Learned!EntriesAreGrounded /\ Learned!VersionsAreWhole
(* Pools fit the machine, and decisions drain the queue in time (IngestCapacity).                 *)
CapacityFits == focus = "capacity" => Capacity!PoolsFit /\ Capacity!DrainsInTime
(* What a user may see and names reaches the prompt, what an entity pins does, too, and nothing out  *)
(* of the user's domains (ChatShortlist).                                                        *)
ForcedFilesSurvive == focus = "shortlist" => Shortlist!ForcedFilesSurvive
(* A published copy is whole, there before its conversion is reported, and so is the dictionary of   *)
(* the file (ParquetStream).                                                                     *)
CopiesAreWhole == focus = "stream" => Stream!CopiesAreWhole
(* A call gives up only when every lane cools and only failed lanes cool (ModelPool); workers come *)
(* within bounds and go only when idle (IngestCapacity).                                         *)
ResourcesAreUsedWell ==
    [][/\ focus = "pool" => Pool!GivesUpRightly /\ Pool!OnlyFailedLanesCool
       /\ focus = "capacity" => Capacity!ScalesSafely]_vars
(* An expansion that is called for leaves a domain of the question without a file only when all the  *)
(* places it has are taken (ChatShortlist).                                                      *)
GapsAreFilled == [][focus = "shortlist" => Shortlist!GapsAreFilled]_vars
=============================================================================
