# Verification of the ingestion, document and chat services

TLA+ models, TLC runs and TLAPS proofs about the backend (`server/app`, `server/pdf_chat`) and the hooks of its client
(`client`): how tables and documents are ingested, how questions about them are answered, and who may do what. Paths
below are relative to `src/server` unless they begin with `client`.

The four modules in which processes share the most state (staged ingestion, Parquet conversions, the PDF control plane,
the deletion of documents) have runs and proofs of their own. Each of the other components has a module and a small
instance in the run `services`; those whose promises are proved are composed in the module `Services`.

## 1. The system

| component | state | operations | interacts with | what is hard | what makes it correct |
|---|---|---|---|---|---|
| staged ingestion (`app/worker/ingest_tasks.py`, `app/services/ingestion_stages.py`, `ingestion_config.py`, `app/api/v1/{ingest,admin,files,containers}.py`) | `files.ingest_status`, `is_preprocessed`; `file_metadata`; `file_analytics.parquet_blob_path`; blobs; Celery messages | ingest, reprocess (4 scopes), reingest-all, delete, sync; starter; 13 stages | Redis/Celery, Azure, PostgreSQL, language models | at-least-once delivery, a claim that reads before it writes, retries, several chains of one file, rows deleted under a chain, publications that fail after a commit | no file stays busy without a task; "ingested" means described; "failed" says why; the Parquet copy is of the present source; a busy file comes to an end |
| Parquet conversions (`app/services/analytics_service.py`, `retry_missing_parquet` in `app/api/v1/admin.py`) | `background_jobs`, the copy's path, a semaphore per process | conversion by a chain or by a retry loop | staged ingestion | a work list computed once, job rows and copies that go during a conversion, failures inside and outside a `try` | a job that says done has its copy, or a chain is on its way to one; a click does not double work; the loop goes on after a failure; the semaphore holds |
| file cleaning (`app/services/data_preprocessor.py`, `preprocessor/`) | the blob and its staged blocks, the path and the flag of the file | probe, choice of converters, chunked rewrite, commit | staged ingestion | a blob rewritten over itself, a probe that sees the first rows only, a crash before the flag is saved | every row cleaned once, by one set of rules |
| capacity and scaling (`app/services/{resource_profile,ingestion_policy,ingestion_autoscale}.py`) | measured machine, policy, number of workers | derive the pools, scale | the queue, the quota of the models | one measurement shared by many knobs; readings that fail | together the pools fit the machine; workers come within bounds and go after idle ticks |
| column roles, classes and trust (`column_role_resolver.py`, `erp/classifier.py`, `ingestion_{confidence,audit}.py`, `trust_state.py`) | roles, ERP class and trust of each file | resolve, classify, score, audit, judge | chains, semantic rebuild, the shortlist | each chain audits the container but writes its own file; a rebuild writes all | of files that contradict each other one is quarantined; a class fits the roles it was found under |
| semantic contract and joins (`relationship_{index,detector}.py`, `semantic_layer_builder.py`, `semantic_rebuild.py`, `contract/builder.py`) | fingerprints, technical and semantic relationships, approvals, the contract | register, detect, layer, elect, compile | chains beside a rebuild | reads and commits apart, unique keys that refuse a late commit | files that match are joined |
| PDF control plane (`pdf_chat/control_plane`) | `pdf_upload_manifest`, `pdf_page_manifest` | upload, deduplicate, reject, fan out, reconcile, delete | broker, page workers, graph | publication before the commit, rollbacks, a reconcile that reads and later overwrites | the life of a document is register, settle each page once, publish once; "indexed" means searchable |
| page workers (`pdf_chat/ingestion/tasks.py`) | page rows, dead-letter queue in Redis, Neo4j chunks | extract, retry, give up | control plane, Neo4j, Redis | a transaction around calls to three other stores; redelivery | each page ends settled or in the dead-letter queue |
| knowledge graph (`pdf_chat/ingestion/kg_*.py`, `sectionizer`, `grounding_gate`, `entity_resolution`, `communities`, `card_builder`) | nodes and edges in Neo4j, the extraction cache | section, extract, admit, resolve, write, summarise | deletion, other constructions | MERGE statement by statement, ids numbered per construction, a cache across documents | what is written cites text that says it; a report's sources can be followed |
| deletion (`pdf_chat/control_plane/delete_service.py`, `graph_delete.py`) | the same graph | snapshot, batches of chunks, own nodes, orphans, communities | construction, other deletions | five statements without a transaction around them; shared entities | chunks, Document and Page nodes of a deleted document are gone (its section and card nodes stay), nothing of another goes, the loop stops |
| comprehension (`pdf_chat/comprehension`) | versions of ontology and glossary | finalize, mine, look up, expand | the graph, uploads that end together | the graph read statement by statement; two finalizers | a version is whole, its entries cite chunks that define or hold the term |
| PDF retrieval (`pdf_chat/retrieval`, `agent/tools.py`, `run_pdf_chat`) | the index, cached answers | search, fuse, rerank, filter, fit, answer | deletions | one cache for all askers, fusion of lists of different scope | a fresh answer uses what its asker may read, a cached one what somebody with the same question and groups may; fusion is reciprocal rank fusion |
| PDF agent (`pdf_chat/agent`) | the request's evidence, budget, answer | plan, decompose, link, loop, synthesise, gate, cache | retrieval, models | a loop with two budgets, a cut after the check | what is cached had evidence; missing parts are named |
| models (`pdf_chat/model_router.py`, `ingestion/rate_limiter.py`, `app/core/{model_pool,openai_client}.py`) | budget in Redis, permits, cooling lanes | choose, reserve, call, retry, fail over | every caller of a model | read and increment apart; lanes that cool while others choose | spending and calls are bounded; healthy lanes are used |
| chat agent (`app/agent`) | the turn's messages, the request store | model turns, tools in parallel, run_sql, gates, repairs | shortlist, engine | tools of a turn share a store; repaired queries skip gates | the answer is of one query; a repair reads no more files and keeps what its check compares |
| shortlist and trust of answers (`app/retrieval`, `entity_resolver`, `query_confidence`, `graph_health`, ...) | per request only | load, resolve, search, force in, expand, prune; cluster, score, compare, judge | catalog, joins, trust of files | steps that undo earlier steps; relations that change between queries | named files are in the prompt and others' domains are not; notes agree with the joins |
| conversations (`app/api/v1/{chat_message,chat_stream,conversations}.py`) | conversations, messages, summary | ask, continue, summarise, delete | chat agent | a question committed before it is admitted; several at a time | no question is dropped silently; counts are of messages |
| dashboards (`app/services/dashboard`, `app/api/v1/dashboards.py`) | `dashboards.config` and its history | plan, generate, append, refresh, duplicate, delete | catalog, joins, models | whole configs written back by overlapping requests; repairs one after another | widgets use what the catalog has, and have the prompt that made them |
| access and onboarding (`app/api/v1/{auth,access,users,organizations,onboarding}.py`) | users, organisations, steps | sign in, request, grant, move, demote, provision, connect | containers, folders | handlers that each write part of it; two commits per step; deletions that leave the state | no step is skipped; owners can sign in |
| uploads and sync (`client/lib/upload.ts`, `folders/page.tsx`, `app/api/v1/{files,folders,containers}.py`) | files, folders, blobs, the progress panel | upload, confirm, cancel, sync, delete | ingestion, storage | two lists compared that were read at different times; closures of an earlier batch | directories are kept, and phases are honest |
| chat client (`client/app/(app)/chat`) | thread, mode, progress of uploads | ask, open, delete, poll, dismiss | the API | answers that come under another thread | the page shows what is |

Not modelled, and why: section 6.

### Hazards

`PROJECT.json` lists them at their lines with the properties that would catch them. They are of seven families: a claim
or a list computed from rows that change before it is used; a publication before or after the commit it belongs to;
deletions of rows that a task already loaded; retries and redelivery of what is already done; a sequence of statements
that fails in the middle; a later step of a pipeline that undoes or escapes what an earlier one established; a closure or
a cache that outlives what it was made for. Section 5 has those that bite.

## 2. Modules

| module | models | state and actions |
|---|---|---|
| `IngestStages` | `ingestion_config.py`, `_NON_FATAL_STAGES`, fast mode | constants only: order, scopes, fatality of the stages |
| `StagedIngestion` | API handlers, starters, stages, delivery | one record per published task in `tasks` (a slot is a place in the queue); the rows and blobs of each file as functions; `version` stands for the content of a blob. Handlers reserve slots when they commit (`Request`, `ReingestAll`, `SyncContainer`) and publish one by one (`Dispatch`), so that a failure in between can be taken (`DispatchFails`, `ApiLost`). `StarterReads`, `StarterClaims` and `StarterPublishes` are the three steps of a starter. A stage that has a state of its own between two commits has the phases `loaded`, `uploaded`, `described`, `orphaned`. `Settle` is the end of every handler: publish, acknowledge, and what can go wrong between |
| `ParquetJobs` | `trigger_parquet_conversion`, `retry_missing_parquet`, `parquet_stage`, `reingest_all` on jobs | `pc` of each runner (a retry loop of the API process or the Parquet stage of a chain), job rows, work lists, the copy of each file; chains are counted by what they have ahead (`chains`), several of a file, and their clean stage forgets the copy (`CopyForgotten`) |
| `PdfControlPlane` | upload handlers, page workers, reconcile, soft delete | handlers `hpc`, page deliveries `work`, queued messages by retry count, committed rows `doc` and `page`. Rows flushed but not committed are not in `page`: that is the visibility of PostgreSQL. A delivery is one transaction, so a second delivery of the same task waits (the first statement updates the row) |
| `PdfLifecycle` | the contract in `finalize.py` and `reconcile_document_status` | abstract specification: status of a document, outcome of its pages |
| `GraphDelete` | `_run_cascade_sync`, `construct_knowledge_graph` | the graph as sets; one action per Cypher statement of a cascade, one per written item of a construction |
| `KnowledgeGraph` | the construction from sections to reports | `run` of each document with what it has left to write; nodes and edges as sets; a text is the set of phrases in it |
| `Comprehension` | `finalize_comprehension`, the miner, page, lookup, expansion | finalizers that read the graph in several steps, rows of ontology and glossary by version |
| `ParquetStream` | `parquet_service`: one conversion of a CSV, batch by batch | attempts with the writers they hold open, what they buffered, blocks staged under their numbers, the committed copy, `_PROGRESS` |
| `PdfRetrieval` | `run_pdf_chat`, `Neo4jSearcher`, fusion, access check, cache | `run` of each request; the index as a set of nodes; vectors are the order of nearness; fusion is compared with a definition of its own |
| `PdfAgent` | `run_pdf_query` | one request after another, `node` is where it is; evidence as sets of chunks |
| `PdfSynthesis` | `synthesis.py`, `negative_claim.py`, the nodes of both | one request: the pool of passages, the prompt they make, the reply and what it cites, the memo of the verdict; a text is the set of its content words and whether it negates |
| `PdfModelCalls` | `select_model`, `RedisEscalationBudget`, `BoundedBackoffExecutor` | askers between check and reservation; batches with attempts and permits |
| `ModelPool` | `ModelPool._call`, the synchronous picker | lanes, the time until each cools down, calls with the lanes they tried |
| `ChatTurn` | agent graph, `run_sql`, both entry points | `pc` of the turn and of each tool slot, the request store |
| `SqlGates` | gates and repairs of `run_sql` | one call after another over records of what the gates look at |
| `ChatShortlist` | `_build_agent_context`, orchestrator, the resolvers of entities and workflows, expansion | the steps of one request; files with names, tags, ranks and semantic domains; the words an entity shares with a file, by signal |
| `Lists` | nothing of the code: what `sorted` and comprehensions give, by ranks | helpers of `ChatShortlist`, which proofs can expand (the library's `SelectSeq` and `SortSeq` are built into the tools) |
| `AnswerTrust` | joins, clusters, health, confidence, feasibility, verdict | the steps of one request while relationships change |
| `ChatConversation` | the two chat endpoints, summary, delete | requests that overlap on rows of conversations and messages |
| `Onboarding`, `UserAdmin` | the steps of an organisation, beside deletions of folders and containers and synchronisations; the accounts | requests with what they read at the start; rows of people, organisations, domains |
| `SemanticJoins` | fingerprints to contract | chains and the rebuild with the rows of their open transaction |
| `FileMeaning` | roles, classes, scores, audits, trust | chains and the rebuild, with the findings they hold between audit and commit |
| `FileCleaning` | probe and rewrite | one cleaning with crashes, rows as sequences of classes of cells |
| `IngestCapacity` | resource profile, policy, scaler | measured machine, knobs, ticks |
| `BoardPlanning`, `Dashboards` | the planner; the rows | steps of one plan over a catalog; requests that overlap on one row |
| `FileUploads` | uploads, sync, deletions | batches with phases, rows, blobs, folders |
| `ChatClient`, `PdfClient` | the two hooks | React state, and closures that keep the state they were made with |
| `Services` | the components that keep their state to themselves | nineteen of the modules side by side, each with constants and variables of its own; `focus` names the one a behaviour is of, the others rest |
| `MC*` | | instances for TLC; `MCServices` adds the components that `Services` does not have |
| `*_proofs` | | theorems; `Services_proofs`, `Catalog_proofs` (files) and `Pages_proofs` (what users see) have those of the components of `Services`, but for the conversions of `ParquetStream_proofs`, which `Services_proofs` instantiates |

`StagedIngestion` extends `IngestStages`; `PdfControlPlane` instantiates `PdfLifecycle` under the mapping of `Lifecycle`
(document status to itself, page status to open, ok or bad). `ParquetJobs` keeps of the chains of
`StagedIngestion` the phases that touch a copy or the status (`Chain`), and their Parquet stages are the runners in `Stages`; `GraphDelete` opens up the one step `CleanUp` of `PdfControlPlane`.
`SemanticJoins`, `FileMeaning` and `FileCleaning` open up stages that `StagedIngestion` abstracts, `ParquetStream` a
conversion of `ParquetJobs`; `SqlGates` opens up the gates and repairs of `ChatTurn`, `PdfModelCalls` the calls of
`PdfAgent`, `PdfSynthesis` its node of that name and the two after it.

A definition named `X_<Mistake>` stands before `X` and is a plausible bug in it: `PROJECT.json` pairs each property with
one or more of them, under which TLC finds the property violated.

### Abstractions worth knowing

* Contents are versions, errors are a flag, enrichment results (`EnrichmentCommits`) are not told apart in `StagedIngestion`.
* What a language model says is an input: each module takes it from a small set of replies, useless ones among them.
* Scores and confidences are integers in the unit a module's header names; vectors are orders of nearness; prompts,
  titles and wording are left out.
* Every file of a model has a Parquet copy (`INGEST_PARQUET_EXTENSIONS` covers it); which files are preprocessed is a
  constant. `file.blob_path` is one name per file.
* `inspect()` of Celery is best effort: `reingest_all` sees any subset of the running files.
* A crash is possible at each point where the outcome differs: before a commit, after it and before the next publication,
  after that and before the acknowledgement. A publication that fails in a worker ends the task in an error; it is
  acknowledged all the same.
* Two conversions of one process share the semaphore; a chain's conversion has that of its own worker process.
* In `GraphDelete` a construction knows the mentions it found when it loaded the chunks; its section and card nodes are
  one item (`cards`), which no statement of a cascade deletes. What they hold is `KnowledgeGraph`'s.
* In `ParquetJobs` files are not deleted and a container is not. A process that dies between two writes leaves what was
  committed.
* `SqlGates` has, of a query, all its aggregates and grouping columns, and apart from these the ones that the regular
  expressions of a repair see (`first`). `Comprehension` has what the model says instead of an expansion (`Rewordings`).
* A second DELETE of a document whose cascade is under way or done is left out; one after a failure is not.
* Sessions keep what they loaded after a commit (`expire_on_commit` is off), and write only the columns they changed.

## 3. Runs

All are exhaustive. `CHECK_DEADLOCK FALSE` throughout: requests are bounded and the user may stop, so every system may rest.

| run | bounds | shows |
|---|---|---|
| `ingest_clicks` | 1 file, 3 slots, 2 ingest calls that may overlap, 1 retry, 1 fault | `NothingForgotten`, `IngestedIsDescribed`, `FailedIsExplained` |
| `ingest_rebuilds` | 1 file, 2 slots, 3 calls of any scope, each after the last has ended, 2 faults | `ParquetIsFresh` |
| `parquet_jobs` | 2 files, 2 retry loops, 1 Parquet stage, a first chain and 1 that a reingest or a reprocess starts, 1 permit, 6 jobs, 1 fault of any kind, fairness | `DoneJobHasCopy`, `ClickLeavesConversionsAlone`, `EveryListedFileIsTried`, the semaphore (in `TypeOK`) |
| `pdf_pages` | 1 upload, 2 pages, 1 retry, 1 fault, fairness | `TerminalIsDeadLettered`, `EveryPageIsAccountedFor` |
| `pdf_lifecycle` | 2 uploads by 2 handlers on 2 keys, 2 pages, 1 fault | `ImplementsLifecycle`, `IndexedIsSearchable` |
| `graph_cascades` | 3 documents with 2 chunks each, one under construction, 2 cascades at a time, 1 failure, fairness | `DocumentIsGone`, `BuiltAreKept`, `DeletionEnds` |
| `services` | one small instance per component, below | the promise of each component |
| `starter_lost`, `reingest_twice`, `conversion_raises`, `pdf_early_worker`, `rows_without_tenant` | the smallest instances that show it | the divergences of section 5 |

`services` joins instances that share no state: the variable `focus` chooses one, its `Next` is that of the module, and
every property is stated for its focus. Nineteen are those of `Services`, whose constants the cfg gives values;
`InstancesOK` has TLC evaluate, for these values, what the theorems of section 4 assume. What it shows, by focus:

| focus | instance | property |
|---|---|---|
| `pool` | calls of both styles over a few lanes, cool-down 1, time 0..1 | `ResourcesAreUsedWell`: a call gives up only when every lane it could take failed or cools; only lanes that failed cool |
| `capacity` | machines with and without limits, policies, 1 to 3 workers, depths at the thresholds | the same property: workers come within bounds and quota and go after 2 idle ticks; `CapacityFits`: pools derived from one measurement fit it |
| `turn` | 2 tool slots, 2 plans, 2 tool calls | `TurnsEndWell`: the budget ends the loop before the graph's recursion limit, rows and totals are of one query, a failed query is not answered as data |
| `pdf` | 3 chunks (a card, one that is denied), 2 parts, 3 calls of which 2 of one tool | `PdfAnswersAreHonest`: a cached answer had enough readable chunks; parts without evidence are named |
| `synthesis` | 8 results of a retrieval with cards, contradictions and repeats, replies that cite what is not in the prompt, deny, or are useless | the same: both sides of a contradiction are shown, what is called stated is a chunk's text, an answer has its sources, absence is claimed after a judgement, tags are words of a chunk |
| `calls` | 2 askers of a small budget, 2 batches, 1 permit, 2 attempts | `ModelCallsAreBounded`: overshoot by at most the other deciders; permits and attempts hold |
| `conversation` | 2 requests, full at 4 messages, 3 conversations | `ConversationsAreKept`: a stored question has its answer, an error, or a client that was told; token counts are those of the messages |
| `shortlist` | 5 files, two of one name, one in no domain, one quarantined, a lookup; evidence of 3 kinds for one entity, a registry that may not be read, a canonical master, 4 semantic domains; 1 place for an expansion, a prompt of 5 at most | `ForcedFilesSurvive`: named and pinned files reach the prompt, nothing outside the domains does, and a pin rests on a table's name or a reference key; `GapsAreFilled`: an expansion that is called for leaves a domain without a file only for want of room |
| `sql` | queries over 2 tables of one name clash, one with a CTE and one with a subselect, 2 repairs | `RepairKeepsTheQuestion`: no new file, no new `SELECT *`; of a single SELECT also the aggregates and the grouping |
| `trust` | questions over 2 and 4 files; one relationship approved or revoked between the query for the context and that for the topology | `ShownIsGrounded`: clusters are those of the joins in the prompt, and a table called isolated has no join there that is still approved; an answer over tables that are not joined has its caveat |
| `onboarding` | 2 requests of any steps one after another, 2 containers, deletions and synchronisations | `StateTellsWhatIsThere`: no step is skipped, no folder lies in a container that is gone |
| `users` | 2 people, 1 organisation, 1 domain | `OwnersCanSignIn` |
| `joins` | 3 files, one with a chain, a rebuild, 2 attempts | `FilesAreUnderstood`: files whose fingerprints overlap end joined |
| `meaning` | 2 files of one shape, 3 replies on roles and 4 on classes, 2 of chains and rebuilds; quarantine or classification with and without escalation | the same property: of two judged files that contradict each other one is quarantined; a class that counts as reliable fits its roles |
| `board` | 2 tables, proposals of every question type | `ShownIsGrounded`: a widget measures and groups by what its tables have |
| `dashboards` | 2 requests, one appends, 2 widgets at a time | `WidgetsHaveTheirPrompt` |
| `stream` | 2 attempts over one blob of 3, 2 and 0 batches, blocks of 2 writes, a new version in between | `CopiesAreWhole`: unless attempts met that can spoil each other, the published copy is whole or, after a failure, a footer without rows; a reported copy is there; a dictionary's columns are the file's |
| `cleaning` | files of up to 4 rows, probe, chunks of 2 rows, 3 starts | `FilesArriveWhole`: every row is cleaned once, by one set of rules |
| `ingest` | `StagedIngestion` with 1 file, 2 slots, 2 calls of any kind, 1 fault, fairness | `FilesArriveWhole` (`NothingForgotten`), `EveryBusyFileSettles` under reingest-all, delete and sync |
| `graph` | `GraphDelete` with cascades one at a time, no failure | `NoOrphansLeft` |
| `chat`, `pdfui`, `uploads` | 2 questions, 2 uploads, 2 batches and a sync | `PagesShowWhatIs`: a thread shows its own conversation; progress has a loop behind it, a question its end; a file called done was started. `FilesArriveWhole`: an uploaded folder keeps its directories |
| `comprehension` | 2 finalizers, 1 change of the graph, a model that confirms, rewords or drops an expansion | `ComprehensionIsSound`: versions are whole, entries cite chunks that define or hold the term |
| `knowledge` | 2 documents with 5 chunks, 2 constructions, one of which may break off | `KnowledgeIsCited`: what is in the graph is grounded, a report's sources can be followed |
| `retrieval` | 2 askers of the same groups, a chunk for one user only, 1 deletion, a token budget of 4, rows with a tenant | `PassagesAreInScope`: a fresh answer is of chunks the asker may read, a cached one of chunks that somebody with the same question and groups may; fusion agrees with its definition |

Why the bounds are enough. Files share nothing in `StagedIngestion` but slots, so one file with several chains is the
interesting case; three slots hold two chains and a duplicate. One retry separates a first, a last and an exhausted
attempt. Two pages give every reduction (all, some, none). Three documents give an entity of one document, an entity
shared by two, and a bystander; a batch of one chunk makes the loop run three times. `ParquetJobs` needs a job per
conversion: with six none is missing, where two loops list two files each, the stage has one and, once more, after a
conversion that raised. `Bounds` of `MCParquetJobs` follows the second click only as long as no chain was started anew, and
then chains of one file: the second is there for what one click does to another, and a job, its file and the chains of that
file are all that `DoneJobHasCopy` relates. What is proved (section 4) does not depend on the bounds.

In `services` each instance has the least that lets its promise be broken: two actors where the hazard is a step of one
between a read and a write of the other, one more item than a limit admits where it is a limit (a fourth chunk for a
budget of three, a third try for two attempts), two rows of one name where it is an ambiguity. The constraint `Bounds`
of `MCServices`, explained above its definition, cuts orders of concurrent steps that reach no further states of
interest: a comprehension version without disputed or inferred terms, a scaler that scales before it measured, a sync
beside the second upload batch, a plan of several steps that asks for no summary, two onboarding requests neither of which begins with connecting a storage, copies of a board under
generation, a second person with grants. Every action and disjunct of each module fires within it, and every promise is
violated within it by the mistakes that `PROJECT.json` lists.

Conditions that the runs assume, because the code gives no more:

* `NothingForgotten` leaves out `worker_lost_claimed` (see `starter_lost`), `hard_time_limit`, `broker_down_worker` and
  `api_lost`: each of them loses a task for good, and only reingest-all finds the row afterwards. A further one is no
  fault of the models: `mark_ingestion_failed` that raises (`ingest_tasks.py:183`) ends the chain with the row as it was.
  `EveryBusyFileSettles` leaves that out, too.
* `ParquetIsFresh` leaves out overlapping chains of one file and duplicated clean stages: a forced re-clean beside a
  chain, or the second delivery of one, rewrites the blob below a conversion.
* `ClickLeavesConversionsAlone` leaves out conversions whose job row a reingest has deleted: a click looks at the rows.
  `EveryListedFileIsTried` ends with the API process (`pc` is "dead"). `DoneJobHasCopy` speaks
  of the last job of a file, the one that the list of missing copies shows, and excuses it while a chain is on its way
  to a conversion, and after a chain without one ended (`quit`).
* `DocumentIsGone` speaks of what the cascade deletes. `RepairKeepsTheQuestion` compares aggregates and grouping of queries
  that are one SELECT; of others the code looks at the first clause only.
* `PassagesAreInScope` takes rows that have a tenant, as those of the tests do: with the rows of the searcher every answer
  is the refusal (`rows_without_tenant`). Since the key of the cache has no user, a passage that is allowed to a single
  user may reach another one of the same groups, and the property says so.
* `EveryPageIsAccountedFor` leaves out exceptions of the extraction that are neither transient nor permanent, and Redis
  failures; `TerminalIsDeadLettered` the latter.
* `ImplementsLifecycle` leaves out deletes (a soft delete is no step of `PdfLifecycle`), reconciles before all pages are
  settled, and deliveries after a commit whose acknowledgement was lost: `_run_page_extraction` then sets a settled page
  back to "running" (`next_page_status` says it must not, and is not called).
* `BuiltAreKept` speaks of documents whose graph was complete at the start; `NoOrphansLeft` of cascades one at
  a time that do not fail; `MatchesAreRelated` of chains and rebuilds no stage of which was given up.
* `ThreadIsOfActive` leaves out three cases that nothing in the hook holds back; they stand above it.

### Fairness

Weak fairness only, of the steps of a process that is under way: Celery redelivers what a dead worker held and its pool
restarts workers, the API process goes through its publications, a retry loop through its list, a background task
through its cascade. `EveryBusyFileSettles` (run `services`) assumes that some task of the API process or of a worker
goes on while there is one (`MCSpec`); requests, retries and faults are bounded, and a stage ends, as the time limits of
`celery_app.py` see to. No call, click, reconcile or deletion is fair, no fault must happen, and no particular outcome
is: an extraction may fail each time. A conversion is assumed to end, or to raise.

## 4. Proofs

Every theorem holds for all values of the constants that meet the `ConstantsOK` of its module.

* `StagedIngestion_proofs`. `TypeCorrect`: the types, with two facts the fields of a task need (a chain has "complete"
  ahead unless it is at it; only the description stage has the phase "described"). `NothingIsForgotten`, under
  `NoTaskLost`: the invariant is inductive beside `TypeOK`. Its proof rests on what a step of one slot leaves to the
  others (`OthersLiveOn`, lemma `Carried`) and on what the end of a handler leaves in its own slot (`SettleKeeps`): it
  published the next task, had none, or died and will be delivered again (`DeathKeeps`).
* `ParquetJobs_proofs`. `TypeCorrect` includes the semaphore and needs which fields a runner has at each `pc` (`Shape`).
  `ClicksLeaveConversionsAlone` by the invariant that the job of a runner at work is running or deleted (`Unclaimed`).
  `DoneJobsHaveCopies` needs no condition: the file of a done job, the last of its file, is
  `Covered` (`Copied`): it has its copy, a chain ahead or one that quit. Path and job are committed
  together; the step that forgets a copy belongs to a chain that is still before its conversion, which, when it takes the
  file up, starts with a newer job.
* `PdfControlPlane_proofs`. `TypeCorrect`. `FailedPagesAreDeadLettered`: the strengthening adds that a delivery about to
  commit failed_terminal has already pushed its task. `IndexedDocumentsAreSearchable`: the strengthening adds that a page
  succeeded, or about to, is in the graph, that a computed status "indexed" was computed from such pages, and that a
  document without pages is never indexed.
* `GraphDelete_proofs`. `TypeCorrect`. `DeletedIsGone` by what each stage of a cascade has cleared (`Cleared`), of chunks, Document and Page nodes;
  `BuiltKeepTheirMentions` by the invariant that the orphans of a cascade are mentioned by no live settled document
  (`Settled`).
* `StagedIngestion_proofs` goes on with the outcome of an ingestion. `IngestedAreDescribed`, under `OnlyWholeIngestions`: the strengthening says
  what a live chain at a given stage has already written to the metadata (`Informed`), that stages come in their order,
  and that no step takes these facts from a row (`FactsStay`); no fault is left out, as a task that is lost writes
  nothing. `FailuresAreExplained`, under `NoTaskLost`: an error is only cleared by a chain that goes on (`ExplainedStays`),
  and a stage that has begun does not belong to a failed chain (`Begun`).
  `CopiesAreFresh` and `ChainsAreAlone`, under `OneAtATime` (users wait for a file and no acknowledgement is lost: an
  impatient user or a second delivery gives two chains that clean and convert at once, and then neither holds, see
  `reingest_twice`). At most one task is of a file (`Alone`), which each kind of step leaves so; a conversion under way has
  read the present source (`AllCurrent`), as only the clean stage of the same chain rewrites it; and what is published then
  is fresh (`FreshInv`).
* `GraphDelete_proofs` also has `OrphansGo`, for deletions one at a time (`OneByOne`): between the batches of a cascade
  and the deletion of its orphans, an entity without mentions is one of these (`Accounted`).
* `PdfControlPlane_proofs` also has `ControlPlaneImplementsLifecycle`, that each step is one of `PdfLifecycle` or none,
  under `Undisturbed` (the cases that `ImplementsLifecycle` leaves out, section 3, and a preflight that accepts and rejects
  no same bytes). The invariant `Lawful` says that the task of a page is in one place, in the queue or with one worker
  (`OneMessage`), that a committed document has all its pages or was rejected without any, and that its status, and the
  one a reconcile has computed, is the reduction of its settled pages (`Registered`).

`Services_proofs` proves for each component of `Services` that its promise is an invariant of its specification, and for
the composition that it holds under its focus. The hypothesis is `ConstantsOK` of the composition, the conjunction of those
of the components; what `MCServices` gives the constants meets it (`InstancesOK`). The arguments, by theorem:

* `ConversationsKept`: `Kept` says, for each stage of a request, which rows its own commits have left, and that the
  tokens of a conversation are at most those of its messages while a request holds some that it will add.
* `TurnsWell`: steps of the loop are paid for by the tool budget, the nudges and one last reply (`StepsAreSpent`), a query
  that ended has stored rows and count at once unless another ran beside it (`QueriesStoreBoth`), and a turn says one thing
  (`EndsOnce`).
* `PdfAnswersHonest`: for `PdfSynthesis`, `Grounding`: what each stage has established (`Stage`), that a numbered entry of the
  prompt is an entry of the pool (`PromptIsOfPool`), that the memo is the verdict on this evidence (`MemoIsOfEvidence`). For
  `PdfAgent`, `Honest`: what the loop reads are chunks and the parts that the answer names are those without text.
* `ModelCallsBounded`: the counter plus the askers between test and increment never exceeds the cap by more than the
  other askers (`SpendInv`); calls and attempts of a batch go together (`CallInv`).
* `StateIsTrue`: the state a request knows of is one whose steps have been committed (`done`, which only grows), and a
  request that advances it has committed its own (`OnboardInv`). Root folders may be gone by then: a domain folder is
  created only under a root that is there, whose container is there with it.
* `OwnersSignIn`: `Governed`: who is gone has no rows, and an owner of an organisation has signed in with Google.
* `WidgetsKeepTheirPrompt`: `Prompted` is the promise for each board in the database and for each copy that a request
  holds, with the queries still to be written.
* `RepairsKeepTheQuestion`: either tier of a repair keeps files and adds no `SELECT *`, and keeps aggregates and grouping of
  the first clauses, which are those of the query when there is one SELECT; keeping is transitive (`Asked`).
* `FilesUnderstood` (`Catalog_proofs`): an audit that has seen two files in contradiction charges one with the other (`AuditsSee`), of two runs
  one has seen all that the other has (`LaterSeesMore`), and of two contradictory files let through one was judged before
  the other counted (`LetThroughEarlier`); for classes, `Rows`. For joins, `Joined`: unless a stage was given up, of each two
  files with one key either their relationship is there or some chain, or the rebuild, has still to look (`Found`), and so
  for their layer (`Layered`). That the files of a cursor are counted to the end rests on the least counterexample
  (`LeastNumber`).
* `PagesShow` (`Pages_proofs`): a stream belongs to the thread it was sent from, then to its conversation, and one that was
  not adopted has another conversation in front of it (`Owned`); a loop that was cancelled writes once more at most, for the
  request it waited for (`Progress`); what an upload was told is what the server did (`TellsTrue`).
* `ComprehensionHolds` (`Pages_proofs`): committed versions are 1 to n, and a finalization between insertion and commit
  holds n + 1, alone, since an insertion waits for the transaction that holds its number (`Learning`). What is mined cites
  the chunks it was read from (`TermIsReconciled`, `InferredIsFound`), and a confirmation keeps chunk, term and form of what
  was proposed, whatever becomes of the expansion (`ConfirmedAreDefinitions`); and the newest of some entries exists because
  versions are bounded (`GreatestBounded`, `GreatestFinite`).
* `ForcedFiles` (`Pages_proofs`): from the step that forces files in to the pruning, every pinned file is on the list and the
  list is of visible files (`Asked`). Each step is a lemma on lists: a join has what its parts have (`JoinedLists`), a selection
  what is selected (`ThoseLists`, `DescendingLists`, from `InOrderLists`: every member of a finite set in a total order has
  one rank), and the first of each name has every name (`NamesAreKept`). The pruning keeps what was pinned because
  `Keep <= Pin` (0.70 in `graph.py:222`, 0.85 by default in `confidence_policy.py:113`). That a pin rests on a name or a
  reference is arithmetic of the weights and caps of `_score_entry` (`ScoresAreNumbers`).
* `ExpansionFillsGaps` (`Pages_proofs`): the offers for the domains that lack come first, one of each (`OffersAreSeen`,
  `EachIsListed`); if they all fit, each domain has one, and if not, the list is cut at the room there was (`TopFills`).
* `PoolsAndWorkersFit`: arithmetic of the pools from one measurement (`CoresAreFound`, `MemoryIsFound`, `CeilFits`).
  `ResourcesUsedWell`: the lanes that a call tried cool or failed (`TriedCools`), for chat lanes with distinct deployment
  ids; a decision is clamped to bounds and quota (`DecisionIsSafe`), from knobs that are numbers (`Measured`).

* `CopiesWhole`: the proof is in `ParquetStream_proofs` (`ConversionsPublishWholeCopies`), in the plain names of `ParquetStream`;
  `Services_proofs` instantiates it as it does the module, and shows definition by definition that both say the same
  (`SameStream...`). The blocks of a version are slices of its pieces, of `BlockPieces` each but for the last (`Block`). What an
  attempt has buffered and staged is how far it has come (`AttemptOK`). While nothing is tangled, attempts that run are of one
  version (`Apart`) and each block they count is staged or published, by them or by another attempt at that version
  (`BlocksFound`); so a commit publishes a copy (`PublishedIsCopy`) and no later step takes it away (`CopyIsThere`). That the blocks of a copy, read one after
  the other, are the version (`CopiesRead`) goes by a least
  counterexample along the recursive function behind `FlattenSeq`.

Only model-checked: what needs fairness (`EveryListedFileIsTried`, `EveryPageIsAccountedFor`, `DeletionEnds`,
`EveryBusyFileSettles`; the prover does not reach `ENABLED`); that uploads keep their directories; and the promises of the
components of `MCServices` that `Services` does not have. Of these `PdfRetrieval`, `AnswerTrust` and
`FileCleaning` compute with folds and recursive functions over sequences. Facts about these need
induction with an operator as parameter, which the installed provers cannot instantiate; for one predicate at a time a
least counterexample does instead (`LeastNumber`), where the function is known to exist.

## 5. Where the code and its texts differ

Shown by runs:

* `starter_lost`: `acks_late` does not bring a starter back that died after its claim (`celery_app.py:70-73`).
* `reingest_twice`: there is no atomic claim, and no `_batch_reingest` (`admin.py:275-281`).
* `conversion_raises`: a conversion that raises leaves its job running although `admin.py:1018-1019` says that it is recorded
  (`analytics_service.py:126`), and later clicks skip its file.
* `pdf_early_worker`: page rows are not committed before their tasks are enqueued (`orchestrator.py:226`).
* `rows_without_tenant`: the access check denies a row that has no tenant (`acl.py:9-16`), and the retriever drops the
  tenant of each row it returns (`neo4j_searcher.py:64-66`).

Met while modelling, without a run. Ingestion:

* The double-click guard of retry-parquet knows only the file being converted (`admin.py:963-964`). A job also stays
  running when the update to failed raises (`analytics_service.py:257-258`). A clean stage that is given up after it cleared
  the path (`ingestion_stages.py:179`) leaves a done job without a copy.
* `_blob_exists` answers False on any error (`ingestion_stages.py:106-118`): storage that does not answer makes a file
  not_ingested as a lost blob does.
* The hard time limit kills a chain for good (`celery_app.py:79`). Two sources of one folder that differ in their
  extension only share one Parquet copy (`ingestion_config.py:190`).
* "prevent any accidental commit_block_list" (`parquet_service.py:424-432`): after an exception `parquet_writer.close()`
  writes a footer, and the finalizer of `IOBase` calls `close()`, which stages and commits it: a copy without rows, or one
  with blocks of another attempt. A CSV without batches publishes nothing and reports the size of an older copy. A failed
  conversion keeps its entry in `_PROGRESS`.
* force_preprocess says it cleans again (`admin.py:260`); a workbook's sheets are skipped when their copies exist
  (`data_preprocessor.py:434`, `:467`). `quarantine_count` is capped per chunk. Two cleanings of one file share block
  ids (`data_preprocessor.py:271`).
* "Two clamps bound the desired count" (`ingestion_autoscale.py:15-24`), which the scale-in hold overrides (`:250-259`);
  without Redis the depth reads 0, and workers go (`:280-300`).
* "Never regress to a less-reliable one" (`ingestion_stages.py:711-713`): a reliable class gives way to an unreliable one
  of higher confidence. A cached class to "reuse" (`:646-675`) never counts as reliable (`classifier.py:73-81`,
  `builder.py:123`). A failed model call erases the roles of a file (`column_role_resolver.py:365-374`), in a rebuild too.
* A conflict names ten files at most (`ingestion_audit.py:278`), so the eleventh is not quarantined; a file that was
  corrected leaves the other quarantined until a rebuild. `human_override` has no writer; the bound
  `max_trust_degradation` of the confidence policy cannot be reached; a trust of 0.0 counts as neutral
  (`trust_propagation.py:165`).
* The contract's "version when content changed" (`builder.py:312`): of two compilations the last writer wins.
* A sync lists the storage before it reads the rows (`containers.py:135-150`): what an upload confirms in between is
  taken for deleted. The files of a deleted folder come back with the next sync (`folders.py:290`). Two confirmations
  create a folder twice (`files.py:204-227`).

Documents:

* No statement of a cascade deletes the Section, SectionCard and DocCard nodes of its document
  (`kg_writer.py:160-256`, `graph_delete.py:103-133`).
* A cascade is not "re-runnable" for orphans (`delete_service.py:82`), and two cascades of the only documents that mention
  an entity both leave it (`graph_delete.py:65`). A deleted document's bytes cannot be uploaded again (`dedup.py:71-76`).
  A document that failed and is processed again inserts its page rows a second time (`orchestrator.py:239`). `reconcile`
  and `finalize_document` have no caller in the repository, nor have `run_pdf_chat` and `run_pdf_query`.
* An exception that is neither transient nor permanent leaves its page running (`tasks.py:284`).
* "behavior is identical to the previous always-recompute path" (`agent/graph.py:777`, on the memo of the negative verdict): the
  recomputed one would read the note that the synthesis appends ("Not found in the retrieved evidence") as a claim of
  absence. `negative_claim.py` asks for evidence that was "diagnosed" and for pages that were queried: any text that was
  scanned counts, cards included, no caller passes the pages, and chunks that the token budget cut count as coverage.
  Conflicting pages are compared by number, whatever their document.
* "Exactly once per graph state" (`comprehension/finalize.py:5`, `:19-25`): two finalizers of one state write two versions.
* Community ids are numbers within a construction (`communities.py:150`), so those of two documents collide. The
  grounding gate does not look at the predicate, and a claim taken from the extraction cache may cite a chunk that does
  not state it.
* `rerank_top_n` cuts before the access check, the nearest-neighbour search before the tenant filter: a reader of few
  documents may get none of them. Cached answers outlive deleted documents, and
  their key has no user (`cache.py:33-68`) although the access check admits single users (`acl.py:13`).
* What the model says replaces the expansion found in the text (`glossary_miner.py:410`): the span that an entry cites need not
  say it.
* The bypass of `build_agent_graph` goes to the synthesis without retrieval (`pdf_chat/agent/graph.py:968-975`), that of
  `run_pdf_query` does not (`:886-892`).

Chat, pages, accounts:

* "Never alters GROUP BY presence/absence" and "Aggregate count in SELECT unchanged" (`sql_repair.py:40`, `:233`) hold of
  the first clause that the regular expressions find (`:192`, `:209`): of a WITH query that is its first CTE.
* A repaired query passes `validate_and_normalise` only (`sql.py:497-511`), not the gates before it; the advice of the
  schema gate zips lists that may differ in length (`sql.py:70-83`); "fail-closed throughout" of the join gate does not
  hold for two files of one base name. The request store is "destroyed unconditionally", but not when streaming.
* "This stream can't leak into the now-active thread" (`client`, `useChat.ts:147-152`): three cases let it, see
  `ThreadIsOfActive`.
* Pins are made "so retrieval ranking cannot prune them" (`graph.py:514-515`): for a summary, `_prune_summary_shortlist` drops a
  canonical master that has no score of its own, and the files of the last turns, which `graph.py:719-721` says stay. The
  continuity note is written before the pruning (`graph.py:998`) and may name what the prompt no longer has.
* "FAIL-OPEN ... falls back to legacy confidence-only pinning" (`entity_resolver.py:440-442`): with the guard on and its registry
  unreadable, `select_pinnable_blobs` drops every candidate, as none has a verdict (`:426`).
* "The prompt of every generate is kept" (`models/dashboard.py:7-8`): of two requests that overlap the later one
  writes the board back as it read it, without the other's prompt and widgets (`dashboards.py:601-630`).
* "Re-running a step never regresses" (`services/onboarding.py:14-15`) against `api/v1/onboarding.py:328-330`. Two
  requests that connect a storage make two roots. Root folders and containers are deleted, and empty ones synchronised
  away, and the state stays (`folders.py:290`, `containers.py:190-205`, `:479-519`). Two administrators who demote each other leave none.

## 6. Not modelled

* The bridge between documents and tables, which the repository's agents do not call yet; `semantic_planner.py` and
  `ingestion_service.ingest_file`, which nothing calls; the batcher of embeddings, whose one caller is a migration; the
  response cache, of which only the administrator's clear and statistics are left; `catalog_cache.py`, which keeps no
  cache.
* The execution of queries (DuckDB, DataFusion) and the formats of files: input and output of libraries. The models take
  their results (rows, an error, nothing) as inputs.
* What models say, prompts, wording, logs, traces and metrics, the layout of pages.
* Migrations, deployment and scripts; the evaluation harness.

## 7. Plan

Done: the four systems with their proofs, the refinement of `PdfLifecycle` among them; a module for each other component
with state of its own or rules that a test would hardly reach; `Services`, with a proof for each of its components.

Left to model: the glossary of folders, the bridge once it is called.

Left to prove: the components that `MCServices` still adds to `Services` and that compute without folds: `KnowledgeGraph`,
`BoardPlanning`, the caveats of `AnswerTrust`.
