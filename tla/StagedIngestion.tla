---------------------------- MODULE StagedIngestion ---------------------------
(***************************************************************************)
(* The structured ingestion pipeline of the backend: API handlers publish   *)
(* one starter task per file, a starter claims the file row (ingest_status  *)
(* "running") and publishes a Celery chain with one task per stage, workers *)
(* run the stages, retry the fatal ones, and the last stage marks the file  *)
(* "ingested".  All actors share the file, metadata and analytics rows and  *)
(* the blobs in Azure; tasks are delivered at least once (acks_late).       *)
(*                                                                          *)
(* Source: server/app/worker/ingest_tasks.py, worker/celery_app.py,         *)
(* services/ingestion_stages.py, api/v1/{ingest,admin,files,containers}.py. *)
(***************************************************************************)
EXTENDS IngestStages, FiniteSets

CONSTANTS
    Files,          \* the files of one container
    Slots,          \* places for tasks that are published and not yet acknowledged
    NoFile,         \* the file of a free slot
    Scopes,         \* the scopes requests may ask for
    ApiOps,         \* the other API operations that may happen
    Faults,         \* what may go wrong
    Preprocessable, \* files whose extension the clean stage preprocesses
    FastMode,       \* INGEST_FAST_MODE
    Impatient,      \* may a user start a file while tasks of it are live?
    MaxRetries,     \* max_retries of a task
    MaxRequests,    \* bound: API calls
    MaxFaults       \* bound: faults

AllApiOps == {"reingest_all", "delete_file", "sync_container"}

(* worker_lost: the process dies while it runs a task; worker_lost_claimed: *)
(* it dies in a starter, after the claim and before the chain is published; *)
(* ack_lost: it dies after publishing the next task and before the          *)
(* acknowledgement; hard_time_limit: the pool kills the task; broker_down_  *)
(* worker, broker_down_api: a publication fails; api_lost: the API process  *)
(* dies between its commit and its publications; blob_lost: the source blob *)
(* disappears from Azure.                                                   *)
AllFaults ==
    { "worker_lost", "worker_lost_claimed", "ack_lost", "hard_time_limit",
      "broker_down_worker", "broker_down_api", "api_lost", "blob_lost" }

ASSUME ConstantsOK ==
    /\ NoFile \notin Files
    /\ Scopes \subseteq AllScopes
    /\ ApiOps \subseteq AllApiOps
    /\ Faults \subseteq AllFaults
    /\ Preprocessable \subseteq Files
    /\ FastMode \in BOOLEAN
    /\ Impatient \in BOOLEAN
    /\ MaxRetries \in Nat
    /\ MaxRequests \in Nat
    /\ MaxFaults \in Nat

VARIABLES
    status,    \* files.ingest_status, "gone" once the row is deleted
    prepped,   \* files.is_preprocessed
    blob,      \* the source blob exists
    version,   \* content version of the source blob, bumped by each preprocessing
    meta,      \* the file_metadata row: {} is no row, see MetaFacts
    pqPath,    \* file_analytics.parquet_blob_path is set
    pqContent, \* the version the Parquet blob was made from, 0 for none
    tasks,     \* the task in each slot
    requests,  \* API calls so far
    faults     \* faults so far

fileVars == <<status, prepped, blob, version, meta, pqPath, pqContent>>
vars == <<status, prepped, blob, version, meta, pqPath, pqContent, tasks, requests, faults>>

Statuses == {"not_ingested", "pending", "running", "ingested", "failed", "gone"}
MetaFacts == {"row", "columns", "description", "error"}
-----------------------------------------------------------------------------
(* Tasks.  A dispatch is an API handler that has committed its row changes   *)
(* and has not published yet; batch tells the calls apart.  seen and input   *)
(* are what a stage's session loaded and still acts upon.                    *)
TaskRecord ==
    [ kind     : {"free", "dispatch", "starter", "stage"},
      file     : Files \cup {NoFile},
      scope    : AllScopes \cup {"none"},
      stage    : Stages \cup {"none"},
      todo     : SUBSET Stages,
      phase    : {"queued", "loaded", "uploaded", "described", "orphaned",
                  "claimable", "claimed"},
      failed   : BOOLEAN,
      tries    : 0..MaxRetries,
      seen     : SUBSET {"ingested", "error"},
      input    : Nat,
      batch    : 0..MaxRequests,
      reingest : BOOLEAN ]

(* A chain ends with "complete": every other stage has it ahead.             *)
EndsWithComplete(g, rest) == IF rest = {} THEN g = "complete" ELSE "complete" \in rest

Task ==
    { k \in TaskRecord :
        /\ k.kind # "free" => k.file \in Files
        /\ k.kind \in {"dispatch", "starter"} => k.scope \in AllScopes
        /\ k.kind = "stage" => k.stage \in Stages /\ EndsWithComplete(k.stage, k.todo)
        /\ k.phase = "described" => k.stage = "ai_description" }

FreeTask ==
    [ kind |-> "free", file |-> NoFile, scope |-> "none", stage |-> "none",
      todo |-> {}, phase |-> "queued", failed |-> FALSE, tries |-> 0,
      seen |-> {}, input |-> 0, batch |-> 0, reingest |-> FALSE ]

DispatchOf(f, scope, n, re) ==
    [FreeTask EXCEPT !.kind = "dispatch", !.file = f, !.scope = scope,
                     !.batch = n, !.reingest = re]

StarterOf(f, scope) ==
    [FreeTask EXCEPT !.kind = "starter", !.file = f, !.scope = scope]

StageOf(f, g, rest, bad) ==
    [FreeTask EXCEPT !.kind = "stage", !.file = f, !.stage = g,
                     !.todo = rest, !.failed = bad]

Free == {t \in Slots : tasks[t].kind = "free"}
TasksOn(f) == {t \in Slots : tasks[t].file = f}
CanFault(x) == x \in Faults /\ faults < MaxFaults
Exists(f) == status[f] # "gone"

(* Injective choices of a free slot for each file of F.                      *)
Placements(F) ==
    {p \in [F -> Free] : \A f, g \in F : f # g => p[f] # p[g]}

(* The tasks after the handler of call n has reserved p[f] for each f in F.  *)
Reserve(T, F, p, scope, n, re) ==
    [t \in Slots |->
        IF \E f \in F : p[f] = t
        THEN DispatchOf(CHOOSE f \in F : p[f] = t, scope, n, re)
        ELSE T[t]]
-----------------------------------------------------------------------------
Init ==
    /\ status = [f \in Files |-> "not_ingested"]
    /\ prepped = [f \in Files |-> FALSE]
    /\ blob = [f \in Files |-> TRUE]
    /\ version = [f \in Files |-> 1]
    /\ meta = [f \in Files |-> {}]
    /\ pqPath = [f \in Files |-> FALSE]
    /\ pqContent = [f \in Files |-> 0]
    /\ tasks = [t \in Slots |-> FreeTask]
    /\ requests = 0
    /\ faults = 0
-----------------------------------------------------------------------------
(* API handlers.                                                             *)

NewCall == requests < MaxRequests /\ requests' = requests + 1

(* POST /ingest (scope "ingest", with or without force_preprocess), the      *)
(* auto-ingest of an upload, and POST /reprocess: the flag is committed, then *)
(* one starter per file is published.  ingest_status is not touched.         *)
Request(F, scope, force) ==
    /\ NewCall
    /\ scope \in Scopes
    /\ force => scope = "ingest"
    /\ F # {}
    /\ \A f \in F : Exists(f) /\ (Impatient \/ TasksOn(f) = {})
    /\ prepped' = [f \in Files |->
           IF f \in F /\ (force \/ ForcesPreprocess(scope)) THEN FALSE ELSE prepped[f]]
    /\ \E p \in Placements(F) :
           tasks' = Reserve(tasks, F, p, scope, requests', FALSE)
    /\ UNCHANGED <<status, blob, version, meta, pqPath, pqContent, faults>>

(* An AI description stage that still has to write the metadata row it       *)
(* loaded: once reingest_all has deleted the row its next flush matches none. *)
HoldsRow(k) ==
    /\ k.stage = "ai_description"
    /\ \/ k.phase = "loaded"
       \/ k.phase = "described" /\ "error" \in k.seen

Orphan(T, F) ==
    [t \in Slots |->
        IF T[t].file \in F /\ HoldsRow(T[t])
        THEN [T[t] EXCEPT !.phase = "orphaned"] ELSE T[t]]

(* Files reingest_all must leave out: rows "running" that Celery reports as  *)
(* active.  inspect() is best effort: it sees some of the live tasks or none. *)
Running == {f \in Files : status[f] = "running" /\ TasksOn(f) # {}}

(* POST /admin/reingest-all: metadata, analytics and relationships of every  *)
(* other file are deleted, its status becomes "pending", then one starter    *)
(* per file is published.                                                    *)
ReingestAll(inFlight, force) ==
    LET F == {f \in Files : Exists(f)} \ inFlight IN
    /\ NewCall
    /\ "reingest_all" \in ApiOps
    /\ F # {}
    /\ \A f \in F : Impatient \/ TasksOn(f) = {}
    /\ status' = [f \in Files |-> IF f \in F THEN "pending" ELSE status[f]]
    /\ prepped' = [f \in Files |-> IF f \in F /\ force THEN FALSE ELSE prepped[f]]
    /\ meta' = [f \in Files |-> IF f \in F THEN {} ELSE meta[f]]
    /\ pqPath' = [f \in Files |-> IF f \in F THEN FALSE ELSE pqPath[f]]
    /\ \E p \in Placements(F) :
           tasks' = Reserve(Orphan(tasks, F), F, p, "ingest", requests', TRUE)
    /\ UNCHANGED <<blob, version, pqContent, faults>>

(* The rows of files F are deleted; metadata and analytics cascade.          *)
DropRows(F) ==
    /\ status' = [f \in Files |-> IF f \in F THEN "gone" ELSE status[f]]
    /\ prepped' = [f \in Files |-> IF f \in F THEN FALSE ELSE prepped[f]]
    /\ meta' = [f \in Files |-> IF f \in F THEN {} ELSE meta[f]]
    /\ pqPath' = [f \in Files |-> IF f \in F THEN FALSE ELSE pqPath[f]]

(* DELETE /files/{id}: blobs first, best effort, then the row.  Tasks of the *)
(* file stay in the queue.                                                   *)
DeleteFile(f) ==
    /\ NewCall
    /\ "delete_file" \in ApiOps
    /\ Exists(f)
    /\ \E kept \in BOOLEAN : blob' = [blob EXCEPT ![f] = @ /\ kept]
    /\ DropRows({f})
    /\ UNCHANGED <<version, pqContent, tasks, faults>>

(* Container sync: rows without a blob go, rows "not_ingested" are started.  *)
SyncContainer ==
    LET lost  == {f \in Files : Exists(f) /\ ~blob[f]}
        fresh == {f \in Files : status[f] = "not_ingested" /\ blob[f]} IN
    /\ NewCall
    /\ "sync_container" \in ApiOps
    /\ \A f \in fresh : Impatient \/ TasksOn(f) = {}
    /\ DropRows(lost)
    /\ \E p \in Placements(fresh) :
           tasks' = Reserve(tasks, fresh, p, "ingest", requests', FALSE)
    /\ UNCHANGED <<blob, version, pqContent, faults>>

Dispatch(t) ==
    /\ tasks[t].kind = "dispatch"
    /\ tasks' = [tasks EXCEPT ![t] = StarterOf(tasks[t].file, tasks[t].scope)]
    /\ UNCHANGED <<fileVars, requests, faults>>

(* What recording a failure does to the metadata row of an existing file:    *)
(* the error is set, on a row made for it when there is none.                *)
WithError_OnExistingRowOnly(m) == IF "row" \in m THEN m \cup {"error"} ELSE m
WithError(m) == m \cup {"row", "error"}

(* A publication fails: the handler gives up on the files it has not         *)
(* published.  Only reingest_all records it (_mark_dispatch_failed).         *)
RecordsFailure_Never(k) == FALSE
RecordsFailure(k) == k.reingest

DispatchFails(n) ==
    LET lost == {t \in Slots : tasks[t].kind = "dispatch" /\ tasks[t].batch = n}
        F == {tasks[t].file : t \in {u \in lost : RecordsFailure(tasks[u])}}
        G == {f \in F : Exists(f)} IN
    /\ CanFault("broker_down_api")
    /\ lost # {}
    /\ tasks' = [t \in Slots |-> IF t \in lost THEN FreeTask ELSE tasks[t]]
    /\ status' = [f \in Files |-> IF f \in G THEN "failed" ELSE status[f]]
    /\ meta' = [f \in Files |-> IF f \in G THEN WithError(meta[f]) ELSE meta[f]]
    /\ faults' = faults + 1
    /\ UNCHANGED <<prepped, blob, version, pqPath, pqContent, requests>>

ApiLost(n) ==
    LET lost == {t \in Slots : tasks[t].kind = "dispatch" /\ tasks[t].batch = n} IN
    /\ CanFault("api_lost")
    /\ lost # {}
    /\ tasks' = [t \in Slots |-> IF t \in lost THEN FreeTask ELSE tasks[t]]
    /\ faults' = faults + 1
    /\ UNCHANGED <<fileVars, requests>>
-----------------------------------------------------------------------------
(* Task delivery.  A definition called X_<mistake> is a plausible mistake in  *)
(* X, defined before it: the properties are checked to break under it.       *)

(* acks_late and reject_on_worker_lost: the task of a dead worker goes back  *)
(* to the queue, with the retries it had.                                    *)
Redelivered_AckedEarly(k) == FreeTask
Redelivered(k) == [k EXCEPT !.phase = "queued", !.seen = {}, !.input = 0]

(* A starter that dies after its claim is told apart: see NothingForgotten.  *)
Death(t) == IF tasks[t].phase = "claimed" THEN "worker_lost_claimed" ELSE "worker_lost"

(* The handler of slot t has committed: next is published and t is           *)
(* acknowledged.  The worker may die before the one or before the other, and *)
(* the publication may fail, in which case the task ends in an error and is  *)
(* acknowledged all the same.                                                *)
Settle(t, next) ==
    \/ /\ tasks' = [tasks EXCEPT ![t] = next]
       /\ UNCHANGED faults
    \/ /\ CanFault(Death(t))
       /\ next # FreeTask
       /\ tasks' = [tasks EXCEPT ![t] = Redelivered(@)]
       /\ faults' = faults + 1
    \/ /\ CanFault("ack_lost")
       /\ IF next = FreeTask
          THEN tasks' = [tasks EXCEPT ![t] = Redelivered(@)]
          ELSE \E s \in Free :
                  tasks' = [tasks EXCEPT ![t] = Redelivered(@), ![s] = next]
       /\ faults' = faults + 1
    \/ /\ CanFault("broker_down_worker")
       /\ next # FreeTask
       /\ tasks' = [tasks EXCEPT ![t] = FreeTask]
       /\ faults' = faults + 1

(* The task of the chain after a task with `todo` left; none at its end.     *)
NextTasks(f, todo, bad) ==
    IF todo = {}
    THEN {FreeTask}
    ELSE {StageOf(f, g, todo \ {g}, bad) : g \in {h \in todo : IsFirst(h, todo)}}

Advance(t, bad) ==
    \E next \in NextTasks(tasks[t].file, tasks[t].todo, bad) : Settle(t, next)

(* task.retry: the same message again, one attempt further.                  *)
Retried_Uncounted(k) == Redelivered(k)
Retried(k) == [Redelivered(k) EXCEPT !.tries = @ + 1]
Exhausted_OneTooMany(k) == k.tries > MaxRetries
Exhausted(k) == k.tries >= MaxRetries

(* mark_ingestion_failed.                                                    *)
MarkFailed(f) ==
    IF Exists(f)
    THEN /\ status' = [status EXCEPT ![f] = "failed"]
         /\ meta' = [meta EXCEPT ![f] = WithError(@)]
    ELSE UNCHANGED <<status, meta>>
-----------------------------------------------------------------------------
(* Starters: run_ingest_pipeline and run_scoped_ingest.                      *)

(* Statuses at which prepare_pipeline refuses to start a chain.              *)
Refused == {"running", "gone"}

(* prepare_pipeline reads the row ...                                        *)
StarterReads(t) ==
    LET k == tasks[t] IN
    /\ k.kind = "starter" /\ k.phase = "queued"
    /\ tasks' = [tasks EXCEPT ![t] =
           IF status[k.file] \in Refused THEN FreeTask ELSE [k EXCEPT !.phase = "claimable"]]
    /\ UNCHANGED <<fileVars, requests, faults>>

(* ... and commits "running" later: the two are not one transaction step.    *)
StarterClaims(t) ==
    LET k == tasks[t] IN
    /\ k.kind = "starter" /\ k.phase = "claimable"
    /\ Exists(k.file)
    /\ status' = [status EXCEPT ![k.file] = "running"]
    /\ tasks' = [tasks EXCEPT ![t].phase = "claimed"]
    /\ UNCHANGED <<prepped, blob, version, meta, pqPath, pqContent, requests, faults>>

(* The chain is published: its first task is.                                *)
StarterPublishes(t) ==
    LET k == tasks[t] IN
    /\ k.kind = "starter" /\ k.phase = "claimed"
    /\ \E next \in NextTasks(k.file, StagesOf(k.scope, FastMode), FALSE) : Settle(t, next)
    /\ UNCHANGED <<fileVars, requests>>

(* prepare_pipeline raises.                                                  *)
StarterRaises(t) ==
    LET k == tasks[t] IN
    /\ k.kind = "starter" /\ k.phase \in {"queued", "claimable"}
    /\ IF Exhausted(k)
       THEN /\ MarkFailed(k.file)
            /\ Settle(t, FreeTask)
       ELSE /\ Settle(t, Retried(k))
            /\ UNCHANGED <<status, meta>>
    /\ UNCHANGED <<prepped, blob, version, pqPath, pqContent, requests>>
-----------------------------------------------------------------------------
(* Stages: _run_stage around the stage functions.                            *)

InPhase(t, ph) == tasks[t].kind = "stage" /\ tasks[t].phase = ph

(* A payload marked failed goes through the rest of the chain untouched.     *)
SkipsStage_Never(k) == FALSE
SkipsStage(k) == k.failed

PassThrough(t) ==
    /\ InPhase(t, "queued")
    /\ SkipsStage(tasks[t])
    /\ Advance(t, TRUE)
    /\ UNCHANGED <<fileVars, requests>>

NeedsCleaning(f) == f \in Preprocessable /\ ~prepped[f]

(* The row checks at the head of the stage functions.                        *)
CanLoad(g, f) ==
    /\ g \in {"clean", "parquet", "metadata", "ai_description", "ontology",
              "erp_classification", "analytics", "relationships"} => Exists(f)
    /\ g \in {"ai_description", "ontology", "erp_classification", "embedding",
              "opensearch", "analytics", "relationships"} => "row" \in meta[f]

(* The stage begins: what its session loads.  Cleaning starts by forgetting  *)
(* the Parquet copy, in a commit of its own.                                 *)
ForgetsParquet_Never(g, f) == FALSE
ForgetsParquet(g, f) == g = "clean" /\ NeedsCleaning(f)

StageLoads(t) ==
    LET k == tasks[t]
        f == k.file IN
    /\ InPhase(t, "queued") /\ ~SkipsStage(k)
    /\ CanLoad(k.stage, f)
    /\ k.stage = "clean" => NeedsCleaning(f)
    /\ k.stage = "parquet" => ~pqPath[f]
    /\ pqPath' = IF ForgetsParquet(k.stage, f) THEN [pqPath EXCEPT ![f] = FALSE] ELSE pqPath
    /\ tasks' = [tasks EXCEPT
           ![t].phase = "loaded",
           ![t].seen = IF k.stage = "ai_description"
                       THEN (IF status[f] = "ingested" THEN {"ingested"} ELSE {})
                            \cup (meta[f] \cap {"error"})
                       ELSE {},
           ![t].input = IF k.stage = "parquet" THEN version[f] ELSE 0]
    /\ UNCHANGED <<status, prepped, blob, version, meta, pqContent, requests, faults>>

(* The clean stage has nothing to clean and the blob is there; the Parquet   *)
(* stage finds a copy and leaves it.                                         *)
StageSkips(t) ==
    LET k == tasks[t]
        f == k.file IN
    /\ InPhase(t, "queued") /\ ~SkipsStage(k)
    /\ Exists(f)
    /\ \/ k.stage = "clean" /\ ~NeedsCleaning(f) /\ blob[f]
       \/ k.stage = "parquet" /\ pqPath[f]
    /\ Advance(t, FALSE)
    /\ UNCHANGED <<fileVars, requests>>

(* Blobs are written before the rows that tell of them: the cleaned content  *)
(* over the source, the Parquet copy made from what the conversion read.     *)
StageUploads(t) ==
    LET k == tasks[t]
        f == k.file IN
    /\ InPhase(t, "loaded")
    /\ \/ /\ k.stage = "clean" /\ blob[f]
          /\ version' = [version EXCEPT ![f] = @ + 1]
          /\ UNCHANGED pqContent
       \/ /\ k.stage = "parquet" /\ blob[f]
          /\ pqContent' = [pqContent EXCEPT ![f] = k.input]
          /\ UNCHANGED version
    /\ tasks' = [tasks EXCEPT ![t].phase = "uploaded"]
    /\ UNCHANGED <<status, prepped, blob, meta, pqPath, requests, faults>>

CleanCommits(t) ==
    LET k == tasks[t]
        f == k.file IN
    /\ InPhase(t, "uploaded") /\ k.stage = "clean"
    /\ Exists(f)
    /\ prepped' = [prepped EXCEPT ![f] = TRUE]
    /\ Advance(t, FALSE)
    /\ UNCHANGED <<status, blob, version, meta, pqPath, pqContent, requests>>

(* sample_file reads the blob, the row is upserted and its error cleared.    *)
MetadataCommits(t) ==
    LET f == tasks[t].file IN
    /\ InPhase(t, "loaded") /\ tasks[t].stage = "metadata"
    /\ Exists(f) /\ blob[f]
    /\ meta' = [meta EXCEPT ![f] = (@ \cup {"row", "columns"}) \ {"error"}]
    /\ Advance(t, FALSE)
    /\ UNCHANGED <<status, prepped, blob, version, pqPath, pqContent, requests>>

(* ai_description_stage commits the description ...                          *)
DescriptionCommits(t) ==
    LET f == tasks[t].file IN
    /\ InPhase(t, "loaded") /\ tasks[t].stage = "ai_description"
    /\ "row" \in meta[f]
    /\ meta' = [meta EXCEPT ![f] = @ \cup {"description"}]
    /\ tasks' = [tasks EXCEPT ![t].phase = "described"]
    /\ UNCHANGED <<status, prepped, blob, version, pqPath, pqContent, requests, faults>>

(* ... then marks the file ingested while the chain still runs.  The session *)
(* writes only the attributes that differ from what it loaded.               *)
DescribedIngested(t) ==
    LET k == tasks[t]
        f == k.file IN
    /\ InPhase(t, "described")
    /\ Exists(f) \/ k.seen = {"ingested"}
    /\ status' = IF "ingested" \in k.seen THEN status ELSE [status EXCEPT ![f] = "ingested"]
    /\ meta' = IF "error" \in k.seen THEN [meta EXCEPT ![f] = @ \ {"error"}] ELSE meta
    /\ Advance(t, FALSE)
    /\ UNCHANGED <<prepped, blob, version, pqPath, pqContent, requests>>

(* trigger_parquet_conversion records the copy; without a file row the       *)
(* insert violates its foreign key, which only the background job records.   *)
ParquetCommits(t) ==
    LET f == tasks[t].file IN
    /\ InPhase(t, "uploaded") /\ tasks[t].stage = "parquet"
    /\ pqPath' = [pqPath EXCEPT ![f] = Exists(f)]
    /\ Advance(t, FALSE)
    /\ UNCHANGED <<status, prepped, blob, version, meta, pqContent, requests>>

CompleteCommits(t) ==
    LET f == tasks[t].file IN
    /\ InPhase(t, "loaded") /\ tasks[t].stage = "complete"
    /\ status' = IF Exists(f) THEN [status EXCEPT ![f] = "ingested"] ELSE status
    /\ Advance(t, FALSE)
    /\ UNCHANGED <<prepped, blob, version, meta, pqPath, pqContent, requests>>

(* Stages whose results (roles, ERP class, embedding, index document, joins, *)
(* semantic layer) no property here tells apart.                             *)
EnrichmentCommits(t) ==
    /\ InPhase(t, "loaded")
    /\ tasks[t].stage \in NonFatal \ {"parquet"}
    /\ Advance(t, FALSE)
    /\ UNCHANGED <<fileVars, requests>>

(* What _run_stage does with an exception of the stage of slot t, the file   *)
(* being left at status and metadata by MarkFailed when attempts run out.    *)
(* MarkFailed does not fail here: should it raise, the chain would end there *)
(* and leave the row as it was.                                              *)
Fails(t) ==
    LET k == tasks[t] IN
    \/ /\ k.stage \in NonFatal
       /\ Advance(t, FALSE)
       /\ UNCHANGED <<status, meta>>
    \/ /\ k.stage \notin NonFatal /\ ~Exhausted(k)
       /\ Settle(t, Retried(k))
       /\ UNCHANGED <<status, meta>>
    \/ /\ k.stage \notin NonFatal /\ Exhausted(k)
       /\ MarkFailed(k.file)
       /\ Advance(t, TRUE)

(* Any exception of a stage: a row it needs is missing, a service fails, the *)
(* soft time limit strikes.                                                  *)
StageRaises(t) ==
    LET k == tasks[t] IN
    /\ k.kind = "stage" /\ ~SkipsStage(k)
    /\ k.phase = "queued" => ~CanLoad(k.stage, k.file)
    /\ Fails(t)
    /\ UNCHANGED <<prepped, blob, version, pqPath, pqContent, requests>>

(* The clean stage finds nothing to clean and no blob, or fails to ask Azure *)
(* for it, which _blob_exists takes for the same: it commits "not_ingested"  *)
(* and then raises.                                                          *)
SourceMissing(t) ==
    LET k == tasks[t]
        f == k.file IN
    /\ InPhase(t, "queued") /\ ~SkipsStage(k)
    /\ k.stage = "clean" /\ Exists(f) /\ ~NeedsCleaning(f)
    /\ IF Exhausted(k)
       THEN /\ MarkFailed(f)
            /\ Advance(t, TRUE)
       ELSE /\ status' = [status EXCEPT ![f] = "not_ingested"]
            /\ Settle(t, Retried(k))
            /\ UNCHANGED meta
    /\ UNCHANGED <<prepped, blob, version, pqPath, pqContent, requests>>
-----------------------------------------------------------------------------
(* Faults of the worker pool and of storage.                                 *)

Executing(t) ==
    /\ tasks[t].kind \in {"starter", "stage"}
    /\ tasks[t].phase # "queued"

WorkerLost(t) ==
    /\ Executing(t)
    /\ CanFault(Death(t))
    /\ tasks' = [tasks EXCEPT ![t] = Redelivered(@)]
    /\ faults' = faults + 1
    /\ UNCHANGED <<fileVars, requests>>

HardTimeLimit(t) ==
    /\ Executing(t)
    /\ CanFault("hard_time_limit")
    /\ tasks' = [tasks EXCEPT ![t] = FreeTask]
    /\ faults' = faults + 1
    /\ UNCHANGED <<fileVars, requests>>

BlobLost(f) ==
    /\ CanFault("blob_lost")
    /\ blob[f]
    /\ blob' = [blob EXCEPT ![f] = FALSE]
    /\ faults' = faults + 1
    /\ UNCHANGED <<status, prepped, version, meta, pqPath, pqContent, tasks, requests>>
-----------------------------------------------------------------------------
Worker(t) ==
    \/ StarterReads(t) \/ StarterClaims(t) \/ StarterPublishes(t) \/ StarterRaises(t)
    \/ PassThrough(t) \/ StageLoads(t) \/ StageSkips(t) \/ StageUploads(t)
    \/ CleanCommits(t) \/ MetadataCommits(t) \/ DescriptionCommits(t)
    \/ DescribedIngested(t) \/ ParquetCommits(t) \/ CompleteCommits(t)
    \/ EnrichmentCommits(t) \/ StageRaises(t) \/ SourceMissing(t)

Api ==
    \/ \E F \in SUBSET Files, scope \in Scopes, force \in BOOLEAN : Request(F, scope, force)
    \/ \E inFlight \in SUBSET Running, force \in BOOLEAN : ReingestAll(inFlight, force)
    \/ \E f \in Files : DeleteFile(f)
    \/ SyncContainer

Failure ==
    \/ \E n \in 0..MaxRequests : DispatchFails(n) \/ ApiLost(n)
    \/ \E t \in Slots : WorkerLost(t) \/ HardTimeLimit(t)
    \/ \E f \in Files : BlobLost(f)

Next ==
    \/ Api
    \/ \E t \in Slots : Dispatch(t) \/ Worker(t)
    \/ Failure

Spec == Init /\ [][Next]_vars

(* The API process and the workers keep going: nothing else is assumed fair. *)
FairSpec ==
    /\ Spec
    /\ \A t \in Slots : WF_vars(Dispatch(t)) /\ WF_vars(Worker(t))
-----------------------------------------------------------------------------
TypeOK ==
    /\ status \in [Files -> Statuses]
    /\ prepped \in [Files -> BOOLEAN]
    /\ blob \in [Files -> BOOLEAN]
    /\ version \in [Files -> Nat]
    /\ meta \in [Files -> SUBSET MetaFacts]
    /\ pqPath \in [Files -> BOOLEAN]
    /\ pqContent \in [Files -> Nat]
    /\ tasks \in [Slots -> Task]
    /\ requests \in 0..MaxRequests
    /\ faults \in 0..MaxFaults

(* A task that will still write a final status for file f.                   *)
Claims(t, f) ==
    /\ tasks[t].file = f
    /\ \/ tasks[t].kind = "starter" /\ tasks[t].phase = "claimed"
       \/ tasks[t].kind = "stage" /\ ~tasks[t].failed

(* A task that will claim file f, or record that nobody could.               *)
WillClaim(t, f) ==
    /\ tasks[t].file = f
    /\ \/ tasks[t].kind = "starter" /\ tasks[t].phase # "claimed"
       \/ tasks[t].kind = "dispatch" /\ tasks[t].reingest

(* No file is left behind: a row "running" has a live chain (or a starter     *)
(* about to publish it) that has not failed, a row "pending" a starter or the *)
(* reingest handler that will publish it.  Broken, the file shows as busy for *)
(* ever and every later click is answered "already running".                  *)
NothingForgotten ==
    \A f \in Files :
        /\ status[f] = "running" => \E t \in Slots : Claims(t, f)
        /\ status[f] = "pending" => \E t \in Slots : WillClaim(t, f)

(* A file reported "ingested" has been described: a chain whose metadata or   *)
(* description stage failed for good never ends in "ingested", whatever other *)
(* chains, retries and redeliveries of the same file do.                      *)
IngestedIsDescribed ==
    \A f \in Files : status[f] = "ingested" => {"row", "columns", "description"} \subseteq meta[f]

(* A file that stays "failed" says why: only a chain that is still live, and  *)
(* will overwrite the status, can have cleared the error of another.          *)
FailedIsExplained ==
    \A f \in Files :
        status[f] = "failed" =>
            "error" \in meta[f] \/ \E t \in Slots : Claims(t, f)

(* The Parquet copy queries read was made from the present content of the     *)
(* source blob: cleaning rewrites the blob, and the copy made before must not *)
(* be found and kept by the Parquet stage after it.                           *)
ParquetIsFresh ==
    \A f \in Files : pqPath[f] => pqContent[f] = version[f]

(* prepare_pipeline and reingest_all promise that a file is never processed   *)
(* by two chains at the same time.                                            *)
OneChainPerFile ==
    \A f \in Files : Cardinality({t \in Slots : Claims(t, f)}) <= 1

(* Every file that a starter or reingest_all made busy leaves that state.     *)
Busy(f) == status[f] \in {"pending", "running"}
=============================================================================
