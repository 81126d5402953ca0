------------------------------ MODULE ParquetJobs -----------------------------
(***************************************************************************)
(* The Parquet conversions of ingested files and the background_jobs rows   *)
(* that track them.  A conversion is run by the Parquet stage of a chain    *)
(* (in a Celery worker) or by POST /admin/retry-parquet, which computes a    *)
(* work list once and goes through it in a task of the API process.  All    *)
(* conversions of one process share a semaphore.  The clean stage of a      *)
(* chain forgets the copy of its file and leaves the job rows alone.        *)
(*                                                                          *)
(* Source: server/app/services/analytics_service.py                         *)
(* (trigger_parquet_conversion), services/ingestion_stages.py (clean_file_  *)
(* stage, parquet_stage), api/v1/admin.py (retry_missing_parquet,           *)
(* reingest_all), api/v1/ingest.py (reprocess_container).                   *)
(***************************************************************************)
EXTENDS Naturals, FiniteSets

CONSTANTS
    Files,       \* ingested files whose extension has a Parquet copy
    Underway,    \* those whose first chain is still before its Parquet stage
    Jobs,        \* background_jobs rows, numbered as they are inserted
    None,
    Loops,       \* retry loops of the API process, one per click
    Stages,      \* worker processes that may take up a Parquet stage, once
    Permits,     \* PARQUET_CONVERSION_CONCURRENCY
    Faults,      \* which of AllFaults may happen
    MaxReingests, \* bound: calls of reingest_all and of reprocess
    MaxFaults    \* bound: faults

(* conversion_raises: convert_csv_to_parquet raises; record_raises: the      *)
(* database refuses the result; update_raises: it refuses the error, too;    *)
(* process_dies: the process of a conversion; chain_ends: a chain is given   *)
(* up, or lost, before its Parquet stage.                                    *)
AllFaults ==
    {"conversion_raises", "record_raises", "update_raises", "process_dies", "chain_ends"}

(* What a chain has still ahead of it.                                       *)
Phases == {"clean", "parquet", "complete"}

ASSUME ConstantsOK ==
    /\ Underway \subseteq Files
    /\ Jobs \subseteq Nat
    /\ None \notin Files \cup Jobs
    /\ Loops \cap Stages = {}
    /\ IsFiniteSet(Loops)
    /\ Permits \in Nat \ {0}
    /\ Faults \subseteq AllFaults
    /\ MaxReingests \in Nat
    /\ MaxFaults \in Nat

VARIABLES
    ingested, \* files.ingest_status is "ingested"
    analytics, \* file_analytics: no row ("none"), one without the path of a copy
              \* ("empty"), one with it ("copy")
    chains,   \* how many chains of a file wait for each phase
    quit,     \* history: files without a copy of which a chain ended before one
    jobFile,  \* background_jobs.file_id, None for an id not in use
    jobState, \* background_jobs.status, "deleted" once the row is
    todo,     \* the files a runner still has to go through
    cur,      \* the file a runner converts
    curJob,   \* its job row
    pc,       \* where the runner is in trigger_parquet_conversion
    reingests, faults

jobVars == <<jobFile, jobState>>
chainVars == <<chains, quit>>
vars == <<ingested, analytics, chainVars, jobVars, todo, cur, curJob, pc, reingests, faults>>

Runners == Loops \cup Stages
CanFault(x) == x \in Faults /\ faults < MaxFaults

Init ==
    /\ ingested = [f \in Files |-> TRUE]
    /\ analytics = [f \in Files |-> "empty"]
    /\ chains = [f \in Files |-> 
                     [p \in Phases |-> IF p = "parquet" /\ f \in Underway THEN 1 ELSE 0]]
    /\ quit = {}
    /\ jobFile = [j \in Jobs |-> None]
    /\ jobState = [j \in Jobs |-> "unused"]
    /\ todo = [r \in Runners |-> {}]
    /\ cur = [r \in Runners |-> None]
    /\ curJob = [r \in Runners |-> None]
    /\ pc = [r \in Runners |-> "new"]
    /\ reingests = 0
    /\ faults = 0

Missing == {f \in Files : analytics[f] # "copy"}

(* Files with a job in state "running": the click takes them for in flight.  *)
InFlight == {jobFile[j] : j \in {i \in Jobs : jobState[i] = "running"}}

(* POST /admin/retry-parquet goes through the files without a copy.          *)
WorkList_IgnoresRunning(missing, inFlight) == missing
WorkList(missing, inFlight) == missing \ inFlight

RetryClicked(r) ==
    LET list == WorkList({f \in Missing : ingested[f]}, InFlight) IN
    /\ r \in Loops /\ pc[r] = "new"
    /\ list # {}
    /\ todo' = [todo EXCEPT ![r] = list]
    /\ pc' = [pc EXCEPT ![r] = "idle"]
    /\ UNCHANGED <<ingested, analytics, chainVars, jobVars, cur, curJob, reingests, faults>>

(* A chain of f leaves phase p, for phase q.                                 *)
Leaves(c, f, p) == [c EXCEPT ![f][p] = @ - 1]
Enters(c, f, q) == [c EXCEPT ![f][q] = @ + 1]

(* parquet_stage of a chain: only a file without a copy is converted.        *)
StageStarted(r) ==
    /\ r \in Stages /\ pc[r] = "new"
    /\ \E f \in Missing :
           /\ chains[f]["parquet"] > 0
           /\ chains' = Leaves(chains, f, "parquet")
           /\ todo' = [todo EXCEPT ![r] = {f}]
    /\ pc' = [pc EXCEPT ![r] = "idle"]
    /\ UNCHANGED <<ingested, analytics, quit, jobVars, cur, curJob, reingests, faults>>

StageSkipped(f) ==
    /\ f \notin Missing
    /\ chains[f]["parquet"] > 0
    /\ chains' = Enters(Leaves(chains, f, "parquet"), f, "complete")
    /\ UNCHANGED <<ingested, analytics, quit, jobVars, todo, cur, curJob, pc, reingests, faults>>

(* trigger_parquet_conversion: the job row is inserted as "running" ...      *)
JobCreated(r) ==
    /\ pc[r] = "idle"
    /\ \E f \in todo[r], j \in {i \in Jobs : jobState[i] = "unused"} :
           /\ \A i \in Jobs : i < j => jobState[i] # "unused"
           /\ jobFile' = [jobFile EXCEPT ![j] = f]
           /\ jobState' = [jobState EXCEPT ![j] = "running"]
           /\ cur' = [cur EXCEPT ![r] = f]
           /\ curJob' = [curJob EXCEPT ![r] = j]
           /\ todo' = [todo EXCEPT ![r] = @ \ {f}]
    /\ pc' = [pc EXCEPT ![r] = "waiting"]
    /\ UNCHANGED <<ingested, analytics, chainVars, reingests, faults>>

(* ... the semaphore of the process is taken ...                             *)
Holders == {r \in Loops : pc[r] = "converting"}

Admitted_Always(r) == TRUE
Admitted(r) == r \in Loops => Cardinality(Holders) < Permits

Acquire(r) ==
    /\ pc[r] = "waiting"
    /\ Admitted(r)
    /\ pc' = [pc EXCEPT ![r] = "converting"]
    /\ UNCHANGED <<ingested, analytics, chainVars, jobVars, todo, cur, curJob, reingests, faults>>

(* ... and released by the end of the conversion.                            *)
Converted(r) ==
    /\ pc[r] = "converting"
    /\ pc' = [pc EXCEPT ![r] = "converted"]
    /\ UNCHANGED <<ingested, analytics, chainVars, jobVars, todo, cur, curJob, reingests, faults>>

(* Runner r is done with its file: a loop takes the next one, a stage ends,   *)
(* and its chain goes on.  What follows a conversion that raised is the same  *)
(* for a loop: the guard around the call takes the exception.                *)
Rest(r) == IF todo[r] = {} THEN "done" ELSE "idle"
RestAfterRaise_GivesUp(r) == "done"
RestAfterRaise(r) == Rest(r)

Leave(r, next) ==
    /\ pc' = [pc EXCEPT ![r] = next]
    /\ cur' = [cur EXCEPT ![r] = None]
    /\ curJob' = [curJob EXCEPT ![r] = None]
    /\ UNCHANGED todo

GoesOn(r) == IF r \in Stages THEN Enters(chains, cur[r], "complete") ELSE chains

(* The row of a file takes the path; a file without a row gets one.          *)
WithCopy_OfRowOnly(row) == IF row = "none" THEN row ELSE "copy"
WithCopy(row) == "copy"

(* Path and job are committed together; a row deleted meanwhile stays so.    *)
SetJob(r, state) ==
    jobState' = [jobState EXCEPT ![curJob[r]] = IF @ = "deleted" THEN @ ELSE state]

Recorded(r) ==
    /\ pc[r] = "converted"
    /\ analytics' = [analytics EXCEPT ![cur[r]] = WithCopy(@)]
    /\ quit' = quit \ {cur[r]}
    /\ chains' = GoesOn(r)
    /\ SetJob(r, "done")
    /\ Leave(r, Rest(r))
    /\ UNCHANGED <<ingested, jobFile, reingests, faults>>

(* The except branch: only what follows the conversion is inside the try.    *)
(* The update of the job is in a try of its own, whose failure is logged.    *)
RecordRaises(r) ==
    /\ pc[r] = "converted"
    /\ \/ CanFault("record_raises") /\ SetJob(r, "failed")
       \/ CanFault("update_raises") /\ UNCHANGED jobState
    /\ chains' = GoesOn(r)
    /\ Leave(r, Rest(r))
    /\ faults' = faults + 1
    /\ UNCHANGED <<ingested, analytics, quit, jobFile, reingests>>

(* The conversion itself is outside of it: the exception reaches the caller,  *)
(* and the job row stays as it is.  A loop logs the exception and goes on.   *)
ConversionRaises(r) ==
    /\ r \in Loops /\ pc[r] = "converting"
    /\ CanFault("conversion_raises")
    /\ Leave(r, RestAfterRaise(r))
    /\ faults' = faults + 1
    /\ UNCHANGED <<ingested, analytics, chainVars, jobVars, reingests>>

(* The task of a stage that raises, or whose worker dies, is delivered again  *)
(* and looks for a copy before it converts; the worker is free.              *)
StageAgain(r) ==
    /\ r \in Stages
    /\ \/ pc[r] = "converting" /\ CanFault("conversion_raises")
       \/ pc[r] \in {"waiting", "converting", "converted"} /\ CanFault("process_dies")
    /\ chains' = Enters(chains, cur[r], "parquet")
    /\ Leave(r, "new")
    /\ faults' = faults + 1
    /\ UNCHANGED <<ingested, analytics, quit, jobVars, reingests>>

(* The API process dies, and its loops with it.                              *)
ApiDies ==
    /\ CanFault("process_dies")
    /\ \E r \in Loops : pc[r] \notin {"new", "done", "dead"}
    /\ pc' = [r \in Runners |-> IF r \in Loops /\ pc[r] \notin {"new", "done"} THEN "dead" ELSE pc[r]]
    /\ todo' = [r \in Runners |-> IF r \in Loops THEN {} ELSE todo[r]]
    /\ cur' = [r \in Runners |-> IF r \in Loops THEN None ELSE cur[r]]
    /\ curJob' = [r \in Runners |-> IF r \in Loops THEN None ELSE curJob[r]]
    /\ faults' = faults + 1
    /\ UNCHANGED <<ingested, analytics, chainVars, jobVars, reingests>>

(* POST /admin/reingest-all on files F: analytics and conversion jobs are     *)
(* deleted and a chain of each is started; conversions of the API process are *)
(* not Celery tasks, so files in the hands of a retry loop are not left out.  *)
DroppedJobs(F) == {j \in Jobs : jobFile[j] \in F}

ReingestAll(F) ==
    /\ reingests < MaxReingests
    /\ F # {}
    /\ ingested' = [f \in Files |-> ingested[f] /\ f \notin F]
    /\ analytics' = [f \in Files |-> IF f \in F THEN "none" ELSE analytics[f]]
    /\ jobState' = [j \in Jobs |-> IF j \in DroppedJobs(F) THEN "deleted" ELSE jobState[j]]
    /\ chains' = [f \in Files |->
                     [chains[f] EXCEPT !["clean"] = IF f \in F THEN @ + 1 ELSE @]]
    /\ reingests' = reingests + 1
    /\ UNCHANGED <<quit, jobFile, todo, cur, curJob, pc, faults>>

(* POST /ingest/reprocess starts one, too, and leaves rows and jobs to it: of *)
(* all stages (full_rebuild), or from the Parquet stage on (parquet_only).   *)
Rebuild(f) ==
    /\ reingests < MaxReingests
    /\ \E p \in {"clean", "parquet"} : chains' = Enters(chains, f, p)
    /\ reingests' = reingests + 1
    /\ UNCHANGED <<ingested, analytics, quit, jobVars, todo, cur, curJob, pc, faults>>

(* prepare_pipeline sets the file to "running" ...                           *)
Claimed(f) ==
    /\ chains[f]["clean"] > 0 \/ chains[f]["parquet"] > 0
    /\ ingested[f]
    /\ ingested' = [ingested EXCEPT ![f] = FALSE]
    /\ UNCHANGED <<analytics, chainVars, jobVars, todo, cur, curJob, pc, reingests, faults>>

(* ... the clean stage forgets the copy before it rewrites the blob, and once  *)
(* more in each attempt ...                                                  *)
CopyForgotten(f) ==
    /\ chains[f]["clean"] > 0
    /\ f \notin Missing
    /\ analytics' = [analytics EXCEPT ![f] = "empty"]
    /\ UNCHANGED <<ingested, chainVars, jobVars, todo, cur, curJob, pc, reingests, faults>>

(* ... and writes the row, or finds the file preprocessed ...                *)
Cleaned(f) ==
    /\ chains[f]["clean"] > 0
    /\ \/ analytics' = [analytics EXCEPT ![f] = IF @ = "none" THEN "empty" ELSE @]
       \/ UNCHANGED analytics
    /\ chains' = Enters(Leaves(chains, f, "clean"), f, "parquet")
    /\ UNCHANGED <<ingested, quit, jobVars, todo, cur, curJob, pc, reingests, faults>>

(* ... the AI description marks the file ingested, before the Parquet stage ... *)
Described(f) ==
    /\ ~ingested[f]
    /\ chains[f]["parquet"] > 0
    /\ ingested' = [ingested EXCEPT ![f] = TRUE]
    /\ UNCHANGED <<analytics, chainVars, jobVars, todo, cur, curJob, pc, reingests, faults>>

(* ... and the last stage does so again.                                     *)
Completed(f) ==
    /\ chains[f]["complete"] > 0
    /\ ingested' = [ingested EXCEPT ![f] = TRUE]
    /\ chains' = Leaves(chains, f, "complete")
    /\ UNCHANGED <<analytics, quit, jobVars, todo, cur, curJob, pc, reingests, faults>>

(* A chain is given up, and the file marked failed, or it is lost.           *)
ChainEnds(f, p) ==
    /\ CanFault("chain_ends")
    /\ chains[f][p] > 0
    /\ \/ ingested' = [ingested EXCEPT ![f] = FALSE]
       \/ UNCHANGED ingested
    /\ chains' = Leaves(chains, f, p)
    /\ quit' = IF p # "complete" /\ f \in Missing THEN quit \cup {f} ELSE quit
    /\ faults' = faults + 1
    /\ UNCHANGED <<analytics, jobVars, todo, cur, curJob, pc, reingests>>

Step(r) ==
    \/ JobCreated(r) \/ Acquire(r) \/ Converted(r)
    \/ Recorded(r) \/ RecordRaises(r) \/ ConversionRaises(r)

Chain(f) ==
    \/ StageSkipped(f) \/ Rebuild(f) \/ Claimed(f) \/ CopyForgotten(f)
    \/ Cleaned(f) \/ Described(f) \/ Completed(f)
    \/ \E p \in Phases : ChainEnds(f, p)

Next ==
    \/ \E r \in Runners : RetryClicked(r) \/ StageStarted(r) \/ Step(r) \/ StageAgain(r)
    \/ ApiDies
    \/ \E F \in SUBSET Files : ReingestAll(F)
    \/ \E f \in Files : Chain(f)

Spec == Init /\ [][Next]_vars

(* A runner that has started keeps going; clicks are up to the user.         *)
FairSpec == Spec /\ \A r \in Runners : WF_vars(Step(r))
-----------------------------------------------------------------------------
TypeOK ==
    /\ ingested \in [Files -> BOOLEAN]
    /\ analytics \in [Files -> {"none", "empty", "copy"}]
    /\ chains \in [Files -> [Phases -> Nat]]
    /\ quit \in SUBSET Files
    /\ jobFile \in [Jobs -> Files \cup {None}]
    /\ jobState \in [Jobs -> {"unused", "running", "done", "failed", "deleted"}]
    /\ todo \in [Runners -> SUBSET Files]
    /\ cur \in [Runners -> Files \cup {None}]
    /\ curJob \in [Runners -> Jobs \cup {None}]
    /\ pc \in [Runners -> {"new", "idle", "waiting", "converting", "converted", "done", "dead"}]
    /\ reingests \in 0..MaxReingests
    /\ faults \in 0..MaxFaults
    /\ Cardinality(Holders) \in 0..Permits

(* The comment at the guard of the retry loop, and the reason given for the   *)
(* job rows, say that the row of a conversion that ended says how it ended: a  *)
(* job is "running" only while a runner has it.                              *)
RunningJobIsLive ==
    \A j \in Jobs : jobState[j] = "running" => \E r \in Runners : curJob[r] = j

(* The job that list_missing_parquet shows for a file: the one started last.  *)
Rows(f) == {j \in Jobs : jobFile[j] = f /\ jobState[j] \notin {"unused", "deleted"}}
IsLatest(j) == \A i \in Rows(jobFile[j]) : i <= j

(* A chain of f is yet to start a conversion.                                *)
ChainAhead(f) ==
    \/ chains[f]["clean"] > 0
    \/ chains[f]["parquet"] > 0
    \/ \E r \in Stages : f \in todo[r]

(* The list of missing Parquet files shows the last job of each.  One that    *)
(* says "done" of a file without a copy is explained: a chain has forgotten   *)
(* the copy and is on its way to make another, or it ended before it could.   *)
(* A conversion that outlasts a reingest, rows deleted and made anew under    *)
(* it, and overlapping chains of one file leave no other such job.           *)
DoneJobHasCopy ==
    \A j \in Jobs :
        jobState[j] = "done" /\ IsLatest(j) /\ jobFile[j] \in Missing =>
            ChainAhead(jobFile[j]) \/ jobFile[j] \in quit

(* "already converting -- skip": a click leaves alone the files whose         *)
(* conversion is in the hands of a chain or of an earlier click, as long as   *)
(* no reingest has deleted the job of that conversion.                       *)
ClickLeavesConversionsAlone ==
    [][\A r \in Loops, s \in Runners :
          /\ pc[r] = "new" /\ pc'[r] = "idle"
          /\ curJob[s] \in Jobs /\ jobState[curJob[s]] # "deleted"
          => cur[s] \notin todo'[r]]_vars

(* "this guard keeps the loop running for the remaining files": unless the    *)
(* API process dies, every file on the list of a loop is tried.  Neither a    *)
(* conversion that raises, nor a result or an error that cannot be recorded,  *)
(* nor what reingests and chains do to the file meanwhile, stops the loop.    *)
EveryListedFileIsTried ==
    \A r \in Loops, f \in Files : f \in todo[r] ~> cur[r] = f \/ pc[r] = "dead"
=============================================================================
