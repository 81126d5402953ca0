------------------------ MODULE StagedIngestion_proofs ------------------------
(***************************************************************************)
(* Theorems about StagedIngestion, for every set of files and slots and     *)
(* every value of the bounds.                                               *)
(***************************************************************************)
EXTENDS StagedIngestion, FiniteSetTheorems, TLAPS

(* What a task is made of, and what its fields have to do with each other.   *)
LEMMA TaskFields ==
    ASSUME NEW k \in Task
    PROVE  /\ k.kind \in {"free", "dispatch", "starter", "stage"}
           /\ k.file \in Files \cup {NoFile}
           /\ k.scope \in AllScopes \cup {"none"}
           /\ k.stage \in Stages \cup {"none"}
           /\ k.todo \in SUBSET Stages
           /\ k.failed \in BOOLEAN
           /\ k.tries \in 0..MaxRetries
           /\ k.batch \in 0..MaxRequests
           /\ k.kind # "free" => k.file \in Files
           /\ k.kind \in {"dispatch", "starter"} => k.scope \in AllScopes
           /\ k.kind = "stage" => k.stage \in Stages /\ EndsWithComplete(k.stage, k.todo)
           /\ k.phase = "described" => k.stage = "ai_description"
BY DEF Task, TaskRecord

(* The tasks that are made are tasks.                                        *)
LEMMA FreeTaskType == FreeTask \in Task
BY ConstantsOK DEF FreeTask, Task, TaskRecord

LEMMA FreeTaskFields ==
    /\ FreeTask \in TaskRecord
    /\ FreeTask.kind = "free"
    /\ FreeTask.phase = "queued"
BY FreeTaskType DEF FreeTask, Task

LEMMA DispatchType ==
    ASSUME NEW f \in Files, NEW scope \in AllScopes, NEW n \in 0..MaxRequests, NEW re \in BOOLEAN
    PROVE  DispatchOf(f, scope, n, re) \in Task
BY ConstantsOK, FreeTaskFields DEF DispatchOf, Task, TaskRecord

LEMMA StarterType ==
    ASSUME NEW f \in Files, NEW scope \in AllScopes
    PROVE  StarterOf(f, scope) \in Task
BY ConstantsOK, FreeTaskFields DEF StarterOf, Task, TaskRecord

LEMMA StageType ==
    ASSUME NEW f \in Files, NEW g \in Stages, NEW rest \in SUBSET Stages,
           EndsWithComplete(g, rest), NEW bad \in BOOLEAN
    PROVE  StageOf(f, g, rest, bad) \in Task
BY ConstantsOK, FreeTaskFields DEF StageOf, Task, TaskRecord, EndsWithComplete

LEMMA PhaseType ==
    ASSUME NEW k \in Task,
           NEW ph \in {"queued", "loaded", "uploaded", "orphaned", "claimable", "claimed"}
    PROVE  [k EXCEPT !.phase = ph] \in Task
BY DEF Task, TaskRecord

LEMMA DescribedType ==
    ASSUME NEW k \in Task, k.stage = "ai_description"
    PROVE  [k EXCEPT !.phase = "described"] \in Task
BY DEF Task, TaskRecord

LEMMA RedeliveredType ==
    ASSUME NEW k \in Task
    PROVE  Redelivered(k) \in Task
BY DEF Redelivered, Task, TaskRecord

LEMMA RetriedType ==
    ASSUME NEW k \in Task, ~Exhausted(k)
    PROVE  Retried(k) \in Task
<1>1. Redelivered(k) \in Task /\ Redelivered(k).tries = k.tries
  BY RedeliveredType DEF Redelivered, Task, TaskRecord
<1>2. k.tries + 1 \in 0..MaxRetries
  BY ConstantsOK, TaskFields DEF Exhausted
<1> QED
  BY <1>1, <1>2 DEF Retried, Task, TaskRecord

(* "complete" is the last stage: it runs first only of a set of its own.     *)
LEMMA CompleteIsLast ==
    ASSUME NEW todo \in SUBSET Stages, "complete" \in todo, NEW g \in todo, IsFirst(g, todo)
    PROVE  EndsWithComplete(g, todo \ {g})
<1>1. \A h \in Stages : h # "complete" => Rank[h] < Rank["complete"]
  BY DEF Stages, Rank
<1>2. ASSUME NEW h \in todo, g = "complete"
      PROVE  h = "complete"
  <2>1. Rank[g] <= Rank[h] /\ Rank[g] \in Nat /\ Rank[h] \in Nat
    BY DEF IsFirst, Stages, Rank
  <2> QED
    BY <1>1, <1>2, <2>1
<1> QED
  BY <1>2 DEF EndsWithComplete

(* A chain that has stages left goes on with one of them and loses none.     *)
LEMMA NextTasksType ==
    ASSUME NEW f \in Files, NEW todo \in SUBSET Stages, NEW bad \in BOOLEAN,
           todo # {} => "complete" \in todo
    PROVE  NextTasks(f, todo, bad) \subseteq Task
<1>1. CASE todo = {}
  BY <1>1, FreeTaskType DEF NextTasks
<1>2. CASE todo # {}
  <2> SUFFICES ASSUME NEW g \in todo, IsFirst(g, todo)
               PROVE  StageOf(f, g, todo \ {g}, bad) \in Task
    BY <1>2 DEF NextTasks
  <2> QED
    BY <1>2, CompleteIsLast, StageType
<1> QED
  BY <1>1, <1>2

(* Every scope ends with "complete".                                         *)
LEMMA StagesOfScope ==
    ASSUME NEW scope \in AllScopes
    PROVE  /\ StagesOf(scope, FastMode) \in SUBSET Stages
           /\ "complete" \in StagesOf(scope, FastMode)
<1>1. {"erp_classification", "complete", "parquet", "analytics"} \subseteq Stages
  BY DEF Stages, Rank
<1>2. "complete" \notin FastSkip
  BY DEF FastSkip
<1>3. CASE scope = "ingest"
  BY <1>1, <1>2, <1>3 DEF StagesOf
<1>4. CASE scope = "refresh_rules"
  BY <1>1, <1>4 DEF StagesOf
<1>5. CASE scope = "re_analyze"
  BY <1>1, <1>5 DEF StagesOf
<1>6. CASE scope = "full_rebuild"
  BY <1>1, <1>6 DEF StagesOf
<1>7. CASE scope = "parquet_only"
  BY <1>1, <1>7 DEF StagesOf
<1> QED
  BY <1>3, <1>4, <1>5, <1>6, <1>7 DEF AllScopes

(* What the end of a handler leaves in the slots.                            *)
LEMMA SettleType ==
    ASSUME TypeOK, NEW t \in Slots, NEW next \in Task, Settle(t, next)
    PROVE  /\ tasks' \in [Slots -> Task]
           /\ faults' \in 0..MaxFaults
<1>1. Redelivered(tasks[t]) \in Task
  BY RedeliveredType DEF TypeOK
<1>2. CASE UNCHANGED faults
  BY <1>2 DEF Settle, TypeOK
<1>3. CASE CanFault(Death(t)) /\ tasks' = [tasks EXCEPT ![t] = Redelivered(@)]
           /\ faults' = faults + 1
  <2>1. faults < MaxFaults
    BY <1>3 DEF CanFault
  <2> QED
    BY <1>1, <1>3, <2>1, ConstantsOK DEF TypeOK
<1> QED
  BY <1>1, <1>2, <1>3, FreeTaskType, ConstantsOK DEF Settle, TypeOK, CanFault, Free

LEMMA AdvanceType ==
    ASSUME TypeOK, NEW t \in Slots, tasks[t].kind = "stage", NEW bad \in BOOLEAN, Advance(t, bad)
    PROVE  /\ tasks' \in [Slots -> Task]
           /\ faults' \in 0..MaxFaults
<1>1. tasks[t] \in Task
  BY DEF TypeOK
<1>2. /\ tasks[t].file \in Files
      /\ tasks[t].todo \in SUBSET Stages
      /\ tasks[t].todo # {} => "complete" \in tasks[t].todo
  BY <1>1, TaskFields DEF EndsWithComplete
<1>3. PICK next \in NextTasks(tasks[t].file, tasks[t].todo, bad) : Settle(t, next)
  BY DEF Advance
<1> QED
  BY <1>2, <1>3, NextTasksType, SettleType

LEMMA ReserveType ==
    ASSUME NEW T \in [Slots -> Task], NEW F \in SUBSET Files, NEW p, NEW scope \in AllScopes,
           NEW n \in 0..MaxRequests, NEW re \in BOOLEAN
    PROVE  Reserve(T, F, p, scope, n, re) \in [Slots -> Task]
<1> SUFFICES ASSUME NEW t \in Slots, NEW f \in F, p[f] = t
             PROVE  DispatchOf(CHOOSE g \in F : p[g] = t, scope, n, re) \in Task
  BY DEF Reserve
<1>1. (CHOOSE g \in F : p[g] = t) \in Files
  OBVIOUS
<1> QED
  BY <1>1, DispatchType

LEMMA OrphanType ==
    ASSUME NEW T \in [Slots -> Task], NEW F
    PROVE  Orphan(T, F) \in [Slots -> Task]
BY PhaseType DEF Orphan

(* Every state has its type.                                                 *)
LEMMA InitType == Init => TypeOK
BY FreeTaskType, ConstantsOK DEF Init, TypeOK, Statuses, MetaFacts

LEMMA ApiType ==
    ASSUME TypeOK, Api
    PROVE  TypeOK'
<1> USE ConstantsOK
<1>1. ASSUME NEW F \in SUBSET Files, NEW scope \in Scopes, NEW force \in BOOLEAN,
             Request(F, scope, force)
      PROVE  TypeOK'
  <2>1. requests' \in 0..MaxRequests
    BY <1>1 DEF Request, NewCall, TypeOK
  <2>2. PICK p \in Placements(F) : tasks' = Reserve(tasks, F, p, scope, requests', FALSE)
    BY <1>1 DEF Request
  <2>3. tasks' \in [Slots -> Task]
    BY <2>1, <2>2, ReserveType DEF TypeOK
  <2>4. prepped' \in [Files -> BOOLEAN]
    BY <1>1 DEF Request, TypeOK, ForcesPreprocess
  <2> QED
    BY <1>1, <2>1, <2>3, <2>4 DEF Request, TypeOK
<1>2. ASSUME NEW inFlight \in SUBSET Running, NEW force \in BOOLEAN,
             ReingestAll(inFlight, force)
      PROVE  TypeOK'
  <2> DEFINE F == {f \in Files : Exists(f)} \ inFlight
  <2>1. requests' \in 0..MaxRequests
    BY <1>2 DEF ReingestAll, NewCall, TypeOK
  <2>2. PICK p \in Placements(F) :
            tasks' = Reserve(Orphan(tasks, F), F, p, "ingest", requests', TRUE)
    BY <1>2 DEF ReingestAll
  <2>3. tasks' \in [Slots -> Task]
    <3>1. Orphan(tasks, F) \in [Slots -> Task]
      BY OrphanType DEF TypeOK
    <3>2. "ingest" \in AllScopes
      BY DEF AllScopes
    <3> QED
      BY <2>1, <2>2, <3>1, <3>2, ReserveType
  <2>4. /\ status' \in [Files -> Statuses]
        /\ prepped' \in [Files -> BOOLEAN]
        /\ meta' \in [Files -> SUBSET MetaFacts]
        /\ pqPath' \in [Files -> BOOLEAN]
    BY <1>2 DEF ReingestAll, TypeOK, Statuses
  <2> QED
    BY <1>2, <2>1, <2>3, <2>4 DEF ReingestAll, TypeOK
<1>3. ASSUME NEW f \in Files, DeleteFile(f)
      PROVE  TypeOK'
  <2>1. requests' \in 0..MaxRequests
    BY <1>3 DEF DeleteFile, NewCall, TypeOK
  <2>2. blob' \in [Files -> BOOLEAN]
    <3>1. PICK kept \in BOOLEAN : blob' = [blob EXCEPT ![f] = @ /\ kept]
      BY <1>3 DEF DeleteFile
    <3>2. (blob[f] /\ kept) \in BOOLEAN
      BY <3>1
    <3> QED
      BY <3>1, <3>2 DEF TypeOK
  <2>3. /\ status' \in [Files -> Statuses]
        /\ prepped' \in [Files -> BOOLEAN]
        /\ meta' \in [Files -> SUBSET MetaFacts]
        /\ pqPath' \in [Files -> BOOLEAN]
    BY <1>3 DEF DeleteFile, DropRows, TypeOK, Statuses
  <2> QED
    BY <1>3, <2>1, <2>2, <2>3 DEF DeleteFile, TypeOK
<1>4. CASE SyncContainer
  <2> DEFINE lost == {f \in Files : Exists(f) /\ ~blob[f]}
             fresh == {f \in Files : status[f] = "not_ingested" /\ blob[f]}
  <2>1. requests' \in 0..MaxRequests
    BY <1>4 DEF SyncContainer, NewCall, TypeOK
  <2>2. PICK p \in Placements(fresh) :
            tasks' = Reserve(tasks, fresh, p, "ingest", requests', FALSE)
    BY <1>4 DEF SyncContainer
  <2>3. tasks' \in [Slots -> Task]
    <3>1. "ingest" \in AllScopes
      BY DEF AllScopes
    <3> QED
      BY <2>1, <2>2, <3>1, ReserveType DEF TypeOK
  <2>4. /\ status' \in [Files -> Statuses]
        /\ prepped' \in [Files -> BOOLEAN]
        /\ meta' \in [Files -> SUBSET MetaFacts]
        /\ pqPath' \in [Files -> BOOLEAN]
    BY <1>4 DEF SyncContainer, DropRows, TypeOK, Statuses
  <2> QED
    BY <1>4, <2>1, <2>3, <2>4 DEF SyncContainer, TypeOK
<1> QED
  BY <1>1, <1>2, <1>3, <1>4 DEF Api

LEMMA FailureType ==
    ASSUME TypeOK, Failure
    PROVE  TypeOK'
<1> USE ConstantsOK
<1>1. ASSUME NEW n \in 0..MaxRequests, DispatchFails(n)
      PROVE  TypeOK'
  <2>1. tasks' \in [Slots -> Task]
    BY <1>1, FreeTaskType DEF DispatchFails, TypeOK
  <2>2. /\ status' \in [Files -> Statuses]
        /\ meta' \in [Files -> SUBSET MetaFacts]
    BY <1>1 DEF DispatchFails, TypeOK, Statuses, MetaFacts, WithError
  <2> QED
    BY <1>1, <2>1, <2>2 DEF DispatchFails, CanFault, TypeOK
<1>2. ASSUME NEW n \in 0..MaxRequests, ApiLost(n)
      PROVE  TypeOK'
  <2>1. tasks' \in [Slots -> Task]
    BY <1>2, FreeTaskType DEF ApiLost, TypeOK
  <2> QED
    BY <1>2, <2>1 DEF ApiLost, CanFault, TypeOK, fileVars
<1>3. ASSUME NEW t \in Slots, WorkerLost(t)
      PROVE  TypeOK'
  <2>1. tasks' \in [Slots -> Task]
    BY <1>3, RedeliveredType DEF WorkerLost, TypeOK
  <2> QED
    BY <1>3, <2>1 DEF WorkerLost, CanFault, TypeOK, fileVars
<1>4. ASSUME NEW t \in Slots, HardTimeLimit(t)
      PROVE  TypeOK'
  <2>1. tasks' \in [Slots -> Task]
    BY <1>4, FreeTaskType DEF HardTimeLimit, TypeOK
  <2> QED
    BY <1>4, <2>1 DEF HardTimeLimit, CanFault, TypeOK, fileVars
<1>5. ASSUME NEW f \in Files, BlobLost(f)
      PROVE  TypeOK'
  BY <1>5 DEF BlobLost, CanFault, TypeOK
<1> QED
  BY <1>1, <1>2, <1>3, <1>4, <1>5 DEF Failure

LEMMA MarkFailedType ==
    ASSUME TypeOK, NEW f, MarkFailed(f)
    PROVE  status' \in [Files -> Statuses] /\ meta' \in [Files -> SUBSET MetaFacts]
BY DEF MarkFailed, WithError, TypeOK, Statuses, MetaFacts

LEMMA FailsType ==
    ASSUME TypeOK, NEW t \in Slots, tasks[t].kind = "stage", Fails(t)
    PROVE  /\ tasks' \in [Slots -> Task]
           /\ faults' \in 0..MaxFaults
           /\ status' \in [Files -> Statuses]
           /\ meta' \in [Files -> SUBSET MetaFacts]
<1> DEFINE k == tasks[t]
<1>0. k \in Task
  BY DEF TypeOK
<1>1. CASE Advance(t, FALSE) /\ UNCHANGED <<status, meta>>
  BY <1>1, AdvanceType DEF TypeOK
<1>2. CASE ~Exhausted(k) /\ Settle(t, Retried(k)) /\ UNCHANGED <<status, meta>>
  BY <1>0, <1>2, RetriedType, SettleType DEF TypeOK
<1>3. CASE MarkFailed(k.file) /\ Advance(t, TRUE)
  BY <1>3, AdvanceType, MarkFailedType
<1> QED
  BY <1>1, <1>2, <1>3 DEF Fails

LEMMA StarterStepType ==
    ASSUME TypeOK, NEW t \in Slots,
           StarterReads(t) \/ StarterClaims(t) \/ StarterPublishes(t) \/ StarterRaises(t)
    PROVE  TypeOK'
<1> DEFINE k == tasks[t]
<1>0. k \in Task
  BY DEF TypeOK
<1>1. CASE StarterReads(t)
  <2>1. [k EXCEPT !.phase = "claimable"] \in Task
    BY <1>0, PhaseType
  <2> QED
    BY <1>1, <2>1, FreeTaskType DEF StarterReads, TypeOK, fileVars
<1>2. CASE StarterClaims(t)
  <2>1. [k EXCEPT !.phase = "claimed"] \in Task
    BY <1>0, PhaseType
  <2>2. tasks' = [tasks EXCEPT ![t] = [k EXCEPT !.phase = "claimed"]]
    BY <1>2 DEF StarterClaims
  <2> QED
    BY <1>2, <2>1, <2>2 DEF StarterClaims, TypeOK, Statuses
<1>3. CASE StarterPublishes(t)
  <2>1. k.file \in Files /\ k.scope \in AllScopes
    BY <1>0, <1>3, TaskFields DEF StarterPublishes
  <2>2. PICK next \in NextTasks(k.file, StagesOf(k.scope, FastMode), FALSE) : Settle(t, next)
    BY <1>3 DEF StarterPublishes
  <2>3. next \in Task
    BY <2>1, <2>2, StagesOfScope, NextTasksType
  <2> QED
    BY <1>3, <2>2, <2>3, SettleType DEF StarterPublishes, TypeOK, fileVars
<1>4. CASE StarterRaises(t)
  <2>1. CASE Exhausted(k)
    <3>1. MarkFailed(k.file) /\ Settle(t, FreeTask)
      BY <1>4, <2>1 DEF StarterRaises
    <3> QED
      BY <1>4, <3>1, MarkFailedType, SettleType, FreeTaskType DEF StarterRaises, TypeOK
  <2>2. CASE ~Exhausted(k)
    <3>1. Settle(t, Retried(k)) /\ UNCHANGED <<status, meta>>
      BY <1>4, <2>2 DEF StarterRaises
    <3> QED
      BY <1>0, <1>4, <2>2, <3>1, RetriedType, SettleType DEF StarterRaises, TypeOK
  <2> QED
    BY <2>1, <2>2
<1> QED
  BY <1>1, <1>2, <1>3, <1>4

LEMMA StageStepType ==
    ASSUME TypeOK, NEW t \in Slots,
           \/ PassThrough(t) \/ StageLoads(t) \/ StageSkips(t) \/ StageUploads(t)
           \/ CleanCommits(t) \/ MetadataCommits(t) \/ DescriptionCommits(t)
           \/ DescribedIngested(t) \/ ParquetCommits(t) \/ CompleteCommits(t)
           \/ EnrichmentCommits(t) \/ StageRaises(t) \/ SourceMissing(t)
    PROVE  TypeOK'
<1> DEFINE k == tasks[t]
           f == tasks[t].file
<1>0. k \in Task
  BY DEF TypeOK
<1>k. k.kind = "stage" => f \in Files
  BY <1>0, TaskFields
<1> USE DEF InPhase
<1>1. CASE PassThrough(t)
  BY <1>1, AdvanceType DEF PassThrough, TypeOK, fileVars
<1>2. CASE StageLoads(t)
  <2>1. pqPath' \in [Files -> BOOLEAN]
    BY <1>2 DEF StageLoads, TypeOK
  <2>2. tasks' \in [Slots -> Task]
    <3>1. PICK seen \in SUBSET {"ingested", "error"}, input \in Nat :
              tasks' = [tasks EXCEPT ![t].phase = "loaded", ![t].seen = seen, ![t].input = input]
      BY <1>2, <1>k DEF StageLoads, TypeOK
    <3>2. [k EXCEPT !.phase = "loaded", !.seen = seen, !.input = input] \in Task
      BY <1>0 DEF Task, TaskRecord
    <3>3. tasks' = [tasks EXCEPT ![t] = [k EXCEPT !.phase = "loaded", !.seen = seen, !.input = input]]
      BY <3>1
    <3> QED
      BY <3>2, <3>3 DEF TypeOK
  <2> QED
    BY <1>2, <2>1, <2>2 DEF StageLoads, TypeOK
<1>3. CASE StageSkips(t)
  BY <1>3, AdvanceType DEF StageSkips, TypeOK, fileVars
<1>4. CASE StageUploads(t)
  <2>1. [k EXCEPT !.phase = "uploaded"] \in Task
    BY <1>0, PhaseType
  <2>2. tasks' = [tasks EXCEPT ![t] = [k EXCEPT !.phase = "uploaded"]]
    BY <1>4 DEF StageUploads
  <2>3. k.input \in Nat
    BY <1>0 DEF Task, TaskRecord
  <2>4. version' \in [Files -> Nat] /\ pqContent' \in [Files -> Nat]
    BY <1>4, <1>k, <2>3 DEF StageUploads, TypeOK
  <2> QED
    BY <1>4, <2>1, <2>2, <2>4 DEF StageUploads, TypeOK
<1>5. CASE CleanCommits(t)
  BY <1>5, AdvanceType DEF CleanCommits, TypeOK
<1>6. CASE MetadataCommits(t)
  <2>1. meta' \in [Files -> SUBSET MetaFacts]
    BY <1>6, <1>k DEF MetadataCommits, TypeOK, MetaFacts
  <2> QED
    BY <1>6, <2>1, AdvanceType DEF MetadataCommits, TypeOK
<1>7. CASE DescriptionCommits(t)
  <2>1. [k EXCEPT !.phase = "described"] \in Task
    BY <1>0, <1>7, DescribedType DEF DescriptionCommits
  <2>2. tasks' = [tasks EXCEPT ![t] = [k EXCEPT !.phase = "described"]]
    BY <1>7 DEF DescriptionCommits
  <2>3. meta' \in [Files -> SUBSET MetaFacts]
    BY <1>7, <1>k DEF DescriptionCommits, TypeOK, MetaFacts
  <2> QED
    BY <1>7, <2>1, <2>2, <2>3 DEF DescriptionCommits, TypeOK
<1>8. CASE DescribedIngested(t)
  <2>1. status' \in [Files -> Statuses] /\ meta' \in [Files -> SUBSET MetaFacts]
    BY <1>8, <1>k DEF DescribedIngested, TypeOK, Statuses
  <2> QED
    BY <1>8, <2>1, AdvanceType DEF DescribedIngested, TypeOK
<1>9. CASE ParquetCommits(t)
  <2>1. pqPath' \in [Files -> BOOLEAN]
    BY <1>9, <1>k DEF ParquetCommits, TypeOK, Exists
  <2> QED
    BY <1>9, <2>1, AdvanceType DEF ParquetCommits, TypeOK
<1>10. CASE CompleteCommits(t)
  <2>1. status' \in [Files -> Statuses]
    BY <1>10 DEF CompleteCommits, TypeOK, Statuses
  <2> QED
    BY <1>10, <2>1, AdvanceType DEF CompleteCommits, TypeOK
<1>11. CASE EnrichmentCommits(t)
  BY <1>11, AdvanceType DEF EnrichmentCommits, TypeOK, fileVars
<1>12. CASE StageRaises(t)
  BY <1>12, FailsType DEF StageRaises, TypeOK
<1>13. CASE SourceMissing(t)
  <2>1. CASE Exhausted(k)
    BY <1>13, <2>1, MarkFailedType, AdvanceType DEF SourceMissing, TypeOK
  <2>2. CASE ~Exhausted(k)
    <3>1. Settle(t, Retried(k)) /\ status' = [status EXCEPT ![f] = "not_ingested"]
      BY <1>13, <2>2 DEF SourceMissing
    <3> QED
      BY <1>0, <1>13, <2>2, <3>1, RetriedType, SettleType DEF SourceMissing, TypeOK, Statuses
  <2> QED
    BY <2>1, <2>2
<1> QED
  BY <1>1, <1>2, <1>3, <1>4, <1>5, <1>6, <1>7, <1>8, <1>9, <1>10, <1>11, <1>12, <1>13

LEMMA DispatchStepType ==
    ASSUME TypeOK, NEW t \in Slots, Dispatch(t)
    PROVE  TypeOK'
<1>1. tasks[t] \in Task
  BY DEF TypeOK
<1>2. StarterOf(tasks[t].file, tasks[t].scope) \in Task
  BY <1>1, TaskFields, StarterType DEF Dispatch
<1> QED
  BY <1>2 DEF Dispatch, TypeOK, fileVars

LEMMA NextType ==
    ASSUME TypeOK, [Next]_vars
    PROVE  TypeOK'
<1>1. CASE Api
  BY <1>1, ApiType
<1>2. CASE Failure
  BY <1>2, FailureType
<1>3. ASSUME NEW t \in Slots, Dispatch(t)
      PROVE  TypeOK'
  BY <1>3, DispatchStepType
<1>4. ASSUME NEW t \in Slots, Worker(t)
      PROVE  TypeOK'
  BY <1>4, StarterStepType, StageStepType DEF Worker
<1>5. CASE UNCHANGED vars
  BY <1>5 DEF vars, TypeOK
<1> QED
  BY <1>1, <1>2, <1>3, <1>4, <1>5 DEF Next

(* Type correctness, with what relates the fields of a task: a chain is       *)
(* never published without the stage that ends it.                           *)
THEOREM TypeCorrect == Spec => []TypeOK
<1>1. Init => TypeOK
  BY InitType
<1>2. TypeOK /\ [Next]_vars => TypeOK'
  BY NextType
<1> QED
  BY <1>1, <1>2, PTL DEF Spec
-----------------------------------------------------------------------------
(* No file is left behind.  The faults that do lose a task for good are left  *)
(* out: a worker that dies between claim and publication, the hard time      *)
(* limit, a publication that fails in a worker, an API process that dies.    *)
NoTaskLost ==
    Faults \cap {"worker_lost_claimed", "hard_time_limit", "broker_down_worker", "api_lost"} = {}

Claimed(f) == \E s \in Slots : Claims(s, f)
Awaited(f) == \E s \in Slots : WillClaim(s, f)

(* What a step of slot t may do to the others: what they hold stays.         *)
OthersLiveOn(t) ==
    \A s \in Slots \ {t}, f \in Files :
        /\ Claims(s, f) => Claims(s, f)'
        /\ WillClaim(s, f) => WillClaim(s, f)'

(* A step that makes no file busy.                                           *)
NotBusier ==
    \A f \in Files : status'[f] \in {"running", "pending"} => status'[f] = status[f]

LEMMA StageOfFields ==
    ASSUME NEW f, NEW g, NEW rest, NEW bad
    PROVE  LET k == StageOf(f, g, rest, bad)
           IN  k.kind = "stage" /\ k.file = f /\ k.failed = bad
BY FreeTaskFields DEF StageOf, TaskRecord

LEMMA NextTasksFields ==
    ASSUME NEW f, NEW todo, todo # {}, NEW bad, NEW next \in NextTasks(f, todo, bad)
    PROVE  next.kind = "stage" /\ next.file = f /\ next.failed = bad
<1>1. PICK g \in todo : next = StageOf(f, g, todo \ {g}, bad)
  BY DEF NextTasks
<1> QED
  BY <1>1, StageOfFields

LEMMA RedeliveredFields ==
    ASSUME NEW k \in Task
    PROVE  LET r == Redelivered(k)
           IN  /\ r.kind = k.kind /\ r.file = k.file /\ r.failed = k.failed
               /\ r.reingest = k.reingest /\ r.phase = "queued"
BY DEF Redelivered, Task, TaskRecord

LEMMA RetriedFields ==
    ASSUME NEW k \in Task
    PROVE  LET r == Retried(k)
           IN  /\ r.kind = k.kind /\ r.file = k.file /\ r.failed = k.failed
               /\ r.phase = "queued"
<1>1. Redelivered(k) \in Task
  BY RedeliveredType
<1> QED
  BY <1>1, RedeliveredFields DEF Retried, Task, TaskRecord

(* The step leaves slot t what it holds.                                     *)
LivesOn(t) ==
    \A f \in Files :
        /\ Claims(t, f) => Claims(t, f)'
        /\ WillClaim(t, f) => WillClaim(t, f)'

(* A task whose worker dies holds on to its file, unless it is a starter that *)
(* has claimed it.                                                           *)
LEMMA DeathKeeps ==
    ASSUME NoTaskLost, TypeOK, NEW t \in Slots, CanFault(Death(t)),
           tasks' = [tasks EXCEPT ![t] = Redelivered(@)]
    PROVE  OthersLiveOn(t) /\ LivesOn(t)
<1> DEFINE r == Redelivered(tasks[t])
<1>1. tasks[t] \in Task /\ tasks[t].phase # "claimed"
  BY DEF Death, CanFault, NoTaskLost, TypeOK
<1>2. /\ r.kind = tasks[t].kind /\ r.file = tasks[t].file /\ r.failed = tasks[t].failed
      /\ r.reingest = tasks[t].reingest /\ r.phase = "queued"
  BY <1>1, RedeliveredFields
<1>3. tasks' = [tasks EXCEPT ![t] = r]
  OBVIOUS
<1> HIDE DEF r
<1> QED
  BY <1>1, <1>2, <1>3 DEF OthersLiveOn, LivesOn, Claims, WillClaim, TypeOK

(* The end of a handler only disturbs its own slot, and what it publishes is  *)
(* in some slot afterwards, unless it dies before it does.                   *)
LEMMA SettleKeeps ==
    ASSUME NoTaskLost, TypeOK, NEW t \in Slots, NEW next \in Task, Settle(t, next)
    PROVE  /\ OthersLiveOn(t)
           /\ \/ \E s \in Slots : tasks'[s] = next
              \/ next = FreeTask
              \/ LivesOn(t)
<1>1. CASE tasks' = [tasks EXCEPT ![t] = next]
  BY <1>1 DEF OthersLiveOn, Claims, WillClaim, TypeOK
<1>2. CASE next = FreeTask /\ tasks' = [tasks EXCEPT ![t] = Redelivered(@)]
  BY <1>2 DEF OthersLiveOn, Claims, WillClaim, TypeOK
<1>3. ASSUME NEW s \in Free, tasks' = [tasks EXCEPT ![t] = Redelivered(@), ![s] = next]
      PROVE  OthersLiveOn(t) /\ tasks'[s] = next
  BY <1>3 DEF OthersLiveOn, Claims, WillClaim, TypeOK, Free
<1>4. ~CanFault("broker_down_worker")
  BY DEF NoTaskLost, CanFault
<1>5. \A s \in Free : s \in Slots
  BY DEF Free
<1>6. CASE CanFault(Death(t)) /\ tasks' = [tasks EXCEPT ![t] = Redelivered(@)]
  BY <1>6, DeathKeeps
<1> QED
  BY <1>1, <1>2, <1>3, <1>4, <1>5, <1>6 DEF Settle, TypeOK

(* A chain that is not at its end goes on; a failed one as a failed one.     *)
LEMMA AdvanceKeeps ==
    ASSUME NoTaskLost, TypeOK, NEW t \in Slots, tasks[t].kind = "stage",
           NEW bad \in BOOLEAN, Advance(t, bad)
    PROVE  /\ OthersLiveOn(t)
           /\ \A f \in Files :
                  ~bad /\ tasks[t].stage # "complete" /\ Claims(t, f) => Claimed(f)'
<1> DEFINE k == tasks[t]
<1>1. k \in Task
  BY DEF TypeOK
<1>2. /\ k.file \in Files
      /\ k.todo \in SUBSET Stages
      /\ k.todo # {} => "complete" \in k.todo
      /\ k.stage # "complete" => k.todo # {}
  BY <1>1, TaskFields DEF EndsWithComplete
<1>3. PICK next \in NextTasks(k.file, k.todo, bad) : Settle(t, next)
  BY DEF Advance
<1>4. next \in Task
  BY <1>2, <1>3, NextTasksType
<1>5. ASSUME NEW f \in Files, ~bad, k.stage # "complete", Claims(t, f)
      PROVE  Claimed(f)'
  <2>0. k.file = f
    BY <1>5 DEF Claims
  <2>1. next.kind = "stage" /\ next.file = f /\ next.failed = bad
    BY <1>2, <1>5, <2>0, NextTasksFields
  <2>2. next # FreeTask
    BY <2>1, FreeTaskFields
  <2>3. CASE LivesOn(t)
    BY <1>5, <2>3 DEF LivesOn, Claimed
  <2>4. ASSUME NEW s \in Slots, tasks'[s] = next
        PROVE  Claimed(f)'
    <3>1. Claims(s, f)'
      BY <1>5, <2>0, <2>1, <2>4 DEF Claims
    <3> QED
      BY <3>1 DEF Claimed
  <2> QED
    BY <1>3, <1>4, <2>2, <2>3, <2>4, SettleKeeps
<1> QED
  BY <1>3, <1>4, <1>5, SettleKeeps

(* What is left to show of a step that leaves the other slots alone.         *)
LEMMA Carried ==
    ASSUME NothingForgotten, NEW t \in Slots, OthersLiveOn(t), NotBusier,
           \A f \in Files : status'[f] = "running" /\ Claims(t, f) => Claimed(f)',
           \A f \in Files : status'[f] = "pending" /\ WillClaim(t, f) => Awaited(f)'
    PROVE  NothingForgotten'
<1> SUFFICES ASSUME NEW f \in Files
             PROVE  /\ status'[f] = "running" => Claimed(f)'
                    /\ status'[f] = "pending" => Awaited(f)'
  BY DEF NothingForgotten, Claimed, Awaited
<1>1. ASSUME status'[f] = "running"
      PROVE  Claimed(f)'
  <2>1. PICK s \in Slots : Claims(s, f)
    BY <1>1 DEF NothingForgotten, NotBusier
  <2>2. CASE s = t
    BY <1>1, <2>1, <2>2
  <2>3. CASE s # t
    <3>1. Claims(s, f)'
      BY <2>1, <2>3 DEF OthersLiveOn
    <3> QED
      BY <3>1 DEF Claimed
  <2> QED
    BY <2>2, <2>3
<1>2. ASSUME status'[f] = "pending"
      PROVE  Awaited(f)'
  <2>1. PICK s \in Slots : WillClaim(s, f)
    BY <1>2 DEF NothingForgotten, NotBusier
  <2>2. CASE s = t
    BY <1>2, <2>1, <2>2
  <2>3. CASE s # t
    <3>1. WillClaim(s, f)'
      BY <2>1, <2>3 DEF OthersLiveOn
    <3> QED
      BY <3>1 DEF Awaited
  <2> QED
    BY <2>2, <2>3
<1> QED
  BY <1>1, <1>2

(* A stage that is not the last ends well.                                   *)
LEMMA StageEnds ==
    ASSUME NoTaskLost, TypeOK, NothingForgotten, NEW t \in Slots, tasks[t].kind = "stage",
           tasks[t].stage # "complete", Advance(t, FALSE), NotBusier
    PROVE  NothingForgotten'
<1>1. OthersLiveOn(t)
  BY AdvanceKeeps
<1>2. \A f \in Files : Claims(t, f) => Claimed(f)'
  BY AdvanceKeeps
<1>3. \A f \in Files : ~WillClaim(t, f)
  BY DEF WillClaim
<1> QED
  BY <1>1, <1>2, <1>3, Carried

(* A stage goes on, is retried or is delivered again: its task is replaced by *)
(* one of the same chain.                                                    *)
LEMMA StageReplaced ==
    ASSUME NoTaskLost, TypeOK, NothingForgotten, NEW t \in Slots, NEW next \in Task,
           tasks[t].kind = "stage", next.kind = "stage", next.file = tasks[t].file,
           next.failed = tasks[t].failed, NotBusier,
           tasks' = [tasks EXCEPT ![t] = next] \/ Settle(t, next)
    PROVE  NothingForgotten'
<1>1. OthersLiveOn(t) /\ (LivesOn(t) \/ \E s \in Slots : tasks'[s] = next)
  <2>1. CASE tasks' = [tasks EXCEPT ![t] = next]
    BY <2>1 DEF OthersLiveOn, Claims, WillClaim, TypeOK
  <2>2. CASE Settle(t, next)
    BY <2>2, SettleKeeps, FreeTaskFields
  <2> QED
    BY <2>1, <2>2
<1>2. ASSUME NEW f \in Files, Claims(t, f)
      PROVE  Claimed(f)'
  <2>1. CASE LivesOn(t)
    BY <1>2, <2>1 DEF LivesOn, Claimed
  <2>2. ASSUME NEW s \in Slots, tasks'[s] = next
        PROVE  Claimed(f)'
    <3>1. Claims(s, f)'
      BY <1>2, <2>2 DEF Claims
    <3> QED
      BY <3>1 DEF Claimed
  <2> QED
    BY <1>1, <2>1, <2>2
<1>3. \A f \in Files : ~WillClaim(t, f)
  BY DEF WillClaim
<1> QED
  BY <1>1, <1>2, <1>3, Carried

(* mark_ingestion_failed leaves the file in a state in which nobody waits for *)
(* it.                                                                       *)
LEMMA MarkFailedKeeps ==
    ASSUME TypeOK, NEW f, MarkFailed(f)
    PROVE  /\ NotBusier
           /\ f \in Files => status'[f] \notin {"running", "pending"}
BY DEF MarkFailed, NotBusier, Exists, TypeOK

LEMMA StageGivesUp ==
    ASSUME NoTaskLost, TypeOK, NothingForgotten, NEW t \in Slots, tasks[t].kind = "stage",
           MarkFailed(tasks[t].file), Advance(t, TRUE)
    PROVE  NothingForgotten'
<1>1. OthersLiveOn(t)
  BY AdvanceKeeps
<1>2. \A f \in Files : Claims(t, f) => status'[f] # "running"
  BY MarkFailedKeeps DEF Claims
<1>3. \A f \in Files : ~WillClaim(t, f)
  BY DEF WillClaim
<1> QED
  BY <1>1, <1>2, <1>3, MarkFailedKeeps, Carried

LEMMA StageStepKeeps ==
    ASSUME NoTaskLost, TypeOK, NothingForgotten, NEW t \in Slots,
           \/ PassThrough(t) \/ StageLoads(t) \/ StageSkips(t) \/ StageUploads(t)
           \/ CleanCommits(t) \/ MetadataCommits(t) \/ DescriptionCommits(t)
           \/ DescribedIngested(t) \/ ParquetCommits(t) \/ CompleteCommits(t)
           \/ EnrichmentCommits(t) \/ StageRaises(t) \/ SourceMissing(t)
    PROVE  NothingForgotten'
<1> DEFINE k == tasks[t]
<1>0. k \in Task
  BY DEF TypeOK
<1>k. k.kind = "stage" /\ k.file \in Files
  <2>1. k.kind = "stage"
    BY DEF InPhase, PassThrough, StageLoads, StageSkips, StageUploads, CleanCommits,
           MetadataCommits, DescriptionCommits, DescribedIngested, ParquetCommits,
           CompleteCommits, EnrichmentCommits, StageRaises, SourceMissing
  <2> QED
    BY <1>0, <2>1, TaskFields
<1>u. UNCHANGED status => NotBusier
  BY DEF NotBusier
<1>1. CASE PassThrough(t)
  <2>1. NotBusier /\ OthersLiveOn(t)
    BY <1>1, <1>k, <1>u, AdvanceKeeps DEF PassThrough, fileVars
  <2>2. \A f \in Files : ~Claims(t, f) /\ ~WillClaim(t, f)
    BY <1>1, <1>k DEF PassThrough, SkipsStage, Claims, WillClaim
  <2> QED
    BY <2>1, <2>2, Carried
<1>2. CASE StageLoads(t)
  <2>1. PICK seen \in SUBSET {"ingested", "error"}, input \in Nat :
            tasks' = [tasks EXCEPT ![t].phase = "loaded", ![t].seen = seen, ![t].input = input]
    BY <1>2, <1>k DEF StageLoads, TypeOK
  <2> DEFINE next == [k EXCEPT !.phase = "loaded", !.seen = seen, !.input = input]
  <2>2. /\ next \in Task
        /\ next.kind = k.kind /\ next.file = k.file /\ next.failed = k.failed
    BY <1>0, <1>k DEF Task, TaskRecord
  <2>3. tasks' = [tasks EXCEPT ![t] = next]
    BY <2>1
  <2>4. NotBusier
    BY <1>2, <1>u DEF StageLoads
  <2> HIDE DEF next
  <2> QED
    BY <1>k, <2>2, <2>3, <2>4, StageReplaced
<1>3. CASE StageSkips(t)
  BY <1>3, <1>k, <1>u, StageEnds DEF StageSkips, fileVars
<1>4. CASE StageUploads(t)
  <2> DEFINE next == [k EXCEPT !.phase = "uploaded"]
  <2>0. next \in Task
    BY <1>0, PhaseType
  <2>1. next.kind = k.kind /\ next.file = k.file /\ next.failed = k.failed
    BY <1>0 DEF Task, TaskRecord
  <2>2. tasks' = [tasks EXCEPT ![t] = next] /\ UNCHANGED status
    BY <1>4 DEF StageUploads
  <2> HIDE DEF next
  <2> QED
    BY <1>k, <1>u, <2>0, <2>1, <2>2, StageReplaced
<1>5. CASE CleanCommits(t)
  BY <1>5, <1>k, <1>u, StageEnds DEF CleanCommits
<1>6. CASE MetadataCommits(t)
  BY <1>6, <1>k, <1>u, StageEnds DEF MetadataCommits
<1>7. CASE DescriptionCommits(t)
  <2> DEFINE next == [k EXCEPT !.phase = "described"]
  <2>1. /\ next \in Task
        /\ next.kind = k.kind /\ next.file = k.file /\ next.failed = k.failed
    BY <1>0, <1>k, <1>7, DescribedType DEF DescriptionCommits, Task, TaskRecord
  <2>2. tasks' = [tasks EXCEPT ![t] = next] /\ NotBusier
    BY <1>7, <1>u DEF DescriptionCommits
  <2> HIDE DEF next
  <2> QED
    BY <1>k, <2>1, <2>2, StageReplaced
<1>8. CASE DescribedIngested(t)
  <2>1. k.stage = "ai_description"
    BY <1>0, <1>8, TaskFields DEF DescribedIngested, InPhase
  <2>2. NotBusier
    BY <1>8, <1>k DEF DescribedIngested, NotBusier, TypeOK
  <2> QED
    BY <1>8, <1>k, <2>1, <2>2, StageEnds DEF DescribedIngested
<1>9. CASE ParquetCommits(t)
  BY <1>9, <1>k, <1>u, StageEnds DEF ParquetCommits
<1>10. CASE CompleteCommits(t)
  <2>1. NotBusier /\ status'[k.file] \notin {"running", "pending"}
    BY <1>10, <1>k DEF CompleteCommits, NotBusier, Exists, TypeOK
  <2>2. OthersLiveOn(t)
    BY <1>10, <1>k, AdvanceKeeps DEF CompleteCommits
  <2>3. \A f \in Files : Claims(t, f) => status'[f] # "running"
    BY <2>1 DEF Claims
  <2>4. \A f \in Files : ~WillClaim(t, f)
    BY <1>k DEF WillClaim
  <2> QED
    BY <2>1, <2>2, <2>3, <2>4, Carried
<1>11. CASE EnrichmentCommits(t)
  BY <1>11, <1>k, <1>u, StageEnds DEF EnrichmentCommits, NonFatal, fileVars
<1>12. CASE StageRaises(t)
  <2>1. CASE k.stage \in NonFatal /\ Advance(t, FALSE) /\ UNCHANGED <<status, meta>>
    BY <2>1, <1>k, <1>u, StageEnds DEF NonFatal
  <2>2. CASE ~Exhausted(k) /\ Settle(t, Retried(k)) /\ UNCHANGED <<status, meta>>
    <3>1. Retried(k) \in Task /\ NotBusier
      BY <1>0, <1>u, <2>2, RetriedType
    <3> QED
      BY <1>0, <1>k, <2>2, <3>1, RetriedFields, StageReplaced
  <2>3. CASE MarkFailed(k.file) /\ Advance(t, TRUE)
    BY <2>3, <1>k, StageGivesUp
  <2> QED
    BY <1>12, <2>1, <2>2, <2>3 DEF StageRaises, Fails
<1>13. CASE SourceMissing(t)
  <2>1. CASE MarkFailed(k.file) /\ Advance(t, TRUE)
    BY <2>1, <1>k, StageGivesUp
  <2>2. CASE ~Exhausted(k) /\ Settle(t, Retried(k))
             /\ status' = [status EXCEPT ![k.file] = "not_ingested"]
    <3>1. Retried(k) \in Task /\ NotBusier
      BY <1>0, <2>2, RetriedType DEF NotBusier, TypeOK
    <3> QED
      BY <1>0, <1>k, <2>2, <3>1, RetriedFields, StageReplaced
  <2> QED
    BY <1>13, <2>1, <2>2 DEF SourceMissing
<1> QED
  BY <1>1, <1>2, <1>3, <1>4, <1>5, <1>6, <1>7, <1>8, <1>9, <1>10, <1>11, <1>12, <1>13

LEMMA StarterStepKeeps ==
    ASSUME NoTaskLost, TypeOK, NothingForgotten, NEW t \in Slots,
           StarterReads(t) \/ StarterClaims(t) \/ StarterPublishes(t) \/ StarterRaises(t)
    PROVE  NothingForgotten'
<1> DEFINE k == tasks[t]
<1>0. k \in Task
  BY DEF TypeOK
<1>k. k.kind = "starter" /\ k.file \in Files /\ k.scope \in AllScopes
  <2>1. k.kind = "starter"
    BY DEF StarterReads, StarterClaims, StarterPublishes, StarterRaises
  <2> QED
    BY <1>0, <2>1, TaskFields
<1>u. UNCHANGED status => NotBusier
  BY DEF NotBusier
<1>1. CASE StarterReads(t)
  <2>1. UNCHANGED status /\ NotBusier
    BY <1>1, <1>u DEF StarterReads, fileVars
  <2>2. OthersLiveOn(t)
    BY <1>1 DEF StarterReads, OthersLiveOn, Claims, WillClaim, TypeOK
  <2>3. \A f \in Files : ~Claims(t, f)
    BY <1>1 DEF StarterReads, Claims
  <2>4. ASSUME NEW f \in Files, status'[f] = "pending", WillClaim(t, f)
        PROVE  Awaited(f)'
    <3>1. k.file = f /\ status[f] \notin Refused
      BY <2>1, <2>4 DEF WillClaim, Refused
    <3>2. tasks' = [tasks EXCEPT ![t] = [k EXCEPT !.phase = "claimable"]]
      BY <1>1, <3>1 DEF StarterReads
    <3>3. WillClaim(t, f)'
      BY <1>0, <1>k, <3>1, <3>2 DEF WillClaim, TypeOK, Task, TaskRecord
    <3> QED
      BY <3>3 DEF Awaited
  <2> QED
    BY <2>1, <2>2, <2>3, <2>4, Carried
<1>2. CASE StarterClaims(t)
  <2>1. tasks' = [tasks EXCEPT ![t] = [k EXCEPT !.phase = "claimed"]]
    BY <1>2 DEF StarterClaims
  <2>2. OthersLiveOn(t)
    BY <2>1 DEF OthersLiveOn, Claims, WillClaim, TypeOK
  <2>3. ASSUME NEW f \in Files, k.file = f
        PROVE  Claimed(f)'
    <3>1. Claims(t, f)'
      BY <1>0, <1>k, <2>1, <2>3 DEF Claims, TypeOK, Task, TaskRecord
    <3> QED
      BY <3>1 DEF Claimed
  <2>4. /\ status'[k.file] = "running"
        /\ \A f \in Files : f # k.file => status'[f] = status[f]
    BY <1>2, <1>k DEF StarterClaims, TypeOK
  <2>5. ASSUME NEW f \in Files, f # k.file
        PROVE  /\ status'[f] = "running" => Claimed(f)'
               /\ status'[f] = "pending" => Awaited(f)'
    <3>1. ~Claims(t, f) /\ ~WillClaim(t, f)
      BY <2>5 DEF Claims, WillClaim
    <3> QED
      BY <2>2, <2>4, <2>5, <3>1 DEF NothingForgotten, OthersLiveOn, Claimed, Awaited
  <2> QED
    BY <2>3, <2>4, <2>5 DEF NothingForgotten, Claimed, Awaited
<1>3. CASE StarterPublishes(t)
  <2>0. PICK bad \in BOOLEAN : bad = FALSE
    OBVIOUS
  <2>1. PICK next \in NextTasks(k.file, StagesOf(k.scope, FastMode), bad) : Settle(t, next)
    BY <1>3, <2>0 DEF StarterPublishes
  <2>2. StagesOf(k.scope, FastMode) \in SUBSET Stages /\ StagesOf(k.scope, FastMode) # {}
    BY <1>k, StagesOfScope
  <2>3. next \in Task
    BY <1>k, <2>1, StagesOfScope, NextTasksType
  <2>4. next.kind = "stage" /\ next.file = k.file /\ ~next.failed
    BY <2>0, <2>1, <2>2, NextTasksFields
  <2>5. OthersLiveOn(t) /\ (LivesOn(t) \/ \E s \in Slots : tasks'[s] = next)
    BY <2>1, <2>3, <2>4, SettleKeeps, FreeTaskFields
  <2>6. ASSUME NEW f \in Files, Claims(t, f)
        PROVE  Claimed(f)'
    <3>1. CASE LivesOn(t)
      BY <2>6, <3>1 DEF LivesOn, Claimed
    <3>2. ASSUME NEW s \in Slots, tasks'[s] = next
          PROVE  Claimed(f)'
      <4>1. Claims(s, f)'
        BY <2>4, <2>6, <3>2 DEF Claims
      <4> QED
        BY <4>1 DEF Claimed
    <3> QED
      BY <2>5, <3>1, <3>2
  <2>7. \A f \in Files : ~WillClaim(t, f)
    BY <1>3 DEF StarterPublishes, WillClaim
  <2>8. NotBusier
    BY <1>3, <1>u DEF StarterPublishes, fileVars
  <2> QED
    BY <2>5, <2>6, <2>7, <2>8, Carried
<1>4. CASE StarterRaises(t)
  <2>0. \A f \in Files : ~Claims(t, f)
    BY <1>4 DEF StarterRaises, Claims
  <2>1. CASE MarkFailed(k.file) /\ Settle(t, FreeTask)
    <3>1. OthersLiveOn(t)
      BY <2>1, SettleKeeps, FreeTaskType
    <3>2. \A f \in Files : WillClaim(t, f) => status'[f] # "pending"
      BY <1>k, <2>1, MarkFailedKeeps DEF WillClaim
    <3> QED
      BY <2>0, <2>1, <3>1, <3>2, MarkFailedKeeps, Carried
  <2>2. CASE ~Exhausted(k) /\ Settle(t, Retried(k)) /\ UNCHANGED <<status, meta>>
    <3>1. /\ Retried(k) \in Task /\ Retried(k).kind = "starter"
          /\ Retried(k).file = k.file /\ Retried(k).phase = "queued"
      BY <1>0, <1>k, <2>2, RetriedType, RetriedFields
    <3>2. OthersLiveOn(t) /\ (LivesOn(t) \/ \E s \in Slots : tasks'[s] = Retried(k))
      BY <2>2, <3>1, SettleKeeps, FreeTaskFields
    <3>3. ASSUME NEW f \in Files, WillClaim(t, f)
          PROVE  Awaited(f)'
      <4>1. CASE LivesOn(t)
        BY <3>3, <4>1 DEF LivesOn, Awaited
      <4>2. ASSUME NEW s \in Slots, tasks'[s] = Retried(k)
            PROVE  Awaited(f)'
        <5>1. WillClaim(s, f)'
          BY <3>1, <3>3, <4>2 DEF WillClaim
        <5> QED
          BY <5>1 DEF Awaited
      <4> QED
        BY <3>2, <4>1, <4>2
    <3> QED
      BY <1>u, <2>0, <2>2, <3>2, <3>3, Carried
  <2> QED
    BY <1>4, <2>1, <2>2 DEF StarterRaises
<1> QED
  BY <1>1, <1>2, <1>3, <1>4

LEMMA DispatchKeeps ==
    ASSUME TypeOK, NothingForgotten, NEW t \in Slots, Dispatch(t)
    PROVE  NothingForgotten'
<1> DEFINE k == tasks[t]
<1>1. OthersLiveOn(t)
  BY DEF Dispatch, OthersLiveOn, Claims, WillClaim, TypeOK
<1>2. ASSUME NEW f \in Files, WillClaim(t, f)
      PROVE  Awaited(f)'
  <2>1. tasks'[t] = StarterOf(f, k.scope)
    BY <1>2 DEF Dispatch, WillClaim, TypeOK
  <2>2. WillClaim(t, f)'
    BY <2>1, FreeTaskFields DEF WillClaim, StarterOf, TaskRecord
  <2> QED
    BY <2>2 DEF Awaited
<1>3. \A f \in Files : ~Claims(t, f)
  BY DEF Dispatch, Claims
<1>4. NotBusier
  BY DEF Dispatch, fileVars, NotBusier
<1> QED
  BY <1>1, <1>2, <1>3, <1>4, Carried

(* An API call only writes to free slots; what it does to the tasks of the    *)
(* other slots (T) does not change what they hold.                           *)
LEMMA ReserveKeeps ==
    ASSUME TypeOK, NEW T \in [Slots -> Task],
           \A s \in Slots :
               /\ T[s].kind = tasks[s].kind /\ T[s].file = tasks[s].file
               /\ T[s].failed = tasks[s].failed /\ T[s].reingest = tasks[s].reingest
               /\ T[s].phase = "claimed" <=> tasks[s].phase = "claimed",
           NEW F \in SUBSET Files, NEW p \in Placements(F), NEW scope, NEW n, NEW re,
           tasks' = Reserve(T, F, p, scope, n, re),
           NEW s \in Slots, NEW f \in Files
    PROVE  /\ Claims(s, f) => Claims(s, f)'
           /\ WillClaim(s, f) => WillClaim(s, f)'
<1>1. CASE tasks[s].kind = "free"
  BY <1>1 DEF Claims, WillClaim
<1>2. CASE tasks[s].kind # "free"
  <2>1. \A g \in F : p[g] # s
    BY <1>2 DEF Placements, Free
  <2>2. tasks'[s] = T[s]
    BY <2>1 DEF Reserve
  <2> QED
    BY <2>2 DEF Claims, WillClaim
<1> QED
  BY <1>1, <1>2

LEMMA ReserveAwaits ==
    ASSUME NEW T, NEW F \in SUBSET Files, NEW p \in Placements(F), NEW scope, NEW n,
           tasks' = Reserve(T, F, p, scope, n, TRUE), NEW f \in F
    PROVE  Awaited(f)'
<1>1. p[f] \in Slots
  BY DEF Placements, Free
<1>2. (CHOOSE g \in F : p[g] = p[f]) = f
  BY DEF Placements
<1>3. tasks'[p[f]] = DispatchOf(f, scope, n, TRUE)
  BY <1>1, <1>2 DEF Reserve
<1>4. WillClaim(p[f], f)'
  BY <1>3, FreeTaskFields DEF WillClaim, DispatchOf, TaskRecord
<1> QED
  BY <1>1, <1>4 DEF Awaited

LEMMA OrphanFields ==
    ASSUME TypeOK, NEW F, NEW s \in Slots
    PROVE  LET T == Orphan(tasks, F)
           IN  /\ T[s].kind = tasks[s].kind /\ T[s].file = tasks[s].file
               /\ T[s].failed = tasks[s].failed /\ T[s].reingest = tasks[s].reingest
               /\ T[s].phase = "claimed" <=> tasks[s].phase = "claimed"
<1>1. tasks[s] \in Task
  BY DEF TypeOK
<1>2. CASE tasks[s].file \in F /\ HoldsRow(tasks[s])
  <2>1. tasks[s].phase # "claimed"
    BY <1>2 DEF HoldsRow
  <2>2. Orphan(tasks, F)[s] = [tasks[s] EXCEPT !.phase = "orphaned"]
    BY <1>2 DEF Orphan
  <2> QED
    BY <1>1, <2>1, <2>2 DEF Task, TaskRecord
<1>3. CASE ~(tasks[s].file \in F /\ HoldsRow(tasks[s]))
  BY <1>3 DEF Orphan
<1> QED
  BY <1>2, <1>3

LEMMA ApiKeeps ==
    ASSUME TypeOK, NothingForgotten, Api
    PROVE  NothingForgotten'
<1>1. ASSUME NotBusier, \A s \in Slots, f \in Files :
                            /\ Claims(s, f) => Claims(s, f)'
                            /\ WillClaim(s, f) => WillClaim(s, f)'
      PROVE  NothingForgotten'
  BY <1>1 DEF NothingForgotten, NotBusier
<1>2. ASSUME NEW F \in SUBSET Files, NEW scope \in Scopes, NEW force \in BOOLEAN,
             Request(F, scope, force)
      PROVE  NothingForgotten'
  <2>1. NotBusier
    BY <1>2 DEF Request, NotBusier
  <2>2. PICK p \in Placements(F), n \in {requests'} : tasks' = Reserve(tasks, F, p, scope, n, FALSE)
    BY <1>2 DEF Request
  <2>3. tasks \in [Slots -> Task]
    BY DEF TypeOK
  <2> QED
    BY <1>1, <2>1, <2>2, <2>3, ReserveKeeps
<1>3. ASSUME NEW inFlight \in SUBSET Running, NEW force \in BOOLEAN,
             ReingestAll(inFlight, force)
      PROVE  NothingForgotten'
  <2> DEFINE F == {f \in Files : Exists(f)} \ inFlight
             T == Orphan(tasks, F)
  <2>1. PICK p \in Placements(F), n \in {requests'} : tasks' = Reserve(T, F, p, "ingest", n, TRUE)
    BY <1>3 DEF ReingestAll
  <2>2. status' = [f \in Files |-> IF f \in F THEN "pending" ELSE status[f]]
    BY <1>3 DEF ReingestAll
  <2>3. T \in [Slots -> Task]
    BY OrphanType DEF TypeOK
  <2>4. \A s \in Slots :
            /\ T[s].kind = tasks[s].kind /\ T[s].file = tasks[s].file
            /\ T[s].failed = tasks[s].failed /\ T[s].reingest = tasks[s].reingest
            /\ T[s].phase = "claimed" <=> tasks[s].phase = "claimed"
    BY OrphanFields
  <2> HIDE DEF F, T
  <2>5. F \in SUBSET Files
    BY DEF F
  <2>6. \A s \in Slots, f \in Files :
            /\ Claims(s, f) => Claims(s, f)'
            /\ WillClaim(s, f) => WillClaim(s, f)'
    BY <2>1, <2>3, <2>4, <2>5, ReserveKeeps
  <2>7. \A f \in F : Awaited(f)'
    BY <2>1, <2>5, ReserveAwaits
  <2> QED
    BY <2>2, <2>6, <2>7 DEF NothingForgotten, Awaited
<1>4. ASSUME NEW f \in Files, DeleteFile(f)
      PROVE  NothingForgotten'
  BY <1>4 DEF DeleteFile, DropRows, NothingForgotten, Claims, WillClaim
<1>5. CASE SyncContainer
  <2> DEFINE fresh == {f \in Files : status[f] = "not_ingested" /\ blob[f]}
  <2>1. PICK p \in Placements(fresh), n \in {requests'} : tasks' = Reserve(tasks, fresh, p, "ingest", n, FALSE)
    BY <1>5 DEF SyncContainer
  <2>2. tasks \in [Slots -> Task]
    BY DEF TypeOK
  <2>3. NotBusier
    BY <1>5 DEF SyncContainer, DropRows, NotBusier
  <2> QED
    BY <1>1, <2>1, <2>2, <2>3, ReserveKeeps
<1> QED
  BY <1>2, <1>3, <1>4, <1>5 DEF Api

LEMMA FailureKeeps ==
    ASSUME NoTaskLost, TypeOK, NothingForgotten, Failure
    PROVE  NothingForgotten'
<1>1. ASSUME NEW n \in 0..MaxRequests, DispatchFails(n)
      PROVE  NothingForgotten'
  <2> DEFINE lost == {t \in Slots : tasks[t].kind = "dispatch" /\ tasks[t].batch = n}
             F == {tasks[t].file : t \in {u \in lost : RecordsFailure(tasks[u])}}
  <2>1. /\ tasks' = [t \in Slots |-> IF t \in lost THEN FreeTask ELSE tasks[t]]
        /\ status' = [f \in Files |-> IF f \in {g \in F : Exists(g)} THEN "failed" ELSE status[f]]
    BY <1>1 DEF DispatchFails
  <2>2. \A s \in Slots, f \in Files :
            /\ Claims(s, f) => Claims(s, f)'
            /\ WillClaim(s, f) /\ s \notin lost => WillClaim(s, f)'
    BY <2>1 DEF Claims, WillClaim
  <2>3. \A s \in lost, f \in Files : WillClaim(s, f) => f \in F
    BY DEF WillClaim, RecordsFailure
  <2>4. \A f \in Files : status'[f] \in {"running", "pending"} =>
            status'[f] = status[f] /\ f \notin F
    BY <2>1 DEF Exists
  <2> HIDE DEF lost, F
  <2> QED
    BY <2>2, <2>3, <2>4 DEF NothingForgotten
<1>2. ASSUME NEW n \in 0..MaxRequests, ApiLost(n)
      PROVE  FALSE
  BY <1>2 DEF ApiLost, CanFault, NoTaskLost
<1>3. ASSUME NEW t \in Slots, WorkerLost(t)
      PROVE  NothingForgotten'
  <2>1. OthersLiveOn(t) /\ LivesOn(t) /\ UNCHANGED status
    BY <1>3, DeathKeeps DEF WorkerLost, fileVars
  <2> QED
    BY <2>1, Carried DEF LivesOn, NotBusier, Claimed, Awaited
<1>4. ASSUME NEW t \in Slots, HardTimeLimit(t)
      PROVE  FALSE
  BY <1>4 DEF HardTimeLimit, CanFault, NoTaskLost
<1>5. ASSUME NEW f \in Files, BlobLost(f)
      PROVE  NothingForgotten'
  BY <1>5 DEF BlobLost, NothingForgotten, Claims, WillClaim
<1> QED
  BY <1>1, <1>2, <1>3, <1>4, <1>5 DEF Failure

(* A file is only ever "running" while a chain that has not failed, or the    *)
(* starter about to publish one, holds it, and only "pending" while a starter *)
(* is still to come: for any number of files, workers, clicks and retries,   *)
(* unless one of the four faults of NoTaskLost strikes.                      *)
THEOREM NothingIsForgotten ==
    ASSUME NoTaskLost
    PROVE  Spec => []NothingForgotten
<1>1. Init => TypeOK /\ NothingForgotten
  BY InitType DEF Init, NothingForgotten
<1>2. TypeOK /\ [Next]_vars => TypeOK'
  BY NextType
<1>3. TypeOK /\ NothingForgotten /\ [Next]_vars => NothingForgotten'
  <2> SUFFICES ASSUME TypeOK, NothingForgotten, [Next]_vars
               PROVE  NothingForgotten'
    OBVIOUS
  <2>1. CASE Api
    BY <2>1, ApiKeeps
  <2>2. CASE Failure
    BY <2>2, FailureKeeps
  <2>3. ASSUME NEW t \in Slots, Dispatch(t) \/ Worker(t)
        PROVE  NothingForgotten'
    BY <2>3, DispatchKeeps, StarterStepKeeps, StageStepKeeps DEF Worker
  <2>4. CASE UNCHANGED vars
    BY <2>4 DEF vars, NothingForgotten, Claims, WillClaim
  <2> QED
    BY <2>1, <2>2, <2>3, <2>4 DEF Next
<1> QED
  BY <1>1, <1>2, <1>3, PTL DEF Spec

-----------------------------------------------------------------------------
(* What the outcome of an ingestion says: theorems on the statuses "ingested" and "failed",    *)
(* and on the copies that queries read.                                                   *)

(* Requests for whole ingestions.  Of the other scopes, "refresh_rules" and     *)
(* "parquet_only" end in "ingested" without describing the file, and            *)
(* reingest_all deletes the metadata of files whose chains it did not see.     *)
WholeScopes == {"ingest", "re_analyze", "full_rebuild"}
OnlyWholeIngestions == Scopes \subseteq WholeScopes /\ "reingest_all" \notin ApiOps

Known == {"row", "columns", "description"}

(* What a live chain at its stage has already written to the metadata m.        *)
Informed(k, m) ==
    /\ k.kind \in {"dispatch", "starter"} => k.scope \in WholeScopes
    /\ k.kind = "stage" /\ k.phase # "queued" => ~k.failed
    /\ k.kind = "stage" /\ ~k.failed =>
          /\ k.stage = "metadata" \/ "metadata" \in k.todo \/ {"row", "columns"} \subseteq m
          /\ k.stage = "ai_description" \/ "ai_description" \in k.todo \/ "description" \in m
          /\ k.stage = "ai_description" => "metadata" \notin k.todo
          /\ k.stage = "complete" => k.todo = {}
          /\ k.phase = "described" => "description" \in m

(* The same where the statuses are st and the metadata mt.                     *)
Told(k, st, mt) == k.kind # "free" /\ st[k.file] # "gone" => Informed(k, mt[k.file])

AllTold == \A s \in Slots : Told(tasks[s], status, meta)
OutcomeInv == IngestedIsDescribed /\ AllTold

(* A step takes no fact from a file that exists, and brings none back.          *)
FactsStay ==
    \A f \in Files : status'[f] # "gone" => status[f] # "gone" /\ meta[f] \cap Known \subseteq meta'[f]

(* It makes no file "ingested".                                              *)
NoneIngested == \A f \in Files : status'[f] = "ingested" => status[f] = "ingested"

LEMMA InformedStays ==
    ASSUME NEW k, NEW m, NEW n, Informed(k, m), m \cap Known \subseteq n
    PROVE  Informed(k, n)
BY DEF Informed, Known

LEMMA FreeTold == ASSUME NEW st, NEW mt PROVE Told(FreeTask, st, mt)
BY FreeTaskFields DEF Told

LEMMA ToldStays ==
    ASSUME TypeOK, FactsStay, NEW k \in Task, Told(k, status, meta)
    PROVE  Told(k, status', meta')
<1>1. k.kind # "free" => k.file \in Files
  BY TaskFields
<1> QED
  BY <1>1, InformedStays DEF Told, FactsStay

LEMMA AgainFields ==
    ASSUME NEW k \in Task
    PROVE  /\ Redelivered(k).kind = k.kind /\ Redelivered(k).file = k.file
           /\ Redelivered(k).failed = k.failed /\ Redelivered(k).scope = k.scope
           /\ Redelivered(k).stage = k.stage /\ Redelivered(k).todo = k.todo
           /\ Redelivered(k).phase = "queued"
           /\ Retried(k).kind = k.kind /\ Retried(k).file = k.file
           /\ Retried(k).failed = k.failed /\ Retried(k).scope = k.scope
           /\ Retried(k).stage = k.stage /\ Retried(k).todo = k.todo
           /\ Retried(k).phase = "queued"
<1>1. Redelivered(k) \in Task
  BY RedeliveredType
<1> QED
  BY <1>1 DEF Redelivered, Retried, Task, TaskRecord

LEMMA AgainTold ==
    ASSUME NEW k \in Task, NEW st, NEW mt, Told(k, st, mt)
    PROVE  Told(Redelivered(k), st, mt) /\ Told(Retried(k), st, mt)
BY AgainFields DEF Told, Informed

(* A step that leaves the tasks alone, or replaces one by one that is told.    *)
LEMMA TaskReplaced ==
    ASSUME TypeOK, AllTold, FactsStay, NEW t \in Slots, NEW next, Told(next, status', meta'),
           tasks' = [tasks EXCEPT ![t] = next]
    PROVE  AllTold'
<1> SUFFICES ASSUME NEW s \in Slots
             PROVE  Told(tasks'[s], status', meta')
  BY DEF AllTold
<1>1. tasks[s] \in Task /\ (s # t => tasks'[s] = tasks[s]) /\ tasks'[t] = next
  BY DEF TypeOK
<1> QED
  BY <1>1, ToldStays DEF AllTold

(* So does a handler, whatever happens between its commit and its               *)
(* acknowledgement.                                                          *)
LEMMA SettleTold ==
    ASSUME TypeOK, AllTold, FactsStay, NEW t \in Slots, NEW next, Told(next, status', meta'),
           Settle(t, next)
    PROVE  AllTold'
<1> DEFINE again == Redelivered(tasks[t])
<1>0. tasks[t] \in Task
  BY DEF TypeOK
<1>1. Told(tasks[t], status', meta')
  BY <1>0, ToldStays DEF AllTold
<1>2. Told(again, status', meta')
  BY <1>0, <1>1, AgainTold
<1>3. CASE tasks' = [tasks EXCEPT ![t] = next]
  BY <1>3, TaskReplaced
<1>4. CASE tasks' = [tasks EXCEPT ![t] = again]
  <2> HIDE DEF again
  <2> QED
    BY <1>2, <1>4, TaskReplaced
<1>5. ASSUME NEW s \in Free, tasks' = [tasks EXCEPT ![t] = again, ![s] = next]
      PROVE  AllTold'
  <2> SUFFICES ASSUME NEW u \in Slots
               PROVE  Told(tasks'[u], status', meta')
    BY DEF AllTold
  <2>1. tasks'[u] = next \/ tasks'[u] = again \/ tasks'[u] = tasks[u]
    BY <1>5 DEF TypeOK, Free
  <2>2. tasks[u] \in Task
    BY DEF TypeOK
  <2> HIDE DEF again
  <2> QED
    BY <1>2, <2>1, <2>2, ToldStays DEF AllTold
<1>6. CASE tasks' = [tasks EXCEPT ![t] = FreeTask]
  BY <1>6, FreeTold, TaskReplaced
<1> QED
  BY <1>3, <1>4, <1>5, <1>6 DEF Settle

LEMMA StageOfAll ==
    ASSUME NEW f, NEW g, NEW rest, NEW bad
    PROVE  LET k == StageOf(f, g, rest, bad)
           IN  k.kind = "stage" /\ k.file = f /\ k.failed = bad /\ k.stage = g /\ k.todo = rest
               /\ k.phase = "queued"
BY FreeTaskFields DEF StageOf, TaskRecord

(* The next task of a chain is told if what the chain is done with is there.   *)
LEMMA NextTold ==
    ASSUME NEW f, NEW todo \in SUBSET Stages, NEW bad, NEW next \in NextTasks(f, todo, bad),
           NEW st, NEW mt,
           ~bad /\ st[f] # "gone" /\ todo # {} =>
               /\ "metadata" \in todo \/ {"row", "columns"} \subseteq mt[f]
               /\ "ai_description" \in todo \/ "description" \in mt[f]
    PROVE  Told(next, st, mt)
<1>1. CASE todo = {}
  BY <1>1, FreeTold DEF NextTasks
<1>2. CASE todo # {}
  <2>1. PICK g \in todo : IsFirst(g, todo) /\ next = StageOf(f, g, todo \ {g}, bad)
    BY <1>2 DEF NextTasks
  <2>2. /\ next.kind = "stage" /\ next.file = f /\ next.failed = bad /\ next.stage = g
        /\ next.todo = todo \ {g} /\ next.phase = "queued"
    BY <2>1, StageOfAll
  <2>3. Rank["metadata"] < Rank["ai_description"]
        /\ \A h \in Stages : h # "complete" => Rank[h] < Rank["complete"]
    BY DEF Stages, Rank
  <2>4. \A h \in todo : Rank[g] <= Rank[h] /\ Rank[g] \in Nat /\ Rank[h] \in Nat
    BY <2>1 DEF IsFirst, Stages, Rank
  <2>5. g = "ai_description" => "metadata" \notin todo
    BY <2>3, <2>4
  <2>6. g = "complete" => todo \ {g} = {}
    BY <2>3, <2>4
  <2> QED
    BY <1>2, <2>2, <2>5, <2>6 DEF Told, Informed
<1> QED
  BY <1>1, <1>2

(* The end of a stage that keeps to this.                                    *)
LEMMA AdvanceTold ==
    ASSUME TypeOK, AllTold, FactsStay, NEW t \in Slots, tasks[t].kind = "stage", NEW bad,
           Advance(t, bad),
           ~bad /\ status'[tasks[t].file] # "gone" =>
               /\ ~tasks[t].failed
               /\ tasks[t].stage = "metadata" => {"row", "columns"} \subseteq meta'[tasks[t].file]
               /\ tasks[t].stage = "ai_description" => "description" \in meta'[tasks[t].file]
    PROVE  AllTold'
<1> DEFINE k == tasks[t]
<1>1. k \in Task
  BY DEF TypeOK
<1>2. k.file \in Files /\ k.todo \in SUBSET Stages
  BY <1>1, TaskFields
<1>3. PICK next \in NextTasks(k.file, k.todo, bad) : Settle(t, next)
  BY DEF Advance
<1>4. Told(k, status', meta')
  BY <1>1, ToldStays DEF AllTold
<1>5. ~bad /\ status'[k.file] # "gone" =>
          /\ "metadata" \in k.todo \/ {"row", "columns"} \subseteq meta'[k.file]
          /\ "ai_description" \in k.todo \/ "description" \in meta'[k.file]
  BY <1>4 DEF Told, Informed
<1>6. Told(next, status', meta')
  BY <1>2, <1>5, NextTold
<1> QED
  BY <1>3, <1>6, SettleTold

LEMMA MarkFailedTells ==
    ASSUME TypeOK, NEW f, MarkFailed(f)
    PROVE  FactsStay /\ NoneIngested
BY DEF MarkFailed, FactsStay, NoneIngested, Exists, WithError, TypeOK

LEMMA DescribedStays ==
    ASSUME IngestedIsDescribed, FactsStay, NoneIngested
    PROVE  IngestedIsDescribed'
BY DEF IngestedIsDescribed, FactsStay, NoneIngested, Known

LEMMA StageTells ==
    ASSUME TypeOK, OutcomeInv, NEW t \in Slots,
           \/ PassThrough(t) \/ StageLoads(t) \/ StageSkips(t) \/ StageUploads(t)
           \/ CleanCommits(t) \/ MetadataCommits(t) \/ DescriptionCommits(t)
           \/ DescribedIngested(t) \/ ParquetCommits(t) \/ CompleteCommits(t)
           \/ EnrichmentCommits(t) \/ StageRaises(t) \/ SourceMissing(t)
    PROVE  OutcomeInv'
<1> DEFINE k == tasks[t]
<1>0. k \in Task /\ IngestedIsDescribed /\ AllTold
  BY DEF TypeOK, OutcomeInv
<1>k. k.kind = "stage" /\ k.file \in Files
  <2>1. k.kind = "stage"
    BY DEF InPhase, PassThrough, StageLoads, StageSkips, StageUploads, CleanCommits,
           MetadataCommits, DescriptionCommits, DescribedIngested, ParquetCommits,
           CompleteCommits, EnrichmentCommits, StageRaises, SourceMissing
  <2> QED
    BY <1>0, <2>1, TaskFields
<1>l. status[k.file] # "gone" => Informed(k, meta[k.file])
  BY <1>0, <1>k DEF AllTold, Told
<1>u. UNCHANGED <<status, meta>> => FactsStay /\ NoneIngested
  BY DEF FactsStay, NoneIngested, Known
<1>g. ~k.failed \/ status[k.file] = "gone" \/ k.phase = "queued"
  BY <1>l, <1>k DEF Informed
<1>1. CASE PassThrough(t)
  <2>1. FactsStay /\ NoneIngested
    BY <1>1, <1>u DEF PassThrough, fileVars
  <2>2. AllTold'
    BY <1>0, <1>1, <1>k, <2>1, AdvanceTold DEF PassThrough
  <2> QED
    BY <1>0, <2>1, <2>2, DescribedStays DEF OutcomeInv
<1>2. CASE StageLoads(t)
  <2>1. PICK seen \in SUBSET {"ingested", "error"}, input \in Nat :
            tasks' = [tasks EXCEPT ![t].phase = "loaded", ![t].seen = seen, ![t].input = input]
    BY <1>2, <1>k DEF StageLoads, TypeOK
  <2> DEFINE next == [k EXCEPT !.phase = "loaded", !.seen = seen, !.input = input]
  <2>2. /\ next.kind = k.kind /\ next.file = k.file /\ next.failed = k.failed
        /\ next.stage = k.stage /\ next.todo = k.todo /\ next.phase = "loaded"
    BY <1>0, <1>k DEF Task, TaskRecord
  <2>3. tasks' = [tasks EXCEPT ![t] = next]
    BY <2>1
  <2>4. FactsStay /\ NoneIngested /\ UNCHANGED <<status, meta>> /\ ~k.failed
    BY <1>2, <1>u DEF StageLoads, SkipsStage
  <2> HIDE DEF next
  <2>5. Told(next, status', meta')
    BY <1>k, <1>l, <2>2, <2>4 DEF Told, Informed
  <2>6. AllTold'
    BY <1>0, <2>3, <2>4, <2>5, TaskReplaced
  <2> QED
    BY <1>0, <2>4, <2>6, DescribedStays DEF OutcomeInv
<1>3. ASSUME NEW bad \in {FALSE}, Advance(t, bad), FactsStay, NoneIngested,
             k.failed => k.phase # "queued",
             k.stage \notin {"metadata", "ai_description"}
      PROVE  OutcomeInv'
  <2>1. status'[k.file] # "gone" => ~k.failed
    BY <1>3, <1>g, <1>k DEF FactsStay
  <2>2. AllTold'
    BY <1>0, <1>3, <1>k, <2>1, AdvanceTold
  <2> QED
    BY <1>0, <1>3, <2>2, DescribedStays DEF OutcomeInv
<1>4. CASE StageSkips(t)
  BY <1>3, <1>4, <1>u DEF StageSkips, SkipsStage, fileVars
<1>5. CASE StageUploads(t)
  <2> DEFINE next == [k EXCEPT !.phase = "uploaded"]
  <2>1. /\ next.kind = k.kind /\ next.file = k.file /\ next.failed = k.failed
        /\ next.stage = k.stage /\ next.todo = k.todo /\ next.phase = "uploaded"
    BY <1>0 DEF Task, TaskRecord
  <2>2. tasks' = [tasks EXCEPT ![t] = next] /\ UNCHANGED <<status, meta>> /\ k.phase = "loaded"
    BY <1>5 DEF StageUploads, InPhase
  <2> HIDE DEF next
  <2>3. Told(next, status', meta')
    BY <1>k, <1>l, <2>1, <2>2 DEF Told, Informed
  <2>4. AllTold'
    BY <1>0, <1>u, <2>2, <2>3, TaskReplaced
  <2> QED
    BY <1>0, <1>u, <2>2, <2>4, DescribedStays DEF OutcomeInv
<1>6. CASE CleanCommits(t) \/ ParquetCommits(t) \/ EnrichmentCommits(t)
  <2>1. FactsStay /\ NoneIngested
    BY <1>6, <1>u DEF CleanCommits, ParquetCommits, EnrichmentCommits, fileVars
  <2>2. Advance(t, FALSE) /\ k.phase # "queued" /\ k.stage \notin {"metadata", "ai_description"}
    BY <1>6 DEF CleanCommits, ParquetCommits, EnrichmentCommits, InPhase, NonFatal
  <2> QED
    BY <1>3, <2>1, <2>2
<1>7. CASE MetadataCommits(t)
  <2>1. /\ status' = status /\ Advance(t, FALSE) /\ k.phase = "loaded" /\ k.stage = "metadata"
        /\ status[k.file] # "gone"
        /\ meta' = [meta EXCEPT ![k.file] = (@ \cup {"row", "columns"}) \ {"error"}]
    BY <1>7 DEF MetadataCommits, InPhase, Exists
  <2>2. FactsStay /\ NoneIngested /\ {"row", "columns"} \subseteq meta'[k.file]
    BY <1>k, <2>1 DEF FactsStay, NoneIngested, Known, TypeOK
  <2>3. AllTold'
    BY <1>0, <1>g, <1>k, <2>1, <2>2, AdvanceTold
  <2> QED
    BY <1>0, <2>2, <2>3, DescribedStays DEF OutcomeInv
<1>8. CASE DescriptionCommits(t)
  <2> DEFINE next == [k EXCEPT !.phase = "described"]
  <2>1. /\ next.kind = k.kind /\ next.file = k.file /\ next.failed = k.failed
        /\ next.stage = k.stage /\ next.todo = k.todo /\ next.phase = "described"
    BY <1>0 DEF Task, TaskRecord
  <2>2. /\ tasks' = [tasks EXCEPT ![t] = next] /\ status' = status /\ k.phase = "loaded"
        /\ meta' = [meta EXCEPT ![k.file] = @ \cup {"description"}]
    BY <1>8 DEF DescriptionCommits, InPhase
  <2>3. FactsStay /\ NoneIngested /\ "description" \in meta'[k.file]
        /\ meta[k.file] \cap Known \subseteq meta'[k.file]
    BY <1>k, <2>2 DEF FactsStay, NoneIngested, Known, TypeOK
  <2> HIDE DEF next
  <2>4. status[k.file] # "gone" => Informed(k, meta'[k.file])
    BY <1>l, <2>3, InformedStays
  <2>5. Told(next, status', meta')
    BY <1>k, <2>1, <2>2, <2>3, <2>4 DEF Told, Informed
  <2>6. AllTold'
    BY <1>0, <2>2, <2>3, <2>5, TaskReplaced
  <2> QED
    BY <1>0, <2>3, <2>6, DescribedStays DEF OutcomeInv
<1>9. CASE DescribedIngested(t)
  <2>1. k.stage = "ai_description" /\ k.phase = "described" /\ Advance(t, FALSE)
    BY <1>0, <1>9, TaskFields DEF DescribedIngested, InPhase
  <2>2. /\ status[k.file] # "gone" \/ status' = status
        /\ status' = status \/ status' = [status EXCEPT ![k.file] = "ingested"]
        /\ meta' = meta \/ meta' = [meta EXCEPT ![k.file] = @ \ {"error"}]
    BY <1>9 DEF DescribedIngested, Exists
  <2>3. FactsStay
    BY <1>k, <2>2 DEF FactsStay, Known, TypeOK
  <2>4. status[k.file] # "gone" =>
            ~k.failed /\ "description" \in meta[k.file] /\ {"row", "columns"} \subseteq meta[k.file]
    BY <1>k, <1>l, <2>1 DEF Informed
  <2>5. status'[k.file] # "gone" => status[k.file] # "gone" /\ Known \subseteq meta'[k.file]
    BY <1>k, <2>3, <2>4 DEF FactsStay, Known
  <2>6. AllTold'
    BY <1>0, <1>k, <2>1, <2>3, <2>4, <2>5, AdvanceTold DEF Known
  <2>7. IngestedIsDescribed'
    <3> SUFFICES ASSUME NEW f \in Files, status'[f] = "ingested"
                 PROVE  Known \subseteq meta'[f]
      BY DEF IngestedIsDescribed, Known
    <3>1. CASE f = k.file
      BY <2>5, <3>1
    <3>2. CASE f # k.file
      BY <1>0, <1>k, <2>2, <2>3, <3>2 DEF IngestedIsDescribed, FactsStay, Known, TypeOK
    <3> QED
      BY <3>1, <3>2
  <2> QED
    BY <2>6, <2>7 DEF OutcomeInv
<1>10. CASE CompleteCommits(t)
  <2>1. /\ k.stage = "complete" /\ k.phase = "loaded" /\ Advance(t, FALSE) /\ meta' = meta
        /\ status' = IF status[k.file] # "gone" THEN [status EXCEPT ![k.file] = "ingested"] ELSE status
    BY <1>10 DEF CompleteCommits, InPhase, Exists
  <2>2. FactsStay
    BY <1>k, <2>1 DEF FactsStay, Known, TypeOK
  <2>3. status[k.file] # "gone" => ~k.failed /\ Known \subseteq meta[k.file]
    BY <1>k, <1>l, <2>1 DEF Informed, Known
  <2>4. AllTold'
    BY <1>0, <1>k, <2>1, <2>2, <2>3, AdvanceTold DEF FactsStay
  <2>5. IngestedIsDescribed'
    BY <1>0, <1>k, <2>1, <2>3 DEF IngestedIsDescribed, Known, TypeOK
  <2> QED
    BY <2>4, <2>5 DEF OutcomeInv
<1>11. ASSUME MarkFailed(k.file), Advance(t, TRUE)
       PROVE  OutcomeInv'
  <2>1. FactsStay /\ NoneIngested
    BY <1>11, MarkFailedTells
  <2>2. AllTold'
    BY <1>0, <1>11, <1>k, <2>1, AdvanceTold
  <2> QED
    BY <1>0, <2>1, <2>2, DescribedStays DEF OutcomeInv
<1>12. ASSUME Settle(t, Retried(k)), FactsStay, NoneIngested
       PROVE  OutcomeInv'
  <2>1. Told(Retried(k), status', meta')
    BY <1>0, <1>12, ToldStays, AgainTold DEF AllTold
  <2>2. AllTold'
    BY <1>0, <1>12, <2>1, SettleTold
  <2> QED
    BY <1>0, <1>12, <2>2, DescribedStays DEF OutcomeInv
<1>13. CASE StageRaises(t)
  <2>1. CASE k.stage \in NonFatal /\ Advance(t, FALSE) /\ UNCHANGED <<status, meta>>
    <3>1. ~k.failed
      BY <1>13 DEF StageRaises, SkipsStage
    <3> QED
      BY <1>3, <1>u, <2>1, <3>1 DEF NonFatal
  <2>2. CASE Settle(t, Retried(k)) /\ UNCHANGED <<status, meta>>
    BY <1>12, <1>u, <2>2
  <2>3. CASE MarkFailed(k.file) /\ Advance(t, TRUE)
    BY <1>11, <2>3
  <2> QED
    BY <1>13, <2>1, <2>2, <2>3 DEF StageRaises, Fails
<1>14. CASE SourceMissing(t)
  <2>1. CASE MarkFailed(k.file) /\ Advance(t, TRUE)
    BY <1>11, <2>1
  <2>2. CASE Settle(t, Retried(k)) /\ status' = [status EXCEPT ![k.file] = "not_ingested"]
             /\ meta' = meta /\ status[k.file] # "gone"
    <3>1. FactsStay /\ NoneIngested
      BY <1>k, <2>2 DEF FactsStay, NoneIngested, Known, TypeOK
    <3> QED
      BY <1>12, <2>2, <3>1
  <2> QED
    BY <1>14, <2>1, <2>2 DEF SourceMissing, Exists
<1> QED
  BY <1>1, <1>2, <1>4, <1>5, <1>6, <1>7, <1>8, <1>9, <1>10, <1>13, <1>14

LEMMA StagesOfWhole ==
    ASSUME NEW scope \in WholeScopes
    PROVE  {"metadata", "ai_description"} \subseteq StagesOf(scope, FastMode)
<1>1. {"metadata", "ai_description"} \subseteq Stages
  BY DEF Stages, Rank
<1>2. "metadata" \notin FastSkip /\ "ai_description" \notin FastSkip
  BY DEF FastSkip
<1>3. CASE scope = "ingest"
  BY <1>1, <1>2, <1>3 DEF StagesOf
<1>4. CASE scope = "re_analyze"
  BY <1>1, <1>4 DEF StagesOf
<1>5. CASE scope = "full_rebuild"
  BY <1>1, <1>5 DEF StagesOf
<1> QED
  BY <1>3, <1>4, <1>5 DEF WholeScopes

LEMMA StarterTells ==
    ASSUME TypeOK, OutcomeInv, NEW t \in Slots,
           \/ StarterReads(t) \/ StarterClaims(t) \/ StarterPublishes(t) \/ StarterRaises(t)
           \/ Dispatch(t)
    PROVE  OutcomeInv'
<1> DEFINE k == tasks[t]
<1>0. k \in Task /\ IngestedIsDescribed /\ AllTold
  BY DEF TypeOK, OutcomeInv
<1>k. k.kind \in {"starter", "dispatch"} /\ k.file \in Files /\ k.scope \in AllScopes
  <2>1. k.kind \in {"starter", "dispatch"}
    BY DEF StarterReads, StarterClaims, StarterPublishes, StarterRaises, Dispatch
  <2> QED
    BY <1>0, <2>1, TaskFields
<1>l. status[k.file] # "gone" => k.scope \in WholeScopes
  BY <1>0, <1>k DEF AllTold, Told, Informed
<1>u. UNCHANGED <<status, meta>> => FactsStay /\ NoneIngested
  BY DEF FactsStay, NoneIngested, Known
<1>p. ASSUME NEW ph \in {"claimable", "claimed"}, tasks' = [tasks EXCEPT ![t] = [k EXCEPT !.phase = ph]],
             FactsStay
      PROVE  AllTold'
  <2> DEFINE next == [k EXCEPT !.phase = ph]
  <2>1. next.kind = k.kind /\ next.file = k.file /\ next.scope = k.scope
    BY <1>0 DEF Task, TaskRecord
  <2>2. tasks' = [tasks EXCEPT ![t] = next]
    BY <1>p
  <2> HIDE DEF next
  <2>3. Told(next, status', meta')
    BY <1>k, <1>l, <1>p, <2>1 DEF Told, Informed, FactsStay
  <2> QED
    BY <1>0, <1>p, <2>2, <2>3, TaskReplaced
<1>1. CASE StarterReads(t)
  <2>1. FactsStay /\ NoneIngested
    BY <1>1, <1>u DEF StarterReads, fileVars
  <2>2. CASE tasks' = [tasks EXCEPT ![t] = FreeTask]
    BY <1>0, <2>1, <2>2, FreeTold, TaskReplaced, DescribedStays DEF OutcomeInv
  <2>3. CASE tasks' = [tasks EXCEPT ![t] = [k EXCEPT !.phase = "claimable"]]
    BY <1>0, <1>p, <2>1, <2>3, DescribedStays DEF OutcomeInv
  <2> QED
    BY <1>1, <2>2, <2>3 DEF StarterReads
<1>2. CASE StarterClaims(t)
  <2>1. status[k.file] # "gone" /\ status' = [status EXCEPT ![k.file] = "running"] /\ meta' = meta
        /\ tasks' = [tasks EXCEPT ![t] = [k EXCEPT !.phase = "claimed"]]
    BY <1>2 DEF StarterClaims, Exists
  <2>2. FactsStay /\ NoneIngested
    BY <1>k, <2>1 DEF FactsStay, NoneIngested, Known, TypeOK
  <2> QED
    BY <1>0, <1>p, <2>1, <2>2, DescribedStays DEF OutcomeInv
<1>3. CASE StarterPublishes(t)
  <2>0. PICK bad \in BOOLEAN : bad = FALSE
    OBVIOUS
  <2>1. PICK next \in NextTasks(k.file, StagesOf(k.scope, FastMode), bad) : Settle(t, next)
    BY <1>3, <2>0 DEF StarterPublishes
  <2>2. FactsStay /\ NoneIngested /\ UNCHANGED <<status, meta>>
    BY <1>3, <1>u DEF StarterPublishes, fileVars
  <2>3. StagesOf(k.scope, FastMode) \in SUBSET Stages
    BY <1>k, StagesOfScope
  <2>4. status'[k.file] # "gone" =>
            {"metadata", "ai_description"} \subseteq StagesOf(k.scope, FastMode)
    BY <1>l, <2>2, StagesOfWhole
  <2>5. Told(next, status', meta')
    BY <2>1, <2>3, <2>4, NextTold
  <2>6. AllTold'
    BY <1>0, <2>1, <2>2, <2>5, SettleTold
  <2> QED
    BY <1>0, <2>2, <2>6, DescribedStays DEF OutcomeInv
<1>4. CASE StarterRaises(t)
  <2>1. CASE MarkFailed(k.file) /\ Settle(t, FreeTask)
    <3>1. FactsStay /\ NoneIngested
      BY <2>1, MarkFailedTells
    <3> QED
      BY <1>0, <2>1, <3>1, FreeTold, SettleTold, DescribedStays DEF OutcomeInv
  <2>2. CASE Settle(t, Retried(k)) /\ UNCHANGED <<status, meta>>
    <3>1. Told(Retried(k), status', meta')
      BY <1>0, <2>2, AgainTold DEF AllTold
    <3> QED
      BY <1>0, <1>u, <2>2, <3>1, SettleTold, DescribedStays DEF OutcomeInv
  <2> QED
    BY <1>4, <2>1, <2>2 DEF StarterRaises
<1>5. CASE Dispatch(t)
  <2> DEFINE next == StarterOf(k.file, k.scope)
  <2>1. tasks' = [tasks EXCEPT ![t] = next] /\ UNCHANGED <<status, meta>>
    BY <1>5 DEF Dispatch, fileVars
  <2>2. next.kind = "starter" /\ next.file = k.file /\ next.scope = k.scope
    BY FreeTaskFields DEF StarterOf, TaskRecord
  <2> HIDE DEF next
  <2>3. Told(next, status', meta')
    BY <1>l, <2>1, <2>2 DEF Told, Informed
  <2>4. AllTold'
    BY <1>0, <1>u, <2>1, <2>3, TaskReplaced
  <2> QED
    BY <1>0, <1>u, <2>1, <2>4, DescribedStays DEF OutcomeInv
<1> QED
  BY <1>1, <1>2, <1>3, <1>4, <1>5

(* A call that reserves slots for whole ingestions.                          *)
LEMMA ReserveTold ==
    ASSUME TypeOK, AllTold, FactsStay, NEW F \in SUBSET Files, NEW p, NEW scope \in WholeScopes,
           NEW n, NEW re, tasks' = Reserve(tasks, F, p, scope, n, re)
    PROVE  AllTold'
<1> SUFFICES ASSUME NEW s \in Slots
             PROVE  Told(tasks'[s], status', meta')
  BY DEF AllTold
<1>1. CASE tasks'[s] = tasks[s]
  <2>1. tasks[s] \in Task
    BY DEF TypeOK
  <2> QED
    BY <1>1, <2>1, ToldStays DEF AllTold
<1>2. CASE tasks'[s] # tasks[s]
  <2>1. PICK f \in F : tasks'[s] = DispatchOf(f, scope, n, re)
    BY <1>2 DEF Reserve
  <2>2. tasks'[s].kind = "dispatch" /\ tasks'[s].scope = scope
    BY <2>1, FreeTaskFields DEF DispatchOf, TaskRecord
  <2> QED
    BY <2>2 DEF Told, Informed
<1> QED
  BY <1>1, <1>2

LEMMA ApiTells ==
    ASSUME OnlyWholeIngestions, TypeOK, OutcomeInv, Api
    PROVE  OutcomeInv'
<1>0. IngestedIsDescribed /\ AllTold /\ tasks \in [Slots -> Task]
  BY DEF OutcomeInv, TypeOK
<1>1. ASSUME NEW F \in SUBSET Files, NEW scope \in Scopes, NEW force \in BOOLEAN,
             Request(F, scope, force)
      PROVE  OutcomeInv'
  <2>1. PICK p \in Placements(F), n \in {requests'} : tasks' = Reserve(tasks, F, p, scope, n, FALSE)
    BY <1>1 DEF Request
  <2>2. FactsStay /\ NoneIngested
    BY <1>1 DEF Request, FactsStay, NoneIngested
  <2>3. scope \in WholeScopes
    BY DEF OnlyWholeIngestions
  <2> QED
    BY <1>0, <2>1, <2>2, <2>3, ReserveTold, DescribedStays DEF OutcomeInv
<1>2. ASSUME NEW inFlight \in SUBSET Running, NEW force \in BOOLEAN,
             ReingestAll(inFlight, force)
      PROVE  FALSE
  BY <1>2 DEF ReingestAll, OnlyWholeIngestions
<1>3. ASSUME NEW F \in SUBSET Files, DropRows(F)
      PROVE  FactsStay /\ NoneIngested
  BY <1>3 DEF DropRows, FactsStay, NoneIngested
<1>4. ASSUME NEW f \in Files, DeleteFile(f)
      PROVE  OutcomeInv'
  <2>1. FactsStay /\ NoneIngested /\ tasks' = tasks
    BY <1>3, <1>4 DEF DeleteFile
  <2>2. AllTold'
    BY <1>0, <2>1, ToldStays DEF AllTold
  <2> QED
    BY <1>0, <2>1, <2>2, DescribedStays DEF OutcomeInv
<1>5. CASE SyncContainer
  <2> DEFINE fresh == {f \in Files : status[f] = "not_ingested" /\ blob[f]}
  <2>1. PICK p \in Placements(fresh), n \in {requests'} :
            tasks' = Reserve(tasks, fresh, p, "ingest", n, FALSE)
    BY <1>5 DEF SyncContainer
  <2>2. FactsStay /\ NoneIngested
    BY <1>3, <1>5 DEF SyncContainer
  <2>3. AllTold'
    BY <1>0, <2>1, <2>2, ReserveTold DEF WholeScopes
  <2> QED
    BY <1>0, <2>2, <2>3, DescribedStays DEF OutcomeInv
<1> QED
  BY <1>1, <1>2, <1>4, <1>5 DEF Api

LEMMA FailureTells ==
    ASSUME TypeOK, OutcomeInv, Failure
    PROVE  OutcomeInv'
<1>0. IngestedIsDescribed /\ AllTold /\ tasks \in [Slots -> Task]
  BY DEF OutcomeInv, TypeOK
<1>u. UNCHANGED <<status, meta>> => FactsStay /\ NoneIngested
  BY DEF FactsStay, NoneIngested, Known
<1>1. ASSUME FactsStay, NoneIngested,
             \A s \in Slots : tasks'[s] = tasks[s] \/ tasks'[s] = FreeTask
                              \/ tasks'[s] = Redelivered(tasks[s])
      PROVE  OutcomeInv'
  <2> SUFFICES ASSUME NEW s \in Slots
               PROVE  Told(tasks'[s], status', meta')
    BY <1>0, <1>1, DescribedStays DEF OutcomeInv, AllTold
  <2>1. tasks[s] \in Task
    BY <1>0
  <2>2. Told(tasks[s], status', meta')
    BY <1>0, <1>1, <2>1, ToldStays DEF AllTold
  <2> QED
    BY <1>1, <2>1, <2>2, FreeTold, AgainTold
<1>2. ASSUME NEW n \in 0..MaxRequests, DispatchFails(n)
      PROVE  OutcomeInv'
  <2>1. \A s \in Slots : tasks'[s] = tasks[s] \/ tasks'[s] = FreeTask
    BY <1>2 DEF DispatchFails
  <2>2. FactsStay /\ NoneIngested
    BY <1>2 DEF DispatchFails, FactsStay, NoneIngested, Exists, WithError, TypeOK
  <2> QED
    BY <1>1, <2>1, <2>2
<1>3. ASSUME NEW n \in 0..MaxRequests, ApiLost(n)
      PROVE  OutcomeInv'
  BY <1>1, <1>3, <1>u DEF ApiLost, fileVars
<1>4. ASSUME NEW t \in Slots, WorkerLost(t) \/ HardTimeLimit(t)
      PROVE  OutcomeInv'
  BY <1>0, <1>1, <1>4, <1>u DEF WorkerLost, HardTimeLimit, fileVars
<1>5. ASSUME NEW f \in Files, BlobLost(f)
      PROVE  OutcomeInv'
  BY <1>1, <1>5, <1>u DEF BlobLost
<1> QED
  BY <1>2, <1>3, <1>4, <1>5 DEF Failure

(* Where files are ingested as a whole, a file that is reported "ingested" has  *)
(* its columns and its description, for any number of files, chains of one      *)
(* file, retries, deletions and faults, those that lose a task included.       *)
THEOREM IngestedAreDescribed ==
    ASSUME OnlyWholeIngestions
    PROVE  Spec => []IngestedIsDescribed
<1>1. Init => TypeOK /\ OutcomeInv
  <2>1. ASSUME Init
        PROVE  OutcomeInv
    BY <2>1, FreeTold DEF Init, OutcomeInv, AllTold, IngestedIsDescribed
  <2> QED
    BY <2>1, InitType
<1>2. TypeOK /\ [Next]_vars => TypeOK'
  BY NextType
<1>3. TypeOK /\ OutcomeInv /\ [Next]_vars => OutcomeInv'
  <2> SUFFICES ASSUME TypeOK, OutcomeInv, [Next]_vars
               PROVE  OutcomeInv'
    OBVIOUS
  <2>1. CASE Api
    BY <2>1, ApiTells
  <2>2. CASE Failure
    BY <2>2, FailureTells
  <2>3. ASSUME NEW t \in Slots, Dispatch(t) \/ Worker(t)
        PROVE  OutcomeInv'
    BY <2>3, StarterTells, StageTells DEF Worker
  <2>4. CASE UNCHANGED vars
    BY <2>4 DEF vars, OutcomeInv, AllTold, IngestedIsDescribed
  <2> QED
    BY <2>1, <2>2, <2>3, <2>4 DEF Next
<1>4. OutcomeInv => IngestedIsDescribed
  BY DEF OutcomeInv
<1> QED
  BY <1>1, <1>2, <1>3, <1>4, PTL DEF Spec
-----------------------------------------------------------------------------
Unexplained(f) == status[f] = "failed" /\ "error" \notin meta[f]

(* What the steps of slot t have to do with it: only a chain that goes on may   *)
(* clear the error of a failed file.                                         *)
LEMMA ExplainedStays ==
    ASSUME FailedIsExplained, NEW t \in Slots, OthersLiveOn(t),
           \A f \in Files : Unexplained(f)' => Unexplained(f) \/ Claims(t, f),
           \A f \in Files : Unexplained(f)' /\ Claims(t, f) => Claimed(f)'
    PROVE  FailedIsExplained'
<1> SUFFICES ASSUME NEW f \in Files, Unexplained(f)'
             PROVE  Claimed(f)'
  BY DEF FailedIsExplained, Unexplained, Claimed
<1>1. PICK s \in Slots : Claims(s, f)
  BY DEF FailedIsExplained, Unexplained
<1>2. CASE s = t
  BY <1>1, <1>2
<1>3. CASE s # t
  <2>1. Claims(s, f)'
    BY <1>1, <1>3 DEF OthersLiveOn
  <2> QED
    BY <2>1 DEF Claimed
<1> QED
  BY <1>2, <1>3

(* A task that is replaced by one of the same file and the same standing.      *)
LEMMA ReplacedClaims ==
    ASSUME NoTaskLost, TypeOK, NEW t \in Slots, NEW next \in Task,
           tasks[t].kind = "stage", next.kind = "stage", next.file = tasks[t].file,
           next.failed = tasks[t].failed,
           tasks' = [tasks EXCEPT ![t] = next] \/ Settle(t, next)
    PROVE  OthersLiveOn(t) /\ \A f \in Files : Claims(t, f) => Claimed(f)'
<1>1. OthersLiveOn(t) /\ (LivesOn(t) \/ \E s \in Slots : tasks'[s] = next)
  <2>1. CASE tasks' = [tasks EXCEPT ![t] = next]
    BY <2>1 DEF OthersLiveOn, Claims, WillClaim, TypeOK
  <2>2. CASE Settle(t, next)
    BY <2>2, SettleKeeps, FreeTaskFields
  <2> QED
    BY <2>1, <2>2
<1>2. ASSUME NEW f \in Files, Claims(t, f)
      PROVE  Claimed(f)'
  <2>1. CASE LivesOn(t)
    BY <1>2, <2>1 DEF LivesOn, Claimed
  <2>2. ASSUME NEW s \in Slots, tasks'[s] = next
        PROVE  Claimed(f)'
    <3>1. Claims(s, f)'
      BY <1>2, <2>2 DEF Claims
    <3> QED
      BY <3>1 DEF Claimed
  <2> QED
    BY <1>1, <2>1, <2>2
<1> QED
  BY <1>1, <1>2

(* A payload marked failed passes through: no stage that has begun holds one.   *)
Begins(k) == k.kind = "stage" /\ k.phase # "queued" => ~k.failed
Begun == \A s \in Slots : Begins(tasks[s])

LEMMA SettleBegins ==
    ASSUME TypeOK, Begun, NEW t \in Slots, NEW next, next.phase = "queued", Settle(t, next)
    PROVE  Begun'
<1> SUFFICES ASSUME NEW s \in Slots
             PROVE  Begins(tasks'[s])
  BY DEF Begun
<1>1. tasks[t] \in Task
  BY DEF TypeOK
<1>2. Redelivered(tasks[t]).phase = "queued" /\ FreeTask.phase = "queued"
  BY <1>1, AgainFields, FreeTaskFields
<1> DEFINE again == Redelivered(tasks[t])
<1>3. \/ tasks'[s] = tasks[s] \/ tasks'[s] = next \/ tasks'[s] = again \/ tasks'[s] = FreeTask
  BY DEF Settle, TypeOK, Free
<1> HIDE DEF again
<1>4. again.phase = "queued"
  BY <1>2 DEF again
<1> QED
  BY <1>2, <1>3, <1>4 DEF Begins, Begun

LEMMA NextTasksBegin ==
    ASSUME NEW f, NEW todo, NEW bad, NEW next \in NextTasks(f, todo, bad)
    PROVE  next.phase = "queued"
<1>1. CASE next = FreeTask
  BY <1>1, FreeTaskFields
<1>2. ASSUME NEW g \in todo, next = StageOf(f, g, todo \ {g}, bad)
      PROVE  next.phase = "queued"
  BY <1>2, StageOfAll
<1> QED
  BY <1>1, <1>2 DEF NextTasks

LEMMA NextBegins ==
    ASSUME TypeOK, Begun, [Next]_vars
    PROVE  Begun'
<1>0. \A s \in Slots : tasks[s] \in Task /\ Begins(tasks[s])
  BY DEF TypeOK, Begun
<1>1. ASSUME NEW t \in Slots, NEW bad, Advance(t, bad)
      PROVE  Begun'
  BY <1>1, NextTasksBegin, SettleBegins DEF Advance
<1>2. ASSUME NEW t \in Slots, Settle(t, Retried(tasks[t]))
      PROVE  Begun'
  BY <1>0, <1>2, AgainFields, SettleBegins
<1>3. ASSUME NEW t \in Slots, NEW next, Begins(next), tasks' = [tasks EXCEPT ![t] = next]
      PROVE  Begun'
  BY <1>0, <1>3 DEF Begun, TypeOK
<1>4. ASSUME UNCHANGED tasks
      PROVE  Begun'
  BY <1>4 DEF Begun
<1>5. ASSUME NEW t \in Slots, Dispatch(t) \/ StarterReads(t) \/ StarterClaims(t)
      PROVE  Begun'
  <2>1. CASE Dispatch(t)
    <3>1. Begins(StarterOf(tasks[t].file, tasks[t].scope))
      BY FreeTaskFields DEF Begins, StarterOf, TaskRecord
    <3> QED
      BY <1>3, <2>1, <3>1 DEF Dispatch
  <2>2. ASSUME NEW ph \in {"claimable", "claimed"}, tasks[t].kind = "starter"
        PROVE  Begins([tasks[t] EXCEPT !.phase = ph])
    BY <1>0, <2>2 DEF Begins, Task, TaskRecord
  <2>3. Begins(FreeTask)
    BY FreeTaskFields DEF Begins
  <2>4. CASE StarterReads(t)
    BY <1>3, <2>2, <2>3, <2>4 DEF StarterReads
  <2>5. CASE StarterClaims(t)
    <3>1. tasks' = [tasks EXCEPT ![t] = [tasks[t] EXCEPT !.phase = "claimed"]]
      BY <2>5 DEF StarterClaims
    <3> QED
      BY <1>3, <2>2, <2>5, <3>1 DEF StarterClaims
  <2> QED
    BY <1>5, <2>1, <2>4, <2>5
<1>6. ASSUME NEW t \in Slots, StarterPublishes(t) \/ StarterRaises(t)
      PROVE  Begun'
  <2>1. CASE StarterPublishes(t)
    BY <2>1, NextTasksBegin, SettleBegins DEF StarterPublishes
  <2>2. CASE StarterRaises(t)
    BY <1>2, <2>2, FreeTaskFields, SettleBegins DEF StarterRaises
  <2> QED
    BY <1>6, <2>1, <2>2
<1>7. ASSUME NEW t \in Slots, StageLoads(t)
      PROVE  Begun'
  <2>1. PICK seen \in SUBSET {"ingested", "error"}, input \in Nat :
            tasks' = [tasks EXCEPT ![t] = [tasks[t] EXCEPT !.phase = "loaded", !.seen = seen,
                                                           !.input = input]]
    BY <1>0, <1>7, TaskFields DEF StageLoads, InPhase, TypeOK
  <2>2. Begins([tasks[t] EXCEPT !.phase = "loaded", !.seen = seen, !.input = input])
    BY <1>0, <1>7 DEF StageLoads, SkipsStage, Begins, Task, TaskRecord
  <2> QED
    BY <1>3, <2>1, <2>2
<1>8. ASSUME NEW t \in Slots, StageUploads(t) \/ DescriptionCommits(t)
      PROVE  Begun'
  <2>1. PICK ph \in {"uploaded", "described"} :
            tasks' = [tasks EXCEPT ![t] = [tasks[t] EXCEPT !.phase = ph]]
    BY <1>8 DEF StageUploads, DescriptionCommits
  <2>2. Begins([tasks[t] EXCEPT !.phase = ph])
    BY <1>0, <1>8 DEF StageUploads, DescriptionCommits, InPhase, Begins, Task, TaskRecord
  <2> QED
    BY <1>3, <2>1, <2>2
<1>9. ASSUME NEW t \in Slots,
             \/ PassThrough(t) \/ StageSkips(t) \/ CleanCommits(t) \/ MetadataCommits(t)
             \/ DescribedIngested(t) \/ ParquetCommits(t) \/ CompleteCommits(t)
             \/ EnrichmentCommits(t) \/ StageRaises(t) \/ SourceMissing(t)
      PROVE  Begun'
  BY <1>1, <1>2, <1>9 DEF PassThrough, StageSkips, CleanCommits, MetadataCommits,
     DescribedIngested, ParquetCommits, CompleteCommits, EnrichmentCommits, StageRaises, Fails,
     SourceMissing
<1>10. ASSUME NEW T \in [Slots -> Task], \A s \in Slots : Begins(T[s]), NEW F, NEW p, NEW scope,
              NEW n, NEW re, tasks' = Reserve(T, F, p, scope, n, re)
       PROVE  Begun'
  <2> SUFFICES ASSUME NEW s \in Slots
               PROVE  Begins(tasks'[s])
    BY DEF Begun
  <2>1. tasks'[s] = T[s] \/ \E f : tasks'[s] = DispatchOf(f, scope, n, re)
    BY <1>10 DEF Reserve
  <2>2. \A f : Begins(DispatchOf(f, scope, n, re))
    BY FreeTaskFields DEF Begins, DispatchOf, TaskRecord
  <2> QED
    BY <1>10, <2>1, <2>2
<1>11. CASE Api
  <2>1. ASSUME NEW F \in SUBSET Files, NEW scope, NEW force, Request(F, scope, force)
        PROVE  Begun'
    <3>1. PICK p \in Placements(F), n \in {requests'} :
              tasks' = Reserve(tasks, F, p, scope, n, FALSE)
      BY <2>1 DEF Request
    <3> QED
      BY <1>0, <1>10, <3>1 DEF TypeOK
  <2>2. ASSUME NEW inFlight, NEW force, ReingestAll(inFlight, force)
        PROVE  Begun'
    <3> DEFINE F == {f \in Files : Exists(f)} \ inFlight
               T == Orphan(tasks, F)
    <3>1. PICK p \in Placements(F), n \in {requests'} :
              tasks' = Reserve(T, F, p, "ingest", n, TRUE)
      BY <2>2 DEF ReingestAll
    <3>2. T \in [Slots -> Task]
      BY OrphanType DEF TypeOK
    <3>3. ASSUME NEW s \in Slots
          PROVE  Begins(T[s])
      BY <1>0 DEF Orphan, HoldsRow, Begins, Task, TaskRecord
    <3> HIDE DEF F, T
    <3> QED
      BY <1>10, <3>1, <3>2, <3>3
  <2>3. ASSUME NEW f \in Files, DeleteFile(f)
        PROVE  Begun'
    BY <1>4, <2>3 DEF DeleteFile
  <2>4. CASE SyncContainer
    <3> DEFINE fresh == {f \in Files : status[f] = "not_ingested" /\ blob[f]}
    <3>1. PICK p \in Placements(fresh), n \in {requests'} :
              tasks' = Reserve(tasks, fresh, p, "ingest", n, FALSE)
      BY <2>4 DEF SyncContainer
    <3> QED
      BY <1>0, <1>10, <3>1 DEF TypeOK
  <2> QED
    BY <1>11, <2>1, <2>2, <2>3, <2>4 DEF Api
<1>12. CASE Failure
  <2>1. \A s \in Slots : tasks'[s] = tasks[s] \/ tasks'[s] = FreeTask
                         \/ tasks'[s] = Redelivered(tasks[s])
    BY <1>0, <1>12 DEF Failure, DispatchFails, ApiLost, WorkerLost, HardTimeLimit, BlobLost,
       fileVars, TypeOK
  <2>2. \A s \in Slots : Begins(FreeTask) /\ Begins(Redelivered(tasks[s]))
    BY <1>0, FreeTaskFields, AgainFields DEF Begins
  <2> QED
    BY <1>0, <2>1, <2>2 DEF Begun
<1>13. CASE UNCHANGED vars
  BY <1>4, <1>13 DEF vars
<1> QED
  BY <1>5, <1>6, <1>7, <1>8, <1>9, <1>11, <1>12, <1>13 DEF Next, Worker

LEMMA MarkFailedExplains ==
    ASSUME TypeOK, NEW f \in Files, MarkFailed(f)
    PROVE  \A g \in Files : Unexplained(g)' => Unexplained(g) /\ g # f
BY DEF MarkFailed, Unexplained, Exists, WithError, TypeOK

LEMMA StageExplains ==
    ASSUME NoTaskLost, TypeOK, Begun, FailedIsExplained, NEW t \in Slots,
           \/ PassThrough(t) \/ StageLoads(t) \/ StageSkips(t) \/ StageUploads(t)
           \/ CleanCommits(t) \/ MetadataCommits(t) \/ DescriptionCommits(t)
           \/ DescribedIngested(t) \/ ParquetCommits(t) \/ CompleteCommits(t)
           \/ EnrichmentCommits(t) \/ StageRaises(t) \/ SourceMissing(t)
    PROVE  FailedIsExplained'
<1> DEFINE k == tasks[t]
<1>0. k \in Task
  BY DEF TypeOK
<1>k. k.kind = "stage" /\ k.file \in Files
  <2>1. k.kind = "stage"
    BY DEF InPhase, PassThrough, StageLoads, StageSkips, StageUploads, CleanCommits,
           MetadataCommits, DescriptionCommits, DescribedIngested, ParquetCommits,
           CompleteCommits, EnrichmentCommits, StageRaises, SourceMissing
  <2> QED
    BY <1>0, <2>1, TaskFields
<1>u. UNCHANGED <<status, meta>> => \A f \in Files : Unexplained(f)' => Unexplained(f)
  BY DEF Unexplained
<1>c. ~k.failed => Claims(t, k.file)
  BY <1>k DEF Claims
<1>d. ASSUME Advance(t, FALSE), k.stage # "complete",
             \A f \in Files : Unexplained(f)' => Unexplained(f) \/ Claims(t, f)
      PROVE  FailedIsExplained'
  <2>1. OthersLiveOn(t) /\ \A f \in Files : Claims(t, f) => Claimed(f)'
    BY <1>d, <1>k, AdvanceKeeps
  <2> QED
    BY <1>d, <2>1, ExplainedStays
<1>r. ASSUME NEW next \in Task, next.kind = "stage", next.file = k.file, next.failed = k.failed,
             tasks' = [tasks EXCEPT ![t] = next] \/ Settle(t, next),
             \A f \in Files : Unexplained(f)' => Unexplained(f) \/ Claims(t, f)
      PROVE  FailedIsExplained'
  <2>1. OthersLiveOn(t) /\ \A f \in Files : Claims(t, f) => Claimed(f)'
    BY <1>k, <1>r, ReplacedClaims
  <2> QED
    BY <1>r, <2>1, ExplainedStays
<1>m. ASSUME MarkFailed(k.file), Advance(t, TRUE)
      PROVE  FailedIsExplained'
  <2>1. OthersLiveOn(t)
    BY <1>k, <1>m, AdvanceKeeps
  <2>2. \A f \in Files : Unexplained(f)' => Unexplained(f) /\ f # k.file
    BY <1>k, <1>m, MarkFailedExplains
  <2>3. \A f \in Files : Claims(t, f) => f = k.file
    BY DEF Claims
  <2> QED
    BY <2>1, <2>2, <2>3, ExplainedStays
<1>1. CASE PassThrough(t)
  <2>1. OthersLiveOn(t) /\ \A f \in Files : ~Claims(t, f)
    BY <1>1, <1>k, AdvanceKeeps DEF PassThrough, SkipsStage, Claims
  <2>2. \A f \in Files : Unexplained(f)' => Unexplained(f)
    BY <1>1, <1>u DEF PassThrough, fileVars
  <2> QED
    BY <2>1, <2>2, ExplainedStays
<1>2. CASE StageLoads(t)
  <2>1. PICK seen \in SUBSET {"ingested", "error"}, input \in Nat :
            tasks' = [tasks EXCEPT ![t].phase = "loaded", ![t].seen = seen, ![t].input = input]
    BY <1>2, <1>k DEF StageLoads, TypeOK
  <2> DEFINE next == [k EXCEPT !.phase = "loaded", !.seen = seen, !.input = input]
  <2>2. /\ next \in Task
        /\ next.kind = k.kind /\ next.file = k.file /\ next.failed = k.failed
    BY <1>0, <1>k DEF Task, TaskRecord
  <2>3. tasks' = [tasks EXCEPT ![t] = next]
    BY <2>1
  <2>4. \A f \in Files : Unexplained(f)' => Unexplained(f)
    BY <1>2, <1>u DEF StageLoads
  <2> HIDE DEF next
  <2> QED
    BY <1>k, <1>r, <2>2, <2>3, <2>4
<1>3. CASE StageSkips(t)
  BY <1>3, <1>d, <1>u DEF StageSkips, fileVars
<1>4. CASE StageUploads(t)
  <2> DEFINE next == [k EXCEPT !.phase = "uploaded"]
  <2>0. next \in Task
    BY <1>0, PhaseType
  <2>1. next.kind = k.kind /\ next.file = k.file /\ next.failed = k.failed
    BY <1>0 DEF Task, TaskRecord
  <2>2. tasks' = [tasks EXCEPT ![t] = next] /\ UNCHANGED <<status, meta>>
    BY <1>4 DEF StageUploads
  <2> HIDE DEF next
  <2> QED
    BY <1>k, <1>r, <1>u, <2>0, <2>1, <2>2
<1>5. CASE CleanCommits(t) \/ ParquetCommits(t) \/ EnrichmentCommits(t)
  <2>1. UNCHANGED <<status, meta>> /\ Advance(t, FALSE) /\ k.stage # "complete"
    BY <1>5 DEF CleanCommits, ParquetCommits, EnrichmentCommits, NonFatal, fileVars
  <2> QED
    BY <1>d, <1>u, <2>1
<1>6. CASE MetadataCommits(t)
  <2>0. ~k.failed
    BY <1>6, <1>k DEF MetadataCommits, InPhase, Begun, Begins
  <2>1. /\ Advance(t, FALSE) /\ k.stage = "metadata" /\ status' = status
        /\ \A f \in Files : f # k.file => meta'[f] = meta[f]
    BY <1>6, <1>k DEF MetadataCommits, TypeOK
  <2>2. \A f \in Files : Unexplained(f)' => Unexplained(f) \/ Claims(t, f)
    BY <1>c, <2>0, <2>1 DEF Unexplained
  <2> QED
    BY <1>d, <2>1, <2>2
<1>7. CASE DescriptionCommits(t)
  <2> DEFINE next == [k EXCEPT !.phase = "described"]
  <2>1. /\ next \in Task
        /\ next.kind = k.kind /\ next.file = k.file /\ next.failed = k.failed
    BY <1>0, <1>k, <1>7, DescribedType DEF DescriptionCommits, Task, TaskRecord
  <2>2. tasks' = [tasks EXCEPT ![t] = next]
    BY <1>7 DEF DescriptionCommits
  <2>3. \A f \in Files : Unexplained(f)' => Unexplained(f)
    BY <1>7, <1>k DEF DescriptionCommits, Unexplained, TypeOK
  <2> HIDE DEF next
  <2> QED
    BY <1>k, <1>r, <2>1, <2>2, <2>3
<1>8. CASE DescribedIngested(t)
  <2>0. ~k.failed
    BY <1>8, <1>k DEF DescribedIngested, InPhase, Begun, Begins
  <2>1. k.stage = "ai_description" /\ Advance(t, FALSE)
    BY <1>0, <1>8, TaskFields DEF DescribedIngested, InPhase
  <2>2. \A f \in Files : f # k.file => meta'[f] = meta[f] /\ status'[f] = status[f]
    BY <1>8, <1>k DEF DescribedIngested, TypeOK
  <2>3. \A f \in Files : Unexplained(f)' => Unexplained(f) \/ Claims(t, f)
    BY <1>c, <2>0, <2>2 DEF Unexplained
  <2> QED
    BY <1>d, <2>1, <2>3
<1>9. CASE CompleteCommits(t)
  <2>1. OthersLiveOn(t)
    BY <1>9, <1>k, AdvanceKeeps DEF CompleteCommits
  <2>2. \A f \in Files : Unexplained(f)' => Unexplained(f) /\ f # k.file
    BY <1>9, <1>k DEF CompleteCommits, Unexplained, Exists, TypeOK
  <2>3. \A f \in Files : Claims(t, f) => f = k.file
    BY DEF Claims
  <2> QED
    BY <2>1, <2>2, <2>3, ExplainedStays
<1>10. CASE StageRaises(t)
  <2>1. CASE k.stage \in NonFatal /\ Advance(t, FALSE) /\ UNCHANGED <<status, meta>>
    BY <2>1, <1>d, <1>u DEF NonFatal
  <2>2. CASE ~Exhausted(k) /\ Settle(t, Retried(k)) /\ UNCHANGED <<status, meta>>
    <3>1. Retried(k) \in Task
      BY <1>0, <2>2, RetriedType
    <3> QED
      BY <1>0, <1>k, <1>r, <1>u, <2>2, <3>1, RetriedFields
  <2>3. CASE MarkFailed(k.file) /\ Advance(t, TRUE)
    BY <1>m, <2>3
  <2> QED
    BY <1>10, <2>1, <2>2, <2>3 DEF StageRaises, Fails
<1>11. CASE SourceMissing(t)
  <2>1. CASE MarkFailed(k.file) /\ Advance(t, TRUE)
    BY <1>m, <2>1
  <2>2. CASE ~Exhausted(k) /\ Settle(t, Retried(k)) /\ meta' = meta
             /\ status' = [status EXCEPT ![k.file] = "not_ingested"]
    <3>1. Retried(k) \in Task
      BY <1>0, <2>2, RetriedType
    <3>2. \A f \in Files : Unexplained(f)' => Unexplained(f)
      BY <1>k, <2>2 DEF Unexplained, TypeOK
    <3> QED
      BY <1>0, <1>k, <1>r, <2>2, <3>1, <3>2, RetriedFields
  <2> QED
    BY <1>11, <2>1, <2>2 DEF SourceMissing
<1> QED
  BY <1>1, <1>2, <1>3, <1>4, <1>5, <1>6, <1>7, <1>8, <1>9, <1>10, <1>11

LEMMA StarterExplains ==
    ASSUME NoTaskLost, TypeOK, FailedIsExplained, NEW t \in Slots,
           \/ StarterReads(t) \/ StarterClaims(t) \/ StarterPublishes(t) \/ StarterRaises(t)
           \/ Dispatch(t)
    PROVE  FailedIsExplained'
<1> DEFINE k == tasks[t]
<1>0. k \in Task
  BY DEF TypeOK
<1>k. k.kind \in {"starter", "dispatch"} /\ k.file \in Files /\ k.scope \in AllScopes
  <2>1. k.kind \in {"starter", "dispatch"}
    BY DEF StarterReads, StarterClaims, StarterPublishes, StarterRaises, Dispatch
  <2> QED
    BY <1>0, <2>1, TaskFields
<1>u. UNCHANGED <<status, meta>> => \A f \in Files : Unexplained(f)' => Unexplained(f)
  BY DEF Unexplained
<1>1. CASE StarterReads(t) \/ Dispatch(t)
  <2>1. OthersLiveOn(t) /\ \A f \in Files : ~Claims(t, f)
    BY <1>1, <1>k DEF StarterReads, Dispatch, OthersLiveOn, Claims, WillClaim, TypeOK
  <2> QED
    BY <1>1, <1>u, <2>1, ExplainedStays DEF StarterReads, Dispatch, fileVars
<1>2. CASE StarterClaims(t)
  <2>1. OthersLiveOn(t) /\ \A f \in Files : ~Claims(t, f)
    BY <1>2, <1>k DEF StarterClaims, OthersLiveOn, Claims, WillClaim, TypeOK
  <2>2. \A f \in Files : Unexplained(f)' => Unexplained(f)
    BY <1>2, <1>k DEF StarterClaims, Unexplained, TypeOK
  <2> QED
    BY <2>1, <2>2, ExplainedStays
<1>3. CASE StarterPublishes(t)
  <2>0. PICK bad \in BOOLEAN : bad = FALSE
    OBVIOUS
  <2>1. PICK next \in NextTasks(k.file, StagesOf(k.scope, FastMode), bad) : Settle(t, next)
    BY <1>3, <2>0 DEF StarterPublishes
  <2>2. StagesOf(k.scope, FastMode) \in SUBSET Stages /\ StagesOf(k.scope, FastMode) # {}
    BY <1>k, StagesOfScope
  <2>3. next \in Task
    BY <1>k, <2>1, StagesOfScope, NextTasksType
  <2>4. next.kind = "stage" /\ next.file = k.file /\ ~next.failed
    BY <2>0, <2>1, <2>2, NextTasksFields
  <2>5. OthersLiveOn(t) /\ (LivesOn(t) \/ \E s \in Slots : tasks'[s] = next)
    BY <2>1, <2>3, <2>4, SettleKeeps, FreeTaskFields
  <2>6. ASSUME NEW f \in Files, Claims(t, f)
        PROVE  Claimed(f)'
    <3>1. CASE LivesOn(t)
      BY <2>6, <3>1 DEF LivesOn, Claimed
    <3>2. ASSUME NEW s \in Slots, tasks'[s] = next
          PROVE  Claimed(f)'
      <4>1. Claims(s, f)'
        BY <2>4, <2>6, <3>2 DEF Claims
      <4> QED
        BY <4>1 DEF Claimed
    <3> QED
      BY <2>5, <3>1, <3>2
  <2> QED
    BY <1>3, <1>u, <2>5, <2>6, ExplainedStays DEF StarterPublishes, fileVars
<1>4. CASE StarterRaises(t)
  <2>0. \A f \in Files : ~Claims(t, f)
    BY <1>4 DEF StarterRaises, Claims
  <2>1. CASE MarkFailed(k.file) /\ Settle(t, FreeTask)
    BY <1>k, <2>0, <2>1, SettleKeeps, FreeTaskType, MarkFailedExplains, ExplainedStays
  <2>2. CASE ~Exhausted(k) /\ Settle(t, Retried(k)) /\ UNCHANGED <<status, meta>>
    <3>1. OthersLiveOn(t)
      BY <1>0, <2>2, RetriedType, SettleKeeps
    <3> QED
      BY <1>u, <2>0, <2>2, <3>1, ExplainedStays
  <2> QED
    BY <1>4, <2>1, <2>2 DEF StarterRaises
<1> QED
  BY <1>1, <1>2, <1>3, <1>4

(* A call of the API takes no task from a file that it leaves as it is.        *)
LEMMA ApiExplains ==
    ASSUME TypeOK, FailedIsExplained, Api
    PROVE  FailedIsExplained'
<1>1. ASSUME \A f \in Files : Unexplained(f)' => Unexplained(f),
             \A s \in Slots, f \in Files : Claims(s, f) => Claims(s, f)'
      PROVE  FailedIsExplained'
  BY <1>1 DEF FailedIsExplained, Unexplained
<1>2. ASSUME NEW F \in SUBSET Files, NEW scope \in Scopes, NEW force \in BOOLEAN,
             Request(F, scope, force)
      PROVE  FailedIsExplained'
  <2>1. PICK p \in Placements(F), n \in {requests'} : tasks' = Reserve(tasks, F, p, scope, n, FALSE)
    BY <1>2 DEF Request
  <2>2. tasks \in [Slots -> Task]
    BY DEF TypeOK
  <2>3. \A f \in Files : Unexplained(f)' => Unexplained(f)
    BY <1>2 DEF Request, Unexplained
  <2> QED
    BY <1>1, <2>1, <2>2, <2>3, ReserveKeeps
<1>3. ASSUME NEW inFlight \in SUBSET Running, NEW force \in BOOLEAN,
             ReingestAll(inFlight, force)
      PROVE  FailedIsExplained'
  <2> DEFINE F == {f \in Files : Exists(f)} \ inFlight
             T == Orphan(tasks, F)
  <2>1. PICK p \in Placements(F), n \in {requests'} : tasks' = Reserve(T, F, p, "ingest", n, TRUE)
    BY <1>3 DEF ReingestAll
  <2>2. T \in [Slots -> Task]
    BY OrphanType DEF TypeOK
  <2>3. \A s \in Slots :
            /\ T[s].kind = tasks[s].kind /\ T[s].file = tasks[s].file
            /\ T[s].failed = tasks[s].failed /\ T[s].reingest = tasks[s].reingest
            /\ T[s].phase = "claimed" <=> tasks[s].phase = "claimed"
    BY OrphanFields
  <2>4. \A f \in Files : Unexplained(f)' => Unexplained(f)
    BY <1>3 DEF ReingestAll, Unexplained
  <2> HIDE DEF F, T
  <2>5. F \in SUBSET Files
    BY DEF F
  <2>6. \A s \in Slots, f \in Files : Claims(s, f) => Claims(s, f)'
    BY <2>1, <2>2, <2>3, <2>5, ReserveKeeps
  <2> QED
    BY <1>1, <2>4, <2>6
<1>4. ASSUME NEW f \in Files, DeleteFile(f)
      PROVE  FailedIsExplained'
  BY <1>1, <1>4 DEF DeleteFile, DropRows, Unexplained, Claims
<1>5. CASE SyncContainer
  <2> DEFINE fresh == {f \in Files : status[f] = "not_ingested" /\ blob[f]}
  <2>1. PICK p \in Placements(fresh), n \in {requests'} :
            tasks' = Reserve(tasks, fresh, p, "ingest", n, FALSE)
    BY <1>5 DEF SyncContainer
  <2>2. tasks \in [Slots -> Task]
    BY DEF TypeOK
  <2>3. \A f \in Files : Unexplained(f)' => Unexplained(f)
    BY <1>5 DEF SyncContainer, DropRows, Unexplained
  <2> QED
    BY <1>1, <2>1, <2>2, <2>3, ReserveKeeps
<1> QED
  BY <1>2, <1>3, <1>4, <1>5 DEF Api

LEMMA FailureExplains ==
    ASSUME NoTaskLost, TypeOK, FailedIsExplained, Failure
    PROVE  FailedIsExplained'
<1>1. ASSUME NEW n \in 0..MaxRequests, DispatchFails(n)
      PROVE  FailedIsExplained'
  <2>1. \A s \in Slots, f \in Files : Claims(s, f) => Claims(s, f)'
    BY <1>1 DEF DispatchFails, Claims
  <2>2. \A f \in Files : Unexplained(f)' => Unexplained(f)
    BY <1>1 DEF DispatchFails, Unexplained, WithError
  <2> QED
    BY <2>1, <2>2 DEF FailedIsExplained, Unexplained
<1>2. ASSUME NEW n \in 0..MaxRequests, ApiLost(n)
      PROVE  FALSE
  BY <1>2 DEF ApiLost, CanFault, NoTaskLost
<1>3. ASSUME NEW t \in Slots, WorkerLost(t)
      PROVE  FailedIsExplained'
  <2>1. OthersLiveOn(t) /\ LivesOn(t) /\ UNCHANGED <<status, meta>>
    BY <1>3, DeathKeeps DEF WorkerLost, fileVars
  <2> QED
    BY <2>1, ExplainedStays DEF LivesOn, Claimed, Unexplained
<1>4. ASSUME NEW t \in Slots, HardTimeLimit(t)
      PROVE  FALSE
  BY <1>4 DEF HardTimeLimit, CanFault, NoTaskLost
<1>5. ASSUME NEW f \in Files, BlobLost(f)
      PROVE  FailedIsExplained'
  BY <1>5 DEF BlobLost, FailedIsExplained, Claims
<1> QED
  BY <1>1, <1>2, <1>3, <1>4, <1>5 DEF Failure

(* A file that stays "failed" says why: the error of one chain is only cleared  *)
(* by another that is alive and will overwrite the status.  For any requests,   *)
(* chains, retries and faults, unless one of those of NoTaskLost strikes.      *)
THEOREM FailuresAreExplained ==
    ASSUME NoTaskLost
    PROVE  Spec => []FailedIsExplained
<1>1. Init => TypeOK /\ Begun /\ FailedIsExplained
  BY InitType, FreeTaskFields DEF Init, Begun, Begins, FailedIsExplained
<1>2. TypeOK /\ Begun /\ [Next]_vars => TypeOK' /\ Begun'
  BY NextType, NextBegins
<1>3. TypeOK /\ Begun /\ FailedIsExplained /\ [Next]_vars => FailedIsExplained'
  <2> SUFFICES ASSUME TypeOK, Begun, FailedIsExplained, [Next]_vars
               PROVE  FailedIsExplained'
    OBVIOUS
  <2>1. CASE Api
    BY <2>1, ApiExplains
  <2>2. CASE Failure
    BY <2>2, FailureExplains
  <2>3. ASSUME NEW t \in Slots, Dispatch(t) \/ Worker(t)
        PROVE  FailedIsExplained'
    BY <2>3, StarterExplains, StageExplains DEF Worker
  <2>4. CASE UNCHANGED vars
    BY <2>4 DEF vars, FailedIsExplained, Claims
  <2> QED
    BY <2>1, <2>2, <2>3, <2>4 DEF Next
<1> QED
  BY <1>1, <1>2, <1>3, PTL DEF Spec
-----------------------------------------------------------------------------
(* Nobody starts a file while a task of it is live, and a worker that dies does *)
(* so before it publishes the next task or after its acknowledgement.          *)
OneAtATime == ~Impatient /\ "ack_lost" \notin Faults

(* A file has one task at most.                                              *)
Alone == \A s, u \in Slots : tasks[s].file \in Files /\ tasks[s].file = tasks[u].file => s = u

(* Cleaning has made the row forget its Parquet copy before it rewrites the    *)
(* source; a conversion has read the source that is there, and its copy is made *)
(* from it.                                                                  *)
Current(k, pq, v, c) ==
    k.kind = "stage" =>
        /\ k.stage = "clean" /\ k.phase = "loaded" => ~pq[k.file]
        /\ k.stage = "parquet" /\ k.phase = "loaded" => k.input = v[k.file]
        /\ k.stage = "parquet" /\ k.phase = "uploaded" => c[k.file] = v[k.file]

AllCurrent == \A s \in Slots : Current(tasks[s], pqPath, version, pqContent)
FreshInv == Alone /\ AllCurrent /\ ParquetIsFresh

(* What is known of the Parquet copy of file f: nothing is added to it.        *)
CopyStays(f) == (pqPath'[f] => pqPath[f]) /\ version'[f] = version[f] /\ pqContent'[f] = pqContent[f]

LEMMA CurrentStays ==
    ASSUME NEW k, Current(k, pqPath, version, pqContent), k.kind = "stage" => CopyStays(k.file)
    PROVE  Current(k, pqPath', version', pqContent')
BY DEF Current, CopyStays

LEMMA QueuedIsCurrent ==
    ASSUME NEW k, k.kind = "stage" => k.phase \notin {"loaded", "uploaded"}, NEW pq, NEW v, NEW c
    PROVE  Current(k, pq, v, c)
BY DEF Current

(* The slot of a file goes on with another task of the same file, or is freed:  *)
(* nothing that the other slots rely on changes.                              *)
LEMMA SlotMovesOn ==
    ASSUME TypeOK, FreshInv, NEW t \in Slots, tasks[t].file \in Files, NEW next,
           tasks' = [tasks EXCEPT ![t] = next],
           next.file = tasks[t].file \/ next.file = NoFile,
           Current(next, pqPath', version', pqContent'),
           \A f \in Files \ {tasks[t].file} : CopyStays(f)
    PROVE  Alone' /\ AllCurrent'
<1>0. tasks \in [Slots -> Task] /\ Alone /\ AllCurrent
  BY DEF TypeOK, FreshInv
<1>1. tasks'[t] = next /\ \A s \in Slots : s # t => tasks'[s] = tasks[s]
  BY <1>0
<1>2. ASSUME NEW s \in Slots, s # t, tasks[s].kind # "free"
      PROVE  tasks[s].file \in Files \ {tasks[t].file}
  <2>1. tasks[s].file \in Files
    BY <1>0, <1>2, TaskFields
  <2> QED
    BY <1>0, <1>2, <2>1 DEF Alone
<1>3. ASSUME NEW s \in Slots
      PROVE  Current(tasks'[s], pqPath', version', pqContent')
  <2>1. CASE s = t
    BY <1>1, <2>1
  <2>2. CASE s # t
    <3>1. tasks[s].kind = "stage" => CopyStays(tasks[s].file)
      BY <1>2, <2>2
    <3> QED
      BY <1>0, <1>1, <2>2, <3>1, CurrentStays DEF AllCurrent
  <2> QED
    BY <2>1, <2>2
<1>4. Alone'
  <2> SUFFICES ASSUME NEW s \in Slots, NEW u \in Slots, tasks'[s].file \in Files,
                      tasks'[s].file = tasks'[u].file
               PROVE  s = u
    BY DEF Alone
  <2>1. tasks[s].file = tasks'[s].file /\ tasks[u].file = tasks'[u].file
    BY <1>1, ConstantsOK
  <2> QED
    BY <1>0, <2>1 DEF Alone
<1> QED
  BY <1>3, <1>4 DEF AllCurrent

(* A handler settles: with no acknowledgement lost, the slot has the next task, *)
(* the same task again, or none.                                             *)
LEMMA SettleOneAtATime ==
    ASSUME OneAtATime, TypeOK, FreshInv, NEW t \in Slots, tasks[t].file \in Files,
           NEW next, next.file = tasks[t].file \/ next.file = NoFile, next.phase = "queued",
           Settle(t, next), \A f \in Files \ {tasks[t].file} : CopyStays(f)
    PROVE  Alone' /\ AllCurrent'
<1> DEFINE again == Redelivered(tasks[t])
<1>0. tasks[t] \in Task
  BY DEF TypeOK
<1>1. again.file = tasks[t].file /\ again.phase = "queued"
  BY <1>0, AgainFields
<1>2. FreeTask.file = NoFile /\ FreeTask.phase = "queued"
  BY FreeTaskFields DEF FreeTask
<1> HIDE DEF again
<1>3. \/ tasks' = [tasks EXCEPT ![t] = next]
      \/ tasks' = [tasks EXCEPT ![t] = again]
      \/ tasks' = [tasks EXCEPT ![t] = FreeTask]
  BY DEF Settle, OneAtATime, CanFault, again
<1> QED
  BY <1>1, <1>2, <1>3, SlotMovesOn, QueuedIsCurrent

LEMMA NextTasksOfFile ==
    ASSUME NEW f, NEW todo, NEW bad, NEW next \in NextTasks(f, todo, bad)
    PROVE  (next.file = f \/ next.file = NoFile) /\ next.phase = "queued"
<1>1. CASE next = FreeTask
  BY <1>1 DEF FreeTask
<1>2. CASE \E g \in todo : next = StageOf(f, g, todo \ {g}, bad)
  BY <1>2, StageOfAll
<1> QED
  BY <1>1, <1>2 DEF NextTasks

LEMMA AdvanceOneAtATime ==
    ASSUME OneAtATime, TypeOK, FreshInv, NEW t \in Slots, tasks[t].file \in Files, NEW bad,
           Advance(t, bad), \A f \in Files \ {tasks[t].file} : CopyStays(f)
    PROVE  Alone' /\ AllCurrent'
BY NextTasksOfFile, SettleOneAtATime DEF Advance

LEMMA StepStaysFresh ==
    ASSUME OneAtATime, TypeOK, FreshInv, NEW t \in Slots, Dispatch(t) \/ Worker(t)
    PROVE  FreshInv'
<1> DEFINE k == tasks[t]
           f == tasks[t].file
<1>0. k \in Task /\ ParquetIsFresh /\ AllCurrent
  BY DEF TypeOK, FreshInv
<1>k. f \in Files
  <2>1. k.kind # "free"
    BY DEF Worker, Dispatch, StarterReads, StarterClaims, StarterPublishes, StarterRaises, InPhase,
           PassThrough, StageLoads, StageSkips, StageUploads, CleanCommits, MetadataCommits,
           DescriptionCommits, DescribedIngested, ParquetCommits, CompleteCommits,
           EnrichmentCommits, StageRaises, SourceMissing
  <2> QED
    BY <1>0, <2>1, TaskFields
<1>f. k.phase = "described" => k.stage = "ai_description"
  BY <1>0, TaskFields
<1>n. FreeTask.file = NoFile /\ FreeTask.phase = "queued"
  BY FreeTaskFields DEF FreeTask
<1>a. Redelivered(k).file = f /\ Redelivered(k).phase = "queued"
      /\ Retried(k).file = f /\ Retried(k).phase = "queued"
  BY <1>0, AgainFields
(* Steps that leave the copy alone and end in the next task, the same or none.  *)
<1>s. ASSUME UNCHANGED <<pqPath, version, pqContent>>,
             \/ \E bad \in BOOLEAN : Advance(t, bad)
             \/ Settle(t, Retried(k))
             \/ Settle(t, FreeTask)
             \/ k.kind = "starter" /\ \E next \in NextTasks(f, StagesOf(k.scope, FastMode), FALSE) : Settle(t, next)
      PROVE  FreshInv'
  <2>1. \A g \in Files \ {f} : CopyStays(g)
    BY <1>s DEF CopyStays
  <2>2. Alone' /\ AllCurrent'
    <3>1. CASE \E bad \in BOOLEAN : Advance(t, bad)
      BY <1>k, <2>1, <3>1, AdvanceOneAtATime
    <3>2. CASE Settle(t, Retried(k)) \/ Settle(t, FreeTask)
      BY <1>k, <1>n, <1>a, <2>1, <3>2, SettleOneAtATime
    <3>3. CASE \E next \in NextTasks(f, StagesOf(k.scope, FastMode), FALSE) : Settle(t, next)
      BY <1>k, <2>1, <3>3, NextTasksOfFile, SettleOneAtATime
    <3> QED
      BY <1>s, <3>1, <3>2, <3>3
  <2> QED
    BY <1>0, <1>s, <2>2 DEF FreshInv, ParquetIsFresh
(* Steps that move the task to a phase in which it relies on nothing.          *)
<1>p. ASSUME UNCHANGED <<pqPath, version, pqContent>>, NEW next,
             tasks' = [tasks EXCEPT ![t] = next], next.file = f \/ next.file = NoFile,
             next.kind = "stage" => next.phase \notin {"loaded", "uploaded"}
      PROVE  FreshInv'
  <2>1. \A g \in Files \ {f} : CopyStays(g)
    BY <1>p DEF CopyStays
  <2>2. Alone' /\ AllCurrent'
    BY <1>k, <1>p, <2>1, SlotMovesOn, QueuedIsCurrent
  <2> QED
    BY <1>0, <1>p, <2>2 DEF FreshInv, ParquetIsFresh
<1>1. CASE Dispatch(t)
  <2>1. StarterOf(f, k.scope).file = f /\ StarterOf(f, k.scope).kind = "starter"
    BY FreeTaskFields DEF StarterOf, TaskRecord
  <2> QED
    BY <1>1, <1>p, <2>1 DEF Dispatch, fileVars
<1>2. CASE StarterReads(t)
  <2>1. [k EXCEPT !.phase = "claimable"].file = f /\ [k EXCEPT !.phase = "claimable"].kind = k.kind
    BY <1>0 DEF Task, TaskRecord
  <2>2. UNCHANGED <<pqPath, version, pqContent>> /\ k.kind = "starter"
    BY <1>2 DEF StarterReads, fileVars
  <2>3. CASE tasks' = [tasks EXCEPT ![t] = FreeTask]
    BY <1>n, <1>p, <2>2, <2>3
  <2>4. CASE tasks' = [tasks EXCEPT ![t] = [k EXCEPT !.phase = "claimable"]]
    BY <1>p, <2>1, <2>2, <2>4
  <2> QED
    BY <1>2, <2>3, <2>4 DEF StarterReads
<1>3. CASE StarterClaims(t)
  <2>1. [k EXCEPT !.phase = "claimed"].file = f /\ [k EXCEPT !.phase = "claimed"].kind = k.kind
    BY <1>0 DEF Task, TaskRecord
  <2>2. UNCHANGED <<pqPath, version, pqContent>> /\ k.kind = "starter"
        /\ tasks' = [tasks EXCEPT ![t] = [k EXCEPT !.phase = "claimed"]]
    BY <1>3 DEF StarterClaims
  <2> QED
    BY <1>p, <2>1, <2>2
<1>4. CASE StarterPublishes(t)
  BY <1>4, <1>s DEF StarterPublishes, fileVars
<1>5. CASE StarterRaises(t)
  BY <1>5, <1>s DEF StarterRaises
<1>6. CASE PassThrough(t)
  BY <1>6, <1>s DEF PassThrough, fileVars
<1>7. CASE StageLoads(t)
  <2>1. PICK seen \in SUBSET {"ingested", "error"} :
            tasks' = [tasks EXCEPT ![t].phase = "loaded", ![t].seen = seen,
                                   ![t].input = IF k.stage = "parquet" THEN version[f] ELSE 0]
    BY <1>7 DEF StageLoads
  <2> DEFINE next == [k EXCEPT !.phase = "loaded", !.seen = seen,
                               !.input = IF k.stage = "parquet" THEN version[f] ELSE 0]
  <2>2. tasks' = [tasks EXCEPT ![t] = next]
    BY <2>1
  <2>3. next.kind = k.kind /\ next.file = f /\ next.stage = k.stage /\ next.phase = "loaded"
        /\ (k.stage = "parquet" => next.input = version[f])
    BY <1>0 DEF Task, TaskRecord
  <2>4. UNCHANGED <<version, pqContent>> /\ (k.stage = "clean" => NeedsCleaning(f))
        /\ pqPath' = IF ForgetsParquet(k.stage, f) THEN [pqPath EXCEPT ![f] = FALSE] ELSE pqPath
    BY <1>7 DEF StageLoads
  <2>5. /\ \A g \in Files : CopyStays(g)
        /\ k.stage = "clean" => ~pqPath'[f]
    BY <1>k, <2>4 DEF CopyStays, ForgetsParquet, TypeOK
  <2> HIDE DEF next
  <2>6. Current(next, pqPath', version', pqContent')
    BY <2>3, <2>4, <2>5 DEF Current
  <2>7. Alone' /\ AllCurrent'
    BY <1>k, <2>2, <2>3, <2>5, <2>6, SlotMovesOn
  <2> QED
    BY <1>0, <2>5, <2>7 DEF FreshInv, ParquetIsFresh, CopyStays
<1>8. CASE StageSkips(t)
  BY <1>8, <1>s DEF StageSkips, fileVars
<1>9. CASE StageUploads(t)
  <2> DEFINE next == [k EXCEPT !.phase = "uploaded"]
  <2>1. next.kind = k.kind /\ next.file = f /\ next.stage = k.stage /\ next.phase = "uploaded"
    BY <1>0 DEF Task, TaskRecord
  <2>2. tasks' = [tasks EXCEPT ![t] = next] /\ pqPath' = pqPath
        /\ k.kind = "stage" /\ k.phase = "loaded"
    BY <1>9 DEF StageUploads, InPhase
  <2>3. Current(k, pqPath, version, pqContent)
    BY <1>0 DEF AllCurrent
  <2> HIDE DEF next
  <2>4. CASE /\ k.stage = "clean"
             /\ version' = [version EXCEPT ![f] = @ + 1] /\ pqContent' = pqContent
    <3>1. ~pqPath[f]
      BY <2>2, <2>3, <2>4 DEF Current
    <3>2. \A g \in Files \ {f} : CopyStays(g)
      BY <1>k, <2>2, <2>4 DEF CopyStays, TypeOK
    <3>3. Current(next, pqPath', version', pqContent')
      BY <2>1, <2>4 DEF Current
    <3>4. Alone' /\ AllCurrent'
      BY <1>k, <2>1, <2>2, <3>2, <3>3, SlotMovesOn
    <3> QED
      BY <1>0, <2>2, <3>1, <3>2, <3>4 DEF FreshInv, ParquetIsFresh, CopyStays
  <2>5. CASE /\ k.stage = "parquet"
             /\ pqContent' = [pqContent EXCEPT ![f] = k.input] /\ version' = version
    <3>1. pqContent'[f] = version[f]
      BY <1>k, <2>2, <2>3, <2>5 DEF Current, TypeOK
    <3>2. \A g \in Files \ {f} : CopyStays(g)
      BY <1>k, <2>2, <2>5 DEF CopyStays, TypeOK
    <3>3. Current(next, pqPath', version', pqContent')
      BY <2>1, <2>5, <3>1 DEF Current
    <3>4. Alone' /\ AllCurrent'
      BY <1>k, <2>1, <2>2, <3>2, <3>3, SlotMovesOn
    <3> QED
      BY <1>0, <2>2, <2>5, <3>1, <3>2, <3>4 DEF FreshInv, ParquetIsFresh, CopyStays
  <2> QED
    BY <1>9, <2>4, <2>5 DEF StageUploads
<1>10. CASE CleanCommits(t)
  BY <1>10, <1>s DEF CleanCommits
<1>11. CASE MetadataCommits(t)
  BY <1>11, <1>s DEF MetadataCommits
<1>12. CASE DescriptionCommits(t)
  <2> DEFINE next == [k EXCEPT !.phase = "described"]
  <2>1. next.kind = k.kind /\ next.file = f /\ next.phase = "described"
    BY <1>0 DEF Task, TaskRecord
  <2>2. tasks' = [tasks EXCEPT ![t] = next] /\ UNCHANGED <<pqPath, version, pqContent>>
    BY <1>12 DEF DescriptionCommits
  <2> HIDE DEF next
  <2> QED
    BY <1>p, <2>1, <2>2
<1>13. CASE DescribedIngested(t)
  BY <1>13, <1>s DEF DescribedIngested
<1>14. CASE ParquetCommits(t)
  <2>1. k.kind = "stage" /\ k.phase = "uploaded" /\ k.stage = "parquet"
        /\ pqPath' = [pqPath EXCEPT ![f] = Exists(f)] /\ UNCHANGED <<version, pqContent>>
        /\ Advance(t, FALSE)
    BY <1>14 DEF ParquetCommits, InPhase
  <2>2. pqContent[f] = version[f]
    BY <1>0, <2>1 DEF AllCurrent, Current
  <2>3. \A g \in Files \ {f} : CopyStays(g)
    BY <1>k, <2>1 DEF CopyStays, TypeOK
  <2>4. Alone' /\ AllCurrent'
    BY <1>k, <2>1, <2>3, AdvanceOneAtATime
  <2> QED
    BY <1>0, <2>1, <2>2, <2>3, <2>4 DEF FreshInv, ParquetIsFresh, CopyStays
<1>15. CASE CompleteCommits(t)
  BY <1>15, <1>s DEF CompleteCommits
<1>16. CASE EnrichmentCommits(t)
  BY <1>16, <1>s DEF EnrichmentCommits, fileVars
<1>17. CASE StageRaises(t)
  BY <1>17, <1>s DEF StageRaises, Fails
<1>18. CASE SourceMissing(t)
  BY <1>18, <1>s DEF SourceMissing
<1> QED
  BY <1>1, <1>2, <1>3, <1>4, <1>5, <1>6, <1>7, <1>8, <1>9, <1>10, <1>11, <1>12, <1>13, <1>14, <1>15,
     <1>16, <1>17, <1>18 DEF Worker

(* A call reserves slots for files that have no task.                         *)
LEMMA ReserveOneAtATime ==
    ASSUME TypeOK, FreshInv, NEW F \in SUBSET Files, \A f \in F : TasksOn(f) = {},
           NEW T, \A s \in Slots : T[s].file = tasks[s].file /\ T[s].kind = tasks[s].kind
                                   /\ Current(T[s], pqPath, version, pqContent),
           NEW p \in Placements(F), NEW scope, NEW n, NEW re,
           tasks' = Reserve(T, F, p, scope, n, re), \A f \in Files : CopyStays(f)
    PROVE  FreshInv'
<1>1. ASSUME NEW f \in F
      PROVE  DispatchOf(f, scope, n, re).file = f /\ DispatchOf(f, scope, n, re).kind = "dispatch"
  BY FreeTaskFields DEF DispatchOf, TaskRecord
<1>2. ASSUME NEW s \in Slots
      PROVE  \/ tasks'[s] = T[s]
             \/ \E f \in F : p[f] = s /\ tasks'[s] = DispatchOf(f, scope, n, re)
  <2>1. CASE \E f \in F : p[f] = s
    <3>1. tasks'[s] = DispatchOf(CHOOSE f \in F : p[f] = s, scope, n, re)
      BY <2>1 DEF Reserve
    <3> QED
      BY <2>1, <3>1
  <2>2. CASE ~\E f \in F : p[f] = s
    BY <2>2 DEF Reserve
  <2> QED
    BY <2>1, <2>2
<1>3. AllCurrent'
  <2> SUFFICES ASSUME NEW s \in Slots
               PROVE  Current(tasks'[s], pqPath', version', pqContent')
    BY DEF AllCurrent
  <2>1. CASE tasks'[s] = T[s] /\ tasks[s].file \in Files
    BY <2>1, CurrentStays
  <2>2. CASE tasks'[s] = T[s] /\ tasks[s].file \notin Files
    <3>1. tasks[s].kind = "free"
      BY <2>2, TaskFields DEF TypeOK
    <3> QED
      BY <2>2, <3>1, CurrentStays
  <2>3. CASE \E f \in F : tasks'[s] = DispatchOf(f, scope, n, re)
    BY <1>1, <2>3, QueuedIsCurrent
  <2> QED
    BY <1>2, <2>1, <2>2, <2>3
<1>4. Alone'
  <2> SUFFICES ASSUME NEW s \in Slots, NEW u \in Slots, tasks'[s].file \in Files,
                      tasks'[s].file = tasks'[u].file
               PROVE  s = u
    BY DEF Alone
  <2>1. \A v \in Slots : tasks[v].file \notin F
    BY DEF TasksOn
  <2>2. ASSUME NEW v \in Slots, tasks'[v].file \in F
        PROVE  p[tasks'[v].file] = v
    BY <1>1, <1>2, <2>1, <2>2
  <2>3. ASSUME NEW v \in Slots, tasks'[v].file \in Files \ F
        PROVE  tasks'[v].file = tasks[v].file
    BY <1>1, <1>2, <2>3
  <2>4. CASE tasks'[s].file \in F
    BY <2>2, <2>4
  <2>5. CASE tasks'[s].file \notin F
    BY <2>3, <2>5 DEF Alone, FreshInv
  <2> QED
    BY <2>4, <2>5
<1> QED
  BY <1>3, <1>4 DEF FreshInv, ParquetIsFresh, CopyStays

LEMMA ApiStaysFresh ==
    ASSUME OneAtATime, TypeOK, FreshInv, Api
    PROVE  FreshInv'
<1>0. AllCurrent /\ Alone /\ ParquetIsFresh /\ ~Impatient
  BY DEF FreshInv, OneAtATime
<1>1. ASSUME NEW F \in SUBSET Files, NEW scope \in Scopes, NEW force \in BOOLEAN,
             Request(F, scope, force)
      PROVE  FreshInv'
  <2>1. PICK p \in Placements(F), n \in {requests'} : tasks' = Reserve(tasks, F, p, scope, n, FALSE)
    BY <1>1 DEF Request
  <2>2. /\ \A f \in F : TasksOn(f) = {}
        /\ \A f \in Files : CopyStays(f)
    BY <1>0, <1>1 DEF Request, CopyStays
  <2> QED
    BY <1>0, <2>1, <2>2, ReserveOneAtATime DEF AllCurrent
<1>2. ASSUME NEW inFlight \in SUBSET Running, NEW force \in BOOLEAN,
             ReingestAll(inFlight, force)
      PROVE  FreshInv'
  <2> DEFINE F == {f \in Files : Exists(f)} \ inFlight
             T == Orphan(tasks, F)
  <2>1. PICK p \in Placements(F), n \in {requests'} : tasks' = Reserve(T, F, p, "ingest", n, TRUE)
    BY <1>2 DEF ReingestAll
  <2>2. /\ \A f \in F : TasksOn(f) = {}
        /\ \A f \in Files : CopyStays(f)
    BY <1>0, <1>2 DEF ReingestAll, CopyStays, TypeOK
  <2>3. ASSUME NEW s \in Slots
        PROVE  T[s].file = tasks[s].file /\ T[s].kind = tasks[s].kind /\ Current(T[s], pqPath, version, pqContent)
    <3>1. tasks[s].file \notin F
      BY <2>2 DEF TasksOn
    <3>2. T[s] = tasks[s]
      BY <3>1 DEF Orphan
    <3> QED
      BY <1>0, <3>2 DEF AllCurrent
  <2> HIDE DEF T, F
  <2>4. F \in SUBSET Files
    BY DEF F
  <2> QED
    BY <2>1, <2>2, <2>3, <2>4, ReserveOneAtATime
<1>3. ASSUME NEW F \in SUBSET Files, DropRows(F), UNCHANGED <<version, pqContent>>
      PROVE  \A f \in Files : CopyStays(f)
  BY <1>3 DEF DropRows, CopyStays
<1>4. ASSUME NEW f \in Files, DeleteFile(f)
      PROVE  FreshInv'
  <2>1. tasks' = tasks /\ \A g \in Files : CopyStays(g)
    BY <1>3, <1>4 DEF DeleteFile
  <2>2. ASSUME NEW s \in Slots
        PROVE  Current(tasks'[s], pqPath', version', pqContent')
    <3>1. tasks[s].kind = "stage" => tasks[s].file \in Files
      BY TaskFields DEF TypeOK
    <3> QED
      BY <1>0, <2>1, <3>1, CurrentStays DEF AllCurrent
  <2> QED
    BY <1>0, <2>1, <2>2 DEF FreshInv, AllCurrent, Alone, ParquetIsFresh, CopyStays
<1>5. CASE SyncContainer
  <2> DEFINE fresh == {f \in Files : status[f] = "not_ingested" /\ blob[f]}
  <2>1. PICK p \in Placements(fresh), n \in {requests'} :
            tasks' = Reserve(tasks, fresh, p, "ingest", n, FALSE)
    BY <1>5 DEF SyncContainer
  <2>2. /\ \A f \in fresh : TasksOn(f) = {}
        /\ \A f \in Files : CopyStays(f)
    BY <1>0, <1>3, <1>5 DEF SyncContainer
  <2>3. fresh \in SUBSET Files
    OBVIOUS
  <2> HIDE DEF fresh
  <2> QED
    BY <1>0, <2>1, <2>2, <2>3, ReserveOneAtATime DEF AllCurrent
<1> QED
  BY <1>1, <1>2, <1>4, <1>5 DEF Api

LEMMA FailureStaysFresh ==
    ASSUME TypeOK, FreshInv, Failure
    PROVE  FreshInv'
<1>0. tasks \in [Slots -> Task] /\ AllCurrent /\ Alone /\ ParquetIsFresh
  BY DEF FreshInv, TypeOK
<1>1. ASSUME UNCHANGED <<pqPath, version, pqContent>>,
             \A s \in Slots : tasks'[s] = tasks[s] \/ tasks'[s] = FreeTask
                              \/ tasks'[s] = Redelivered(tasks[s])
      PROVE  FreshInv'
  <2>1. FreeTask.file = NoFile /\ FreeTask.kind = "free"
    BY FreeTaskFields DEF FreeTask
  <2>2. \A s \in Slots : Redelivered(tasks[s]).file = tasks[s].file
                         /\ Redelivered(tasks[s]).phase = "queued"
    BY <1>0, AgainFields
  <2>3. AllCurrent'
    BY <1>0, <1>1, <2>1, <2>2 DEF AllCurrent, Current
  <2>4. \A s \in Slots : tasks'[s].file = tasks[s].file \/ tasks'[s].file = NoFile
    BY <1>1, <2>1, <2>2
  <2>5. Alone'
    BY <1>0, <2>4, ConstantsOK DEF Alone
  <2> QED
    BY <1>0, <1>1, <2>3, <2>5 DEF FreshInv, ParquetIsFresh
<1>2. ASSUME NEW n \in 0..MaxRequests, DispatchFails(n) \/ ApiLost(n)
      PROVE  FreshInv'
  BY <1>1, <1>2 DEF DispatchFails, ApiLost, fileVars
<1>3. ASSUME NEW t \in Slots, WorkerLost(t) \/ HardTimeLimit(t)
      PROVE  FreshInv'
  BY <1>0, <1>1, <1>3 DEF WorkerLost, HardTimeLimit, fileVars
<1>4. ASSUME NEW f \in Files, BlobLost(f)
      PROVE  FreshInv'
  BY <1>1, <1>4 DEF BlobLost
<1> QED
  BY <1>2, <1>3, <1>4 DEF Failure

LEMMA OneAtATimeHolds ==
    ASSUME OneAtATime
    PROVE  Spec => []FreshInv
<1>1. Init => TypeOK /\ FreshInv
  <2>1. ASSUME Init
        PROVE  FreshInv
    <3>1. \A s \in Slots : tasks[s].file = NoFile /\ tasks[s].kind = "free"
      BY <2>1, FreeTaskFields DEF Init, FreeTask
    <3> QED
      BY <2>1, <3>1, ConstantsOK DEF Init, FreshInv, Alone, AllCurrent, Current, ParquetIsFresh
  <2> QED
    BY <2>1, InitType
<1>2. TypeOK /\ [Next]_vars => TypeOK'
  BY NextType
<1>3. TypeOK /\ FreshInv /\ [Next]_vars => FreshInv'
  <2> SUFFICES ASSUME TypeOK, FreshInv, [Next]_vars
               PROVE  FreshInv'
    OBVIOUS
  <2>1. CASE UNCHANGED vars
    BY <2>1 DEF vars, FreshInv, Alone, AllCurrent, ParquetIsFresh
  <2> QED
    BY <2>1, ApiStaysFresh, FailureStaysFresh, StepStaysFresh DEF Next
<1> QED
  BY <1>1, <1>2, <1>3, PTL DEF Spec

(* The Parquet copy that queries read was made from the present content of the  *)
(* source, for any number of files, requests of any scope, deletions, retries   *)
(* and faults, if users wait for a file and no acknowledgement is lost: two      *)
(* chains of one file would clean and convert it at the same time.              *)
THEOREM CopiesAreFresh ==
    ASSUME OneAtATime
    PROVE  Spec => []ParquetIsFresh
<1>1. FreshInv => ParquetIsFresh
  BY DEF FreshInv
<1> QED
  BY <1>1, OneAtATimeHolds, PTL

(* No two chains work on one file, under the same conditions: nothing else can  *)
(* break the promise of prepare_pipeline and of reingest_all.                  *)
THEOREM ChainsAreAlone ==
    ASSUME OneAtATime
    PROVE  Spec => []OneChainPerFile
<1>1. FreshInv => OneChainPerFile
  <2> SUFFICES ASSUME FreshInv, NEW f \in Files
               PROVE  Cardinality({t \in Slots : Claims(t, f)}) =< 1
    BY DEF OneChainPerFile
  <2>1. \A s, t \in Slots : Claims(s, f) /\ Claims(t, f) => s = t
    BY DEF FreshInv, Alone, Claims
  <2>2. CASE {t \in Slots : Claims(t, f)} = {}
    BY <2>2, FS_EmptySet
  <2>3. ASSUME NEW s \in Slots, Claims(s, f)
        PROVE  Cardinality({t \in Slots : Claims(t, f)}) = 1
    <3>1. {t \in Slots : Claims(t, f)} = {s}
      BY <2>1, <2>3
    <3> QED
      BY <3>1, FS_Singleton
  <2> QED
    BY <2>2, <2>3
<1> QED
  BY <1>1, OneAtATimeHolds, PTL
===============================================================================
