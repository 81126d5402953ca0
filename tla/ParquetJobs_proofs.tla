-------------------------- MODULE ParquetJobs_proofs --------------------------
(***************************************************************************)
(* Theorems about ParquetJobs, for any number of files, jobs and runners.   *)
(***************************************************************************)
EXTENDS ParquetJobs, FiniteSetTheorems, TLAPS

(* The type invariant without the bound on the semaphore.                    *)
Shape ==
    /\ analytics \in [Files -> {"none", "empty", "copy"}]
    /\ quit \in SUBSET Files
    /\ jobFile \in [Jobs -> Files \cup {None}]
    /\ jobState \in [Jobs -> {"unused", "running", "done", "failed", "deleted"}]
    /\ todo \in [Runners -> SUBSET Files]
    /\ cur \in [Runners -> Files \cup {None}]
    /\ curJob \in [Runners -> Jobs \cup {None}]
    /\ pc \in [Runners -> {"new", "idle", "waiting", "converting", "converted", "done", "dead"}]

(* A runner has a file and a job exactly while it is at work on them, no two  *)
(* runners have the same job, and a job that is not running is not in use.   *)
AtWork(r) == pc[r] \in {"waiting", "converting", "converted"}

JobsInUse ==
    /\ Shape
    /\ \A r \in Runners :
           IF AtWork(r)
           THEN /\ curJob[r] \in Jobs /\ cur[r] \in Files
                /\ cur[r] = jobFile[curJob[r]]
                /\ jobState[curJob[r]] # "unused"
           ELSE curJob[r] = None /\ cur[r] = None
    /\ \A r \in Stages : pc[r] = "new" \/ AtWork(r) => todo[r] = {}
    /\ \A r \in Stages : pc[r] = "idle" => todo[r] # {} /\ \A f, g \in todo[r] : f = g
    /\ \A r, s \in Runners : r # s /\ AtWork(r) => curJob[r] # curJob[s]

LEMMA InitJobsInUse == Init => JobsInUse
BY ConstantsOK DEF Init, JobsInUse, Shape, AtWork, Runners

LEMMA NextJobsInUse ==
    ASSUME JobsInUse, [Next]_vars
    PROVE  JobsInUse'
<1> USE ConstantsOK DEF JobsInUse, Shape, AtWork, Runners, jobVars, chainVars
<1>1. ASSUME NEW r \in Runners, RetryClicked(r)
      PROVE  JobsInUse'
  BY <1>1 DEF RetryClicked, WorkList, Missing
<1>2. ASSUME NEW r \in Runners, StageStarted(r)
      PROVE  JobsInUse'
  BY <1>2 DEF StageStarted, Missing
<1>3. ASSUME NEW r \in Runners, JobCreated(r)
      PROVE  JobsInUse'
  <2>1. PICK f \in todo[r], j \in {i \in Jobs : jobState[i] = "unused"} :
            /\ jobFile' = [jobFile EXCEPT ![j] = f]
            /\ jobState' = [jobState EXCEPT ![j] = "running"]
            /\ cur' = [cur EXCEPT ![r] = f]
            /\ curJob' = [curJob EXCEPT ![r] = j]
            /\ todo' = [todo EXCEPT ![r] = @ \ {f}]
    BY <1>3 DEF JobCreated
  <2> QED
    BY <1>3, <2>1 DEF JobCreated
<1>4. ASSUME NEW r \in Runners, Acquire(r) \/ Converted(r)
      PROVE  JobsInUse'
  BY <1>4 DEF Acquire, Converted
<1>5. ASSUME NEW r \in Runners, Recorded(r)
      PROVE  JobsInUse'
  BY <1>5 DEF Recorded, SetJob, Leave, Rest, WithCopy
<1>6. ASSUME NEW r \in Runners, RecordRaises(r)
      PROVE  JobsInUse'
  <2>1. /\ jobState' \in [Jobs -> {"unused", "running", "done", "failed", "deleted"}]
        /\ \A j \in Jobs : jobState[j] # "unused" => jobState'[j] # "unused"
    <3>1. CASE SetJob(r, "failed")
      BY <3>1 DEF SetJob
    <3>2. CASE UNCHANGED jobState
      BY <3>2
    <3> QED
      BY <1>6, <3>1, <3>2 DEF RecordRaises
  <2>2. /\ UNCHANGED <<analytics, quit, jobFile, todo>>
        /\ cur' = [cur EXCEPT ![r] = None] /\ curJob' = [curJob EXCEPT ![r] = None]
        /\ pc' = [pc EXCEPT ![r] = Rest(r)] /\ Rest(r) \in {"done", "idle"}
        /\ r \in Stages => Rest(r) = "done"
        /\ AtWork(r) /\ pc \in [Runners -> {"new", "idle", "waiting", "converting", "converted", "done", "dead"}]
    BY <1>6 DEF RecordRaises, Leave, Rest
  <2>3. /\ pc' \in [Runners -> {"new", "idle", "waiting", "converting", "converted", "done", "dead"}]
        /\ ~AtWork(r)' /\ \A s \in Runners \ {r} : AtWork(s)' <=> AtWork(s)
    BY <2>2
  <2>4. Shape'
    BY <2>1, <2>2, <2>3
  <2>5. \A s \in Runners :
            IF AtWork(s)'
            THEN /\ curJob'[s] \in Jobs /\ cur'[s] \in Files
                 /\ cur'[s] = jobFile'[curJob'[s]]
                 /\ jobState'[curJob'[s]] # "unused"
            ELSE curJob'[s] = None /\ cur'[s] = None
    BY <2>1, <2>2, <2>3
  <2>6. \A s, t \in Runners : s # t /\ AtWork(s)' => curJob'[s] # curJob'[t]
    BY <2>2, <2>3
  <2>7. \A s \in Stages :
            /\ pc'[s] = "new" \/ AtWork(s)' => todo'[s] = {}
            /\ pc'[s] = "idle" => todo'[s] # {} /\ \A f, g \in todo'[s] : f = g
    BY <2>2, <2>3
  <2> QED
    BY <2>4, <2>5, <2>6, <2>7
<1>7. ASSUME NEW r \in Runners, ConversionRaises(r)
      PROVE  JobsInUse'
  BY <1>7 DEF ConversionRaises, Leave, Rest, RestAfterRaise
<1>8. CASE ApiDies
  BY <1>8 DEF ApiDies
<1>9. ASSUME NEW r \in Runners, StageAgain(r)
      PROVE  JobsInUse'
  BY <1>9 DEF StageAgain, Leave
<1>10. ASSUME NEW F \in SUBSET Files, ReingestAll(F)
      PROVE  JobsInUse'
  <2>1. analytics' \in [Files -> {"none", "empty", "copy"}]
    BY <1>10 DEF ReingestAll
  <2> QED
    BY <1>10, <2>1 DEF ReingestAll
<1>11. ASSUME NEW f \in Files, Chain(f)
      PROVE  JobsInUse'
  <2>1. /\ analytics' \in [Files -> {"none", "empty", "copy"}]
        /\ quit' \in SUBSET Files
        /\ UNCHANGED <<jobFile, jobState, todo, cur, curJob, pc>>
    BY <1>11 DEF Chain, StageSkipped, Rebuild, Claimed, CopyForgotten, Cleaned, Described,
                 Completed, ChainEnds
  <2> QED
    BY <2>1
<1>12. CASE UNCHANGED vars
  BY <1>12 DEF vars
<1> QED
  BY <1>1, <1>2, <1>3, <1>4, <1>5, <1>6, <1>7, <1>8, <1>9, <1>10, <1>11, <1>12 DEF Next, Step
-----------------------------------------------------------------------------
(* Only the acquisition of the semaphore adds a holder.                      *)
LEMMA NextHolders ==
    ASSUME JobsInUse, Cardinality(Holders) \in 0..Permits, [Next]_vars
    PROVE  Cardinality(Holders') \in 0..Permits
<1> DEFINE H == Holders
<1>1. IsFiniteSet(H)
  BY FS_Subset, ConstantsOK DEF Holders
<1>2. ASSUME Holders' \subseteq H
      PROVE  Cardinality(Holders') \in 0..Permits
  BY <1>1, <1>2, FS_Subset, FS_CardinalityType, ConstantsOK
<1>3. ASSUME NEW r \in Runners, Acquire(r)
      PROVE  Cardinality(Holders') \in 0..Permits
  <2>1. CASE r \in Loops
    <3>1. Cardinality(H) < Permits
      BY <1>3, <2>1 DEF Acquire, Admitted
    <3>2. Holders' \subseteq H \cup {r}
      BY <1>3 DEF Acquire, Holders, JobsInUse, Shape, Runners
    <3>3. IsFiniteSet(H \cup {r}) /\ Cardinality(H \cup {r}) <= Cardinality(H) + 1
      BY <1>1, FS_AddElement, FS_CardinalityType
    <3> QED
      BY <1>1, <3>1, <3>2, <3>3, FS_Subset, FS_CardinalityType, ConstantsOK
  <2>2. CASE r \notin Loops
    <3>1. Holders' \subseteq H
      BY <1>3, <2>2 DEF Acquire, Holders, JobsInUse, Shape, Runners
    <3> QED
      BY <1>2, <3>1
  <2> QED
    BY <2>1, <2>2
<1>4. ASSUME NEW r \in Runners,
             RetryClicked(r) \/ StageStarted(r) \/ JobCreated(r) \/ Converted(r) \/ Recorded(r)
             \/ RecordRaises(r) \/ ConversionRaises(r) \/ StageAgain(r)
      PROVE  Holders' \subseteq H
  BY <1>4 DEF RetryClicked, StageStarted, JobCreated, Converted, Recorded, RecordRaises,
              ConversionRaises, StageAgain, Leave, Rest, RestAfterRaise, Holders, JobsInUse, Shape,
              Runners
<1>5. ApiDies => Holders' \subseteq H
  BY DEF ApiDies, Holders, Runners
<1>6. ASSUME \/ \E F \in SUBSET Files : ReingestAll(F)
             \/ \E f \in Files : Chain(f)
             \/ UNCHANGED vars
      PROVE  Holders' \subseteq H
  <2>1. UNCHANGED pc
    BY <1>6 DEF ReingestAll, Chain, StageSkipped, Rebuild, Claimed, CopyForgotten, Cleaned,
                Described, Completed, ChainEnds, vars
  <2> QED
    BY <2>1 DEF Holders
<1> HIDE DEF H
<1> QED
  BY <1>2, <1>3, <1>4, <1>5, <1>6 DEF Next, Step

(* A chain only leaves a phase it is in.                                     *)
ChainsOK == chains \in [Files -> [Phases -> Nat]]

LEMMA Moves ==
    ASSUME NEW c \in [Files -> [Phases -> Nat]], NEW f \in Files, NEW p \in Phases
    PROVE  /\ Enters(c, f, p) \in [Files -> [Phases -> Nat]]
           /\ c[f][p] > 0 => Leaves(c, f, p) \in [Files -> [Phases -> Nat]]
BY DEF Enters, Leaves

LEMMA NextChains ==
    ASSUME JobsInUse, ChainsOK, [Next]_vars
    PROVE  ChainsOK'
<1> USE DEF ChainsOK
<1>0. {"clean", "parquet", "complete"} \subseteq Phases
  BY DEF Phases
<1>1. ASSUME NEW r \in Runners, StageStarted(r)
      PROVE  ChainsOK'
  <2>1. PICK f \in Files : chains[f]["parquet"] > 0 /\ chains' = Leaves(chains, f, "parquet")
    BY <1>1 DEF StageStarted, Missing
  <2> QED
    BY <1>0, <2>1, Moves
<1>2. ASSUME NEW r \in Runners, Recorded(r) \/ RecordRaises(r)
      PROVE  ChainsOK'
  <2>1. cur[r] \in Files
    BY <1>2 DEF Recorded, RecordRaises, JobsInUse, AtWork
  <2>2. chains' = GoesOn(r)
    BY <1>2 DEF Recorded, RecordRaises
  <2> QED
    BY <1>0, <2>1, <2>2, Moves DEF GoesOn
<1>3. ASSUME NEW r \in Runners, StageAgain(r)
      PROVE  ChainsOK'
  <2>1. cur[r] \in Files
    BY <1>3 DEF StageAgain, JobsInUse, AtWork
  <2> QED
    BY <1>0, <1>3, <2>1, Moves DEF StageAgain
<1>4. ASSUME NEW F \in SUBSET Files, ReingestAll(F)
      PROVE  ChainsOK'
  <2>1. \A f \in Files : [chains[f] EXCEPT !["clean"] = IF f \in F THEN @ + 1 ELSE @] \in [Phases -> Nat]
    BY <1>0
  <2> QED
    BY <1>4, <2>1 DEF ReingestAll
<1>5. ASSUME NEW f \in Files, StageSkipped(f) \/ Cleaned(f)
      PROVE  ChainsOK'
  <2>1. PICK p \in Phases, q \in Phases : chains[f][p] > 0 /\ chains' = Enters(Leaves(chains, f, p), f, q)
    BY <1>0, <1>5 DEF StageSkipped, Cleaned
  <2>2. Leaves(chains, f, p) \in [Files -> [Phases -> Nat]]
    BY <2>1, Moves
  <2> QED
    BY <2>1, <2>2, Moves
<1>6. ASSUME NEW f \in Files, Rebuild(f) \/ Completed(f) \/ \E p \in Phases : ChainEnds(f, p)
      PROVE  ChainsOK'
  BY <1>0, <1>6, Moves DEF Rebuild, Completed, ChainEnds
<1>7. ASSUME \/ \E r \in Runners : RetryClicked(r) \/ JobCreated(r) \/ Acquire(r) \/ Converted(r)
                                \/ ConversionRaises(r)
             \/ ApiDies
             \/ \E f \in Files : Claimed(f) \/ CopyForgotten(f) \/ Described(f)
             \/ UNCHANGED vars
      PROVE  ChainsOK'
  BY <1>7 DEF RetryClicked, JobCreated, Acquire, Converted, ConversionRaises, ApiDies, Claimed,
              CopyForgotten, Described, vars, chainVars
<1> QED
  BY <1>1, <1>2, <1>3, <1>4, <1>5, <1>6, <1>7 DEF Next, Step, Chain

LEMMA NextType ==
    ASSUME TypeOK, JobsInUse, JobsInUse', [Next]_vars
    PROVE  TypeOK'
<1>1. Cardinality(Holders') \in 0..Permits
  BY NextHolders DEF TypeOK
<1>2. /\ ingested' \in [Files -> BOOLEAN]
      /\ reingests' \in 0..MaxReingests
      /\ faults' \in 0..MaxFaults
  <2> USE ConstantsOK DEF TypeOK, CanFault
  <2>1. ASSUME NEW r \in Runners,
               RetryClicked(r) \/ StageStarted(r) \/ JobCreated(r) \/ Acquire(r)
               \/ Converted(r) \/ Recorded(r)
        PROVE  UNCHANGED <<ingested, reingests, faults>>
    BY <2>1 DEF RetryClicked, StageStarted, JobCreated, Acquire, Converted, Recorded
  <2>2. ASSUME \/ \E r \in Runners : RecordRaises(r) \/ ConversionRaises(r) \/ StageAgain(r)
               \/ ApiDies
        PROVE  UNCHANGED <<ingested, reingests>> /\ faults' \in 0..MaxFaults
    BY <2>2 DEF RecordRaises, ConversionRaises, StageAgain, ApiDies
  <2>3. ASSUME NEW F \in SUBSET Files, ReingestAll(F)
        PROVE  /\ ingested' \in [Files -> BOOLEAN]
               /\ reingests' \in 0..MaxReingests
               /\ faults' = faults
    <3>1. \A f \in Files : (ingested[f] /\ f \notin F) \in BOOLEAN
      OBVIOUS
    <3> QED
      BY <2>3, <3>1 DEF ReingestAll
  <2>4. ASSUME NEW f \in Files, Rebuild(f)
        PROVE  ingested' = ingested /\ faults' = faults /\ reingests' \in 0..MaxReingests
    BY <2>4 DEF Rebuild
  <2>5. ASSUME NEW f \in Files, NEW p \in Phases, ChainEnds(f, p)
        PROVE  ingested' \in [Files -> BOOLEAN] /\ reingests' = reingests /\ faults' \in 0..MaxFaults
    <3>1. ingested' \in [Files -> BOOLEAN]
      BY <2>5 DEF ChainEnds
    <3>2. reingests' = reingests /\ faults' \in 0..MaxFaults
      BY <2>5 DEF ChainEnds
    <3> QED
      BY <3>1, <3>2
  <2>6. ASSUME NEW f \in Files,
               \/ StageSkipped(f) \/ Claimed(f) \/ CopyForgotten(f) \/ Cleaned(f)
               \/ Described(f) \/ Completed(f)
        PROVE  ingested' \in [Files -> BOOLEAN] /\ UNCHANGED <<reingests, faults>>
    BY <2>6 DEF StageSkipped, Claimed, CopyForgotten, Cleaned, Described, Completed
  <2>7. UNCHANGED vars => UNCHANGED <<ingested, reingests, faults>>
    BY DEF vars
  <2> QED
    BY <2>1, <2>2, <2>3, <2>4, <2>5, <2>6, <2>7 DEF Next, Step, Chain
<1>3. Shape'
  BY DEF JobsInUse
<1>4. chains' \in [Files -> [Phases -> Nat]]
  BY NextChains DEF TypeOK, ChainsOK
<1> QED
  BY <1>1, <1>2, <1>3, <1>4 DEF TypeOK, Shape

(* Every state has its type, and never do more conversions run in the API     *)
(* process than its semaphore has permits.                                   *)
THEOREM TypeCorrect == Spec => []TypeOK
<1>1. Init => TypeOK
  <2>1. ASSUME Init
        PROVE  Holders = {}
    BY <2>1 DEF Init, Holders, Runners
  <2>2. ASSUME Init
        PROVE  TypeOK
    <3>1. chains \in [Files -> [Phases -> Nat]]
      BY <2>2 DEF Init
    <3>2. Cardinality(Holders) \in 0..Permits
      BY <2>1, <2>2, FS_EmptySet, ConstantsOK
    <3> QED
      BY <2>2, <3>1, <3>2, ConstantsOK DEF Init, TypeOK
  <2> QED
    BY <2>2
<1>2. JobsInUse /\ [Next]_vars => JobsInUse'
  BY NextJobsInUse
<1>3. TypeOK /\ JobsInUse /\ JobsInUse' /\ [Next]_vars => TypeOK'
  BY NextType
<1> QED
  BY <1>1, <1>2, <1>3, InitJobsInUse, PTL DEF Spec
-----------------------------------------------------------------------------
(* The job of a runner at work stays "running" until a reingest deletes it.  *)
Unclaimed == \A r \in Runners : AtWork(r) => jobState[curJob[r]] \in {"running", "deleted"}

LEMMA NextUnclaimed ==
    ASSUME JobsInUse, Unclaimed, [Next]_vars
    PROVE  Unclaimed'
<1> USE ConstantsOK DEF JobsInUse, Shape, AtWork, Unclaimed, Runners, jobVars, chainVars
<1>1. ASSUME NEW r \in Runners, RetryClicked(r) \/ StageStarted(r) \/ Acquire(r) \/ Converted(r)
      PROVE  Unclaimed'
  BY <1>1 DEF RetryClicked, StageStarted, Acquire, Converted
<1>2. ASSUME NEW r \in Runners, JobCreated(r)
      PROVE  Unclaimed'
  BY <1>2 DEF JobCreated
<1>3. ASSUME NEW r \in Runners, Recorded(r)
      PROVE  Unclaimed'
  BY <1>3 DEF Recorded, SetJob, Leave, Rest
<1>4. ASSUME NEW r \in Runners, RecordRaises(r)
      PROVE  Unclaimed'
  <2>1. \A j \in Jobs \ {curJob[r]} : jobState'[j] = jobState[j]
    BY <1>4 DEF RecordRaises, SetJob
  <2> QED
    BY <1>4, <2>1 DEF RecordRaises, Leave, Rest
<1>5. ASSUME NEW r \in Runners, ConversionRaises(r)
      PROVE  Unclaimed'
  BY <1>5 DEF ConversionRaises, Leave, Rest, RestAfterRaise
<1>6. CASE ApiDies
  BY <1>6 DEF ApiDies
<1>7. ASSUME NEW r \in Runners, StageAgain(r)
      PROVE  Unclaimed'
  BY <1>7 DEF StageAgain, Leave
<1>8. ASSUME NEW F \in SUBSET Files, ReingestAll(F)
      PROVE  Unclaimed'
  BY <1>8 DEF ReingestAll, DroppedJobs
<1>9. ASSUME NEW f \in Files, Chain(f)
      PROVE  Unclaimed'
  <2>1. UNCHANGED <<jobState, curJob, pc>>
    BY <1>9 DEF Chain, StageSkipped, Rebuild, Claimed, CopyForgotten, Cleaned, Described,
                Completed, ChainEnds
  <2> QED
    BY <2>1
<1>10. CASE UNCHANGED vars
  BY <1>10 DEF vars
<1> QED
  BY <1>1, <1>2, <1>3, <1>4, <1>5, <1>6, <1>7, <1>8, <1>9, <1>10 DEF Next, Step

(* A click never lists a file that a chain or an earlier click is converting, *)
(* whatever fails, dies or is started again, unless a reingest has deleted its *)
(* job.                                                                      *)
THEOREM ClicksLeaveConversionsAlone == Spec => ClickLeavesConversionsAlone
<1>1. Init => Unclaimed
  BY DEF Init, Unclaimed, AtWork
<1>2. JobsInUse /\ Unclaimed /\ [Next]_vars => JobsInUse' /\ Unclaimed'
  BY NextJobsInUse, NextUnclaimed
<1> DEFINE LeavesAlone == \A r \in Loops, s \in Runners :
                              /\ pc[r] = "new" /\ pc'[r] = "idle"
                              /\ curJob[s] \in Jobs /\ jobState[curJob[s]] # "deleted"
                              => cur[s] \notin todo'[r]
<1>3. JobsInUse /\ Unclaimed /\ [Next]_vars => [LeavesAlone]_vars
  <2> SUFFICES ASSUME JobsInUse, Unclaimed, Next, NEW r \in Loops, NEW s \in Runners,
                      pc[r] = "new", pc'[r] = "idle",
                      curJob[s] \in Jobs, jobState[curJob[s]] # "deleted"
               PROVE  cur[s] \notin todo'[r]
    OBVIOUS
  <2> USE ConstantsOK DEF JobsInUse, Shape, AtWork, Unclaimed, Runners, jobVars
  <2>1. RetryClicked(r)
    <3>1. ASSUME NEW q \in Runners, Step(q) \/ StageStarted(q) \/ StageAgain(q)
          PROVE  FALSE
      BY <3>1 DEF Step, StageStarted, StageAgain, JobCreated, Acquire, Converted, Recorded,
                  RecordRaises, ConversionRaises, Leave, Rest, RestAfterRaise
    <3>2. ~ApiDies
      BY DEF ApiDies
    <3>3. ASSUME NEW q \in Runners, RetryClicked(q)
          PROVE  q = r
      BY <3>3 DEF RetryClicked
    <3>4. (\A F \in SUBSET Files : ~ReingestAll(F)) /\ (\A f \in Files : ~Chain(f))
      BY DEF ReingestAll, Chain, StageSkipped, Rebuild, Claimed, CopyForgotten, Cleaned,
             Described, Completed, ChainEnds
    <3> QED
      BY <3>1, <3>2, <3>3, <3>4 DEF Next
  <2>2. todo'[r] \subseteq Files \ InFlight
    BY <2>1 DEF RetryClicked, WorkList, Missing
  <2>3. CASE AtWork(s)
    <3>1. cur[s] \in InFlight
      BY <2>3 DEF InFlight
    <3> QED
      BY <2>2, <3>1
  <2>4. CASE ~AtWork(s)
    BY <2>2, <2>4
  <2> QED
    BY <2>3, <2>4
<1> QED
  BY <1>1, <1>2, <1>3, InitJobsInUse, PTL DEF Spec, ClickLeavesConversionsAlone
-----------------------------------------------------------------------------
(* The inductive form: the file of a job that is done and the last of its     *)
(* file.  A conversion is started with a newer job, so a chain at work on one *)
(* need not be counted among those ahead.                                    *)
Explained(j) ==
    /\ jobFile[j] \in Files
    /\ analytics[jobFile[j]] = "copy" \/ ChainAhead(jobFile[j]) \/ jobFile[j] \in quit

Copied ==
    /\ \A j \in Jobs : jobState[j] = "unused" <=> jobFile[j] = None
    /\ \A i, j \in Jobs : i < j /\ jobState[i] = "unused" => jobState[j] = "unused"
    /\ \A j \in Jobs : jobState[j] = "done" /\ IsLatest(j) => Explained(j)

Covered(f) == analytics[f] = "copy" \/ ChainAhead(f) \/ f \in quit

(* A step that leaves the job rows alone and every file covered.             *)
LEMMA KeepsCopied ==
    ASSUME Copied, UNCHANGED jobVars, \A f \in Files : Covered(f) => Covered(f)'
    PROVE  Copied'
<1>1. \A j \in Jobs : IsLatest(j)' <=> IsLatest(j)
  BY DEF IsLatest, Rows, jobVars
<1> QED
  BY <1>1 DEF Copied, Explained, Covered, jobVars

LEMMA ChainCovers ==
    ASSUME JobsInUse, ChainsOK, NEW f \in Files, Chain(f), NEW g \in Files, Covered(g)
    PROVE  Covered(g)'
<1> USE DEF JobsInUse, Shape, ChainsOK, Covered, ChainAhead, Leaves, Enters, Phases
<1>1. CASE StageSkipped(f)
  BY <1>1 DEF StageSkipped, Missing
<1>2. CASE Rebuild(f)
  BY <1>2 DEF Rebuild
<1>3. CASE CopyForgotten(f)
  BY <1>3 DEF CopyForgotten, chainVars
<1>4. CASE Cleaned(f)
  <2>1. analytics[g] = "copy" => analytics'[g] = "copy"
    BY <1>4 DEF Cleaned
  <2> QED
    BY <1>4, <2>1 DEF Cleaned
<1>5. CASE Claimed(f) \/ Described(f)
  BY <1>5 DEF Claimed, Described, chainVars
<1>6. CASE Completed(f)
  BY <1>6 DEF Completed
<1>7. ASSUME NEW p \in Phases, ChainEnds(f, p)
      PROVE  Covered(g)'
  BY <1>7 DEF ChainEnds, Missing
<1> QED
  BY <1>1, <1>2, <1>3, <1>4, <1>5, <1>6, <1>7 DEF Chain

LEMMA NextCopied ==
    ASSUME JobsInUse, ChainsOK, Copied, [Next]_vars
    PROVE  Copied'
<1> USE ConstantsOK DEF JobsInUse, Shape, AtWork, Runners
<1>1. ASSUME NEW r \in Runners, JobCreated(r)
      PROVE  Copied'
  <2>1. PICK f \in todo[r], j \in {i \in Jobs : jobState[i] = "unused"} :
            /\ \A i \in Jobs : i < j => jobState[i] # "unused"
            /\ jobFile' = [jobFile EXCEPT ![j] = f]
            /\ jobState' = [jobState EXCEPT ![j] = "running"]
            /\ todo' = [todo EXCEPT ![r] = @ \ {f}]
    BY <1>1 DEF JobCreated
  <2>2. UNCHANGED <<analytics, chains, quit>>
    BY <1>1 DEF JobCreated, chainVars
  <2>3. f \in Files /\ f # None
    BY <2>1
  <2>4. \A i \in Jobs : i # j /\ jobState[i] # "unused" => i < j
    BY <2>1 DEF Copied
  <2>5. ASSUME NEW k \in Jobs, jobState'[k] = "done", IsLatest(k)'
        PROVE  jobState[k] = "done" /\ jobFile'[k] = jobFile[k] /\ jobFile[k] # f /\ k # j
    <3>1. k # j /\ jobState[k] = "done" /\ jobFile'[k] = jobFile[k]
      BY <2>1, <2>5
    <3>2. k < j
      BY <2>4, <3>1
    <3>3. jobFile[k] = f => j \in Rows(jobFile[k])'
      BY <2>1, <3>1 DEF Rows
    <3> QED
      BY <2>5, <3>1, <3>2, <3>3 DEF IsLatest
  <2>6. ASSUME NEW k \in Jobs, jobState'[k] = "done", IsLatest(k)'
        PROVE  Explained(k)'
    <3>1. Rows(jobFile[k]) \subseteq Rows(jobFile[k])'
      BY <2>1, <2>5, <2>6 DEF Rows
    <3>2. IsLatest(k)
      BY <2>5, <2>6, <3>1 DEF IsLatest
    <3>3. Explained(k)
      BY <2>5, <2>6, <3>2 DEF Copied
    <3>4. ChainAhead(jobFile[k]) => ChainAhead(jobFile[k])'
      BY <2>1, <2>2, <2>5, <2>6 DEF ChainAhead
    <3> QED
      BY <2>2, <2>5, <2>6, <3>3, <3>4 DEF Explained
  <2>7. /\ \A i \in Jobs : jobState'[i] = "unused" <=> jobFile'[i] = None
        /\ \A i, k \in Jobs : i < k /\ jobState'[i] = "unused" => jobState'[k] = "unused"
    BY <2>1, <2>3 DEF Copied
  <2> QED
    BY <2>6, <2>7 DEF Copied
<1>2. ASSUME NEW r \in Runners, Recorded(r) \/ RecordRaises(r)
      PROVE  Copied'
  <2>1. /\ curJob[r] \in Jobs /\ cur[r] \in Files /\ cur[r] = jobFile[curJob[r]]
        /\ jobState[curJob[r]] # "unused"
        /\ UNCHANGED <<jobFile, todo>>
    BY <1>2 DEF Recorded, RecordRaises, Leave
  <2>2. \A k \in Jobs :
            /\ jobState'[k] = "unused" <=> jobState[k] = "unused"
            /\ jobState'[k] = "deleted" <=> jobState[k] = "deleted"
            /\ jobState'[k] = "done" => jobState[k] = "done" \/ (k = curJob[r] /\ Recorded(r))
    <3>1. CASE Recorded(r)
      BY <2>1, <3>1 DEF Recorded, SetJob
    <3>2. CASE RecordRaises(r) /\ SetJob(r, "failed")
      BY <2>1, <3>2 DEF SetJob
    <3>3. CASE RecordRaises(r) /\ UNCHANGED jobState
      BY <3>3
    <3> QED
      BY <1>2, <3>1, <3>2, <3>3 DEF RecordRaises
  <2>3. \A k \in Jobs : IsLatest(k)' <=> IsLatest(k)
    BY <2>1, <2>2 DEF IsLatest, Rows
  <2>4. \A f \in Files : ChainAhead(f) => ChainAhead(f)'
    BY <1>2, <2>1 DEF Recorded, RecordRaises, GoesOn, Enters, ChainAhead, ChainsOK, Phases
  <2>5. \A f \in Files : Covered(f) => Covered(f)'
    BY <1>2, <2>1, <2>4 DEF Recorded, RecordRaises, WithCopy, Covered
  <2>6. Recorded(r) => analytics'[cur[r]] = "copy"
    BY <2>1 DEF Recorded, WithCopy
  <2>7. ASSUME NEW k \in Jobs, jobState'[k] = "done", IsLatest(k)'
        PROVE  Explained(k)'
    BY <2>1, <2>2, <2>3, <2>5, <2>6, <2>7 DEF Copied, Explained, Covered
  <2> QED
    BY <2>1, <2>2, <2>7 DEF Copied
<1>3. ASSUME NEW F \in SUBSET Files, ReingestAll(F)
      PROVE  Copied'
  <2>1. \A k \in Jobs : jobState'[k] = IF jobFile[k] \in F THEN "deleted" ELSE jobState[k]
    BY <1>3 DEF ReingestAll, DroppedJobs
  <2>2. UNCHANGED <<jobFile, todo, quit>>
    BY <1>3 DEF ReingestAll
  <2>3. ASSUME NEW k \in Jobs, jobState'[k] = "done", IsLatest(k)'
        PROVE  Explained(k)'
    <3>1. jobState[k] = "done" /\ jobFile[k] \notin F
      BY <2>1, <2>3
    <3>2. IsLatest(k)
      BY <2>1, <2>2, <2>3, <3>1 DEF IsLatest, Rows
    <3>3. Explained(k)
      BY <3>1, <3>2 DEF Copied
    <3>4. chains'[jobFile[k]] = chains[jobFile[k]] /\ analytics'[jobFile[k]] = analytics[jobFile[k]]
      BY <1>3, <3>1, <3>3 DEF ReingestAll, Explained, ChainsOK
    <3> QED
      BY <2>2, <3>3, <3>4 DEF Explained, ChainAhead
  <2>4. \A k \in Jobs : jobState'[k] = "unused" <=> jobState[k] = "unused"
    BY <2>1 DEF Copied
  <2> QED
    BY <2>2, <2>3, <2>4 DEF Copied
<1>4. ASSUME NEW r \in Runners, StageStarted(r)
      PROVE  Copied'
  <2>1. PICK f \in Files :
            /\ chains' = Leaves(chains, f, "parquet")
            /\ todo' = [todo EXCEPT ![r] = {f}]
    BY <1>4 DEF StageStarted, Missing
  <2>2. r \in Stages /\ UNCHANGED <<analytics, quit, jobVars>> /\ pc[r] = "new"
    BY <1>4 DEF StageStarted, jobVars
  <2>3. ASSUME NEW g \in Files, Covered(g)
        PROVE  Covered(g)'
    BY <2>1, <2>2, <2>3 DEF Covered, ChainAhead, Leaves, ChainsOK, Phases
  <2> QED
    BY <2>2, <2>3, KeepsCopied
<1>5. ASSUME NEW r \in Runners, StageAgain(r)
      PROVE  Copied'
  <2>1. \A f \in Files : ChainAhead(f) => ChainAhead(f)'
    BY <1>5 DEF StageAgain, Leave, Enters, ChainAhead, ChainsOK, Phases
  <2> QED
    BY <1>5, <2>1, KeepsCopied DEF StageAgain, Covered
<1>6. ASSUME \/ \E r \in Runners : RetryClicked(r) \/ Acquire(r) \/ Converted(r) \/ ConversionRaises(r)
             \/ ApiDies
      PROVE  Copied'
  <2>1. /\ UNCHANGED <<analytics, chains, quit, jobVars>>
        /\ \A s \in Stages : todo'[s] = todo[s]
    <3>1. ASSUME NEW r \in Runners, RetryClicked(r)
          PROVE  \A s \in Stages : todo'[s] = todo[s]
      BY <3>1 DEF RetryClicked
    <3>2. ASSUME ApiDies
          PROVE  \A s \in Stages : todo'[s] = todo[s]
      BY <3>2 DEF ApiDies
    <3>3. ASSUME NEW r \in Runners, Acquire(r) \/ Converted(r) \/ ConversionRaises(r)
          PROVE  \A s \in Stages : todo'[s] = todo[s]
      BY <3>3 DEF Acquire, Converted, ConversionRaises, Leave
    <3>4. UNCHANGED <<analytics, chains, quit, jobVars>>
      BY <1>6 DEF RetryClicked, Acquire, Converted, ConversionRaises, ApiDies, chainVars
    <3> QED
      BY <1>6, <3>1, <3>2, <3>3, <3>4
  <2> QED
    BY <2>1, KeepsCopied DEF Covered, ChainAhead
<1>7. ASSUME NEW f \in Files, Chain(f)
      PROVE  Copied'
  <2>1. UNCHANGED jobVars
    BY <1>7 DEF Chain, StageSkipped, Rebuild, Claimed, CopyForgotten, Cleaned, Described,
                Completed, ChainEnds, jobVars
  <2> QED
    BY <1>7, <2>1, ChainCovers, KeepsCopied
<1>8. CASE UNCHANGED vars
  BY <1>8, KeepsCopied DEF vars, chainVars, Covered, ChainAhead
<1> QED
  BY <1>1, <1>2, <1>3, <1>4, <1>5, <1>6, <1>7, <1>8 DEF Next, Step

(* The last job of a file without a copy says "done" only while a chain of    *)
(* the file is on its way to its conversion, or after one ended before it, in *)
(* all executions: with any faults, chains that overlap, and reingests that   *)
(* delete rows while conversions are under way.                              *)
THEOREM DoneJobsHaveCopies == Spec => []DoneJobHasCopy
<1>1. Init => ChainsOK /\ Copied
  BY ConstantsOK DEF Init, ChainsOK, Copied
<1>2. JobsInUse /\ ChainsOK /\ Copied /\ [Next]_vars => JobsInUse' /\ ChainsOK' /\ Copied'
  BY NextJobsInUse, NextChains, NextCopied
<1>3. Copied => DoneJobHasCopy
  BY DEF Copied, Explained, DoneJobHasCopy, Missing
<1> QED
  BY <1>1, <1>2, <1>3, InitJobsInUse, PTL DEF Spec
===============================================================================
