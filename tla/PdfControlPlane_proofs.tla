------------------------ MODULE PdfControlPlane_proofs ------------------------
(***************************************************************************)
(* Theorems about PdfControlPlane, for any number of documents, pages,      *)
(* upload handlers and deliveries.                                          *)
(***************************************************************************)
EXTENDS PdfControlPlane, TLAPS

Delivery ==
    [phase : {"idle", "started", "loaded", "refused", "ending", "committed"},
     tries : 0..MaxRetries,
     outcome : (PageStatuses \ {"absent", "pending"}) \cup {"none"}]

LEMMA InitType == Init => TypeOK
BY ConstantsOK DEF Init, TypeOK, DocStatuses, PageStatuses, Uploads, Tasks, Idle

LEMMA FaultType ==
    ASSUME TypeOK, NEW x, Fault(x)
    PROVE  faults' \in 0..MaxFaults
BY ConstantsOK DEF TypeOK, Fault, CanFault

(* What a worker leaves of its delivery when the work is done.               *)
LEMMA EndsType ==
    ASSUME TypeOK, NEW k \in Tasks, NEW o \in (PageStatuses \ {"absent", "pending"}) \cup {"none"},
           Ends(k, o)
    PROVE  work' \in [Tasks -> Delivery]
<1>1. work[k] \in Delivery
  BY DEF TypeOK, Delivery
<1>2. [work[k] EXCEPT !.phase = "ending", !.outcome = o] \in Delivery
  BY <1>1 DEF Delivery
<1>3. work' = [work EXCEPT ![k] = [work[k] EXCEPT !.phase = "ending", !.outcome = o]]
  BY DEF Ends, TypeOK
<1> QED
  BY <1>2, <1>3 DEF TypeOK, Delivery

LEMMA HandlerType ==
    ASSUME TypeOK, NEW h \in Handlers, Handler(h) \/ HandlerLost(h)
    PROVE  TypeOK'
<1> USE ConstantsOK DEF TypeOK, rows, handlerVars, workerVars, otherVars, Uploads, Tasks
<1>1. ASSUME NEW x \in Keys, Decides(h, x)
      PROVE  TypeOK'
  <2>1. hup' \in [Handlers -> 0..MaxUploads]
    <3>1. CASE UNCHANGED hup
      BY <3>1
    <3>2. ASSUME NEW u \in Uploads, hup' = [hup EXCEPT ![h] = u]
          PROVE  hup' \in [Handlers -> 0..MaxUploads]
      BY <3>2
    <3> QED
      BY <1>1, <3>1, <3>2 DEF Decides
  <2>2. hpc' \in [Handlers -> {"new", "decided", "sending", "accepted", "rejected",
                             "skipped", "error"}]
    <3>1. \A st : DecideDedup(st) \in {"decided", "skipped"}
      BY DEF DecideDedup
    <3>2. PICK decision \in {"decided", "skipped"} : hpc' = [hpc EXCEPT ![h] = decision]
      BY <1>1, <3>1 DEF Decides
    <3> QED
      BY <3>2
  <2> QED
    BY <1>1, <2>1, <2>2 DEF Decides
<1>2. CASE Rejected(h)
  BY <1>2 DEF Rejected, DocStatuses
<1>3. CASE Flushes(h)
  BY <1>3 DEF Flushes
<1>4. CASE Commits(h)
  <2>1. page' \in [Tasks -> PageStatuses]
    BY <1>4 DEF Commits, PageStatuses
  <2>2. doc' \in [Uploads -> DocStatuses] /\ key' \in [Uploads -> Keys \cup {"none"}]
    BY <1>4 DEF Commits, DocStatuses
  <2> QED
    BY <1>4, <2>1, <2>2 DEF Commits
<1>5. ASSUME NEW p \in Pages, Enqueues(h, p)
      PROVE  TypeOK'
  <2>1. queue' \in [Tasks -> SUBSET (0..MaxRetries)]
    <3>1. \A k \in Tasks : queue[k] \cup {0} \in SUBSET (0..MaxRetries)
      OBVIOUS
    <3>2. queue' = [queue EXCEPT ![<<hup[h], p>>] = @ \cup {0}]
      BY <1>5 DEF Enqueues
    <3> HIDE DEF Tasks
    <3> QED
      BY <3>1, <3>2
  <2>2. hsent' \in [Handlers -> SUBSET Pages]
    BY <1>5 DEF Enqueues
  <2> QED
    BY <1>5, <2>1, <2>2 DEF Enqueues
<1>6. CASE HandlerLost(h)
  BY <1>6, FaultType DEF HandlerLost
<1> QED
  BY <1>1, <1>2, <1>3, <1>4, <1>5, <1>6 DEF Handler

LEMMA WorkerType ==
    ASSUME TypeOK, NEW k \in Tasks,
           Worker(k) \/ WorkerLost(k) \/ RaisesUnexpected(k) \/ DeadLetterLost(k)
    PROVE  TypeOK'
<1>0. work \in [Tasks -> Delivery]
  BY DEF TypeOK, Delivery
<1>1. /\ {"succeeded", "failed_terminal", "failed_retryable", "running", "none"}
             \subseteq (PageStatuses \ {"absent", "pending"}) \cup {"none"}
      /\ Idle \in Delivery
  BY ConstantsOK DEF PageStatuses, Delivery, Idle
<1>2. ASSUME NEW t \in queue[k], Starts(k, t)
      PROVE  TypeOK'
  <2>1. [phase |-> "started", tries |-> t, outcome |-> "none"] \in Delivery
    BY DEF TypeOK, Delivery
  <2> QED
    BY <1>2, <2>1 DEF Starts, TypeOK, Delivery, rows, handlerVars, otherVars
<1>3. CASE Loads(k)
  <2>1. ASSUME NEW ph \in {"loaded", "refused"}
        PROVE  [work[k] EXCEPT !.phase = ph] \in Delivery
    BY <1>0 DEF Delivery
  <2> QED
    BY <1>0, <1>3, <2>1 DEF Loads, TypeOK, Delivery, rows, handlerVars, otherVars
<1>4. CASE Succeeds(k)
  BY <1>1, <1>4, EndsType DEF Succeeds, TypeOK, Delivery, rows, handlerVars, otherVars
<1>5. CASE Retries(k)
  <2>1. work[k].tries + 1 \in 0..MaxRetries
    BY <1>0, <1>5, ConstantsOK DEF Retries, AttemptsLeft, Delivery
  <2>2. queue' \in [Tasks -> SUBSET (0..MaxRetries)]
    BY <1>5, <2>1 DEF Retries, RetryMessages, TypeOK
  <2>3. work' \in [Tasks -> Delivery]
    BY <1>1, <1>5, EndsType DEF Retries
  <2> QED
    BY <1>5, <2>2, <2>3 DEF Retries, TypeOK, Delivery, rows, handlerVars, otherVars
<1>6. CASE GivesUp(k)
  <2>1. work' \in [Tasks -> Delivery]
    BY <1>1, <1>6, EndsType DEF GivesUp
  <2> QED
    BY <1>6, <2>1 DEF GivesUp, DeadLetters, TypeOK, Delivery, rows, handlerVars, otherVars
<1>7. CASE DeadLetterLost(k)
  <2>1. work' \in [Tasks -> Delivery]
    BY <1>1, <1>7, EndsType DEF DeadLetterLost
  <2> QED
    BY <1>7, <2>1, FaultType DEF DeadLetterLost, TypeOK, Delivery, rows, handlerVars, otherVars
<1>8. CASE RaisesUnexpected(k)
  <2>1. work' \in [Tasks -> Delivery]
    BY <1>1, <1>8, EndsType DEF RaisesUnexpected
  <2> QED
    BY <1>8, <2>1, FaultType DEF RaisesUnexpected, TypeOK, Delivery, rows, handlerVars, otherVars
<1>9. CASE PageCommits(k)
  <2>1. [work[k] EXCEPT !.phase = "committed"] \in Delivery
    BY <1>0 DEF Delivery
  <2>2. work[k].outcome \in PageStatuses \cup {"none"}
    BY <1>0 DEF Delivery
  <2> QED
    BY <1>0, <1>9, <2>1, <2>2 DEF PageCommits, TypeOK, Delivery, handlerVars, otherVars
<1>10. CASE Acknowledged(k)
  BY <1>1, <1>10 DEF Acknowledged, TypeOK, Delivery, rows, handlerVars, otherVars
<1>11. CASE WorkerLost(k)
  <2>1. work[k].tries \in 0..MaxRetries
    BY <1>0 DEF Delivery
  <2>2. faults' \in 0..MaxFaults
    BY <1>11, FaultType DEF WorkerLost
  <2> QED
    BY <1>1, <1>11, <2>1, <2>2 DEF WorkerLost, TypeOK, Delivery, rows, handlerVars, otherVars
<1> QED
  BY <1>2, <1>3, <1>4, <1>5, <1>6, <1>7, <1>8, <1>9, <1>10, <1>11 DEF Worker

LEMMA DocumentType ==
    ASSUME TypeOK, NEW u \in Uploads,
           ReconcileReads(u) \/ ReconcileWrites(u) \/ SoftDelete(u) \/ CleanUp(u)
    PROVE  TypeOK'
<1> USE DEF TypeOK, rows, handlerVars, workerVars, otherVars
<1>1. CASE ReconcileReads(u)
  BY <1>1 DEF ReconcileReads, ReconcileDocumentStatus, DocStatuses
<1>2. CASE ReconcileWrites(u)
  BY <1>2 DEF ReconcileWrites, DocStatuses
<1>3. CASE SoftDelete(u)
  BY <1>3 DEF SoftDelete, DocStatuses
<1>4. CASE CleanUp(u)
  BY <1>4 DEF CleanUp
<1> QED
  BY <1>1, <1>2, <1>3, <1>4

LEMMA NextType ==
    ASSUME TypeOK, [Next]_vars
    PROVE  TypeOK'
<1>1. CASE Next
  BY <1>1, HandlerType, WorkerType, DocumentType DEF Next
<1>2. CASE UNCHANGED vars
  BY <1>2 DEF vars, rows, handlerVars, workerVars, otherVars, TypeOK
<1> QED
  BY <1>1, <1>2

(* Every state has its type: no message is ever on an attempt beyond          *)
(* max_retries, in particular.                                               *)
THEOREM TypeCorrect == Spec => []TypeOK
<1>1. TypeOK /\ [Next]_vars => TypeOK'
  BY NextType
<1> QED
  BY <1>1, InitType, PTL DEF Spec
-----------------------------------------------------------------------------
(* A page is in the dead-letter queue before its row says that it failed.    *)
DeadLetteredFirst ==
    \A k \in Tasks :
        \/ page[k] = "failed_terminal"
        \/ work[k].phase = "ending" /\ work[k].outcome = "failed_terminal"
        => k \in dlq

LEMMA EndsOthers ==
    ASSUME TypeOK, NEW k \in Tasks, NEW o, Ends(k, o)
    PROVE  /\ work'[k].phase = "ending" /\ work'[k].outcome = o
           /\ \A j \in Tasks \ {k} : work'[j] = work[j]
BY DEF Ends, TypeOK

LEMMA NextDeadLettered ==
    ASSUME "redis_down" \notin Faults, TypeOK, DeadLetteredFirst, [Next]_vars
    PROVE  DeadLetteredFirst'
<1> USE DEF DeadLetteredFirst, rows, handlerVars, workerVars, otherVars
<1>1. ASSUME NEW h \in Handlers, Handler(h) \/ HandlerLost(h)
      PROVE  DeadLetteredFirst'
  <2>1. CASE Commits(h)
    BY <2>1 DEF Commits
  <2>2. ASSUME NEW x \in Keys, Decides(h, x)
        PROVE  DeadLetteredFirst'
    BY <2>2 DEF Decides
  <2>3. ASSUME NEW p \in Pages, Enqueues(h, p)
        PROVE  DeadLetteredFirst'
    BY <2>3 DEF Enqueues
  <2>4. CASE Rejected(h) \/ Flushes(h) \/ HandlerLost(h)
    BY <2>4 DEF Rejected, Flushes, HandlerLost
  <2> QED
    BY <1>1, <2>1, <2>2, <2>3, <2>4 DEF Handler
<1>2. ASSUME NEW k \in Tasks, Worker(k) \/ WorkerLost(k) \/ RaisesUnexpected(k)
      PROVE  DeadLetteredFirst'
  <2>1. ASSUME NEW t \in queue[k], Starts(k, t)
        PROVE  DeadLetteredFirst'
    BY <2>1 DEF Starts, TypeOK
  <2>2. CASE Loads(k)
    BY <2>2 DEF Loads, TypeOK
  <2>3. CASE Succeeds(k)
    BY <2>3, EndsOthers DEF Succeeds
  <2>4. CASE Retries(k)
    BY <2>4, EndsOthers DEF Retries
  <2>5. CASE GivesUp(k)
    BY <2>5, EndsOthers DEF GivesUp, DeadLetters
  <2>6. CASE RaisesUnexpected(k)
    BY <2>6, EndsOthers DEF RaisesUnexpected
  <2>7. CASE PageCommits(k)
    BY <2>7 DEF PageCommits, TypeOK
  <2>8. CASE Acknowledged(k) \/ WorkerLost(k)
    BY <2>8 DEF Acknowledged, WorkerLost, TypeOK, Idle
  <2> QED
    BY <1>2, <2>1, <2>2, <2>3, <2>4, <2>5, <2>6, <2>7, <2>8 DEF Worker
<1>3. ASSUME NEW k \in Tasks, DeadLetterLost(k)
      PROVE  FALSE
  BY <1>3 DEF DeadLetterLost, Fault, CanFault
<1>4. ASSUME NEW u \in Uploads,
             ReconcileReads(u) \/ ReconcileWrites(u) \/ SoftDelete(u) \/ CleanUp(u)
      PROVE  DeadLetteredFirst'
  BY <1>4 DEF ReconcileReads, ReconcileWrites, SoftDelete, CleanUp
<1>5. CASE UNCHANGED vars
  BY <1>5 DEF vars
<1> QED
  BY <1>1, <1>2, <1>3, <1>4, <1>5 DEF Next

(* As long as Redis answers, a page that failed for good can be replayed from *)
(* the dead-letter queue, whatever workers die and messages come twice.      *)
THEOREM FailedPagesAreDeadLettered ==
    ASSUME "redis_down" \notin Faults
    PROVE  Spec => []TerminalIsDeadLettered
<1>1. Init => DeadLetteredFirst
  BY DEF Init, DeadLetteredFirst, Idle
<1>2. TypeOK /\ DeadLetteredFirst /\ [Next]_vars => TypeOK' /\ DeadLetteredFirst'
  BY NextType, NextDeadLettered
<1>3. DeadLetteredFirst => TerminalIsDeadLettered
  BY DEF DeadLetteredFirst, TerminalIsDeadLettered
<1> QED
  BY <1>1, <1>2, <1>3, InitType, PTL DEF Spec
-----------------------------------------------------------------------------
(* IndexedIsSearchable is not inductive: a reconcile computes the status of a *)
(* document before it writes it, a worker the outcome of a page before it     *)
(* commits, and the rows of the pages of a document appear all at once.      *)
AllOrNone(u) ==
    (\E p \in Pages : page[<<u, p>>] = "absent") => \A p \in Pages : page[<<u, p>>] = "absent"

Searchable ==
    /\ \A k \in Tasks :
           /\ page[k] = "succeeded" => k \in graph
           /\ work[k].phase = "ending" /\ work[k].outcome = "succeeded" => k \in graph
           /\ \/ work[k].phase = "loaded"
              \/ work[k].phase = "ending" /\ work[k].outcome # "none"
              => Visible(k)
    /\ \A u \in Uploads :
           /\ AllOrNone(u)
           /\ "indexed" \in {doc[u], computed[u]} => \A p \in Pages : <<u, p>> \in graph
    /\ cleanup = {}

(* What reconcile reads as "indexed" is.                                     *)
LEMMA ReducedIsSearchable ==
    ASSUME Searchable, NEW u \in Uploads, ReconcileDocumentStatus(PagesOf(u)) = "indexed",
           NEW p \in Pages
    PROVE  <<u, p>> \in graph
<1>1. PagesOf(u) = {"succeeded"}
  BY DEF ReconcileDocumentStatus
<1>2. page[<<u, p>>] # "absent"
  BY <1>1 DEF Searchable, AllOrNone, PagesOf
<1>3. page[<<u, p>>] = "succeeded"
  BY <1>1, <1>2 DEF PagesOf
<1> QED
  BY <1>3 DEF Searchable, Tasks

LEMMA HandlerSearchable ==
    ASSUME TypeOK, Searchable, NEW h \in Handlers, Handler(h) \/ HandlerLost(h)
    PROVE  Searchable'
<1> USE DEF Searchable, AllOrNone, Visible, rows, handlerVars, workerVars, otherVars
<1>1. CASE Commits(h)
  <2>1. \A k \in Tasks : page'[k] = IF k[1] = hup[h] THEN "pending" ELSE page[k]
    BY <1>1 DEF Commits
  <2>2. \A u \in Uploads, p \in Pages : page'[<<u, p>>] = IF u = hup[h] THEN "pending" ELSE page[<<u, p>>]
    BY <2>1 DEF Tasks
  <2>3. \A u \in Uploads : doc'[u] = "indexed" => doc[u] = "indexed"
    BY <1>1 DEF Commits, TypeOK
  <2>4. UNCHANGED <<workerVars, otherVars>>
    BY <1>1 DEF Commits
  <2>5. ASSUME NEW k \in Tasks
        PROVE  /\ page'[k] = "succeeded" => k \in graph'
               /\ work'[k].phase = "ending" /\ work'[k].outcome = "succeeded" => k \in graph'
               /\ \/ work'[k].phase = "loaded"
                  \/ work'[k].phase = "ending" /\ work'[k].outcome # "none"
                  => page'[k] # "absent"
    BY <2>1, <2>4
  <2>6. ASSUME NEW u \in Uploads
        PROVE  AllOrNone(u)'
    <3>1. CASE u = hup[h]
      BY <2>2, <3>1
    <3>2. CASE u # hup[h]
      BY <2>2, <3>2
    <3> QED
      BY <3>1, <3>2
  <2>7. ASSUME NEW u \in Uploads, "indexed" \in {doc'[u], computed'[u]}, NEW p \in Pages
        PROVE  <<u, p>> \in graph'
    BY <2>3, <2>4, <2>7
  <2> QED
    BY <2>4, <2>5, <2>6, <2>7
<1>2. ASSUME NEW x \in Keys, Decides(h, x)
      PROVE  Searchable'
  BY <1>2 DEF Decides
<1>3. ASSUME NEW p \in Pages, Enqueues(h, p)
      PROVE  Searchable'
  BY <1>3 DEF Enqueues
<1>4. CASE Rejected(h)
  BY <1>4 DEF Rejected, TypeOK
<1>5. CASE Flushes(h) \/ HandlerLost(h)
  BY <1>5 DEF Flushes, HandlerLost
<1> QED
  BY <1>1, <1>2, <1>3, <1>4, <1>5 DEF Handler

LEMMA WorkerSearchable ==
    ASSUME TypeOK, Searchable, NEW k \in Tasks,
           Worker(k) \/ WorkerLost(k) \/ RaisesUnexpected(k) \/ DeadLetterLost(k)
    PROVE  Searchable'
<1> USE DEF Searchable, AllOrNone, Visible, rows, handlerVars, workerVars, otherVars
<1>1. ASSUME NEW t \in queue[k], Starts(k, t)
      PROVE  Searchable'
  BY <1>1 DEF Starts, TypeOK
<1>2. CASE Loads(k)
  BY <1>2 DEF Loads, TypeOK
<1>3. CASE Succeeds(k)
  BY <1>3, EndsOthers DEF Succeeds
<1>4. CASE Retries(k)
  BY <1>4, EndsOthers DEF Retries
<1>5. CASE GivesUp(k) \/ DeadLetterLost(k)
  <2>1. /\ Ends(k, IF Visible(k) THEN "failed_terminal" ELSE "none")
        /\ UNCHANGED <<rows, graph, otherVars>>
    BY <1>5 DEF GivesUp, DeadLetterLost
  <2>2. /\ work'[k].phase = "ending"
        /\ work'[k].outcome = IF Visible(k) THEN "failed_terminal" ELSE "none"
        /\ \A j \in Tasks \ {k} : work'[j] = work[j]
    BY <2>1, EndsOthers
  <2> QED
    BY <2>1, <2>2
<1>6. CASE RaisesUnexpected(k)
  BY <1>6, EndsOthers DEF RaisesUnexpected
<1>7. CASE PageCommits(k)
  <2>1. \A j \in Tasks : page'[j] = IF j = k /\ work[k].outcome # "none" THEN work[k].outcome ELSE page[j]
    BY <1>7 DEF PageCommits, TypeOK
  <2>2. work[k].outcome # "absent" /\ (work[k].outcome # "none" => page[k] # "absent")
    BY <1>7 DEF PageCommits, TypeOK, PageStatuses
  <2>3. \A j \in Tasks : page'[j] = "absent" <=> page[j] = "absent"
    BY <2>1, <2>2
  <2>4. \A u \in Uploads : AllOrNone(u)'
    BY <2>3 DEF Tasks
  <2>5. \A j \in Tasks : work'[j].phase \in {"loaded", "ending"} => work'[j] = work[j]
    BY <1>7 DEF PageCommits, TypeOK
  <2>6. UNCHANGED <<doc, graph, computed, cleanup>>
    BY <1>7 DEF PageCommits
  <2>7. work[k].phase = "ending"
    BY <1>7 DEF PageCommits
  <2> QED
    BY <2>1, <2>3, <2>4, <2>5, <2>6, <2>7
<1>8. CASE Acknowledged(k) \/ WorkerLost(k)
  <2>1. \A j \in Tasks : work'[j] = work[j] \/ work'[j].phase = "idle"
    BY <1>8 DEF Acknowledged, WorkerLost, TypeOK, Idle
  <2>2. UNCHANGED <<rows, graph, otherVars>>
    BY <1>8 DEF Acknowledged, WorkerLost
  <2> QED
    BY <2>1, <2>2
<1> QED
  BY <1>1, <1>2, <1>3, <1>4, <1>5, <1>6, <1>7, <1>8 DEF Worker

LEMMA DocumentSearchable ==
    ASSUME "delete" \notin Ops, TypeOK, Searchable, NEW u \in Uploads,
           ReconcileReads(u) \/ ReconcileWrites(u) \/ SoftDelete(u) \/ CleanUp(u)
    PROVE  Searchable'
<1>1. CASE ReconcileReads(u)
  <2>1. \A v \in Uploads : computed'[v] = "indexed" => \A p \in Pages : <<v, p>> \in graph
    BY <1>1, ReducedIsSearchable DEF ReconcileReads, Searchable, TypeOK
  <2> QED
    BY <1>1, <2>1
    DEF ReconcileReads, Searchable, AllOrNone, Visible, rows, handlerVars, workerVars
<1>2. CASE ReconcileWrites(u)
  BY <1>2 DEF ReconcileWrites, Searchable, AllOrNone, Visible, TypeOK, handlerVars, workerVars
<1>3. ~SoftDelete(u) /\ ~CleanUp(u)
  BY DEF SoftDelete, CleanUp, Searchable
<1> QED
  BY <1>1, <1>2, <1>3

(* A document reported as indexed has all its pages in the graph, for every   *)
(* interleaving of uploads, workers and reconciles, at whatever moment; only  *)
(* deletions, which clear the graph of a document, are left out.             *)
THEOREM IndexedDocumentsAreSearchable ==
    ASSUME "delete" \notin Ops
    PROVE  Spec => []IndexedIsSearchable
<1>1. Init => Searchable
  BY DEF Init, Searchable, AllOrNone, Idle, Tasks
<1>2. TypeOK /\ Searchable /\ [Next]_vars => Searchable'
  <2>1. ASSUME TypeOK, Searchable, UNCHANGED vars
        PROVE  Searchable'
    BY <2>1 DEF vars, rows, handlerVars, workerVars, otherVars, Searchable, AllOrNone, Visible
  <2> QED
    BY <2>1, HandlerSearchable, WorkerSearchable, DocumentSearchable DEF Next
<1>3. TypeOK /\ [Next]_vars => TypeOK'
  BY NextType
<1>4. Searchable => IndexedIsSearchable
  BY DEF Searchable, IndexedIsSearchable
<1> QED
  BY <1>1, <1>2, <1>3, <1>4, InitType, PTL DEF Spec
-----------------------------------------------------------------------------
(* When the control plane keeps to the contract of PdfLifecycle: documents    *)
(* are not deleted and reconciled only when all their pages are settled; a     *)
(* task whose page is committed is not delivered again, nor is one that has    *)
(* already published its retry; and the preflight is of one mind about bytes. *)
Undisturbed ==
    /\ Ops \subseteq {"reconcile_settled"}
    /\ "ack_lost" \notin Faults
    /\ "worker_lost" \in Faults => MaxRetries = 0
    /\ Accepts \cap Rejects = {}

(* A page task is in one place: in the queue, or with the one worker that took *)
(* it there, or it has published its retry; none is left of a settled page.   *)
OneMessage(k) ==
    /\ \A s, t \in queue[k] : s = t
    /\ \/ work[k].phase \in {"started", "loaded", "refused"}
       \/ work[k].phase = "ending" /\ work[k].outcome # "failed_retryable"
       => queue[k] = {}
    /\ work[k].phase = "ending" /\ work[k].outcome = "failed_retryable" => MaxRetries # 0
    /\ page[k] \in Settled => queue[k] = {} /\ work[k].phase \in {"idle", "committed"}
    /\ \/ work[k].phase = "loaded"
       \/ work[k].phase = "ending" /\ work[k].outcome # "none"
       => Visible(k)

(* Nothing has been done yet for a page task.                                *)
Untouched(k) == queue[k] = {} /\ work[k].phase = "idle"

(* A document that a handler has not committed: rows and messages.            *)
NotYet(u) ==
    /\ doc[u] = "none" /\ computed[u] = "none"
    /\ \A p \in Pages : page[<<u, p>>] = "absent"

(* A committed document: rejected without pages, or with all its pages, of      *)
(* which its status, and the one a reconcile has computed, is the reduction.    *)
Registered(u) ==
    \/ /\ doc[u] = "failed" /\ key[u] \in Rejects
       /\ computed[u] \in {"none", "failed"}
       /\ \A p \in Pages : page[<<u, p>>] = "absent"
    \/ /\ key[u] \in Accepts
       /\ \A p \in Pages : page[<<u, p>>] # "absent"
       /\ \/ doc[u] = "processing"
          \/ PagesOf(u) \subseteq Settled /\ doc[u] = ReconcileDocumentStatus(PagesOf(u))
       /\ \/ computed[u] = "none"
          \/ PagesOf(u) \subseteq Settled /\ computed[u] = ReconcileDocumentStatus(PagesOf(u))

(* A handler that decided to process a document again found one that failed;   *)
(* one that sends has a document of its own, with pages it has not sent yet.    *)
HandlerKnows(h) ==
    /\ hpc[h] = "decided" => hkey[h] \in Keys
    /\ hpc[h] = "decided" /\ hup[h] # 0 =>
           hup[h] \in Uploads /\ doc[hup[h]] = "failed" /\ key[hup[h]] = hkey[h]
    /\ hpc[h] = "sending" =>
           /\ hup[h] \in Uploads /\ hup[h] =< allocated
           /\ hkey[h] \in Accepts /\ NotYet(hup[h])
           /\ \A p \in Pages \ hsent[h] : Untouched(<<hup[h], p>>)
           /\ \A g \in Handlers : hpc[g] = "sending" /\ hup[g] = hup[h] => g = h

Fresh(u) ==
    /\ NotYet(u)
    /\ \A p \in Pages : Untouched(<<u, p>>)

Lawful ==
    /\ \A k \in Tasks : OneMessage(k)
    /\ \A u \in Uploads : NotYet(u) \/ Registered(u)
    /\ \A u \in Uploads : u > allocated => Fresh(u)
    /\ \A h \in Handlers : hpc[h] = "new" => hup[h] = 0 /\ hsent[h] = {}
    /\ \A h \in Handlers : hpc[h] = "decided" => hsent[h] = {}
    /\ \A h \in Handlers : HandlerKnows(h)
    /\ cleanup = {}

LEMMA InitLawful == Init => Lawful
BY DEF Init, Lawful, OneMessage, NotYet, HandlerKnows, Fresh, Untouched, Idle, Settled, Tasks, Uploads

(* A worker's step is on one task, which somebody has published.             *)
LEMMA WorkerTouches ==
    ASSUME TypeOK, NEW k \in Tasks,
           Worker(k) \/ WorkerLost(k) \/ RaisesUnexpected(k) \/ DeadLetterLost(k)
    PROVE  /\ ~Untouched(k)
           /\ \A j \in Tasks \ {k} : work'[j] = work[j] /\ queue'[j] = queue[j] /\ page'[j] = page[j]
           /\ UNCHANGED <<doc, key, allocated, handlerVars, computed, cleanup>>
<1> USE DEF Untouched, rows, otherVars
<1>1. ASSUME NEW t \in queue[k], Starts(k, t)
      PROVE  /\ ~Untouched(k)
             /\ \A j \in Tasks \ {k} : work'[j] = work[j] /\ queue'[j] = queue[j] /\ page'[j] = page[j]
             /\ UNCHANGED <<doc, key, allocated, handlerVars, computed, cleanup>>
  BY <1>1 DEF Starts, TypeOK
<1>2. CASE Loads(k)
  BY <1>2 DEF Loads, TypeOK
<1>3. CASE Succeeds(k)
  BY <1>3, EndsOthers DEF Succeeds
<1>4. CASE Retries(k)
  BY <1>4, EndsOthers DEF Retries, TypeOK
<1>5. CASE GivesUp(k)
  BY <1>5, EndsOthers DEF GivesUp
<1>6. CASE DeadLetterLost(k)
  BY <1>6, EndsOthers DEF DeadLetterLost
<1>7. CASE RaisesUnexpected(k)
  BY <1>7, EndsOthers DEF RaisesUnexpected
<1>8. CASE PageCommits(k)
  BY <1>8 DEF PageCommits, TypeOK
<1>9. CASE Acknowledged(k)
  BY <1>9 DEF Acknowledged, TypeOK
<1>10. CASE WorkerLost(k)
  BY <1>10 DEF WorkerLost, TypeOK
<1> QED
  BY <1>1, <1>2, <1>3, <1>4, <1>5, <1>6, <1>7, <1>8, <1>9, <1>10 DEF Worker

(* The page of a settled task stays as it is, and only a visible page changes. *)
PageMoves(k) ==
    page'[k] # page[k] => Visible(k) /\ page[k] \notin Settled /\ page'[k] # "absent"

LEMMA WorkerMessage ==
    ASSUME Undisturbed, TypeOK, NEW k \in Tasks, OneMessage(k),
           Worker(k) \/ WorkerLost(k) \/ RaisesUnexpected(k) \/ DeadLetterLost(k)
    PROVE  OneMessage(k)' /\ PageMoves(k)
<1> USE DEF OneMessage, PageMoves, Visible, Settled, rows
<1>0. /\ work[k].tries \in 0..MaxRetries
      /\ work[k].outcome # "absent"
  BY DEF TypeOK, PageStatuses
<1>1. ASSUME NEW t \in queue[k], Starts(k, t)
      PROVE  OneMessage(k)' /\ PageMoves(k)
  <2>1. queue'[k] = {} /\ work'[k].phase = "started" /\ work'[k].outcome = "none"
    BY <1>1 DEF Starts, TypeOK
  <2>2. page' = page /\ page[k] \notin {"succeeded", "failed_terminal"}
    BY <1>1 DEF Starts
  <2> QED
    BY <2>1, <2>2
<1>2. CASE Loads(k)
  BY <1>2 DEF Loads, TypeOK
<1>3. CASE Succeeds(k)
  BY <1>3, EndsOthers DEF Succeeds
<1>4. CASE Retries(k)
  <2>1. /\ queue'[k] = {work[k].tries + 1} /\ page' = page
        /\ work'[k].phase = "ending" /\ work'[k].outcome = "failed_retryable"
    BY <1>4, EndsOthers DEF Retries, RetryMessages, TypeOK
  <2>2. MaxRetries # 0
    BY <1>0, <1>4, ConstantsOK DEF Retries, AttemptsLeft
  <2>3. page[k] \notin {"succeeded", "failed_terminal"} /\ page[k] # "absent"
    BY <1>4 DEF Retries
  <2> QED
    BY <2>1, <2>2, <2>3
<1>5. CASE GivesUp(k) \/ DeadLetterLost(k)
  <2>1. /\ work[k].phase \in {"loaded", "refused"}
        /\ Ends(k, IF Visible(k) THEN "failed_terminal" ELSE "none")
        /\ page' = page /\ queue' = queue
    BY <1>5 DEF GivesUp, DeadLetterLost
  <2>2. /\ work'[k].phase = "ending"
        /\ work'[k].outcome = IF Visible(k) THEN "failed_terminal" ELSE "none"
    BY <2>1, EndsOthers
  <2> QED
    BY <2>1, <2>2
<1>6. CASE RaisesUnexpected(k)
  BY <1>6, EndsOthers DEF RaisesUnexpected
<1>7. CASE PageCommits(k)
  <2>1. /\ page'[k] = IF work[k].outcome = "none" THEN page[k] ELSE work[k].outcome
        /\ queue' = queue
    BY <1>7 DEF PageCommits, TypeOK
  <2>2. work'[k].phase = "committed" /\ work[k].phase = "ending"
    BY <1>7 DEF PageCommits, TypeOK
  <2> QED
    BY <1>0, <2>1, <2>2
<1>8. CASE Acknowledged(k)
  BY <1>8 DEF Acknowledged, TypeOK, Idle
<1>9. CASE WorkerLost(k)
  <2>1. work[k].phase # "committed" /\ MaxRetries = 0
    BY <1>9 DEF WorkerLost, Fault, CanFault, Undisturbed
  <2>2. queue[k] = {}
    BY <1>9, <2>1 DEF WorkerLost, TypeOK
  <2>3. queue'[k] = {work[k].tries} /\ work'[k].phase = "idle" /\ page' = page
    BY <1>9, <2>2 DEF WorkerLost, TypeOK, Idle
  <2>4. page[k] \notin {"succeeded", "failed_terminal"}
    BY <1>9, <2>1 DEF WorkerLost
  <2> QED
    BY <2>3, <2>4
<1> QED
  BY <1>1, <1>2, <1>3, <1>4, <1>5, <1>6, <1>7, <1>8, <1>9 DEF Worker

(* What a change of one unsettled page leaves of the statuses of the others.   *)
LEMMA PagesMove ==
    ASSUME NEW k \in Tasks, PageMoves(k),
           \A j \in Tasks \ {k} : page'[j] = page[j], NEW u \in Uploads
    PROVE  /\ \A p \in Pages : page'[<<u, p>>] = "absent" <=> page[<<u, p>>] = "absent"
           /\ PagesOf(u) \subseteq Settled => PagesOf(u)' = PagesOf(u)
<1>1. \A p \in Pages : page'[<<u, p>>] = "absent" <=> page[<<u, p>>] = "absent"
  BY DEF PageMoves, Visible, Tasks
<1>2. ASSUME PagesOf(u) \subseteq Settled
      PROVE  PagesOf(u)' = PagesOf(u)
  <2>1. ASSUME NEW p \in Pages
        PROVE  page'[<<u, p>>] = page[<<u, p>>]
    <3>1. CASE <<u, p>> = k
      BY <1>2, <3>1 DEF PageMoves, Visible, PagesOf
    <3>2. CASE <<u, p>> # k
      BY <3>2 DEF Tasks
    <3> QED
      BY <3>1, <3>2
  <2> QED
    BY <2>1 DEF PagesOf
<1> QED
  BY <1>1, <1>2

LEMMA WorkerLawful ==
    ASSUME Undisturbed, TypeOK, Lawful, NEW k \in Tasks,
           Worker(k) \/ WorkerLost(k) \/ RaisesUnexpected(k) \/ DeadLetterLost(k)
    PROVE  Lawful'
<1>1. /\ ~Untouched(k)
      /\ \A j \in Tasks \ {k} : work'[j] = work[j] /\ queue'[j] = queue[j] /\ page'[j] = page[j]
      /\ UNCHANGED <<doc, key, allocated, handlerVars, computed, cleanup>>
  BY WorkerTouches
<1>2. OneMessage(k)' /\ PageMoves(k)
  BY WorkerMessage DEF Lawful
<1>3. \A j \in Tasks : OneMessage(j)'
  BY <1>1, <1>2 DEF Lawful, OneMessage, Visible
<1>4. ASSUME NEW u \in Uploads
      PROVE  /\ NotYet(u) => NotYet(u)'
             /\ Registered(u) => Registered(u)'
  <2>1. /\ \A p \in Pages : page'[<<u, p>>] = "absent" <=> page[<<u, p>>] = "absent"
        /\ PagesOf(u) \subseteq Settled => PagesOf(u)' = PagesOf(u)
    BY <1>1, <1>2, PagesMove
  <2>2. NotYet(u) => NotYet(u)'
    BY <1>1, <2>1 DEF NotYet
  <2>3. Registered(u) => Registered(u)'
    <3> DEFINE R == PagesOf(u)
    <3>1. \A st : R \subseteq Settled /\ st = ReconcileDocumentStatus(R)
                  => R' \subseteq Settled /\ st = ReconcileDocumentStatus(R')
      BY <2>1
    <3> QED
      BY <1>1, <2>1, <3>1 DEF Registered
  <2> QED
    BY <2>2, <2>3
<1>5. \A j \in Tasks : Untouched(j) => Untouched(j)'
  BY <1>1 DEF Untouched
<1>6. \A u \in Uploads, p \in Pages : <<u, p>> \in Tasks
  BY DEF Tasks
<1>7. \A u \in Uploads : u > allocated' => Fresh(u)'
  BY <1>1, <1>4, <1>5, <1>6 DEF Lawful, Fresh
<1>8. ASSUME NEW h \in Handlers
      PROVE  HandlerKnows(h)'
  BY <1>1, <1>4, <1>5, <1>6 DEF Lawful, HandlerKnows, handlerVars
<1> QED
  BY <1>1, <1>3, <1>4, <1>7, <1>8 DEF Lawful, handlerVars

(* A step keeps what is said of the documents and tasks whose rows and messages *)
(* it leaves alone.                                                          *)
LEMMA SameDocument ==
    ASSUME NEW u \in Uploads, doc'[u] = doc[u], key'[u] = key[u], computed'[u] = computed[u],
           \A p \in Pages : page'[<<u, p>>] = page[<<u, p>>]
    PROVE  (NotYet(u)' <=> NotYet(u)) /\ (Registered(u)' <=> Registered(u))
<1>1. PagesOf(u)' = PagesOf(u)
  BY DEF PagesOf
<1> QED
  BY <1>1 DEF NotYet, Registered

LEMMA SameTask ==
    ASSUME NEW k, work'[k] = work[k], queue'[k] = queue[k], page'[k] = page[k]
    PROVE  (OneMessage(k)' <=> OneMessage(k)) /\ (Untouched(k)' <=> Untouched(k))
BY DEF OneMessage, Untouched, Visible

(* A handler that sends is alone with its document.                          *)
LEMMA LocksAreUnique ==
    ASSUME Lawful, NEW u \in Uploads, ~NotYet(u)
    PROVE  ~Locked(u)
BY DEF Lawful, HandlerKnows, Locked

(* The document a handler that has decided goes on with: a new one, or one that *)
(* failed and, if the preflight may accept it, has pages.                     *)
Target(h) == IF IsNew(h) THEN allocated + 1 ELSE hup[h]

LEMMA TargetIsKnown ==
    ASSUME TypeOK, Lawful, NEW h \in Handlers, hpc[h] = "decided", Target(h) \in Uploads
    PROVE  \/ Fresh(Target(h)) /\ Target(h) = allocated + 1 /\ IsNew(h)
           \/ /\ Registered(Target(h)) /\ doc[Target(h)] = "failed"
              /\ key[Target(h)] = hkey[h] /\ ~IsNew(h) /\ Target(h) = hup[h]
<1>0. allocated \in Nat
  BY ConstantsOK DEF TypeOK
<1>1. CASE IsNew(h)
  BY <1>0, <1>1 DEF Target, Lawful
<1>2. CASE ~IsNew(h)
  <2>1. /\ Target(h) = hup[h] /\ doc[hup[h]] = "failed" /\ key[hup[h]] = hkey[h]
    BY <1>2 DEF Target, IsNew, Lawful, HandlerKnows
  <2> QED
    BY <1>2, <2>1 DEF Lawful, NotYet
<1> QED
  BY <1>1, <1>2

(* A handler that another one's step leaves alone, with its document.         *)
LEMMA SenderKept ==
    ASSUME Lawful, NEW g \in Handlers, hpc[g] = "sending", NEW v, v = hup[g],
           hpc'[g] = hpc[g], hkey'[g] = hkey[g], hup'[g] = v, hsent'[g] = hsent[g],
           v =< allocated => v =< allocated', NotYet(v) => NotYet(v)',
           \A p \in Pages \ hsent[g] : Untouched(<<v, p>>) => Untouched(<<v, p>>)',
           \A f \in Handlers : hpc'[f] = "sending" /\ hup'[f] = v => hpc[f] = "sending" /\ hup[f] = v
    PROVE  HandlerKnows(g)'
<1>1. /\ v \in Uploads /\ v =< allocated
      /\ hkey[g] \in Accepts /\ NotYet(v)
      /\ \A p \in Pages \ hsent[g] : Untouched(<<v, p>>)
      /\ \A f \in Handlers : hpc[f] = "sending" /\ hup[f] = v => f = g
  BY DEF Lawful, HandlerKnows
<1>2. NotYet(hup[g])'
  BY <1>1 DEF NotYet
<1>3. \A p \in Pages \ hsent'[g] : Untouched(<<hup[g], p>>)'
  BY <1>1 DEF Untouched
<1> QED
  BY <1>1, <1>2, <1>3 DEF HandlerKnows

LEMMA DeciderKept ==
    ASSUME Lawful, NEW g \in Handlers, hpc[g] = "decided", NEW v, v = hup[g],
           hpc'[g] = hpc[g], hkey'[g] = hkey[g], hup'[g] = v,
           v # 0 /\ doc[v] = "failed" /\ key[v] = hkey[g] =>
               doc'[v] = "failed" /\ key'[v] = hkey[g]
    PROVE  HandlerKnows(g)'
BY DEF Lawful, HandlerKnows

LEMMA DecidesLawful ==
    ASSUME TypeOK, Lawful, NEW h \in Handlers, NEW x \in Keys, Decides(h, x)
    PROVE  Lawful'
<1> USE DEF Decides, rows, workerVars, otherVars
<1>1. /\ \A k \in Tasks : OneMessage(k)'
      /\ \A u \in Uploads : NotYet(u)' \/ Registered(u)'
      /\ \A u \in Uploads : u > allocated' => Fresh(u)'
  <2>1. UNCHANGED <<doc, key, page, allocated, work, queue, computed>>
    OBVIOUS
  <2>2. \A k : (OneMessage(k)' <=> OneMessage(k)) /\ (Untouched(k)' <=> Untouched(k))
    BY <2>1, SameTask
  <2>3. \A u \in Uploads : (NotYet(u)' <=> NotYet(u)) /\ (Registered(u)' <=> Registered(u))
    BY <2>1, SameDocument
  <2> HIDE DEF Decides
  <2> QED
    BY <2>1, <2>2, <2>3 DEF Lawful, Fresh
<1>2. /\ hpc'[h] \in {"decided", "skipped"} /\ hkey'[h] = x /\ hsent'[h] = {}
      /\ hpc'[h] = "decided" =>
             \/ hup'[h] = 0
             \/ hup'[h] \in Uploads /\ doc[hup'[h]] = "failed" /\ key[hup'[h]] = x
  <2>1. CASE hup' = hup
    BY <2>1 DEF TypeOK, DecideDedup, Lawful
  <2>2. ASSUME NEW u \in Uploads, IsNewest(u, x), hpc' = [hpc EXCEPT ![h] = DecideDedup(doc[u])],
               hup' = [hup EXCEPT ![h] = u]
        PROVE  <1>2!2 /\ hpc'[h] \in {"decided", "skipped"} /\ hkey'[h] = x /\ hsent'[h] = {}
    BY <2>2 DEF TypeOK, DecideDedup, IsNewest, Known, Lawful
  <2> QED
    BY <2>1, <2>2 DEF TypeOK, DecideDedup, Lawful
<1>3. \A g \in Handlers \ {h} : hpc'[g] = hpc[g] /\ hkey'[g] = hkey[g] /\ hup'[g] = hup[g] /\ hsent'[g] = hsent[g]
  BY DEF TypeOK
<1>4. ASSUME NEW g \in Handlers
      PROVE  HandlerKnows(g)'
  BY <1>2, <1>3 DEF Lawful, HandlerKnows, NotYet, Untouched
<1> QED
  BY <1>1, <1>2, <1>3, <1>4 DEF Lawful

LEMMA RejectedLawful ==
    ASSUME Undisturbed, TypeOK, Lawful, NEW h \in Handlers, Rejected(h)
    PROVE  Lawful'
<1>u. PICK u \in Uploads : u = Target(h)
  BY DEF Rejected, Target
<1>0. /\ hpc[h] = "decided" /\ hkey[h] \in Rejects
      /\ doc' = [doc EXCEPT ![u] = "failed"] /\ key' = [key EXCEPT ![u] = hkey[h]]
      /\ allocated' = IF IsNew(h) THEN u ELSE allocated
      /\ hpc' = [hpc EXCEPT ![h] = "rejected"]
      /\ UNCHANGED <<page, hkey, hup, hsent, queue, work, computed, cleanup>>
  BY <1>u DEF Rejected, Target, workerVars, otherVars
<1>t. \/ Fresh(u) /\ u = allocated + 1 /\ IsNew(h)
      \/ /\ Registered(u) /\ doc[u] = "failed" /\ key[u] = hkey[h] /\ ~IsNew(h) /\ u = hup[h]
  BY <1>u, <1>0, TargetIsKnown
<1>1. /\ \A p \in Pages : page[<<u, p>>] = "absent"
      /\ computed[u] \in {"none", "failed"}
  <2>1. CASE Fresh(u)
    BY <2>1 DEF Fresh, NotYet
  <2>2. CASE Registered(u) /\ key[u] = hkey[h]
    BY <1>0, <2>2 DEF Registered, Undisturbed
  <2> QED
    BY <1>t, <2>1, <2>2
<1>2. \A v \in Uploads \ {u} : doc'[v] = doc[v] /\ key'[v] = key[v]
  BY <1>0 DEF TypeOK
<1>3. doc'[u] = "failed" /\ key'[u] = hkey[h]
  BY <1>0 DEF TypeOK
<1>4. \A k : (OneMessage(k)' <=> OneMessage(k)) /\ (Untouched(k)' <=> Untouched(k))
  BY <1>0, SameTask
<1>d. \A v \in Uploads \ {u} : (NotYet(v)' <=> NotYet(v)) /\ (Registered(v)' <=> Registered(v))
  BY <1>0, <1>2, SameDocument
<1>5. \A v \in Uploads : NotYet(v)' \/ Registered(v)'
  <2>1. Registered(u)'
    BY <1>0, <1>1, <1>3 DEF Registered
  <2> QED
    BY <1>d, <2>1 DEF Lawful
<1>a. u =< allocated' /\ allocated =< allocated'
  <2>1. CASE IsNew(h)
    BY <1>0, <1>t, <2>1, ConstantsOK DEF TypeOK, Uploads
  <2>2. CASE ~IsNew(h)
    <3>1. ~Fresh(u)
      BY <1>t, <2>2 DEF Fresh, NotYet
    <3>2. u =< allocated
      BY <3>1, ConstantsOK DEF Lawful, TypeOK, Uploads
    <3> QED
      BY <1>0, <2>2, <3>2, ConstantsOK DEF TypeOK
  <2> QED
    BY <2>1, <2>2
<1>6. allocated \in Nat /\ allocated' \in Nat
  BY <1>0, ConstantsOK DEF TypeOK, Uploads
<1>7. \A v \in Uploads : v > allocated' => Fresh(v)'
  <2>1. \A v \in Uploads : v > allocated' => v > allocated /\ v # u
    BY <1>a, <1>6, ConstantsOK DEF Uploads
  <2> QED
    BY <1>4, <1>d, <2>1 DEF Lawful, Fresh
<1>8. ASSUME NEW g \in Handlers
      PROVE  HandlerKnows(g)'
  <2>1. /\ hpc'[g] # "rejected" => g # h /\ hpc'[g] = hpc[g]
        /\ \A f \in Handlers : hpc'[f] = "sending" => hpc[f] = "sending"
    BY <1>0 DEF TypeOK
  <2>2. PICK v \in 0..MaxUploads : v = hup[g]
    BY DEF TypeOK
  <2>3. CASE hpc'[g] = "sending"
    <3>1. v \in Uploads /\ v =< allocated /\ NotYet(v)
      BY <2>1, <2>2, <2>3 DEF Lawful, HandlerKnows
    <3>2. v # u
      BY <1>t, <1>6, <3>1 DEF NotYet
    <3>3. NotYet(v)' /\ v =< allocated'
      BY <1>a, <1>d, <1>6, <3>1, <3>2
    <3> QED
      BY <1>0, <1>4, <2>1, <2>2, <2>3, <3>3, SenderKept
  <2>4. CASE hpc'[g] = "decided"
    <3>1. ASSUME v # 0, doc[v] = "failed", key[v] = hkey[g]
          PROVE  doc'[v] = "failed" /\ key'[v] = hkey[g]
      <4>1. v \in Uploads /\ ~Fresh(v)
        BY <3>1, ConstantsOK DEF Uploads, Fresh, NotYet
      <4> QED
        BY <1>2, <1>3, <1>t, <3>1, <4>1
    <3> QED
      BY <1>0, <2>1, <2>2, <2>4, <3>1, DeciderKept
  <2> QED
    BY <2>3, <2>4 DEF HandlerKnows
<1>9. \A g \in Handlers :
          /\ hpc'[g] = "new" => hup'[g] = 0 /\ hsent'[g] = {}
          /\ hpc'[g] = "decided" => hsent'[g] = {}
  BY <1>0 DEF Lawful, TypeOK
<1> QED
  BY <1>0, <1>4, <1>5, <1>7, <1>8, <1>9 DEF Lawful

LEMMA FlushesLawful ==
    ASSUME Undisturbed, TypeOK, Lawful, NEW h \in Handlers, Flushes(h)
    PROVE  Lawful'
<1>u. PICK u \in Uploads : u = Target(h)
  BY DEF Flushes, Target
<1>0. /\ hpc[h] = "decided" /\ hkey[h] \in Accepts
      /\ hpc' = [hpc EXCEPT ![h] = IF PagesOf(u) = {} THEN "sending" ELSE "error"]
      /\ hup' = [hup EXCEPT ![h] = u]
      /\ allocated' = IF IsNew(h) THEN u ELSE allocated
      /\ UNCHANGED <<doc, key, page, hkey, hsent, queue, work, computed, cleanup>>
  BY <1>u DEF Flushes, Target, workerVars, otherVars
<1>t. \/ Fresh(u) /\ u = allocated + 1 /\ IsNew(h)
      \/ Registered(u) /\ key[u] = hkey[h] /\ ~IsNew(h)
  BY <1>u, <1>0, TargetIsKnown
<1>1. \A k : (OneMessage(k)' <=> OneMessage(k)) /\ (Untouched(k)' <=> Untouched(k))
  BY <1>0, SameTask
<1>2. \A v \in Uploads : (NotYet(v)' <=> NotYet(v)) /\ (Registered(v)' <=> Registered(v))
  BY <1>0, SameDocument
<1>3. allocated \in Nat /\ allocated' \in Nat /\ allocated =< allocated'
  BY <1>0, <1>t, ConstantsOK DEF TypeOK, Uploads
<1>4. hpc'[h] = "sending" => Fresh(u) /\ u = allocated + 1 /\ IsNew(h)
  <2>1. CASE Registered(u) /\ key[u] = hkey[h]
    <3>1. \A p \in Pages : page[<<u, p>>] # "absent"
      BY <1>0, <2>1 DEF Registered, Undisturbed
    <3>2. PICK p \in Pages : page[<<u, p>>] # "absent"
      BY <3>1, ConstantsOK
    <3>3. PagesOf(u) # {}
      BY <3>2 DEF PagesOf
    <3> QED
      BY <1>0, <3>3 DEF TypeOK
  <2> QED
    BY <1>t, <2>1
<1>5. \A v \in Uploads : v > allocated' => Fresh(v)'
  <2>1. \A v \in Uploads : v > allocated' => v > allocated
    BY <1>3, ConstantsOK DEF Uploads
  <2> QED
    BY <1>1, <1>2, <2>1 DEF Lawful, Fresh
<1>6. \A g \in Handlers \ {h} : hpc'[g] = hpc[g] /\ hup'[g] = hup[g]
  BY <1>0 DEF TypeOK
<1>7. hpc'[h] \in {"sending", "error"} /\ hup'[h] = u /\ hsent'[h] = {}
  BY <1>0 DEF TypeOK, Lawful
<1>8. ASSUME NEW g \in Handlers
      PROVE  HandlerKnows(g)'
  <2>1. CASE g = h /\ hpc'[h] = "sending"
    <3>1. NotYet(u)' /\ \A p \in Pages : Untouched(<<u, p>>)'
      BY <1>1, <1>2, <1>4, <2>1 DEF Fresh
    <3>2. u =< allocated'
      BY <1>0, <1>3, <1>4, <2>1
    <3>3. ASSUME NEW f \in Handlers, hpc'[f] = "sending", hup'[f] = u
          PROVE  f = h
      <4>1. SUFFICES ASSUME f # h
                     PROVE  FALSE
        OBVIOUS
      <4>2. hpc[f] = "sending" /\ hup[f] = u
        BY <1>6, <3>3, <4>1
      <4>3. u =< allocated
        BY <4>2 DEF Lawful, HandlerKnows
      <4> QED
        BY <1>3, <1>4, <2>1, <4>3
    <3>4. NotYet(hup[h])' /\ \A p \in Pages : Untouched(<<hup[h], p>>)'
      BY <1>7, <3>1 DEF NotYet, Untouched
    <3> QED
      BY <1>0, <1>7, <2>1, <3>2, <3>3, <3>4 DEF HandlerKnows
  <2>2. CASE g # h /\ hpc'[g] = "sending"
    <3>1. PICK v \in 0..MaxUploads : v = hup[g]
      BY DEF TypeOK
    <3>2. v \in Uploads /\ v =< allocated
      BY <1>6, <2>2, <3>1 DEF Lawful, HandlerKnows
    <3>3. ASSUME NEW f \in Handlers, hpc'[f] = "sending", hup'[f] = v
          PROVE  hpc[f] = "sending" /\ hup[f] = v
      <4>1. CASE f = h
        BY <1>3, <1>4, <1>7, <3>2, <3>3, <4>1
      <4> QED
        BY <1>6, <3>3, <4>1
    <3>4. v =< allocated'
      BY <1>3, <3>2 DEF Uploads
    <3> QED
      BY <1>0, <1>1, <1>2, <1>6, <2>2, <3>1, <3>2, <3>3, <3>4, SenderKept
  <2>3. CASE g # h /\ hpc'[g] = "decided"
    <3>1. PICK v \in 0..MaxUploads : v = hup[g]
      BY DEF TypeOK
    <3> QED
      BY <1>0, <1>6, <2>3, <3>1, DeciderKept
  <2> QED
    BY <1>7, <2>1, <2>2, <2>3 DEF HandlerKnows
<1>9. \A g \in Handlers :
          /\ hpc'[g] = "new" => hup'[g] = 0 /\ hsent'[g] = {}
          /\ hpc'[g] = "decided" => hsent'[g] = {}
  BY <1>0, <1>6, <1>7 DEF Lawful
<1> QED
  BY <1>0, <1>1, <1>2, <1>5, <1>8, <1>9 DEF Lawful

LEMMA EnqueuesLawful ==
    ASSUME TypeOK, Lawful, NEW h \in Handlers, NEW q \in Pages, Enqueues(h, q)
    PROVE  Lawful'
<1>u. PICK u \in Uploads : u = hup[h]
  BY DEF Enqueues, Lawful, HandlerKnows
<1>0. /\ hpc[h] = "sending" /\ q \notin hsent[h]
      /\ queue' = [queue EXCEPT ![<<u, q>>] = @ \cup {0}]
      /\ hsent' = [hsent EXCEPT ![h] = @ \cup {q}]
      /\ UNCHANGED <<doc, key, page, allocated, hpc, hkey, hup, work, computed, cleanup>>
  BY <1>u DEF Enqueues, rows, otherVars
<1>1. /\ NotYet(u) /\ u =< allocated /\ Untouched(<<u, q>>)
      /\ \A g \in Handlers : hpc[g] = "sending" /\ hup[g] = u => g = h
  BY <1>0, <1>u DEF Lawful, HandlerKnows
<1>2. \A v \in Uploads : (NotYet(v)' <=> NotYet(v)) /\ (Registered(v)' <=> Registered(v))
  BY <1>0, SameDocument
<1>3. \A k \in Tasks \ {<<u, q>>} : (OneMessage(k)' <=> OneMessage(k)) /\ (Untouched(k)' <=> Untouched(k))
  <2>1. \A k \in Tasks \ {<<u, q>>} : queue'[k] = queue[k]
    BY <1>0 DEF TypeOK
  <2> QED
    BY <1>0, <2>1, SameTask
<1>4. OneMessage(<<u, q>>)'
  <2>1. queue'[<<u, q>>] = {0}
    BY <1>0, <1>1 DEF TypeOK, Untouched, Tasks
  <2>2. work'[<<u, q>>].phase = "idle" /\ page'[<<u, q>>] = "absent"
    BY <1>0, <1>1 DEF Untouched, NotYet
  <2> QED
    BY <2>1, <2>2 DEF OneMessage, Settled
<1>5. \A v \in Uploads, p \in Pages : <<v, p>> \in Tasks
  BY DEF Tasks
<1>6. \A v \in Uploads : v > allocated' => Fresh(v)'
  <2>1. \A v \in Uploads : v > allocated' => v > allocated /\ v # u
    BY <1>0, <1>1, ConstantsOK DEF TypeOK, Uploads
  <2> QED
    BY <1>2, <1>3, <1>5, <2>1 DEF Lawful, Fresh
<1>7. hsent'[h] = hsent[h] \cup {q} /\ \A g \in Handlers \ {h} : hsent'[g] = hsent[g]
  BY <1>0 DEF TypeOK
<1>8. ASSUME NEW g \in Handlers
      PROVE  HandlerKnows(g)'
  <2>1. CASE g = h
    <3>1. NotYet(hup[h])'
      BY <1>0, <1>1 DEF NotYet, Lawful, HandlerKnows
    <3>2. \A p \in Pages \ hsent[h] : p # q => Untouched(<<u, p>>)'
      BY <1>0, <1>3, <1>5, <1>u DEF Lawful, HandlerKnows
    <3>3. \A p \in Pages \ hsent'[h] : Untouched(<<hup[h], p>>)'
      BY <1>0, <1>7, <1>u, <3>2 DEF Untouched
    <3> QED
      BY <1>0, <1>u, <2>1, <3>1, <3>3 DEF Lawful, HandlerKnows
  <2>2. CASE g # h /\ hpc[g] = "sending"
    <3>1. PICK v \in Uploads : v = hup[g]
      BY <2>2 DEF Lawful, HandlerKnows
    <3>2. v # u
      BY <1>1, <2>2, <3>1
    <3>3. \A p \in Pages \ hsent[g] : Untouched(<<v, p>>) => Untouched(<<v, p>>)'
      BY <1>3, <1>5, <3>2
    <3> QED
      BY <1>0, <1>2, <1>7, <2>2, <3>1, <3>3, SenderKept
  <2>3. CASE g # h /\ hpc[g] = "decided"
    <3>1. PICK v \in 0..MaxUploads : v = hup[g]
      BY DEF TypeOK
    <3> QED
      BY <1>0, <2>3, <3>1, DeciderKept
  <2> QED
    BY <1>0, <2>1, <2>2, <2>3 DEF HandlerKnows
<1>9. \A g \in Handlers :
          /\ hpc'[g] = "new" => hup'[g] = 0 /\ hsent'[g] = {}
          /\ hpc'[g] = "decided" => hsent'[g] = {}
  BY <1>0, <1>7 DEF Lawful
<1> QED
  BY <1>0, <1>2, <1>3, <1>4, <1>6, <1>8, <1>9 DEF Lawful

LEMMA CommitsLawful ==
    ASSUME TypeOK, Lawful, NEW h \in Handlers, Commits(h)
    PROVE  Lawful'
<1>u. PICK u \in Uploads : u = hup[h]
  BY DEF Commits, Lawful, HandlerKnows
<1>0. /\ hpc[h] = "sending" /\ hkey[h] \in Accepts
      /\ doc' = [doc EXCEPT ![u] = "processing"] /\ key' = [key EXCEPT ![u] = hkey[h]]
      /\ page' = [k \in Tasks |-> IF k[1] = u THEN "pending" ELSE page[k]]
      /\ hpc' = [hpc EXCEPT ![h] = "accepted"]
      /\ UNCHANGED <<allocated, hkey, hup, hsent, queue, work, computed, cleanup>>
  BY <1>u DEF Commits, workerVars, otherVars, Lawful, HandlerKnows
<1>1. /\ NotYet(u) /\ u =< allocated
      /\ \A g \in Handlers : hpc[g] = "sending" /\ hup[g] = u => g = h
  BY <1>0, <1>u DEF Lawful, HandlerKnows
<1>2. \A v \in Uploads, p \in Pages : page'[<<v, p>>] = IF v = u THEN "pending" ELSE page[<<v, p>>]
  BY <1>0 DEF Tasks
<1>3. \A v \in Uploads \ {u} : (NotYet(v)' <=> NotYet(v)) /\ (Registered(v)' <=> Registered(v))
  <2>1. \A v \in Uploads \ {u} : doc'[v] = doc[v] /\ key'[v] = key[v]
    BY <1>0 DEF TypeOK
  <2> QED
    BY <1>0, <1>2, <2>1, SameDocument
<1>4. Registered(u)'
  <2>1. /\ doc'[u] = "processing" /\ key'[u] \in Accepts /\ computed'[u] = "none"
        /\ \A p \in Pages : page'[<<u, p>>] # "absent"
    BY <1>0, <1>1, <1>2 DEF TypeOK, NotYet
  <2> QED
    BY <2>1 DEF Registered
<1>5. \A k \in Tasks : OneMessage(k)'
  <2>1. ASSUME NEW k \in Tasks
        PROVE  OneMessage(k)'
    <3>1. page'[k] = page[k] \/ page'[k] = "pending"
      BY <1>0
    <3> QED
      BY <1>0, <3>1 DEF Lawful, OneMessage, Visible, Settled
  <2> QED
    BY <2>1
<1>6. \A k : Untouched(k)' <=> Untouched(k)
  BY <1>0 DEF Untouched
<1>7. \A v \in Uploads : v > allocated' => Fresh(v)'
  <2>1. \A v \in Uploads : v > allocated' => v > allocated /\ v # u
    BY <1>0, <1>1, ConstantsOK DEF TypeOK, Uploads
  <2> QED
    BY <1>3, <1>6, <2>1 DEF Lawful, Fresh
<1>8. ASSUME NEW g \in Handlers
      PROVE  HandlerKnows(g)'
  <2>1. /\ hpc'[g] # "accepted" => g # h /\ hpc'[g] = hpc[g]
        /\ \A f \in Handlers : hpc'[f] = "sending" => hpc[f] = "sending"
    BY <1>0 DEF TypeOK
  <2>2. PICK v \in 0..MaxUploads : v = hup[g]
    BY DEF TypeOK
  <2>3. CASE hpc'[g] = "sending"
    <3>1. v \in Uploads /\ v # u
      BY <1>1, <2>1, <2>2, <2>3 DEF Lawful, HandlerKnows
    <3> QED
      BY <1>0, <1>3, <1>6, <2>1, <2>2, <2>3, <3>1, SenderKept
  <2>4. CASE hpc'[g] = "decided"
    <3>1. ASSUME v # 0, doc[v] = "failed", key[v] = hkey[g]
          PROVE  doc'[v] = "failed" /\ key'[v] = hkey[g]
      <4>1. v # u
        BY <1>1, <3>1 DEF NotYet
      <4> QED
        BY <1>0, <3>1, <4>1, ConstantsOK DEF TypeOK, Uploads
    <3> QED
      BY <1>0, <2>1, <2>2, <2>4, <3>1, DeciderKept
  <2> QED
    BY <2>3, <2>4 DEF HandlerKnows
<1>9. \A g \in Handlers :
          /\ hpc'[g] = "new" => hup'[g] = 0 /\ hsent'[g] = {}
          /\ hpc'[g] = "decided" => hsent'[g] = {}
  BY <1>0 DEF Lawful, TypeOK
<1> QED
  BY <1>0, <1>3, <1>4, <1>5, <1>7, <1>8, <1>9 DEF Lawful

LEMMA HandlerLostLawful ==
    ASSUME TypeOK, Lawful, NEW h \in Handlers, HandlerLost(h)
    PROVE  Lawful'
<1>0. /\ hpc' = [hpc EXCEPT ![h] = "error"]
      /\ UNCHANGED <<doc, key, page, allocated, hkey, hup, hsent, queue, work, computed, cleanup>>
  BY DEF HandlerLost, rows, workerVars, otherVars
<1>1. \A k : (OneMessage(k)' <=> OneMessage(k)) /\ (Untouched(k)' <=> Untouched(k))
  BY <1>0, SameTask
<1>2. \A v \in Uploads : (NotYet(v)' <=> NotYet(v)) /\ (Registered(v)' <=> Registered(v))
  BY <1>0, SameDocument
<1>3. \A g \in Handlers : hpc'[g] = hpc[g] \/ hpc'[g] = "error"
  BY <1>0 DEF TypeOK
<1>4. ASSUME NEW g \in Handlers
      PROVE  HandlerKnows(g)'
  <2>1. PICK v \in 0..MaxUploads : v = hup[g]
    BY DEF TypeOK
  <2>2. CASE hpc[g] = "sending" /\ hpc'[g] = hpc[g]
    <3>1. v \in Uploads
      BY <2>1, <2>2 DEF Lawful, HandlerKnows
    <3> QED
      BY <1>0, <1>1, <1>2, <1>3, <2>1, <2>2, <3>1, SenderKept
  <2>3. CASE hpc[g] = "decided" /\ hpc'[g] = hpc[g]
    BY <1>0, <2>1, <2>3, DeciderKept
  <2> QED
    BY <1>3, <2>2, <2>3 DEF HandlerKnows
<1> QED
  BY <1>0, <1>1, <1>2, <1>3, <1>4 DEF Lawful, Fresh

LEMMA HandlerLawful ==
    ASSUME Undisturbed, TypeOK, Lawful, NEW h \in Handlers, Handler(h) \/ HandlerLost(h)
    PROVE  Lawful'
BY DecidesLawful, RejectedLawful, FlushesLawful, EnqueuesLawful, CommitsLawful, HandlerLostLawful
   DEF Handler
-----------------------------------------------------------------------------
(* What a reconcile computes for a document and writes to it.                *)
LEMMA ReconcilesSettled ==
    ASSUME Undisturbed, Lawful, NEW u \in Uploads, ReconcileReads(u)
    PROVE  /\ Registered(u) /\ PagesOf(u) \subseteq Settled
           /\ doc[u] = "failed" /\ (\A p \in Pages : page[<<u, p>>] = "absent")
              => ReconcileDocumentStatus(PagesOf(u)) = "failed"
<1>1. PagesOf(u) \subseteq Settled /\ doc[u] # "none"
  BY DEF ReconcileReads, MayReconcile, Undisturbed
<1>2. Registered(u)
  BY <1>1 DEF Lawful, NotYet
<1>3. (\A p \in Pages : page[<<u, p>>] = "absent") => PagesOf(u) = {}
  BY DEF PagesOf
<1> QED
  BY <1>1, <1>2, <1>3 DEF ReconcileDocumentStatus

LEMMA DocumentLawful ==
    ASSUME Undisturbed, TypeOK, Lawful, NEW u \in Uploads,
           ReconcileReads(u) \/ ReconcileWrites(u) \/ SoftDelete(u) \/ CleanUp(u)
    PROVE  Lawful'
<1>1. ReconcileReads(u) \/ ReconcileWrites(u)
  BY DEF SoftDelete, CleanUp, Undisturbed, Lawful
<1>0. /\ UNCHANGED <<key, page, allocated, hpc, hkey, hup, hsent, queue, work, cleanup>>
      /\ \A v \in Uploads \ {u} : doc'[v] = doc[v] /\ computed'[v] = computed[v]
  BY <1>1 DEF ReconcileReads, ReconcileWrites, rows, handlerVars, workerVars, TypeOK
<1>2. \A k : (OneMessage(k)' <=> OneMessage(k)) /\ (Untouched(k)' <=> Untouched(k))
  BY <1>0, SameTask
<1>3. \A v \in Uploads \ {u} : (NotYet(v)' <=> NotYet(v)) /\ (Registered(v)' <=> Registered(v))
  BY <1>0, SameDocument
<1>4. /\ Registered(u) /\ Registered(u)'
      /\ doc[u] = "failed" /\ key[u] \in Rejects => doc'[u] = "failed"
      /\ doc[u] = "failed" => doc'[u] = "failed"
  <2>0. PagesOf(u)' = PagesOf(u)
    BY <1>0 DEF PagesOf
  <2>1. CASE ReconcileReads(u)
    <3>1. doc' = doc /\ computed'[u] = ReconcileDocumentStatus(PagesOf(u))
      BY <2>1 DEF ReconcileReads, rows, TypeOK
    <3>2. /\ Registered(u) /\ PagesOf(u) \subseteq Settled
          /\ doc[u] = "failed" /\ (\A p \in Pages : page[<<u, p>>] = "absent")
             => ReconcileDocumentStatus(PagesOf(u)) = "failed"
      BY <2>1, ReconcilesSettled
    <3> QED
      BY <1>0, <2>0, <3>1, <3>2 DEF Registered
  <2>2. CASE ReconcileWrites(u)
    <3>1. computed[u] # "none" /\ doc'[u] = computed[u] /\ computed'[u] = "none"
      BY <2>2 DEF ReconcileWrites, TypeOK
    <3>2. Registered(u)
      BY <3>1 DEF Lawful, NotYet
    <3> QED
      BY <1>0, <2>0, <3>1, <3>2 DEF Registered
  <2> QED
    BY <1>1, <2>1, <2>2
<1>5. u =< allocated /\ ~NotYet(u)
  <2>1. ~NotYet(u)
    BY <1>1 DEF NotYet, ReconcileReads, ReconcileWrites
  <2> QED
    BY <2>1, ConstantsOK DEF Lawful, Fresh, TypeOK, Uploads
<1>6. \A v \in Uploads : v > allocated' => Fresh(v)'
  <2>1. \A v \in Uploads : v > allocated' => v > allocated /\ v # u
    BY <1>0, <1>5, ConstantsOK DEF TypeOK, Uploads
  <2> QED
    BY <1>2, <1>3, <2>1 DEF Lawful, Fresh
<1>7. ASSUME NEW g \in Handlers
      PROVE  HandlerKnows(g)'
  <2>1. PICK v \in 0..MaxUploads : v = hup[g]
    BY DEF TypeOK
  <2>2. CASE hpc[g] = "sending"
    <3>1. v \in Uploads /\ v # u
      BY <1>5, <2>1, <2>2 DEF Lawful, HandlerKnows
    <3> QED
      BY <1>0, <1>2, <1>3, <2>1, <2>2, <3>1, SenderKept
  <2>3. CASE hpc[g] = "decided"
    <3>1. v # 0 /\ doc[v] = "failed" => doc'[v] = "failed"
      BY <1>0, <1>4, ConstantsOK DEF Uploads
    <3> QED
      BY <1>0, <2>1, <2>3, <3>1, DeciderKept
  <2> QED
    BY <1>0, <2>2, <2>3 DEF HandlerKnows
<1> QED
  BY <1>0, <1>2, <1>3, <1>4, <1>6, <1>7 DEF Lawful

LEMMA NextLawful == Undisturbed /\ TypeOK /\ Lawful /\ [Next]_vars => Lawful'
<1>1. ASSUME TypeOK, Lawful, UNCHANGED vars
      PROVE  Lawful'
  <2>1. UNCHANGED <<doc, key, page, allocated, hpc, hkey, hup, hsent, queue, work, computed, cleanup>>
    BY <1>1 DEF vars, rows, handlerVars, workerVars, otherVars
  <2>2. \A k : (OneMessage(k)' <=> OneMessage(k)) /\ (Untouched(k)' <=> Untouched(k))
    BY <2>1, SameTask
  <2>3. \A v \in Uploads : (NotYet(v)' <=> NotYet(v)) /\ (Registered(v)' <=> Registered(v))
    BY <2>1, SameDocument
  <2>4. \A g \in Handlers : HandlerKnows(g)'
    BY <1>1, <2>1 DEF Lawful, HandlerKnows, NotYet, Untouched
  <2> QED
    BY <1>1, <2>1, <2>2, <2>3, <2>4 DEF Lawful, Fresh
<1> QED
  BY <1>1, HandlerLawful, WorkerLawful, DocumentLawful DEF Next
-----------------------------------------------------------------------------
(* Each step of the control plane is one of PdfLifecycle, or none.           *)
outcomes == [k \in Tasks |-> Outcome(page[k])]

(* Pages whose statuses say the same of their documents.                     *)
LEMMA SameOutcomes ==
    ASSUME \A k \in Tasks : Outcome(page'[k]) = Outcome(page[k])
    PROVE  outcomes' = outcomes
BY DEF outcomes

LEMMA RegisterRefines ==
    ASSUME TypeOK, Lawful, NEW h \in Handlers, Commits(h)
    PROVE  \E u \in Uploads : Lifecycle!Register(u)
<1>1. PICK u \in Uploads : u = hup[h]
  BY DEF Commits, Lawful, HandlerKnows
<1>2. NotYet(u)
  BY <1>1 DEF Commits, Lawful, HandlerKnows
<1>3. \A k \in Tasks : page'[k] = page[k] \/ (page[k] = "absent" /\ page'[k] = "pending")
  <2>1. ASSUME NEW v \in Uploads, NEW p \in Pages
        PROVE  page'[<<v, p>>] = IF v = u THEN "pending" ELSE page[<<v, p>>]
    <3>1. <<v, p>> \in Tasks /\ <<v, p>>[1] = v
      BY DEF Tasks
    <3> QED
      BY <1>1, <3>1 DEF Commits
  <2>2. \A p \in Pages : page'[<<u, p>>] = "pending" /\ page[<<u, p>>] = "absent"
    BY <1>2, <2>1 DEF NotYet
  <2>3. \A v \in Uploads, p \in Pages : v # u => page'[<<v, p>>] = page[<<v, p>>]
    BY <2>1
  <2>4. \A k \in Tasks : \E v \in Uploads, p \in Pages : k = <<v, p>>
    BY DEF Tasks
  <2> QED
    BY <2>2, <2>3, <2>4
<1>4. outcomes' = outcomes
  BY <1>3, SameOutcomes DEF Outcome
<1>5. Lifecycle!Register(u)
  BY <1>1, <1>2, <1>4 DEF Lifecycle!Register, Commits, NotYet, outcomes
<1> QED
  BY <1>5

LEMMA RejectRefines ==
    ASSUME TypeOK, Lawful, NEW h \in Handlers, Rejected(h)
    PROVE  (\E u \in Uploads : Lifecycle!Reject(u)) \/ UNCHANGED Lifecycle!vars
<1>1. PICK u \in Uploads : u = Target(h)
  BY DEF Rejected, Target
<1>2. /\ hpc[h] = "decided" /\ doc' = [doc EXCEPT ![u] = "failed"] /\ page' = page
  BY <1>1 DEF Rejected, Target
<1>3. Fresh(u) \/ doc[u] = "failed"
  BY <1>1, <1>2, TargetIsKnown
<1>4. outcomes' = outcomes
  BY <1>2 DEF outcomes
<1>5. CASE Fresh(u)
  <2>1. Lifecycle!Reject(u)
    BY <1>2, <1>4, <1>5 DEF Lifecycle!Reject, Fresh, NotYet, outcomes
  <2> QED
    BY <2>1
<1>6. CASE doc[u] = "failed"
  BY <1>2, <1>4, <1>6 DEF Lifecycle!vars, outcomes, TypeOK
<1> QED
  BY <1>3, <1>5, <1>6

LEMMA SettleRefines ==
    ASSUME TypeOK, Lawful, NEW k \in Tasks, PageCommits(k)
    PROVE  \/ \E u \in Uploads, p \in Pages : Lifecycle!Settle(u, p)
           \/ UNCHANGED Lifecycle!vars
<1>1. PICK u \in Uploads, p \in Pages : k = <<u, p>>
  BY DEF Tasks
<1>2. /\ page' = [page EXCEPT ![k] = IF work[k].outcome = "none" THEN @ ELSE work[k].outcome]
      /\ doc' = doc /\ work[k].phase = "ending"
  BY DEF PageCommits
<1>3. OneMessage(k) /\ page[k] \notin Settled
  BY <1>2 DEF Lawful, OneMessage
<1>4. Outcome(page[k]) = "open"
  BY <1>3 DEF Outcome, Settled
<1>5. CASE work[k].outcome \in Settled
  <2>1. Visible(k)
    BY <1>2, <1>3, <1>5 DEF OneMessage, Settled
  <2>2. Registered(u)
    BY <1>1, <2>1 DEF Lawful, NotYet, Visible
  <2>3. doc[u] = "processing"
    BY <1>1, <1>3, <2>1, <2>2 DEF Registered, PagesOf, Visible
  <2>4. PICK o \in {"ok", "bad"} : o = Outcome(work[k].outcome)
    BY <1>5 DEF Outcome, Settled
  <2>5. page' = [page EXCEPT ![k] = work[k].outcome]
    BY <1>2, <1>5 DEF Settled
  <2>6. outcomes' = [outcomes EXCEPT ![<<u, p>>] = o]
    BY <1>1, <2>4, <2>5 DEF outcomes, TypeOK
  <2>7. outcomes[<<u, p>>] = "open"
    BY <1>1, <1>4 DEF outcomes
  <2>8. Lifecycle!Settle(u, p)
    BY <1>2, <2>3, <2>6, <2>7 DEF Lifecycle!Settle, outcomes
  <2> QED
    BY <2>8
<1>6. CASE work[k].outcome \notin Settled
  <2>1. \A j \in Tasks : page'[j] = IF j = k /\ work[k].outcome # "none" THEN work[k].outcome ELSE page[j]
    BY <1>2 DEF TypeOK
  <2>2. outcomes' = outcomes
    BY <1>4, <1>6, <2>1, SameOutcomes DEF Outcome, Settled
  <2> QED
    BY <1>2, <2>2 DEF Lifecycle!vars, outcomes
<1> QED
  BY <1>5, <1>6

(* The reduction of the statuses of settled pages is that of their outcomes.   *)
LEMMA ReductionsAgree ==
    ASSUME TypeOK, NEW u \in Uploads, PagesOf(u) \subseteq Settled,
           \A p \in Pages : page[<<u, p>>] # "absent"
    PROVE  /\ "open" \notin Lifecycle!PageOutcomes(u)
           /\ ReconcileDocumentStatus(PagesOf(u)) = Lifecycle!Reduction(Lifecycle!PageOutcomes(u))
<1> DEFINE O == Lifecycle!PageOutcomes(u)
           S == PagesOf(u)
<1>1. \A p \in Pages : <<u, p>> \in Tasks /\ page[<<u, p>>] \in Settled /\ page[<<u, p>>] \in S
  BY DEF PagesOf, Tasks
<1>2. O = {Outcome(page[<<u, p>>]) : p \in Pages}
  BY <1>1 DEF Lifecycle!PageOutcomes
<1>3. S = {page[<<u, p>>] : p \in Pages}
  BY DEF PagesOf
<1>4. \A s \in Settled : Outcome(s) \in {"ok", "bad"} /\ (Outcome(s) = "ok" <=> s = "succeeded")
  BY DEF Outcome, Settled
<1>5. PICK q \in Pages : TRUE
  BY ConstantsOK
<1>6. "ok" \in O <=> "succeeded" \in S
  BY <1>1, <1>2, <1>3, <1>4
<1>7. O = {"ok"} <=> S = {"succeeded"}
  <2>1. O = {"ok"} <=> \A p \in Pages : Outcome(page[<<u, p>>]) = "ok"
    BY <1>2, <1>5
  <2>2. S = {"succeeded"} <=> \A p \in Pages : page[<<u, p>>] = "succeeded"
    BY <1>3, <1>5
  <2> QED
    BY <1>1, <1>4, <2>1, <2>2
<1>8. "open" \notin O
  BY <1>1, <1>2, <1>4
<1> QED
  BY <1>6, <1>7, <1>8 DEF ReconcileDocumentStatus, Lifecycle!Reduction

LEMMA PublishRefines ==
    ASSUME TypeOK, Lawful, NEW u \in Uploads, ReconcileWrites(u)
    PROVE  Lifecycle!Publish(u) \/ UNCHANGED Lifecycle!vars
<1>1. /\ computed[u] # "none" /\ doc' = [doc EXCEPT ![u] = computed[u]] /\ page' = page
  BY DEF ReconcileWrites
<1>2. Registered(u)
  BY <1>1 DEF Lawful, NotYet
<1>3. outcomes' = outcomes
  BY <1>1 DEF outcomes
<1>4. CASE doc[u] = "processing"
  <2>1. /\ \A p \in Pages : page[<<u, p>>] # "absent"
        /\ PagesOf(u) \subseteq Settled /\ computed[u] = ReconcileDocumentStatus(PagesOf(u))
    BY <1>1, <1>2, <1>4 DEF Registered
  <2>2. /\ "open" \notin Lifecycle!PageOutcomes(u)
        /\ computed[u] = Lifecycle!Reduction(Lifecycle!PageOutcomes(u))
    BY <2>1, ReductionsAgree
  <2> QED
    BY <1>1, <1>3, <1>4, <2>2 DEF Lifecycle!Publish, outcomes
<1>5. CASE doc[u] # "processing"
  <2>1. doc[u] = computed[u]
    BY <1>1, <1>2, <1>5 DEF Registered
  <2> QED
    BY <1>1, <1>3, <2>1 DEF Lifecycle!vars, outcomes, TypeOK
<1> QED
  BY <1>4, <1>5

LEMMA NextRefines ==
    Undisturbed /\ TypeOK /\ Lawful /\ [Next]_vars => [Lifecycle!Next]_(Lifecycle!vars)
<1>s. ASSUME UNCHANGED <<doc, page>>
      PROVE  UNCHANGED Lifecycle!vars
  BY <1>s DEF Lifecycle!vars
<1>1. ASSUME TypeOK, Lawful, NEW h \in Handlers, Handler(h) \/ HandlerLost(h)
      PROVE  [Lifecycle!Next]_(Lifecycle!vars)
  <2>1. CASE Commits(h)
    BY <1>1, <2>1, RegisterRefines DEF Lifecycle!Next
  <2>2. CASE Rejected(h)
    BY <1>1, <2>2, RejectRefines DEF Lifecycle!Next
  <2>3. ASSUME (\E x \in Keys : Decides(h, x)) \/ Flushes(h) \/ (\E p \in Pages : Enqueues(h, p))
               \/ HandlerLost(h)
        PROVE  UNCHANGED <<doc, page>>
    BY <2>3 DEF Decides, Flushes, Enqueues, HandlerLost, rows
  <2> QED
    BY <1>1, <1>s, <2>1, <2>2, <2>3 DEF Handler
<1>2. ASSUME TypeOK, Lawful, NEW k \in Tasks,
             Worker(k) \/ WorkerLost(k) \/ RaisesUnexpected(k) \/ DeadLetterLost(k)
      PROVE  [Lifecycle!Next]_(Lifecycle!vars)
  <2>1. CASE PageCommits(k)
    BY <1>2, <2>1, SettleRefines DEF Lifecycle!Next
  <2>2. CASE ~PageCommits(k)
    <3>1. UNCHANGED <<doc, page>>
      BY <1>2, <2>2 DEF Worker, WorkerLost, RaisesUnexpected, DeadLetterLost, Starts, Loads,
                        Succeeds, Retries, GivesUp, Acknowledged, rows
    <3> QED
      BY <1>s, <3>1
  <2> QED
    BY <2>1, <2>2
<1>3. ASSUME Undisturbed, TypeOK, Lawful, NEW u \in Uploads,
             ReconcileReads(u) \/ ReconcileWrites(u) \/ SoftDelete(u) \/ CleanUp(u)
      PROVE  [Lifecycle!Next]_(Lifecycle!vars)
  <2>1. CASE ReconcileWrites(u)
    BY <1>3, <2>1, PublishRefines DEF Lifecycle!Next
  <2>2. CASE ReconcileReads(u)
    BY <1>s, <2>2 DEF ReconcileReads, rows
  <2>3. ~SoftDelete(u) /\ ~CleanUp(u)
    BY <1>3 DEF SoftDelete, CleanUp, Undisturbed, Lawful
  <2> QED
    BY <1>3, <2>1, <2>2, <2>3
<1>4. CASE UNCHANGED vars
  BY <1>s, <1>4 DEF vars, rows
<1> QED
  BY <1>1, <1>2, <1>3, <1>4 DEF Next

(* What the control plane does to documents and pages is what PdfLifecycle       *)
(* allows: a page is settled once, while its document is being processed, and a   *)
(* document's status is published once, from how all its pages ended.          *)
THEOREM ControlPlaneImplementsLifecycle ==
    ASSUME Undisturbed
    PROVE  Spec => ImplementsLifecycle
<1>1. Init => Lifecycle!Init
  <2>1. SUFFICES ASSUME Init
                 PROVE  Lifecycle!Init
    OBVIOUS
  <2>2. outcomes = [k \in Uploads \X Pages |-> "open"]
    BY <2>1 DEF Init, outcomes, Outcome, Tasks
  <2> QED
    BY <2>1, <2>2 DEF Init, Lifecycle!Init, outcomes
<1>2. TypeOK /\ [Next]_vars => TypeOK'
  BY NextType
<1>3. TypeOK /\ Lawful /\ [Next]_vars => Lawful'
  BY NextLawful
<1>4. TypeOK /\ Lawful /\ [Next]_vars => [Lifecycle!Next]_(Lifecycle!vars)
  BY NextRefines
<1> QED
  BY <1>1, <1>2, <1>3, <1>4, InitType, InitLawful, PTL DEF Spec, ImplementsLifecycle, Lifecycle!Spec
===============================================================================
