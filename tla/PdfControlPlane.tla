---------------------------- MODULE PdfControlPlane ---------------------------
(***************************************************************************)
(* The control plane of PDF chat: upload handlers register a document and   *)
(* fan it out into one Celery task per page, workers extract the pages into *)
(* Neo4j, a reconciler reduces page statuses to a document status, and a    *)
(* delete hides the document and clears its graph.  Manifest rows live in   *)
(* PostgreSQL (each handler and each task is one transaction), messages in  *)
(* the broker, the dead-letter queue in Redis.                              *)
(*                                                                          *)
(* Source: server/pdf_chat/control_plane/{orchestrator,dedup,state_machine, *)
(* repositories,delete_service}.py, ingestion/{tasks,finalize}.py.          *)
(***************************************************************************)
EXTENDS Naturals, FiniteSets

CONSTANTS
    MaxUploads, \* bound: documents
    Pages,      \* the pages of a document
    Keys,       \* a key is a tenant and a SHA-256: the scope of deduplication
    Accepts,    \* keys whose bytes the preflight may accept
    Rejects,    \* keys it may reject; its limits are settings, a key may be in both
    Handlers,   \* upload requests, each with a handler of its own
    Ops,        \* which of AllOps may happen
    Faults,     \* which of AllFaults may happen
    MaxRetries, \* max_retries of a page task
    MaxFaults   \* bound: faults

(* reconcile_any: reconcile is called at any time; reconcile_settled: only    *)
(* once every page is settled; delete: documents are deleted.                *)
AllOps == {"reconcile_any", "reconcile_settled", "delete"}

(* worker_lost: a worker dies before its commit, ack_lost: after it;         *)
(* handler_lost: a handler fails before its commit; unexpected_error: the    *)
(* extraction raises what is neither TransientError nor PermanentError;       *)
(* redis_down: the push to the dead-letter queue raises.                     *)
AllFaults == {"worker_lost", "ack_lost", "handler_lost", "unexpected_error", "redis_down"}

ASSUME ConstantsOK ==
    /\ MaxUploads \in Nat
    /\ Pages # {}
    /\ Accepts \subseteq Keys
    /\ Rejects \subseteq Keys
    /\ Ops \subseteq AllOps
    /\ Faults \subseteq AllFaults
    /\ MaxRetries \in Nat
    /\ MaxFaults \in Nat

Uploads == 1..MaxUploads
Tasks == Uploads \X Pages

VARIABLES
    doc,       \* pdf_upload_manifest.status, "none" without a committed row
    key,       \* its tenant and fingerprint
    page,      \* pdf_page_manifest.status, "absent" without a committed row
    allocated, \* upload ids given out so far, in order of created_at
    hpc, hkey, hup, hsent, \* upload handlers: see Handler below
    queue,     \* for each page task, the retry counts of its queued messages
    work,      \* the delivery of each page task that a worker runs
    graph,     \* pages whose chunks are all in Neo4j
    dlq,       \* page tasks pushed to the dead-letter queue
    computed,  \* the status a reconcile has computed and not yet written
    cleanup,   \* documents whose graph cascade is scheduled
    faults

rows == <<doc, key, page, allocated>>
handlerVars == <<hpc, hkey, hup, hsent>>
workerVars == <<queue, work, graph, dlq>>
otherVars == <<computed, cleanup>>
vars == <<rows, handlerVars, workerVars, otherVars, faults>>

CanFault(x) == x \in Faults /\ faults < MaxFaults
Fault(x) == CanFault(x) /\ faults' = faults + 1

DocStatuses == {"none", "processing", "indexed", "partially_indexed", "failed", "deleted"}
PageStatuses == {"absent", "pending", "running", "succeeded", "failed_retryable", "failed_terminal"}
Settled == {"succeeded", "failed_terminal"}

Idle == [phase |-> "idle", tries |-> 0, outcome |-> "none"]

Init ==
    /\ doc = [u \in Uploads |-> "none"]
    /\ key = [u \in Uploads |-> "none"]
    /\ page = [k \in Tasks |-> "absent"]
    /\ allocated = 0
    /\ hpc = [h \in Handlers |-> "new"]
    /\ hkey = [h \in Handlers |-> "none"]
    /\ hup = [h \in Handlers |-> 0]
    /\ hsent = [h \in Handlers |-> {}]
    /\ queue = [k \in Tasks |-> {}]
    /\ work = [k \in Tasks |-> Idle]
    /\ graph = {}
    /\ dlq = {}
    /\ computed = [u \in Uploads |-> "none"]
    /\ cleanup = {}
    /\ faults = 0
-----------------------------------------------------------------------------
(* Upload handlers: ingest_document.                                         *)

PagesOf(u) == {page[<<u, p>>] : p \in Pages} \ {"absent"}

(* A handler that has written the row of document u and not committed yet.    *)
Locked(u) == \E h \in Handlers : hpc[h] = "sending" /\ hup[h] = u

(* find_by_sha256 returns the newest row of the key; decide_dedup decides.   *)
Known(x) == {u \in Uploads : doc[u] # "none" /\ key[u] = x}
IsNewest(u, x) == u \in Known(x) /\ \A v \in Known(x) : v <= u

DecideDedup(status) == IF status = "failed" THEN "decided" ELSE "skipped"

Decides(h, x) ==
    /\ hpc[h] = "new"
    /\ hkey' = [hkey EXCEPT ![h] = x]
    /\ \/ /\ Known(x) = {}
          /\ hpc' = [hpc EXCEPT ![h] = "decided"]
          /\ UNCHANGED hup
       \/ \E u \in Uploads :
              /\ IsNewest(u, x)
              /\ hpc' = [hpc EXCEPT ![h] = DecideDedup(doc[u])]
              /\ hup' = [hup EXCEPT ![h] = u]
    /\ UNCHANGED <<rows, hsent, workerVars, otherVars, faults>>

IsNew(h) == hup[h] = 0

(* The preflight rejects the file: the failure is recorded and committed.    *)
Rejected(h) ==
    LET u == IF IsNew(h) THEN allocated + 1 ELSE hup[h] IN
    /\ hpc[h] = "decided"
    /\ hkey[h] \in Rejects
    /\ u \in Uploads
    /\ ~Locked(u)
    /\ doc' = [doc EXCEPT ![u] = "failed"]
    /\ key' = [key EXCEPT ![u] = hkey[h]]
    /\ allocated' = IF IsNew(h) THEN u ELSE allocated
    /\ hpc' = [hpc EXCEPT ![h] = "rejected"]
    /\ UNCHANGED <<page, hkey, hup, hsent, workerVars, otherVars, faults>>

(* Rows are flushed: nobody else sees them before the commit.  The pages of   *)
(* a document that is reprocessed have the task ids of its earlier pages, so  *)
(* the insert fails if there are any, and the transaction is rolled back.     *)
Flushes(h) ==
    LET u == IF IsNew(h) THEN allocated + 1 ELSE hup[h] IN
    /\ hpc[h] = "decided"
    /\ hkey[h] \in Accepts
    /\ u \in Uploads
    /\ ~Locked(u)
    /\ hpc' = [hpc EXCEPT ![h] = IF PagesOf(u) = {} THEN "sending" ELSE "error"]
    /\ hup' = [hup EXCEPT ![h] = u]
    /\ allocated' = IF IsNew(h) THEN u ELSE allocated
    /\ UNCHANGED <<doc, key, page, hkey, hsent, workerVars, otherVars, faults>>

Enqueues(h, p) ==
    /\ hpc[h] = "sending"
    /\ p \notin hsent[h]
    /\ queue' = [queue EXCEPT ![<<hup[h], p>>] = @ \cup {0}]
    /\ hsent' = [hsent EXCEPT ![h] = @ \cup {p}]
    /\ UNCHANGED <<rows, hpc, hkey, hup, work, graph, dlq, otherVars, faults>>

Commits(h) ==
    /\ hpc[h] = "sending"
    /\ hsent[h] = Pages
    /\ doc' = [doc EXCEPT ![hup[h]] = "processing"]
    /\ key' = [key EXCEPT ![hup[h]] = hkey[h]]
    /\ page' = [k \in Tasks |-> IF k[1] = hup[h] THEN "pending" ELSE page[k]]
    /\ hpc' = [hpc EXCEPT ![h] = "accepted"]
    /\ UNCHANGED <<allocated, hkey, hup, hsent, workerVars, otherVars, faults>>

(* The process dies, a publication or the commit fails: the rows are rolled   *)
(* back, the messages sent so far are not.                                   *)
HandlerLost(h) ==
    /\ hpc[h] \in {"decided", "sending"}
    /\ Fault("handler_lost")
    /\ hpc' = [hpc EXCEPT ![h] = "error"]
    /\ UNCHANGED <<rows, hkey, hup, hsent, workerVars, otherVars>>

Handler(h) ==
    \/ \E x \in Keys : Decides(h, x)
    \/ Rejected(h) \/ Flushes(h) \/ Commits(h)
    \/ \E p \in Pages : Enqueues(h, p)
-----------------------------------------------------------------------------
(* Workers: process_page_task and _run_page_extraction.  The first statement  *)
(* of the transaction updates the page row, so two deliveries of one task     *)
(* run one after the other; everything it writes shows at its commit.        *)

Visible(k) == page[k] # "absent"

Starts(k, t) ==
    /\ work[k].phase = "idle"
    /\ t \in queue[k]
    /\ queue' = [queue EXCEPT ![k] = @ \ {t}]
    /\ work' = [work EXCEPT ![k] = [phase |-> "started", tries |-> t, outcome |-> "none"]]
    /\ UNCHANGED <<rows, handlerVars, graph, dlq, otherVars, faults>>

(* load_page_inputs: a row that is not there is a PermanentError.            *)
Loads(k) ==
    /\ work[k].phase = "started"
    /\ work' = [work EXCEPT ![k].phase = IF Visible(k) THEN "loaded" ELSE "refused"]
    /\ UNCHANGED <<rows, handlerVars, queue, graph, dlq, otherVars, faults>>

Ends(k, outcome) ==
    work' = [work EXCEPT ![k].phase = "ending", ![k].outcome = outcome]

(* The chunks are written to Neo4j before the row is updated.                *)
Succeeds(k) ==
    /\ work[k].phase = "loaded"
    /\ graph' = graph \cup {k}
    /\ Ends(k, "succeeded")
    /\ UNCHANGED <<rows, handlerVars, queue, dlq, otherVars, faults>>

(* TransientError with attempts left: the retry is published before the       *)
(* commit.                                                                   *)
AttemptsLeft_OneTooMany(k) == work[k].tries <= MaxRetries
AttemptsLeft(k) == work[k].tries < MaxRetries

RetryMessages_None(t) == {}
RetryMessages(t) == {t + 1}

Retries(k) ==
    /\ work[k].phase = "loaded"
    /\ AttemptsLeft(k)
    /\ queue' = [queue EXCEPT ![k] = @ \cup RetryMessages(work[k].tries)]
    /\ Ends(k, "failed_retryable")
    /\ UNCHANGED <<rows, handlerVars, graph, dlq, otherVars, faults>>

(* PermanentError, or TransientError without attempts left: the page is given *)
(* up, in the dead-letter queue before the commit.                           *)
DeadLetters_Exhausted(k) == IF work[k].tries = MaxRetries THEN {k} ELSE {}
DeadLetters(k) == {k}

GivesUp(k) ==
    /\ work[k].phase \in {"loaded", "refused"}
    /\ dlq' = dlq \cup DeadLetters(k)
    /\ Ends(k, IF Visible(k) THEN "failed_terminal" ELSE "none")
    /\ UNCHANGED <<rows, handlerVars, queue, graph, otherVars, faults>>

(* The push raises: the finally clause commits the page all the same.        *)
DeadLetterLost(k) ==
    /\ work[k].phase \in {"loaded", "refused"}
    /\ Fault("redis_down")
    /\ Ends(k, IF Visible(k) THEN "failed_terminal" ELSE "none")
    /\ UNCHANGED <<rows, handlerVars, queue, graph, dlq, otherVars>>

(* Any other exception: the finally clause commits "running" all the same.   *)
RaisesUnexpected(k) ==
    /\ work[k].phase = "loaded"
    /\ Fault("unexpected_error")
    /\ Ends(k, "running")
    /\ UNCHANGED <<rows, handlerVars, queue, graph, dlq, otherVars>>

PageCommits(k) ==
    /\ work[k].phase = "ending"
    /\ page' = [page EXCEPT ![k] = IF work[k].outcome = "none" THEN @ ELSE work[k].outcome]
    /\ work' = [work EXCEPT ![k].phase = "committed"]
    /\ UNCHANGED <<doc, key, allocated, handlerVars, queue, graph, dlq, otherVars, faults>>

Acknowledged(k) ==
    /\ work[k].phase = "committed"
    /\ work' = [work EXCEPT ![k] = Idle]
    /\ UNCHANGED <<rows, handlerVars, queue, graph, dlq, otherVars, faults>>

(* acks_late: the message of a dead worker is delivered again.               *)
WorkerLost(k) ==
    /\ work[k].phase # "idle"
    /\ Fault(IF work[k].phase = "committed" THEN "ack_lost" ELSE "worker_lost")
    /\ queue' = [queue EXCEPT ![k] = @ \cup {work[k].tries}]
    /\ work' = [work EXCEPT ![k] = Idle]
    /\ UNCHANGED <<rows, handlerVars, graph, dlq, otherVars>>

Worker(k) ==
    \/ \E t \in queue[k] : Starts(k, t)
    \/ Loads(k) \/ Succeeds(k) \/ Retries(k) \/ GivesUp(k)
    \/ PageCommits(k) \/ Acknowledged(k)
-----------------------------------------------------------------------------
(* reconcile_document_status, on the statuses of the pages of a document.    *)
ReconcileDocumentStatus_AnyPage(statuses) ==
    IF "succeeded" \in statuses THEN "indexed" ELSE "failed"

ReconcileDocumentStatus(statuses) ==
    IF statuses = {"succeeded"} THEN "indexed"
    ELSE IF "succeeded" \in statuses THEN "partially_indexed" ELSE "failed"

(* Its contract asks for settled pages; reconcile itself does not check.     *)
MayReconcile_AnyTime(u) == TRUE
MayReconcile(u) ==
    \/ "reconcile_any" \in Ops
    \/ "reconcile_settled" \in Ops /\ PagesOf(u) \subseteq Settled

(* reconcile reads the pages ...                                             *)
ReconcileReads(u) ==
    /\ doc[u] # "none"
    /\ computed[u] = "none"
    /\ MayReconcile(u)
    /\ computed' = [computed EXCEPT ![u] = ReconcileDocumentStatus(PagesOf(u))]
    /\ UNCHANGED <<rows, handlerVars, workerVars, cleanup, faults>>

(* ... and overwrites the status of the document, whatever it is by then.    *)
ReconcileWrites(u) ==
    /\ computed[u] # "none"
    /\ ~Locked(u)
    /\ doc' = [doc EXCEPT ![u] = computed[u]]
    /\ computed' = [computed EXCEPT ![u] = "none"]
    /\ UNCHANGED <<key, page, allocated, handlerVars, workerVars, cleanup, faults>>

(* DELETE /documents/{id}: the soft delete answers the request ...           *)
SoftDelete(u) ==
    /\ "delete" \in Ops
    /\ doc[u] # "none"
    /\ ~Locked(u)
    /\ doc' = [doc EXCEPT ![u] = "deleted"]
    /\ cleanup' = cleanup \cup {u}
    /\ UNCHANGED <<key, page, allocated, handlerVars, workerVars, computed, faults>>

(* ... and the graph cascade runs later (module GraphDelete has its steps).  *)
CleanUp(u) ==
    /\ u \in cleanup
    /\ graph' = {k \in graph : k[1] # u}
    /\ cleanup' = cleanup \ {u}
    /\ UNCHANGED <<rows, handlerVars, queue, work, dlq, computed, faults>>

Next ==
    \/ \E h \in Handlers : Handler(h) \/ HandlerLost(h)
    \/ \E k \in Tasks : Worker(k) \/ WorkerLost(k) \/ RaisesUnexpected(k) \/ DeadLetterLost(k)
    \/ \E u \in Uploads :
           ReconcileReads(u) \/ ReconcileWrites(u) \/ SoftDelete(u) \/ CleanUp(u)

Spec == Init /\ [][Next]_vars

(* Workers run what is queued; uploads, reconciles and deletes need not come. *)
FairSpec == Spec /\ \A k \in Tasks : WF_vars(Worker(k))
-----------------------------------------------------------------------------
TypeOK ==
    /\ doc \in [Uploads -> DocStatuses]
    /\ key \in [Uploads -> Keys \cup {"none"}]
    /\ page \in [Tasks -> PageStatuses]
    /\ allocated \in 0..MaxUploads
    /\ hpc \in [Handlers -> {"new", "decided", "sending", "accepted", "rejected",
                             "skipped", "error"}]
    /\ hkey \in [Handlers -> Keys \cup {"none"}]
    /\ hup \in [Handlers -> 0..MaxUploads]
    /\ hsent \in [Handlers -> SUBSET Pages]
    /\ queue \in [Tasks -> SUBSET (0..MaxRetries)]
    /\ work \in [Tasks ->
           [phase : {"idle", "started", "loaded", "refused", "ending", "committed"},
            tries : 0..MaxRetries,
            outcome : (PageStatuses \ {"absent", "pending"}) \cup {"none"}]]
    /\ graph \subseteq Tasks
    /\ dlq \subseteq Tasks
    /\ computed \in [Uploads -> DocStatuses]
    /\ cleanup \subseteq Uploads
    /\ faults \in 0..MaxFaults

(* A document is "indexed" only when every one of its pages can be found by a *)
(* search: whatever is retried, redelivered or reconciled at the wrong time.  *)
IndexedIsSearchable ==
    \A u \in Uploads : doc[u] = "indexed" => \A p \in Pages : <<u, p>> \in graph

(* A page given up is in the dead-letter queue, from which it can be replayed, *)
(* although the worker may die between the two and the page be tried again:   *)
(* this holds while Redis answers.                                           *)
TerminalIsDeadLettered == \A k \in Tasks : page[k] = "failed_terminal" => k \in dlq

(* No page is lost in silence: a registered page ends settled or in the       *)
(* dead-letter queue, also when a worker looked for its row too early.        *)
EveryPageIsAccountedFor ==
    \A k \in Tasks :
        page[k] \in {"pending", "failed_retryable"} ~> page[k] \in Settled \/ k \in dlq

(* With reconciles of settled documents only, what the control plane does to  *)
(* documents and pages is what PdfLifecycle allows.                          *)
Outcome(s) == IF s = "succeeded" THEN "ok" ELSE IF s = "failed_terminal" THEN "bad" ELSE "open"
Lifecycle ==
    INSTANCE PdfLifecycle WITH status <- doc, outcome <- [k \in Tasks |-> Outcome(page[k])]
ImplementsLifecycle == Lifecycle!Spec

(* "created BEFORE enqueue": a worker never misses the row of its page.       *)
WorkersFindTheirPage == \A k \in Tasks : work[k].phase # "refused"
===============================================================================
