------------------------------ MODULE FileUploads -----------------------------
(***************************************************************************)
(* Uploads from the folders page: batches of files that go to storage and are *)
(* then confirmed, beside cancellations, the synchronisation of the container *)
(* with its storage, and deletions of files and folders.                       *)
(*                                                                          *)
(* Source: client/lib/upload.ts, client/app/(app)/folders/page.tsx,            *)
(* server/app/api/v1/{files,folders,containers}.py.                            *)
(***************************************************************************)
EXTENDS Naturals, Sequences, FiniteSets, SequencesExt

CONSTANTS
    Batches,       \* the batches a user uploads, one after the other: sequences of files
    RelativePath,  \* by file: the directories it was in, outermost first
    MaxConcurrent, \* uploads of a batch at a time
    Syncs,         \* synchronisations
    Root           \* the folder everything is in

VARIABLES
    opened,    \* batches handed to handleUpload so far
    ctrl,      \* uploadCtrl: the batch its buttons cancel, 0 for null
    panel,     \* uploadProgress: the phases shown, by position
    pc,        \* by file: what became of its upload
    cancelled, \* files whose cancellation their controller knows
    blob,      \* files whose blob is in storage
    request,   \* by file: where its confirm_upload is on the server
    place,     \* by file: [at, made, bad] of the folder path it resolved
    folders,   \* committed folders: [name, parent, by]
    rows,      \* committed rows: [file, by, folder]
    started,   \* files with a row whose ingestion was published
    sync       \* by sync: [st, listed, drop, add, empty]

clientVars == <<opened, ctrl, panel, pc, cancelled>>
serverVars == <<blob, request, place, folders, rows, started>>
vars == <<clientVars, serverVars, sync>>

Files == UNION {ToSet(Batches[b]) : b \in DOMAIN Batches}
BatchOf(f) == CHOOSE b \in DOMAIN Batches : f \in ToSet(Batches[b])
IndexOf(f) == CHOOSE i \in DOMAIN Batches[BatchOf(f)] : Batches[BatchOf(f)][i] = f
Over == {"done", "error", "cancelled"}
Running(b) == {f \in ToSet(Batches[b]) : pc[f] \in {"sas", "uploading", "confirming"}}

Init ==
    /\ opened = 0 /\ ctrl = 0 /\ panel = <<>> /\ cancelled = {}
    /\ pc = [f \in Files |-> "none"]
    /\ blob = {} /\ request = [f \in Files |-> "none"]
    /\ place = [f \in Files |-> [at |-> Root, made |-> {}, bad |-> FALSE]]
    /\ folders = {} /\ rows = {} /\ started = {}
    /\ sync = [s \in Syncs |-> [st |-> "none", listed |-> {}, drop |-> {}, add |-> {}, empty |-> {}]]
-----------------------------------------------------------------------------
(* onProgress of any batch writes into the one panel, by position.             *)
Shown(f, phase) == [i \in DOMAIN panel |-> IF i = IndexOf(f) THEN phase ELSE panel[i]]
Goes(f, phase) == pc' = [pc EXCEPT ![f] = phase] /\ panel' = Shown(f, phase)

(* handleUpload: a new controller and a new panel, whatever is under way.       *)
HandleUpload ==
    /\ opened < Len(Batches)
    /\ opened' = opened + 1 /\ ctrl' = opened'
    /\ panel' = [i \in DOMAIN Batches[opened'] |-> "queued"]
    /\ pc' = [f \in Files |-> IF BatchOf(f) = opened' THEN "queued" ELSE pc[f]]
    /\ UNCHANGED <<cancelled, serverVars, sync>>

(* startOne: files are taken in order while fewer than maxConcurrent run.      *)
StartOne(f) ==
    /\ pc[f] = "queued" /\ Cardinality(Running(BatchOf(f))) < MaxConcurrent
    /\ \A i \in 1..IndexOf(f) - 1 : pc[Batches[BatchOf(f)][i]] /= "queued"
    /\ IF f \in cancelled THEN Goes(f, "cancelled")
       ELSE pc' = [pc EXCEPT ![f] = "sas"] /\ UNCHANGED panel
    /\ UNCHANGED <<opened, ctrl, cancelled, serverVars, sync>>

GotUrl(f) ==
    /\ pc[f] = "sas" /\ f \notin cancelled /\ Goes(f, "uploading")
    /\ UNCHANGED <<opened, ctrl, cancelled, serverVars, sync>>

Uploaded(f) ==
    /\ pc[f] = "uploading" /\ f \notin cancelled
    /\ blob' = blob \cup {f} /\ request' = [request EXCEPT ![f] = "received"]
    /\ Goes(f, "confirming")
    /\ UNCHANGED <<opened, ctrl, cancelled, place, folders, rows, started, sync>>

(* An abort makes the fetch or the transfer under way reject; the server goes on. *)
Aborted(f) ==
    /\ pc[f] \in {"sas", "uploading", "confirming"} /\ f \in cancelled
    /\ Goes(f, "cancelled")
    /\ UNCHANGED <<opened, ctrl, cancelled, serverVars, sync>>

(* The network or storage fails; of a transfer the blob may be there.           *)
Breaks(f) ==
    /\ pc[f] \in {"sas", "uploading"} /\ f \notin cancelled
    /\ \/ UNCHANGED blob
       \/ pc[f] = "uploading" /\ blob' = blob \cup {f}
    /\ Goes(f, "error")
    /\ UNCHANGED <<opened, ctrl, cancelled, request, place, folders, rows, started, sync>>

Told(f) == IF request[f] = "published" THEN "done" ELSE "error"
Confirmed(f) ==
    /\ pc[f] = "confirming" /\ request[f] \in {"published", "failed"}
    /\ f \notin cancelled
    /\ Goes(f, Told(f))
    /\ UNCHANGED <<opened, ctrl, cancelled, serverVars, sync>>

(* handleUpload after its queue: the controller is gone, whoever's it is; the   *)
(* panel goes three seconds later, whoever's it is.                            *)
Drained(b) == \A f \in ToSet(Batches[b]) : pc[f] \in Over
Finish(b) ==
    /\ b <= opened /\ Drained(b) /\ ctrl /= 0 /\ ctrl' = 0
    /\ cancelled' = cancelled \ ToSet(Batches[b])
    /\ UNCHANGED <<opened, panel, pc, serverVars, sync>>
ClearPanel(b) ==
    /\ b <= opened /\ Drained(b) /\ panel /= <<>> /\ panel' = <<>>
    /\ UNCHANGED <<opened, ctrl, pc, cancelled, serverVars, sync>>

(* The buttons: a file whose position shows queued or uploading; all files that  *)
(* have an AbortController, which those still queued have not.                   *)
Cancel(f) ==
    /\ ctrl = BatchOf(f) /\ IndexOf(f) \in DOMAIN panel
    /\ panel[IndexOf(f)] \in {"queued", "uploading"}
    /\ cancelled' = cancelled \cup {f}
    /\ UNCHANGED <<opened, ctrl, panel, pc, serverVars, sync>>
CancelAll ==
    /\ ctrl /= 0 /\ \E i \in DOMAIN panel : panel[i] \in {"queued", "uploading"}
    /\ cancelled' = cancelled \cup {f \in ToSet(Batches[ctrl]) : pc[f] /= "queued"}
    /\ UNCHANGED <<opened, ctrl, panel, pc, serverVars, sync>>
-----------------------------------------------------------------------------
(* _resolve_folder_path: directory by directory, the folder of that name in the  *)
(* one before it, or a new one; two such folders raise.                         *)
Matching_ByName(known, name, parent) == {d \in known : d.name = name}
Matching(known, name, parent) == {d \in known : d.name = name /\ d.parent = parent}
Enter(f, acc, name) ==
    LET there == Matching(folders \cup acc.made, name, acc.at)
        new == [name |-> name, parent |-> acc.at, by |-> f] IN
    IF acc.bad \/ Cardinality(there) > 1 THEN [acc EXCEPT !.bad = TRUE]
    ELSE IF there = {} THEN [acc EXCEPT !.at = new, !.made = @ \cup {new}]
    ELSE [acc EXCEPT !.at = CHOOSE d \in there : TRUE]
_resolve_folder_path(f) ==
    FoldLeft(LAMBDA acc, name : Enter(f, acc, name), [at |-> Root, made |-> {}, bad |-> FALSE],
             RelativePath[f])

(* confirm_upload: resolve the path (flushed, seen by nobody else), commit the row *)
(* with the new folders, publish the ingestion; only the publication is not undone. *)
Resolve(f) ==
    /\ request[f] = "received"
    /\ place' = [place EXCEPT ![f] = _resolve_folder_path(f)]
    /\ request' = [request EXCEPT ![f] = IF place'[f].bad THEN "failed" ELSE "resolved"]
    /\ UNCHANGED <<clientVars, blob, folders, rows, started, sync>>

Stands(d) == d = Root \/ d \in folders
Commit(f) ==
    LET p == place[f] IN
    /\ request[f] = "resolved"
    /\ IF \A d \in {p.at} \cup {e.parent : e \in p.made} : Stands(d) \/ d \in p.made
       THEN /\ folders' = folders \cup p.made
            /\ rows' = rows \cup {[file |-> f, by |-> "confirm", folder |-> p.at]}
            /\ request' = [request EXCEPT ![f] = "committed"]
       ELSE /\ request' = [request EXCEPT ![f] = "failed"] /\ UNCHANGED <<folders, rows>>
    /\ UNCHANGED <<clientVars, blob, place, started, sync>>

Publish(f) ==
    /\ request[f] = "committed"
    /\ \/ /\ started' = started \cup {f} /\ request' = [request EXCEPT ![f] = "published"]
       \/ /\ request' = [request EXCEPT ![f] = "failed"] /\ UNCHANGED started
    /\ UNCHANGED <<clientVars, blob, place, folders, rows, sync>>
-----------------------------------------------------------------------------
(* Deleting folders takes the folders and the rows in them along.              *)
Below(D) == D \cup {d \in folders : d.parent \in D}
Without(D) == {r \in rows : r.folder \notin Below(D)}

(* sync_container lists the storage first and reads the rows afterwards.        *)
SyncLists(s) ==
    /\ sync[s].st = "none"
    /\ sync' = [sync EXCEPT ![s].st = "listed", ![s].listed = blob]
    /\ UNCHANGED <<clientVars, serverVars>>

(* Rows without a listed blob are dropped, listed blobs without a row get one;    *)
(* a blob of two rows raises and the whole synchronisation is undone. Folders     *)
(* that nothing is left in go; one that only such folders are in may go, too.      *)
SyncReads(s) ==
    LET listed == sync[s].listed
        drop == {r \in rows : r.file \notin listed}
        RowsOf(f) == {r \in rows : r.file = f}
        add == {[file |-> f, by |-> s, folder |-> Root] : f \in {g \in listed : RowsOf(g) = {}}}
        Bare(D) == {d \in D : /\ \A r \in (rows \ drop) \cup add : r.folder /= d
                              /\ \A e \in D : e.parent /= d}
        bare == Bare(folders) IN
    /\ sync[s].st = "listed"
    /\ IF \E f \in listed : Cardinality(RowsOf(f)) > 1
       THEN sync' = [sync EXCEPT ![s].st = "undone"]
       ELSE \E e \in {bare, bare \cup Bare(folders \ bare)} :
                sync' = [sync EXCEPT ![s].st = "read", ![s].drop = drop, ![s].add = add, ![s].empty = e]
    /\ UNCHANGED <<clientVars, serverVars>>

SyncCommits(s) ==
    /\ sync[s].st = "read"
    /\ rows' = (Without(sync[s].empty) \ sync[s].drop) \cup sync[s].add
    /\ folders' = folders \ Below(sync[s].empty)
    /\ started' = started \cup {r.file : r \in rows'}
    /\ sync' = [sync EXCEPT ![s].st = "done"]
    /\ UNCHANGED <<clientVars, blob, request, place>>

(* delete_file: the blob, or not if that fails, and the row.                    *)
DeleteFile(r) ==
    /\ r \in rows /\ rows' = rows \ {r}
    /\ blob' \in {blob, blob \ {r.file}}
    /\ UNCHANGED <<clientVars, request, place, folders, started, sync>>

(* delete_folder: the rows, by cascade; the blobs stay.                         *)
DeleteFolder(d) ==
    /\ d \in folders /\ folders' = folders \ Below({d}) /\ rows' = Without({d})
    /\ UNCHANGED <<clientVars, blob, request, place, started, sync>>

MoveFile(r, d) ==
    /\ r \in rows /\ r.folder /= d /\ Stands(d)
    /\ rows' = (rows \ {r}) \cup {[r EXCEPT !.folder = d]}
    /\ UNCHANGED <<clientVars, blob, request, place, folders, started, sync>>

Next ==
    \/ HandleUpload \/ CancelAll
    \/ \E b \in DOMAIN Batches : Finish(b) \/ ClearPanel(b)
    \/ \E f \in Files :
          \/ StartOne(f) \/ GotUrl(f) \/ Uploaded(f) \/ Aborted(f) \/ Breaks(f) \/ Confirmed(f)
          \/ Cancel(f) \/ Resolve(f) \/ Commit(f) \/ Publish(f)
    \/ \E s \in Syncs : SyncLists(s) \/ SyncReads(s) \/ SyncCommits(s)
    \/ \E r \in rows : DeleteFile(r) \/ \E d \in folders \cup {Root} : MoveFile(r, d)
    \/ \E d \in folders : DeleteFolder(d)

Spec == Init /\ [][Next]_vars
-----------------------------------------------------------------------------
(* A file is called done only once its row was committed and its ingestion       *)
(* published, whatever was cancelled beside it, other batches and failures.       *)
DoneIsStarted == \A f \in Files : pc[f] = "done" => f \in started

(* A folder upload keeps its directories: the folder an upload resolved has its   *)
(* names all the way up, however many folders of one name two confirmations made.  *)
PathOf(d) ==
    IF d = Root THEN <<>> ELSE IF d.parent = Root THEN <<d.name>> ELSE <<d.parent.name, d.name>>
KeepsItsDirectories ==
    \A f \in Files : request[f] = "resolved" => PathOf(place[f].at) = RelativePath[f]

=============================================================================
