------------------------------- MODULE PdfClient ------------------------------
(***************************************************************************)
(* PDF mode of the chat page (_hooks/usePdfChat.ts): questions whose answers   *)
(* are kept in the page only, the choice of documents, and uploads that poll    *)
(* the status of their document; a new upload or a dismissal cancels the loop   *)
(* of the one before, but not the request it waits for.                      *)
(***************************************************************************)
EXTENDS Naturals, FiniteSets

CONSTANTS
    Questions,  \* 1..n, used in order
    Uploads,    \* 1..n, used in order
    Documents,
    MaxPolls,   \* POLL_MAX_ATTEMPTS
    None

VARIABLES
    mode,       \* "excel" or "pdf"
    thread,     \* pairs of a question and what came of it: "asked", "answered", "error"
    asking,     \* the question under way, None without: its number and the mode as it was sent
    silenced,   \* history: questions stopped, or whose answer found another mode
    documents,  \* documents listed
    listing,    \* a load of the documents is under way
    everLoaded, \* loadedOnce
    selected,   \* selectedDocIds, None for all documents
    shown,      \* upload: [of, status, done], None without
    loop,       \* by upload: "unused", "posting", "sleeping", "fetching", "end"
    polls,      \* by upload: attempts so far
    cancelled,  \* uploads whose token is cancelled
    overwrote   \* history: by upload, how often it wrote after that

vars == <<mode, thread, asking, silenced, documents, listing, everLoaded, selected, shown, loop,
          polls, cancelled, overwrote>>
chatVars == <<thread, asking, silenced>>
documentVars == <<documents, listing, everLoaded>>
uploadVars == <<shown, loop, polls, cancelled, overwrote>>

(* A question under way is one.                                                 *)
ConstantsOK == \A q \in Questions, m \in {"excel", "pdf"} : [of |-> q, mode |-> m] # None

Init ==
    /\ mode \in {"excel", "pdf"} /\ thread = {} /\ asking = None /\ silenced = {}
    /\ documents = {} /\ listing = (mode = "pdf") /\ everLoaded = (mode = "pdf") /\ selected = None
    /\ shown = None /\ loop = [u \in Uploads |-> "unused"] /\ polls = [u \in Uploads |-> 0]
    /\ cancelled = {} /\ overwrote = [u \in Uploads |-> 0]

(* "combined" is never entered; the documents are loaded with the first visit.  *)
HandleModeChange(m) ==
    /\ m # mode
    /\ mode' = m
    /\ listing' = (listing \/ (m = "pdf" /\ ~everLoaded))
    /\ everLoaded' = (everLoaded \/ m = "pdf")
    /\ UNCHANGED <<chatVars, documents, selected, uploadVars>>

LoadDocuments ==
    /\ mode = "pdf" /\ ~listing
    /\ listing' = TRUE
    /\ UNCHANGED <<mode, chatVars, documents, everLoaded, selected, uploadVars>>

(* A refusal, or no answer, empties the list; the selection stays.             *)
DocumentsLoaded ==
    /\ listing
    /\ listing' = FALSE
    /\ documents' \in SUBSET Documents
    /\ UNCHANGED <<mode, chatVars, everLoaded, selected, uploadVars>>

SelectAllDocuments ==
    /\ selected # None
    /\ selected' = None
    /\ UNCHANGED <<mode, chatVars, documentVars, uploadVars>>

ToggleDocument(d) ==
    /\ mode = "pdf" /\ d \in documents
    /\ LET was  == IF selected = None THEN {} ELSE selected
           next == IF d \in was THEN was \ {d} ELSE was \cup {d}
       IN  selected' = IF next = {} THEN None ELSE next
    /\ UNCHANGED <<mode, chatVars, documentVars, uploadVars>>
-----------------------------------------------------------------------------
Send(q) ==
    /\ mode = "pdf" /\ asking = None
    /\ \A p \in Questions : p < q <=> \E t \in thread : t[1] = p
    /\ asking' = [of |-> q, mode |-> mode]
    /\ thread' = thread \cup {<<q, "asked">>}
    /\ UNCHANGED <<mode, silenced, documentVars, selected, uploadVars>>

IsStale == mode # asking.mode

(* An answer that finds another mode is dropped, and so is an error.           *)
Lands(result) ==
    /\ asking # None
    /\ asking' = None
    /\ IF IsStale
       THEN silenced' = silenced \cup {asking.of} /\ UNCHANGED thread
       ELSE thread' = thread \cup {<<asking.of, result>>} /\ UNCHANGED silenced
    /\ UNCHANGED <<mode, documentVars, selected, uploadVars>>

HandleStop ==
    /\ asking # None
    /\ asking' = None
    /\ silenced' = silenced \cup {asking.of}
    /\ UNCHANGED <<mode, thread, documentVars, selected, uploadVars>>
-----------------------------------------------------------------------------
Terminal == {"indexed", "partially_indexed", "failed"}
Shows(u, status, done) ==
    /\ shown' = [of |-> u, status |-> status, done |-> done]
    /\ overwrote' = [overwrote EXCEPT ![u] = IF u \in cancelled THEN @ + 1 ELSE @]

(* pollAbort.current is the token of the newest upload.                        *)
UploadPdf(u) ==
    /\ mode = "pdf" /\ loop[u] = "unused"
    /\ \A v \in Uploads : v < u => loop[v] # "unused"
    /\ cancelled' = cancelled \cup {v \in Uploads : v < u}
    /\ loop' = [loop EXCEPT ![u] = "posting"]
    /\ Shows(u, "uploading", FALSE)
    /\ UNCHANGED <<mode, chatVars, documentVars, selected, polls>>

ClearUpload ==
    /\ shown # None
    /\ shown' = None
    /\ cancelled' = cancelled \cup {v \in Uploads : loop[v] # "unused"}
    /\ UNCHANGED <<mode, chatVars, documentVars, selected, loop, polls, overwrote>>

Refreshes == listing' = TRUE /\ UNCHANGED <<documents, everLoaded>>

(* Before and after each pause the loop looks whether its token is cancelled.   *)
Live_Always(u) == TRUE
Live(u) == u \notin cancelled
Continues(u) == IF Live(u) THEN "sleeping" ELSE "end"

(* A deduplicated document counts as indexed whatever its status.              *)
Posted(u) ==
    /\ loop[u] = "posting"
    /\ \E status \in {"indexed", "processing"} :
          /\ Shows(u, status, status = "indexed")
          /\ IF status = "indexed"
             THEN Refreshes /\ loop' = [loop EXCEPT ![u] = "end"]
             ELSE loop' = [loop EXCEPT ![u] = Continues(u)] /\ UNCHANGED documentVars
    /\ UNCHANGED <<mode, chatVars, selected, polls, cancelled>>

PostFails(u) ==
    /\ loop[u] = "posting"
    /\ Shows(u, "failed", TRUE)
    /\ loop' = [loop EXCEPT ![u] = "end"]
    /\ UNCHANGED <<mode, chatVars, documentVars, selected, polls, cancelled>>

Awakes(u) ==
    /\ loop[u] = "sleeping"
    /\ loop' = [loop EXCEPT ![u] = IF Live(u) THEN "fetching" ELSE "end"]
    /\ UNCHANGED <<mode, chatVars, documentVars, selected, shown, polls, cancelled, overwrote>>

(* After the last attempt the note goes to whatever upload is shown.           *)
Polled(u) ==
    /\ loop[u] = "fetching"
    /\ polls' = [polls EXCEPT ![u] = @ + 1]
    /\ \E status \in Terminal \cup {"processing"} :
          IF status \in Terminal
          THEN /\ Shows(u, status, TRUE) /\ Refreshes
               /\ loop' = [loop EXCEPT ![u] = "end"]
          ELSE /\ Shows(u, status, polls'[u] = MaxPolls)
               /\ loop' = [loop EXCEPT ![u] = IF polls'[u] = MaxPolls THEN "end" ELSE Continues(u)]
               /\ UNCHANGED documentVars
    /\ UNCHANGED <<mode, chatVars, selected, cancelled>>

PollFails(u) ==
    /\ loop[u] = "fetching"
    /\ polls' = [polls EXCEPT ![u] = @ + 1]
    /\ IF polls'[u] = MaxPolls
       THEN /\ shown' = IF shown = None THEN None ELSE [shown EXCEPT !.done = TRUE]
            /\ overwrote' = [overwrote EXCEPT ![u] = IF u \in cancelled THEN @ + 1 ELSE @]
            /\ loop' = [loop EXCEPT ![u] = "end"]
       ELSE loop' = [loop EXCEPT ![u] = Continues(u)] /\ UNCHANGED <<shown, overwrote>>
    /\ UNCHANGED <<mode, chatVars, documentVars, selected, cancelled>>

Next ==
    \/ \E m \in {"excel", "pdf"} : HandleModeChange(m)
    \/ LoadDocuments \/ DocumentsLoaded \/ SelectAllDocuments
    \/ \E d \in Documents : ToggleDocument(d)
    \/ \E q \in Questions : Send(q)
    \/ \E result \in {"answered", "error"} : Lands(result)
    \/ HandleStop \/ ClearUpload
    \/ \E u \in Uploads : UploadPdf(u) \/ Posted(u) \/ PostFails(u) \/ Awakes(u) \/ Polled(u) \/ PollFails(u)

Spec == Init /\ [][Next]_vars
-----------------------------------------------------------------------------
(* The loop of an upload that was cancelled writes its progress at most once     *)
(* more, for the request it waited for; and progress that is shown as not done   *)
(* has its loop behind it, if that was not cancelled.  (A dismissed upload whose  *)
(* request is answered afterwards comes back and stays unfinished.)            *)
ProgressHasItsLoop ==
    /\ \A u \in Uploads : overwrote[u] <= 1
    /\ shown # None /\ ~shown.done => shown.of \in cancelled \/ loop[shown.of] # "end"

(* Every question ends with an answer or an error beside it, unless the user      *)
(* stopped it or was in the other mode when the answer came.                   *)
QuestionsEnd ==
    \A t \in thread :
        \/ asking # None /\ asking.of = t[1]
        \/ t[1] \in silenced
        \/ \E s \in thread : s[1] = t[1] /\ s[2] # "asked"
===============================================================================
