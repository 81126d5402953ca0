----------------------------- MODULE PdfLifecycle -----------------------------
(***************************************************************************)
(* What the PDF control plane promises of a document, without queues,       *)
(* workers, transactions or retries: it is registered with all its pages    *)
(* open, each page is settled once, and the status of the document is       *)
(* published once, when no page is open, from how its pages ended.          *)
(*                                                                          *)
(* Source: the contracts in server/pdf_chat/ingestion/finalize.py and       *)
(* control_plane/state_machine.py (reconcile_document_status).              *)
(***************************************************************************)
CONSTANTS Uploads, Pages

VARIABLES
    status, \* of each document
    outcome \* of each page: "open", "ok" or "bad"

vars == <<status, outcome>>

PageOutcomes(u) == {outcome[<<u, p>>] : p \in Pages}

(* How the outcomes of its pages make the status of a document.              *)
Reduction(outcomes) ==
    IF outcomes = {"ok"} THEN "indexed"
    ELSE IF "ok" \in outcomes THEN "partially_indexed" ELSE "failed"

Init ==
    /\ status = [u \in Uploads |-> "none"]
    /\ outcome = [k \in Uploads \X Pages |-> "open"]

Register(u) ==
    /\ status[u] = "none"
    /\ status' = [status EXCEPT ![u] = "processing"]
    /\ UNCHANGED outcome

Reject(u) ==
    /\ status[u] = "none"
    /\ status' = [status EXCEPT ![u] = "failed"]
    /\ UNCHANGED outcome

Settle(u, p) ==
    /\ status[u] = "processing"
    /\ outcome[<<u, p>>] = "open"
    /\ \E o \in {"ok", "bad"} : outcome' = [outcome EXCEPT ![<<u, p>>] = o]
    /\ UNCHANGED status

Publish(u) ==
    /\ status[u] = "processing"
    /\ "open" \notin PageOutcomes(u)
    /\ status' = [status EXCEPT ![u] = Reduction(PageOutcomes(u))]
    /\ UNCHANGED outcome

Next ==
    \E u \in Uploads :
        Register(u) \/ Reject(u) \/ Publish(u) \/ \E p \in Pages : Settle(u, p)

Spec == Init /\ [][Next]_vars
===============================================================================
