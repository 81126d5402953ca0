------------------------------ MODULE Dashboards ------------------------------
(***************************************************************************)
(* The dashboards of one user: rows that requests read when they start and write  *)
(* when they end, with the queries of every widget in between. The ORM writes only  *)
(* the columns a request changed against what it read; nothing locks the row.       *)
(*                                                                          *)
(* Source: server/app/api/v1/dashboards.py, services/dashboard/{query_engine,      *)
(* assembly_engine,empty_state,join_gate,conformed}.py. Titles, descriptions, pins,   *)
(* sizes and insights of widgets are left out.                                  *)
(***************************************************************************)
EXTENDS Naturals, Sequences, FiniteSets

CONSTANTS
    Requests,     \* generate requests
    Appends,      \* those that ask to append
    Planned,      \* by request: the numbers of widgets its plan can have
    Concurrency,  \* DASHBOARD_WIDGET_CONCURRENCY
    Files,        \* files a query can use
    Catalogued,   \* those whose path names one table of the catalog
    SafePairs,    \* pairs of tables with a validated safe relationship
    Conformed,    \* tables with the column of the filter the requests ask for
    None

VARIABLES
    rows,      \* dashboards: [folder, widgets, history, sources, status] or None; 1 may be duplicated as 2
    folders,   \* folders that exist
    parallel,  \* DASHBOARD_PARALLEL_WIDGETS
    at,        \* by request: "idle", "running", "done", "failed"
    seen,      \* by request: the row as it read it
    queries    \* by request: for each widget its result, [kind, files], or "waiting" or "running" for kind

vars == <<rows, folders, parallel, at, seen, queries>>

\* A plan has a number of widgets.
ConstantsOK == \A r \in Requests : \A n \in Planned[r] : n \in Nat

Ids == {1, 2}
Query(kind) == [kind |-> kind, files |-> {}]
NewRow == [folder |-> None, widgets |-> {}, history |-> <<>>, sources |-> {}, status |-> "draft"]

Init ==
    /\ rows = [d \in Ids |-> None]
    /\ folders = {}
    /\ parallel \in BOOLEAN
    /\ at = [r \in Requests |-> "idle"]
    /\ seen = [r \in Requests |-> None]
    /\ queries = [r \in Requests |-> <<>>]

CreateDashboard ==
    /\ rows[1] = None
    /\ \A r \in Requests : at[r] = "idle"
    /\ rows' = [rows EXCEPT ![1] = NewRow]
    /\ UNCHANGED <<folders, parallel, at, seen, queries>>

\* PATCH: a folder that does not exist is refused by its foreign key.
UpdateDashboard(d, f) ==
    /\ rows[d] /= None
    /\ f \in folders \cup {None}
    /\ rows' = [rows EXCEPT ![d].folder = f]
    /\ UNCHANGED <<folders, parallel, at, seen, queries>>

DeleteDashboard(d) ==
    /\ rows[d] /= None
    /\ rows' = [rows EXCEPT ![d] = None]
    /\ UNCHANGED <<folders, parallel, at, seen, queries>>

DuplicateDashboard ==
    /\ rows[1] /= None
    /\ rows[2] = None
    /\ rows' = [rows EXCEPT ![2] = rows[1]]
    /\ UNCHANGED <<folders, parallel, at, seen, queries>>

CreateFolder ==
    /\ folders' = folders \cup {"folder"}
    /\ folders' /= folders
    /\ UNCHANGED <<rows, parallel, at, seen, queries>>

\* The dashboards of the folder stay, without one.
DeleteFolder(f) ==
    /\ f \in folders
    /\ folders' = folders \ {f}
    /\ rows' = [d \in Ids |-> IF rows[d] /= None /\ rows[d].folder = f
                              THEN [rows[d] EXCEPT !.folder = None] ELSE rows[d]]
    /\ UNCHANGED <<parallel, at, seen, queries>>

-----------------------------------------------------------------------------
(* The generation of widgets.                                                *)

\* The row is read and the board planned; an empty catalog plans no widget.
Generate(r) ==
    /\ at[r] = "idle"
    /\ rows[1] /= None
    /\ at' = [at EXCEPT ![r] = "running"]
    /\ seen' = [seen EXCEPT ![r] = rows[1]]
    /\ \E n \in Planned[r] : queries' = [queries EXCEPT ![r] = [i \in 1..n |-> Query("waiting")]]
    /\ UNCHANGED <<rows, folders, parallel>>

Running(r) == {i \in DOMAIN queries[r] : queries[r][i].kind = "running"}

\* A semaphore in the parallel mode, else one after the other.
Width == IF parallel THEN Concurrency ELSE 1

RunWidget(r) ==
    /\ at[r] = "running"
    /\ Cardinality(Running(r)) < Width
    /\ \E i \in DOMAIN queries[r] :
         /\ queries[r][i].kind = "waiting"
         /\ \A j \in 1..(i - 1) : queries[r][j].kind /= "waiting"
         /\ queries' = [queries EXCEPT ![r][i] = Query("running")]
    /\ UNCHANGED <<rows, folders, parallel, at, seen>>

\* The agent answers with rows or without, or fails, which is a result as well.
WidgetDone(r) ==
    /\ at[r] = "running"
    /\ \E i \in Running(r) :
       \E result \in [kind : {"rows", "none"}, files : SUBSET Files] \cup {Query("error")} :
         queries' = [queries EXCEPT ![r][i] = result]
    /\ UNCHANGED <<rows, folders, parallel, at, seen>>

\* No session for the widget: an error of this widget in the parallel mode, of the request otherwise.
WidgetRaises(r) ==
    /\ at[r] = "running"
    /\ \E i \in Running(r) : queries' = [queries EXCEPT ![r][i] = Query("error")]
    /\ at' = [at EXCEPT ![r] = IF parallel THEN "running" ELSE "failed"]
    /\ UNCHANGED <<rows, folders, parallel, seen>>

-----------------------------------------------------------------------------
(* The board that is stored.                                                *)

\* Tables of a result that several tables went into need a safe relationship pairwise; a path that
\* names no table of the catalog is not looked at.
JoinSafe(files) ==
    \A f, g \in files \cap Catalogued : f = g \/ {f, g} \in SafePairs

ClassifyEmpty(result) ==
    CASE result.kind = "error" -> "error"
      [] result.kind = "none" /\ result.files = {} -> "missing"
      [] OTHER -> "empty"

\* A filter of the board reaches the widgets of the tables that have its column.
FilterStatus(files) == IF files \cap Conformed /= {} THEN "applied" ELSE "not_affected"

Payload(r, i) ==
    LET result == queries[r][i]
    IN  [id |-> <<r, i>>,
         shown |-> IF result.kind = "rows" THEN "rows" ELSE ClassifyEmpty(result),
         warned |-> ~JoinSafe(result.files),
         filter |-> FilterStatus(result.files)]

Assemble(r) == {Payload(r, i) : i \in DOMAIN queries[r]}
Used(r) == UNION {queries[r][i].files : i \in DOMAIN queries[r]}
Settled(r) == \A i \in DOMAIN queries[r] : queries[r][i].kind \notin {"waiting", "running"}

Config_Fresh(r) ==
    IF r \in Appends THEN rows[1].widgets \cup Assemble(r) ELSE Assemble(r)

\* config after the request: appended to the widgets it read, if there were any.
Config(r) ==
    IF r \in Appends THEN seen[r].widgets \cup Assemble(r) ELSE Assemble(r)

History(r) == Append(seen[r].history, {<<r, i>> : i \in DOMAIN queries[r]})

\* A list of files equal to the one read is not written.
Sources(r) ==
    IF Used(r) \subseteq seen[r].sources THEN rows[1].sources ELSE seen[r].sources \cup Used(r)

Written(r) ==
    [folder |-> rows[1].folder, widgets |-> Config(r), history |-> History(r), sources |-> Sources(r),
     status |-> "ready"]

\* The update of a row that was deleted meanwhile matches nothing and fails.
Store(r) ==
    /\ at[r] = "running"
    /\ Settled(r)
    /\ rows' = IF rows[1] = None THEN rows ELSE [rows EXCEPT ![1] = Written(r)]
    /\ at' = [at EXCEPT ![r] = IF rows[1] = None THEN "failed" ELSE "done"]
    /\ seen' = [seen EXCEPT ![r] = None]
    /\ UNCHANGED <<folders, parallel, queries>>

Next ==
    \/ CreateDashboard \/ DuplicateDashboard \/ CreateFolder
    \/ \E d \in Ids : DeleteDashboard(d) \/ \E f \in {"folder", None} : UpdateDashboard(d, f)
    \/ \E f \in folders : DeleteFolder(f)
    \/ \E r \in Requests : Generate(r) \/ RunWidget(r) \/ WidgetDone(r) \/ WidgetRaises(r) \/ Store(r)

Spec == Init /\ [][Next]_vars

-----------------------------------------------------------------------------
\* models/dashboard.py:7-8 (the history records what produced the board): however requests overlap, every
\* widget on a board, the copied ones included, is named by an entry of that board's prompt history, and
\* a folder a dashboard lies in exists. (That no prompt is lost does not hold: of two requests that
\* overlap the later one stores the board as it read it before the other.)
WidgetsHaveTheirPrompt ==
    \A d \in Ids : rows[d] /= None =>
        /\ \A w \in rows[d].widgets : \E h \in DOMAIN rows[d].history : w.id \in rows[d].history[h]
        /\ rows[d].folder \in folders \cup {None}
=============================================================================
