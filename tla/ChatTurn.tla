------------------------------- MODULE ChatTurn -------------------------------
(***************************************************************************)
(* One chat question from its context to its answer: the agent graph (model   *)
(* turns, tools in parallel, the tool budget, the one nudge to search wider), *)
(* run_sql with its gates, its repairs and its entries in the request store,  *)
(* and the two entry points, of which one streams.                           *)
(*                                                                          *)
(* Source: server/app/agent/graph/graph.py (entry points), graph_builder.py, *)
(* server/app/agent/tools/sql.py, server/app/agent/response_helpers.py.      *)
(***************************************************************************)
EXTENDS Naturals, FiniteSets

CONSTANTS
    Slots,          \* the calls one model response can make
    Plans,          \* logical plans a query can have
    PlanRows,       \* by plan: "rows", "none", or "none_relative" (a window relative to today)
    MaxToolCalls    \* MAX_TOOL_CALLS

VARIABLES
    stream,    \* run_agent_query_stream, or run_agent_query
    feasible,  \* GATE A lets the question through
    mode,      \* governance: "off", "answer", "caveat" or "refusal"
    node,      \* where the request is
    store,     \* _request_stores has this request's store
    count,     \* tool_call_count
    nudges,    \* broaden_nudges
    steps,     \* super-steps of the graph
    call,      \* by slot: what the tool call of this super-step does
    heard,     \* what the tool messages of the conversation say
    tried,     \* store["sql_attempts"] is not empty
    succeeded, \* one of them has status "success"
    rows,      \* plan of store["sql_results"], or NoPlan
    total,     \* plan of store["sql_total_rows"], or NoPlan
    emptyPlans,\* store["_zero_row_plan_sigs"]
    said,      \* the last answer without tool calls: "text", "canned" or "nothing"
    shown,     \* history: model answers streamed to the client
    reply,     \* what the request returned
    raced      \* history: two queries ran in one super-step

vars == <<stream, feasible, mode, node, store, count, nudges, steps, call, heard,
          tried, succeeded, rows, total, emptyPlans, said, shown, reply, raced>>
storeVars == <<tried, succeeded, rows, total, emptyPlans>>
question == <<stream, feasible, mode>>

NoPlan == "no plan"

ConstantsOK ==
    /\ IsFiniteSet(Slots) /\ NoPlan \notin Plans
    /\ MaxToolCalls \in Nat

NoCall == [tool |-> "none", plan |-> NoPlan, at |-> "done"]
RecursionLimit == MaxToolCalls * 2 + 10

Init ==
    /\ stream \in BOOLEAN /\ feasible \in BOOLEAN
    /\ mode \in {"off", "answer", "caveat", "refusal"}
    /\ mode # "off" => (mode = "refusal" <=> ~feasible)
    /\ node = "context" /\ store = FALSE
    /\ count = 0 /\ nudges = 0 /\ steps = 0
    /\ call = [s \in Slots |-> NoCall]
    /\ heard = {} /\ tried = FALSE /\ succeeded = FALSE /\ rows = NoPlan /\ total = NoPlan
    /\ emptyPlans = {} /\ said = "nothing" /\ shown = 0 /\ reply = "none"
    /\ raced = FALSE
-----------------------------------------------------------------------------
(* _execution_failure_payload: queries were tried and none succeeded.         *)
ExecutionFailed_ByMessages == tried /\ ~succeeded /\ "error" \in heard /\ rows = NoPlan
ExecutionFailed == tried /\ ~succeeded /\ rows = NoPlan

Reply(r) == reply' = r /\ node' = "end"

(* The context is built, or there are no files, or building it raises: before   *)
(* the store is registered or after.                                         *)
BuildContext ==
    /\ node = "context"
    /\ \/ Reply("no_files") /\ UNCHANGED store
       \/ Reply("error") /\ store' \in BOOLEAN
       \/ node' = "context_ready" /\ store' = TRUE /\ UNCHANGED reply
    /\ UNCHANGED <<question, count, nudges, steps, call, heard, storeVars, said, shown, raced>>

(* Only the streaming entry point stops before the loop: at GATE A, which needs  *)
(* a text to answer with, else at a refusal.                                  *)
ShortCircuit ==
    /\ node = "context_ready" /\ stream
    /\ \/ ~feasible /\ Reply("feasibility_gate")
       \/ mode = "refusal" /\ Reply("refusal")
    /\ store' = FALSE
    /\ UNCHANGED <<question, count, nudges, steps, call, heard, storeVars, said, shown, raced>>

EnterLoop ==
    /\ node = "context_ready"
    /\ stream => mode # "refusal"
    /\ node' = "agent"
    /\ UNCHANGED <<question, store, count, nudges, steps, call, heard, storeVars, said, shown,
                   reply, raced>>
-----------------------------------------------------------------------------
(* The recursion limit of the graph, and exceptions of a node, end the loop.  *)
LoopError ==
    /\ Reply("error") /\ store' = FALSE
    /\ UNCHANGED <<question, count, nudges, steps, call, heard, storeVars, said, shown, raced>>

LoopRaises ==
    /\ \/ node = "agent" /\ count < MaxToolCalls
       \/ node \in {"agent", "tools", "nudge"} /\ steps >= RecursionLimit
    /\ LoopError

next_tool_call_count(n) == count + n

(* The model answers without tool calls; text the code puts in its place       *)
(* ("canned") is no model event, so nothing of it is streamed.                *)
Answers(kind) ==
    /\ said' = IF kind = "nothing" THEN said ELSE kind
    /\ shown' = IF stream /\ kind = "text" /\ ~ExecutionFailed THEN shown + 1 ELSE shown
    /\ node' = "route"
    /\ UNCHANGED <<count, call>>

NewCalls == [tool : {"run_sql"}, plan : Plans, at : {"start"}] \cup
            [tool : {"search_catalog", "other"}, plan : {NoPlan}, at : {"start"}]

CallsTools ==
    \E S \in (SUBSET Slots) \ {{}} : \E c \in [S -> NewCalls] :
        /\ call' = [s \in Slots |-> IF s \in S THEN c[s] ELSE NoCall]
        /\ count' = next_tool_call_count(Cardinality(S))
        /\ node' = "tools"
        /\ UNCHANGED <<said, shown>>

(* agent_node, and route behind it.  With the budget used up the model is asked *)
(* without tools; four rate limits in a row are answered in its place.        *)
AgentTurn ==
    /\ node = "agent" /\ steps < RecursionLimit
    /\ steps' = steps + 1
    /\ IF count >= MaxToolCalls
       THEN \E k \in {"text", "nothing", "canned"} : Answers(k)
       ELSE CallsTools \/ \E k \in {"text", "nothing", "canned"} : Answers(k)
    /\ UNCHANGED <<question, store, nudges, heard, storeVars, reply, raced>>

(* _should_force_broaden: no rows anywhere, no search of the catalog, and a     *)
(* failure that another file could mend.                                     *)
ShouldForceBroaden ==
    LET zero == "zero" \in heard   error == "error" \in heard
    IN  /\ nudges < 1 /\ count < MaxToolCalls
        /\ zero \/ error
        /\ "rows" \notin heard /\ "catalog" \notin heard
        /\ ~(zero /\ ~error /\ "zero_absolute" \notin heard)
        /\ ~(error /\ ~zero /\ "error_not_dtype" \notin heard)

Route ==
    /\ node = "route"
    /\ node' = IF ShouldForceBroaden THEN "nudge" ELSE "finish"
    /\ store' = IF ShouldForceBroaden THEN store ELSE FALSE
    /\ UNCHANGED <<question, count, nudges, steps, call, heard, storeVars, said, shown, reply, raced>>

BroadenNudge ==
    /\ node = "nudge" /\ steps < RecursionLimit
    /\ nudges' = nudges + 1 /\ steps' = steps + 1
    /\ node' = "agent"
    /\ UNCHANGED <<question, store, count, call, heard, storeVars, said, shown, reply, raced>>
-----------------------------------------------------------------------------
(* The tools of one super-step run side by side, in threads.                  *)
Live(s) == node = "tools" /\ steps < RecursionLimit /\ call[s].tool # "none"
Moves(s, at) == call' = [call EXCEPT ![s].at = at]
Ends(s, facts) == Moves(s, "done") /\ heard' = heard \cup facts
loopVars == <<question, node, store, count, nudges, steps, said, shown, reply>>

OtherTool(s) ==
    /\ Live(s) /\ call[s].at = "start" /\ call[s].tool # "run_sql"
    /\ Ends(s, IF call[s].tool = "search_catalog" THEN {"catalog"} ELSE {})
    /\ UNCHANGED <<loopVars, storeVars, raced>>

EmptyFacts(p) == {"zero"} \cup (IF PlanRows[p] = "none" THEN {"zero_absolute"} ELSE {})

(* The gates before execution: dry plan, names and permissions, schema, joins,   *)
(* fan-out, validation, limits.  A rejection is an attempt with an error.     *)
Rejected(s) ==
    /\ Live(s) /\ call[s].at = "start" /\ call[s].tool = "run_sql"
    /\ tried' = TRUE
    /\ Ends(s, {"error", "error_not_dtype"})
    /\ UNCHANGED <<loopVars, succeeded, rows, total, emptyPlans, raced>>

(* An exception no gate expects is a tool message of plain text, which          *)
(* _had_any_nonzero_sql takes for rows.                                      *)
ToolRaises(s) ==
    /\ Live(s) /\ call[s].at = "start" /\ call[s].tool = "run_sql"
    /\ tried' = TRUE
    /\ Ends(s, {"rows"})
    /\ UNCHANGED <<loopVars, succeeded, rows, total, emptyPlans, raced>>

(* The gates let it through.  A plan known to give no rows is not run again.   *)
KnownEmpty(p) == p \in emptyPlans

Admitted(s) ==
    /\ Live(s) /\ call[s].at = "start" /\ call[s].tool = "run_sql"
    /\ tried' = TRUE
    /\ IF KnownEmpty(call[s].plan)
       THEN Ends(s, EmptyFacts(call[s].plan)) /\ UNCHANGED raced
       ELSE /\ Moves(s, "running") /\ UNCHANGED heard
            /\ raced' = (raced \/ \E o \in Slots \ {s} :
                                     call[o].tool = "run_sql" /\ call[o].at # "done")
    /\ UNCHANGED <<loopVars, succeeded, rows, total, emptyPlans>>

(* The engine and two repairs fail; errors of Parquet types are not repaired.  *)
EngineError(s) ==
    /\ Live(s) /\ call[s].at = "running"
    /\ \E dtype \in BOOLEAN : Ends(s, {"error"} \cup IF dtype THEN {} ELSE {"error_not_dtype"})
    /\ UNCHANGED <<loopVars, storeVars, raced>>

(* The query, or a repair of it (which may be another plan), gives a result:    *)
(* the rows go to the store, then their number.                              *)
StoresRows_NonEmptyOnly(s) ==
    /\ Live(s) /\ call[s].at = "running"
    /\ \E p \in Plans :
          /\ call' = [call EXCEPT ![s].at = "rows_stored", ![s].plan = p]
          /\ rows' = IF PlanRows[p] = "rows" THEN p ELSE rows
          /\ emptyPlans' = IF PlanRows[p] = "rows" THEN emptyPlans ELSE emptyPlans \cup {p}
    /\ UNCHANGED <<loopVars, tried, succeeded, total, heard, raced>>
StoresRows(s) ==
    /\ Live(s) /\ call[s].at = "running"
    /\ \E p \in Plans :
          /\ call' = [call EXCEPT ![s].at = "rows_stored", ![s].plan = p]
          /\ rows' = p
          /\ emptyPlans' = IF PlanRows[p] = "rows" THEN emptyPlans ELSE emptyPlans \cup {p}
    /\ UNCHANGED <<loopVars, tried, succeeded, total, heard, raced>>

StoresTotal(s) ==
    /\ Live(s) /\ call[s].at = "rows_stored"
    /\ total' = call[s].plan
    /\ succeeded' = TRUE
    /\ Ends(s, IF PlanRows[call[s].plan] = "rows" THEN {"rows"} ELSE EmptyFacts(call[s].plan))
    /\ UNCHANGED <<loopVars, tried, rows, emptyPlans, raced>>

ToolsDone ==
    /\ node = "tools" /\ steps < RecursionLimit
    /\ \A s \in Slots : call[s].at = "done"
    /\ node' = "agent" /\ steps' = steps + 1
    /\ call' = [s \in Slots |-> NoCall]
    /\ UNCHANGED <<question, store, count, nudges, heard, storeVars, said, shown, reply, raced>>
-----------------------------------------------------------------------------
(* Both entry points answer with the failure if no query succeeded.  Else the   *)
(* model's text, after the gate on claims of missing data, with a caveat or,   *)
(* without streaming, a refusal; a stream without text is summed up by another *)
(* call, and what is left is made of the errors of the tools.                 *)
Written ==
    IF stream
    THEN IF shown > 0 THEN {"text"}
         ELSE (IF count > 0 THEN {"text"} ELSE {}) \cup
              (IF rows # NoPlan THEN {"here_are_the_results"} ELSE {"fallback"})
    ELSE IF said # "nothing" THEN {said}
         ELSE IF rows # NoPlan THEN {"here_are_the_results"} ELSE {"fallback"}

Gated(text) == IF text \in {"text", "canned"} THEN {text, "honest_rewrite"} ELSE {text}

Finish ==
    /\ node = "finish"
    /\ IF ExecutionFailed THEN Reply("execution_failure")
       ELSE \E text \in Written : \E told \in Gated(text) :
               Reply(IF ~stream /\ mode = "refusal" THEN "refusal" ELSE told)
    /\ UNCHANGED <<question, store, count, nudges, steps, call, heard, storeVars, said, shown, raced>>

(* The client of a stream goes away while an event is sent.  In the loop the    *)
(* store goes with it.                                                        *)
ClientLeaves ==
    /\ stream /\ node \in {"context_ready", "agent", "tools", "route"}
    /\ Reply("disconnected")
    /\ store' = (node = "context_ready")
    /\ UNCHANGED <<question, count, nudges, steps, call, heard, storeVars, said, shown, raced>>

RunSql(s) ==
    Rejected(s) \/ ToolRaises(s) \/ Admitted(s) \/ EngineError(s) \/ StoresRows(s) \/ StoresTotal(s)

Next ==
    \/ BuildContext \/ ShortCircuit \/ EnterLoop
    \/ LoopRaises \/ AgentTurn \/ Route \/ BroadenNudge
    \/ \E s \in Slots : OtherTool(s) \/ RunSql(s)
    \/ ToolsDone \/ Finish \/ ClientLeaves

Spec == Init /\ [][Next]_vars
-----------------------------------------------------------------------------
(* The budget of tool calls ends every loop with an answer before the graph's   *)
(* own limit ends it with an error, however the model spends it.              *)
BudgetEndsTheLoopFirst == steps < RecursionLimit

(* A question whose queries all failed is answered with that failure: never     *)
(* with text of the model, a caveat before it or not.                        *)
FailedSqlIsNotAnswered ==
    reply \in {"text", "canned", "honest_rewrite", "here_are_the_results", "fallback"}
        => (tried => succeeded)

(* The rows of an answer and the row count beside them are of one query, if no *)
(* two queries of a response ran side by side.                               *)
ResultIsOfOneQuery == node \in {"finish", "end"} /\ reply # "disconnected" /\ ~raced => rows = total

TurnsEndWell == BudgetEndsTheLoopFirst /\ FailedSqlIsNotAnswered /\ ResultIsOfOneQuery
===============================================================================
