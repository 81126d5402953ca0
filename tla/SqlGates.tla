------------------------------- MODULE SqlGates -------------------------------
(***************************************************************************)
(* One run_sql call of the chat agent after another: the gates a query passes  *)
(* before the engine sees it, the engine's errors and the repairs that are    *)
(* tried, and the schemas the agent inspects in between.                      *)
(*                                                                          *)
(* Source: server/app/agent/tools/{sql,sql_safety,catalog}.py,                *)
(* server/app/services/{logical_sql,file_identity,execution_guards,           *)
(* sql_ast_validator,sql_plan_signature,sql_repair}.py.                       *)
(* A query is a record of what the gates look at:                            *)
(*   tables     sequence of logical tables, as they first occur               *)
(*   raw        files it names by storage path                               *)
(*   form       "select", "with", "union", "forbidden" or "unparsable"        *)
(*   joins      pairs of tables its join conditions relate                    *)
(*   cross      a join without condition; equals: the outer WHERE compares    *)
(*   summed     tables it sums or averages over a join; known: its columns are *)
(*              those of the schemas; aggs, groups, outer, inner: number of     *)
(*              aggregates, GROUP BY, filters of its main SELECT and below it; *)
(*              star: a SELECT *                                              *)
(*   nested     it has more than one SELECT: CTEs, subqueries, a union          *)
(*   first      aggs and groups that a regular expression finds in the text     *)
(*              first: up to the first FROM, in the first GROUP BY             *)
(***************************************************************************)
EXTENDS Naturals, FiniteSets, SequencesExt

CONSTANTS
    Queries,
    Members,        \* by table: the sequence of its files, the representative first
    Shortlisted,    \* files whose schema the context preloads
    Allowed,        \* allowed_file_ids
    ApprovedJoins,  \* sets of two tables
    Enforced,       \* SME_JOIN_ENFORCE_ENABLED
    Planned,        \* a semantic contract is there and its dry plan is enabled
    NoRows,         \* queries that return no row
    MaxJoins, MaxTables, MaxRepair

VARIABLES
    inspected,  \* files: _inspected_schemas
    asked,      \* tables get_file_schema was called for
    empties,    \* _zero_row_plan_sigs
    place,      \* "idle", "screen", "engine", "repair"
    query,      \* what the agent wrote
    current,    \* what runs
    attempt,    \* repairs tried
    ran,        \* queries the engine got in this call
    outcome     \* what the call answered

vars == <<inspected, asked, empties, place, query, current, attempt, ran, outcome>>
call == <<query, current, attempt, ran>>

(* What a query is a record of.                                              *)
ConstantsOK == \A q \in Queries :
    /\ {"tables", "raw", "groups", "aggs", "star", "nested", "first"} \subseteq DOMAIN q
    /\ DOMAIN q.first = {"aggs", "groups"} /\ q.nested \in BOOLEAN
    /\ ~q.nested => q.first.aggs = q.aggs /\ q.first.groups = q.groups

Tables == DOMAIN Members
FilesOf(t) == ToSet(Members[t])
Reads(q) == q.raw \cup UNION {FilesOf(t) : t \in ToSet(q.tables)}

NoQuery == CHOOSE q \in Queries : TRUE

Init ==
    /\ inspected = Shortlisted /\ asked = {} /\ empties = {}
    /\ place = "idle" /\ query = NoQuery /\ current = NoQuery /\ attempt = 0 /\ ran = {}
    /\ outcome = "none"

(* get_file_schema: every way of naming a table leads to its representative.    *)
SchemaRead(t) == {Members[t][1]}

GetFileSchema(t) ==
    /\ place = "idle"
    /\ asked' = asked \cup {t}
    /\ inspected' = inspected \cup SchemaRead(t)
    /\ outcome' = "none"
    /\ UNCHANGED <<empties, place, call>>

RunSql(q) ==
    /\ place = "idle"
    /\ query' = q /\ current' = q /\ attempt' = 0 /\ ran' = {}
    /\ place' = "screen" /\ outcome' = "none"
    /\ UNCHANGED <<inspected, asked, empties>>
-----------------------------------------------------------------------------
(* canonicalize_logical_sql: it parses, names no storage path and at least one   *)
(* table; a table keeps its authorised files.                                 *)
Granted(t) == SelectSeq(Members[t], LAMBDA f : f \in Allowed)

CanonicalError(q) ==
    \/ q.form = "unparsable" \/ q.raw # {} \/ q.tables = <<>>
    \/ \E t \in ToSet(q.tables) : Granted(t) = <<>>

(* _schema_gate_payload pairs the files of all tables with the tables, as far as *)
(* the shorter list goes, and asks for the schema of the table beside each file  *)
(* that was not inspected.                                                   *)
RefFiles(q) == FlattenSeq([i \in DOMAIN q.tables |-> Granted(q.tables[i])])

MissingSchemas(q) ==
    {q.tables[i] : i \in {i \in DOMAIN q.tables : RefFiles(q)[i] \notin inspected}}

(* check_joins_approved and check_fanout_risk.                               *)
JoinRefused(q) == Enforced /\ \E pair \in q.joins : pair \notin ApprovedJoins
FanoutRisk(q) == q.joins # {} /\ Cardinality(q.summed) >= 2

(* validate_and_normalise.                                                   *)
Invalid(q) == q.form = "forbidden" \/ ~(q.raw \subseteq Allowed)

(* A join without condition needs an outer filter that compares.               *)
CartesianJoin(q) == q.cross /\ ~q.equals

(* ExecutionGuard: only a SELECT, no cartesian join, few joins and logical tables. *)
GuardRefuses(q) ==
    \/ q.form \notin {"select", "with"}
    \/ CartesianJoin(q)
    \/ Cardinality(q.joins) + (IF q.cross THEN 1 ELSE 0) > MaxJoins
    \/ Cardinality(ToSet(q.tables)) > MaxTables

(* compute_plan_signature: filters inside a CTE or a subquery do not count.      *)
PlanSignature(q) ==
    <<Reads(q), q.joins, q.cross, q.aggs > 0, q.groups, q.outer>>

Answers(what) == outcome' = what /\ place' = "idle"

(* The gates in their order; the first that refuses answers.                   *)
Verdict(q) ==
    CASE CanonicalError(q) -> "resolution_error"
      [] ~CanonicalError(q) /\ MissingSchemas(q) # {} -> "schema_required"
      [] ~CanonicalError(q) /\ MissingSchemas(q) = {} ->
            IF ~q.known THEN "unknown_columns"
            ELSE IF JoinRefused(q) THEN "join_not_approved"
            ELSE IF FanoutRisk(q) THEN "fanout_risk"
            ELSE IF Invalid(q) THEN "validation_error"
            ELSE IF GuardRefuses(q) THEN "guard_error"
            ELSE IF PlanSignature(q) \in empties THEN "known_empty"
            ELSE "run"

Screen ==
    /\ place = "screen"
    /\ \/ Planned /\ Answers("dry_plan_rejected")
       \/ IF Verdict(query) = "run" THEN place' = "engine" /\ UNCHANGED outcome
          ELSE Answers(Verdict(query))
    /\ UNCHANGED <<inspected, asked, empties, call>>
-----------------------------------------------------------------------------
Succeeds ==
    /\ place = "engine"
    /\ ran' = ran \cup {current}
    /\ Answers("rows")
    /\ empties' = IF current \in NoRows THEN empties \cup {PlanSignature(current)} ELSE empties
    /\ UNCHANGED <<inspected, asked, query, current, attempt>>

(* A type error of the file is final, any other may be repaired.               *)
EngineFails ==
    /\ place = "engine"
    /\ ran' = ran \cup {current}
    /\ \/ Answers("engine_error")
       \/ attempt < MaxRepair /\ place' = "repair" /\ UNCHANGED outcome
    /\ UNCHANGED <<inspected, asked, empties, query, current, attempt>>

(* _tier1_repair: a cast or a NULL test changes nothing the gates look at; a      *)
(* missing column is appended to the GROUP BY of the main SELECT, if it has one. *)
GroupedBy(q, g, seen) ==
    [q EXCEPT !.groups = q.groups \cup {g},
              !.first = IF seen THEN [aggs |-> q.first.aggs, groups |-> q.first.groups \cup {g}] ELSE q.first]

Tier1(q) ==
    {r \in Queries :
        \/ r = q
        \/ q.groups # {} /\ \E g \in UNION {s.groups : s \in Queries}, seen \in BOOLEAN :
              (~q.nested => seen) /\ r = GroupedBy(q, g, seen)}

(* _validate_repair_intent: no file is added and no new SELECT *.  Grouping stays  *)
(* grouping and loses nothing, and there are as many aggregates, where the regular *)
(* expressions look: of a query with CTEs that is its first CTE.                 *)
IntentKept_GrowsOnly(q, r) ==
    /\ Reads(r) \subseteq Reads(q)
    /\ (q.first.groups = {}) = (r.first.groups = {})
    /\ r.first.groups \subseteq q.first.groups
    /\ r.first.aggs = q.first.aggs
    /\ r.star => q.star
IntentKept(q, r) ==
    /\ Reads(r) \subseteq Reads(q)
    /\ (q.first.groups = {}) = (r.first.groups = {})
    /\ q.first.groups \subseteq r.first.groups
    /\ r.first.aggs = q.first.aggs
    /\ r.star => q.star

(* _tier2_llm_repair: the model rewrites it; only what begins with SELECT is taken. *)
Tier2(q) == {r \in Queries : r.form # "with" /\ IntentKept(q, r)}

(* attempt_repair: the first time a rule, if one fits the error; the model otherwise. *)
(* What is repaired is validated again, but passes no other gate.               *)
Repairs(q) == (IF attempt = 0 THEN Tier1(q) ELSE {}) \cup Tier2(q)

Repair ==
    /\ place = "repair"
    /\ \E r \in Repairs(current) : ~Invalid(r) /\ current' = r
    /\ attempt' = attempt + 1
    /\ place' = "engine"
    /\ UNCHANGED <<inspected, asked, empties, query, ran, outcome>>

RepairFails ==
    /\ place = "repair"
    /\ Answers("engine_error")
    /\ UNCHANGED <<inspected, asked, empties, call>>

Next ==
    \/ \E t \in Tables : GetFileSchema(t)
    \/ \E q \in Queries : RunSql(q)
    \/ Screen \/ Succeeds \/ EngineFails \/ Repair \/ RepairFails

Spec == Init /\ [][Next]_vars
-----------------------------------------------------------------------------
(* However often a query is repaired, what runs reads no file the agent's query   *)
(* does not read and has no new SELECT *. When both are one SELECT, it computes as *)
(* many aggregates and loses none of the grouping. Of a query with CTEs or         *)
(* subqueries the code compares no more than the first clauses (sql_repair.py:192, *)
(* :209), and an aggregate or a grouping further on may be gone.                  *)
RepairKeepsTheQuestion ==
    \A r \in ran :
        /\ Reads(r) \subseteq Reads(query)
        /\ r.star => query.star
        /\ ~query.nested /\ ~r.nested => r.aggs = query.aggs /\ query.groups \subseteq r.groups

===============================================================================
