----------------------------- MODULE AnswerTrust -----------------------------
(***************************************************************************)
(* How far an answer over the shortlisted tables is trusted. The approved joins   *)
(* among them cut the tables into clusters; joins, roles and clusters give the     *)
(* health of their graph; that and what retrieval, resolver and ingestion said     *)
(* give a confidence; the period asked for is compared with the tables' dates; and  *)
(* the confidence and that comparison decide whether the question is refused, the   *)
(* answer is given with a caveat, or it is given as it is. Relationships may be      *)
(* approved and revoked while the request runs.                                   *)
(*                                                                          *)
(* Source: server/app/services/{sql_context_builder,execution_strategy,graph_health, *)
(* workflow_topology,query_confidence,trust_propagation}.py, erp/feasibility_gate.py,  *)
(* policies/confidence_policy.py and agent/graph/graph.py. Scores are per mille, RRF   *)
(* scores in units of 1/10000, days numbers; prompt sections are what they list.       *)
(***************************************************************************)
EXTENDS Integers, Sequences, FiniteSets, SequencesExt, FiniteSetsExt

CONSTANTS
    Questions,  \* [shortlist, top, resolved, trust, window, ranges, keys, subject], see Init
    Relations,  \* [a, b, conf] of the approved relationships there may be
    TopJoins,   \* the most joins that are taken
    MaxChanges, \* bound: approvals and revocations while the request runs
    Shadow,     \* the feasibility gate only advises
    None

VARIABLES
    q,        \* the question and its shortlist
    rels,     \* approved relationships in the database
    at,       \* the next step of the request
    joins,    \* approved joins among the shortlist, best first
    clusters, \* tables that may be joined with one another
    isolated, \* tables the topology note calls isolated
    health,   \* "good", "degraded" or "poor"
    score,    \* confidence
    reply,    \* "refused", "caveat" or "plain"
    changes

vars == <<q, rels, at, joins, clusters, isolated, health, score, reply, changes>>

HardFloor == 700
TopologyFloor == 500
WeakEdge == 750
Neutral == 700
MinViable == 250
MaxTrustLoss == 120

Ends(r) == {r.a, r.b}
Sorted(S) == SetToSortSeq(S, LAMBDA x, y : x.conf > y.conf)
Confs == [i \in DOMAIN joins |-> joins[i].conf]

\* None of the questions' scores is there before it is computed.
Init ==
    /\ q \in Questions
    /\ rels \in SUBSET Relations
    /\ at = "context"
    /\ joins = <<>>
    /\ clusters = {}
    /\ isolated = {}
    /\ health = "good"
    /\ score = None
    /\ reply = None
    /\ changes = 0

\* A relationship is approved or revoked after the context was read; nothing reads them after the topology.
RelationshipChanges ==
    /\ at = "topology" /\ changes < MaxChanges
    /\ \E r \in Relations : rels' \in {rels \ {r}, rels \cup {r}}
    /\ changes' = changes + 1
    /\ UNCHANGED <<q, at, joins, clusters, isolated, health, score, reply>>

\* The context of the SQL: both ends on the shortlist and confident enough, the best of them.
build_sql_context ==
    /\ at = "context"
    /\ LET both == {r \in rels : Ends(r) \subseteq q.shortlist /\ r.conf >= HardFloor}
           all  == Sorted(both)
       IN  joins' = SubSeq(all, 1, IF Len(all) < TopJoins THEN Len(all) ELSE TopJoins)
    /\ at' = "topology"
    /\ UNCHANGED <<q, rels, clusters, isolated, health, score, reply, changes>>

\* A query that fails leaves the context empty, and the request goes on.
ContextFails ==
    /\ at = "context"
    /\ at' = "topology"
    /\ UNCHANGED <<q, rels, joins, clusters, isolated, health, score, reply, changes>>

\* The topology asks again, with a lower floor; an edge to a table off the shortlist counts as one.
build_workflow_topology ==
    /\ at = "topology"
    /\ isolated' = IF Cardinality(q.shortlist) < 2 THEN {}
                   ELSE {f \in q.shortlist : ~\E r \in rels : f \in Ends(r) /\ r.conf >= TopologyFloor}
    /\ at' = "strategy"
    /\ UNCHANGED <<q, rels, joins, clusters, health, score, reply, changes>>

TopologyFails ==
    /\ at = "topology"
    /\ at' = "strategy"
    /\ UNCHANGED <<q, rels, joins, clusters, isolated, health, score, reply, changes>>

\* Union by rank over the joins.
RootOf(parent, x) == LET root[y \in DOMAIN parent] == IF parent[y] = y THEN y ELSE root[parent[y]]
                     IN  root[x]

union_OfTables(uf, a, b) ==
    [parent |-> [uf.parent EXCEPT ![b] = a], rank |-> uf.rank]

union(uf, a, b) ==
    LET ra == RootOf(uf.parent, a)
        rb == RootOf(uf.parent, b)
        hi == IF uf.rank[ra] < uf.rank[rb] THEN rb ELSE ra
        lo == IF hi = ra THEN rb ELSE ra
    IN  IF ra = rb THEN uf
        ELSE [parent |-> [uf.parent EXCEPT ![lo] = hi],
              rank   |-> [uf.rank EXCEPT ![hi] = @ + IF uf.rank[ra] = uf.rank[rb] THEN 1 ELSE 0]]

Singles == [parent |-> [f \in q.shortlist |-> f], rank |-> [f \in q.shortlist |-> 0]]

plan_execution_strategy ==
    /\ at = "strategy"
    /\ LET uf == FoldLeft(LAMBDA acc, r : union(acc, r.a, r.b), Singles, joins)
       IN  clusters' = {{g \in q.shortlist : RootOf(uf.parent, g) = RootOf(uf.parent, f)} : f \in q.shortlist}
    /\ at' = "health"
    /\ UNCHANGED <<q, rels, joins, isolated, health, score, reply, changes>>

Mode ==
    IF Cardinality(clusters) = 1 /\ \A c \in clusters : Cardinality(c) > 1 THEN "single_joined"
    ELSE IF \A c \in clusters : Cardinality(c) = 1 THEN "independent_analyses"
    ELSE "multi_cluster"

Ratio(part, whole) == IF whole = 0 THEN 0 ELSE (1000 * part) \div whole

\* Middle of the confidences, between the two when their number is even.
Median(s) == LET n == Len(s) IN IF n = 0 THEN 0
             ELSE (s[(n + 1) \div 2] + s[n \div 2 + 1]) \div 2

score_graph_health ==
    /\ at = "health"
    /\ LET n        == Cardinality(q.shortlist)
           coverage == Ratio(Len(joins), (n * (n - 1)) \div 2)
           weak     == Ratio(Len(SelectSeq(Confs, LAMBDA c : c < WeakEdge)), Len(joins))
           roled    == {f \in q.shortlist : q.keys[f] /= {}}
           orphans  == {f \in roled : \A i \in DOMAIN joins : f \notin Ends(joins[i])}
           conflict == \E f, g \in q.shortlist : f /= g /\ q.keys[f] \cap q.keys[g] /= {}
       IN  health' = IF n < 2 THEN "good"
                     ELSE IF coverage < 100 \/ (joins /= <<>> /\ Median(Confs) < 600) \/ conflict THEN "poor"
                     ELSE IF \/ coverage < 400
                             \/ joins /= <<>> /\ Median(Confs) < 750
                             \/ weak > 400
                             \/ Ratio(Cardinality(orphans), Cardinality(roled)) > 500 THEN "degraded"
                     ELSE "good"
    /\ at' = "confidence"
    /\ UNCHANGED <<q, rels, joins, clusters, isolated, score, reply, changes>>

\* A score of zero is taken for none.
Trust(f) == IF q.trust[f] \in {None, 0} THEN Neutral ELSE q.trust[f]
avg_ingestion_confidence ==
    IF q.top = None THEN Neutral ELSE MapThenSumSet(Trust, q.subject) \div Cardinality(q.subject)

\* The seven components, each from 0 to 1000. A deficit of trust counts for two thirds.
Retrieval == IF q.top = None THEN 300 ELSE (1000 * q.top) \div (q.top + 200)
Graph == IF joins = <<>> THEN 400 ELSE Confs[(Len(joins) + 1) \div 2]
Resolver == IF q.resolved = None THEN 800 ELSE IF q.resolved = 0 THEN 300 ELSE q.resolved
Complexity_Swapped == CASE Mode = "single_joined" -> 300 [] Mode = "multi_cluster" -> 650 [] OTHER -> 1000
Complexity == CASE Mode = "single_joined" -> 1000 [] Mode = "multi_cluster" -> 650 [] OTHER -> 300
Repair == 1000
Health == CASE health = "good" -> 1000 [] health = "degraded" -> 600 [] OTHER -> 200
Ingestion == LET avg == avg_ingestion_confidence
             IN  IF avg < Neutral THEN Neutral - ((Neutral - avg) * 65) \div 100 ELSE avg

Weighted == (25 * Retrieval + 20 * Graph + 15 * Resolver + 15 * Complexity
             + 10 * Repair + 5 * Health + 10 * Ingestion) \div 100
TrustLoss == (10 * (1000 - Ingestion) + 5 * (1000 - Health)) \div 100

\* What trust takes away is given back above a ceiling, and no score goes below a floor.
compute_confidence ==
    /\ at = "confidence"
    /\ LET raw == Weighted + IF TrustLoss > MaxTrustLoss THEN TrustLoss - MaxTrustLoss ELSE 0
       IN  score' = IF raw < MinViable THEN MinViable ELSE IF raw > 1000 THEN 1000 ELSE raw
    /\ at' = "feasibility"
    /\ UNCHANGED <<q, rels, joins, clusters, isolated, health, reply, changes>>

Level == IF score >= 700 THEN "high" ELSE IF score >= 500 THEN "medium" ELSE "low"

\* Only the files of the question's subject are looked at, all of the shortlist when there is none,
\* and of them those that have dates.
Overlaps(v, w) == v[1] <= w[2] /\ w[1] <= v[2]
SubjectFiles == IF q.subject \cap q.shortlist = {} THEN q.shortlist ELSE q.subject \cap q.shortlist
Dated == {f \in SubjectFiles : q.ranges[f] /= None}
Infeasible ==
    /\ ~Shadow
    /\ q.window /= None
    /\ Dated /= {}
    /\ \A f \in Dated : ~Overlaps(q.ranges[f], q.window)

Reply ==
    /\ at = "feasibility"
    /\ reply' = IF Infeasible THEN "refused" ELSE IF Level /= "high" THEN "caveat" ELSE "plain"
    /\ at' = "done"
    /\ UNCHANGED <<q, rels, joins, clusters, isolated, health, score, changes>>

Next ==
    \/ RelationshipChanges
    \/ build_sql_context \/ ContextFails
    \/ build_workflow_topology \/ TopologyFails
    \/ plan_execution_strategy
    \/ score_graph_health
    \/ compute_confidence
    \/ Reply

Spec == Init /\ [][Next]_vars

-----------------------------------------------------------------------------
\* Tables two of which are joined, or are the ends of a chain of joins: a set closed under joins that
\* no smaller one is.
Closed(S) == \A i \in DOMAIN joins : Ends(joins[i]) \subseteq S \/ Ends(joins[i]) \cap S = {}
Components == {S \in SUBSET q.shortlist : /\ S /= {} /\ Closed(S)
                                          /\ \A T \in SUBSET S : T \in {{}, S} \/ ~Closed(T)}

\* The two notes of the prompt agree with the joins and with one another: the clusters are the connected
\* components of the approved joins, and a table the topology calls isolated is a cluster of its own, unless
\* each of its joins was revoked between the two queries. In that case the notes do contradict one another.
NotesAgree ==
    at \in {"health", "confidence", "feasibility", "done"} =>
        /\ clusters = Components
        /\ \A f \in isolated : \/ {f} \in clusters
                             \/ \A i \in DOMAIN joins : f \in Ends(joins[i]) => joins[i] \notin rels

\* An answer over several tables with no approved join between them never goes out without a caveat,
\* however well retrieval, resolver and ingestion did.
UnjoinedIsCaveated == reply = "plain" => Cardinality(q.shortlist) = 1 \/ joins /= <<>>
=============================================================================
