------------------------------ MODULE FileMeaning ------------------------------
(***************************************************************************)
(* What ingestion makes of the files of a container: a model names the role of   *)
(* each column and the business the file belongs to, and the last stage of a     *)
(* chain scores the file, audits the container and says how far the file is      *)
(* trusted. The chains of several files run beside each other and beside a       *)
(* semantic rebuild, which resolves all roles again and judges all files at once. *)
(*                                                                          *)
(* Source: server/app/services/{column_role_resolver,semantic_roles,             *)
(* ingestion_confidence,ingestion_audit,trust_state,semantic_rebuild,            *)
(* ingestion_stages}.py, erp/classifier.py, contract/builder.py. Confidences are *)
(* per mille, averages rounded down. One chain of a file runs at a time; where   *)
(* relationships come from is the matter of SemanticJoins. The ORM writes a       *)
(* column only if it differs from what the session has loaded. At the start the   *)
(* files have been ingested before, with the quarantine off: all are trusted.      *)
(* The summary of the audit that is kept for display is left out.                *)
(***************************************************************************)
EXTENDS Integers, FiniteSets, FiniteSetsExt

CONSTANTS
    Files,
    Columns,       \* number of columns of a file
    Names,         \* 1..Columns, and names that a model makes up
    Described,     \* by file: how many of description, embedding and key dimensions it has
    SameShape,     \* files whose columns have the same names and types
    RoleReplies,   \* [form, of]: what a model says of the columns
    ClassReplies,  \* [form, known, side, conf]: what it says of the file
    Edges,         \* [score, evidence, approved]: relationships between two files
    Policies,      \* [classify, quarantine, threshold]; threshold 0: no escalation
    Ingestions,    \* chains that may begin
    None

VARIABLES
    policy,
    roles,    \* by file and name: column_semantic_roles and its evidence
    class,    \* by file: its row of erp_classifications
    edges,    \* by pair of files: their relationship
    trust,    \* by file: trust_state
    chain,    \* by file: [at, seen, level, loaded, findings, fresh]
    rebuild,  \* [at, left, level, loaded, findings, fresh]
    begun,    \* chains and rebuilds so far
    judged,   \* files whose trust is from an audit that saw their present roles
    classed   \* files classified under their present roles

\* A model gives its confidence as a number; shapes are compared between files.
ConstantsOK == SameShape \subseteq Files /\ \A reply \in ClassReplies : reply.conf \in Nat

vars == <<policy, roles, class, edges, trust, chain, rebuild, begun, judged, classed>>
Pairs == {p \in SUBSET Files : Cardinality(p) = 2}
Kinds == {"entity_key", "reference_key", "additive_measure", "non_additive_measure", "date",
          "attribute"}
Exclusive == {"entity_key", "reference_key", "date"}
NoRoles == [n \in Names |-> None]

-----------------------------------------------------------------------------
(* Roles. *)

Role(said) ==
    IF said = None THEN None
    ELSE IF said.kind \notin Kinds THEN None
    ELSE IF said.flat THEN [kind |-> said.kind, label |-> said.label, conf |-> 700]
    ELSE IF said.conf < 500 THEN None
    ELSE [kind |-> said.kind, label |-> said.label, conf |-> IF said.conf > 1000 THEN 1000 ELSE said.conf]

RolesFrom(reply) ==
    IF reply.form = "json" THEN [n \in Names |-> Role(reply.of[n])] ELSE NoRoles

Resolved(reply, again) ==
    RolesFrom(IF policy.threshold > 0 /\ reply.form = "broken" THEN again ELSE reply)

Having(f) == {n \in Names : roles[f][n] # None}
Confidences(f) == FoldSet(LAMBDA n, sum : sum + roles[f][n].conf, 0, Having(f))
AverageConfidence(f) == IF Having(f) = {} THEN 0 ELSE Confidences(f) \div Cardinality(Having(f))

-----------------------------------------------------------------------------
(* Classes. *)

Floor == 550
Unknown == [source |-> "unknown", known |-> FALSE, side |-> "neutral", conf |-> 0]

\* The side the labels point to: _role_polarity_signal.
Hint(rs) ==
    LET labels == {rs[n].label : n \in {m \in Names : rs[m] # None}} IN
    IF "customer" \in labels /\ "vendor" \notin labels THEN "customer"
    ELSE IF "vendor" \in labels /\ "customer" \notin labels THEN "vendor"
    ELSE "neutral"

Weighed_Alone(said, hint) == said.conf
Weighed(said, hint) ==
    IF hint # "neutral" /\ said.side # "neutral" /\ said.side # hint THEN (said.conf * 6) \div 10
    ELSE said.conf

Coerced(reply) ==
    [known |-> reply.known,
     side |-> IF reply.side \in {"customer", "vendor"} THEN reply.side ELSE "neutral",
     conf |-> IF reply.conf > 1000 THEN 1000 ELSE reply.conf]

Classified(reply, rs) ==
    LET said == Coerced(reply)
        hint == Hint(rs)
        conf == Weighed(said, hint)
    IN  IF reply.form # "json" \/ conf < Floor THEN Unknown
        ELSE [source |-> "llm", known |-> said.known, conf |-> conf,
              side |-> IF said.side = "neutral" THEN hint ELSE said.side]

\* is_reliable, and what the contract takes for reliable.
Reliable(row) == row.source = "llm" /\ row.conf >= Floor /\ row.known

Better(first, second) ==
    IF Reliable(second) \/ second.conf >= first.conf THEN second ELSE first

Escalated(first, second) ==
    IF policy.threshold > 0 /\ (first.conf < policy.threshold \/ first.source # "llm")
    THEN Better(first, second) ELSE first

Siblings(f) ==
    IF f \notin SameShape THEN {}
    ELSE {g \in SameShape \ {f} : class[g] # None /\ class[g].source = "llm"}

-----------------------------------------------------------------------------
(* The score of a file. *)

EdgesOf(f) == {p \in Pairs : f \in p /\ edges[p] # None}
AverageEdge(f) ==
    IF EdgesOf(f) = {} THEN 0
    ELSE FoldSet(LAMBDA p, sum : sum + edges[p].score, 0, EdgesOf(f)) \div Cardinality(EdgesOf(f))

Completeness(f) == (250 * (Described[f] + IF Having(f) = {} THEN 0 ELSE 1))

Overall(f) ==
    LET coverage == (1000 * Cardinality(Having(f))) \div Columns IN
    IF EdgesOf(f) # {}
    THEN (30 * coverage + 25 * AverageConfidence(f) + 25 * AverageEdge(f) + 20 * Completeness(f)) \div 100
    ELSE (85 * coverage + 75 * AverageConfidence(f) + 40 * Completeness(f)) \div 200

Level(f) == IF Overall(f) >= 750 THEN "high" ELSE IF Overall(f) >= 500 THEN "medium" ELSE "low"

-----------------------------------------------------------------------------
(* The audit of the container: findings with the files they name. *)

Finding(severity, code, files) == {[severity |-> severity, code |-> code, files |-> files]}
When(condition, findings) == IF condition THEN findings ELSE {}

WithRoles == {f \in Files : Having(f) # {}}
Labels == {roles[x[1]][x[2]].label : x \in {y \in Files \X Names : roles[y[1]][y[2]] # None}}
\* Pairs of a kind and a file that uses the label with it.
Uses(label, kinds) ==
    {<<roles[x[1]][x[2]].kind, x[1]>> : x \in {y \in Files \X Names :
        roles[y[1]][y[2]] # None /\ roles[y[1]][y[2]].label = label /\ roles[y[1]][y[2]].kind \in kinds}}
FilesIn(uses) == {u[2] : u \in uses}

Conflicts_WithinAFile ==
    UNION {LET uses == Uses(label, Exclusive) IN
           When(\E u, v \in uses : u[1] # v[1] /\ u[2] = v[2],
                Finding("error", "conflicting_role_kinds", FilesIn(uses))) : label \in Labels}

Conflicts ==
    UNION {LET uses == Uses(label, Exclusive) IN
           When(\E u, v \in uses : u[1] # v[1],
                Finding("error", "conflicting_role_kinds", FilesIn(uses))) : label \in Labels}

Duplicates ==
    UNION {LET files == FilesIn(Uses(label, {"entity_key"})) IN
           When(Cardinality(files) > 1, Finding("warning", "duplicate_entity_key", files)) : label \in Labels}

Speculative == {f \in WithRoles : AverageConfidence(f) < 600}
Related == {p \in Pairs : edges[p] # None}
Approved == {p \in Related : edges[p].approved}
Orphans == WithRoles \ UNION Approved
Degree(f) == Cardinality(EdgesOf(f))
Connected == UNION Related
Supernodes ==
    {f \in Connected : Degree(f) >= 3 /\ Degree(f) * Cardinality(Connected) > 5 * 2 * Cardinality(Related)}

Findings ==
    Conflicts \cup Duplicates
    \cup When(Speculative # {}, Finding("info", "low_role_confidence", Speculative))
    \cup When(2 * Cardinality(WithRoles) < Cardinality(Files) /\ Cardinality(Files) > 1,
              Finding("warning", "low_role_coverage", {}))
    \cup When(\E p \in Approved : edges[p].score < 600, Finding("warning", "weak_confidence_joins", {}))
    \cup When(Orphans # {}, Finding("info", "orphan_entities", Orphans))
    \cup When(Cardinality(Related) > 3 * Cardinality(Files), Finding("warning", "high_graph_density", {}))
    \cup When(\E p \in Related : edges[p].evidence < 3, Finding("info", "weak_evidence_edges", {}))
    \cup When(Supernodes # {}, Finding("warning", "supernode_detected", {}))

\* findings_for_file: a finding that names no file is charged to none.
ForFile(findings, f) == {x \in findings : f \in x.files}

DeriveTrustState(level, findings) ==
    IF \E x \in findings : x.severity = "error" THEN "quarantined"
    ELSE IF level = "low" THEN "quarantined"
    ELSE IF level = "medium" THEN "shadow"
    ELSE "trusted"

-----------------------------------------------------------------------------
Idle == [at |-> "idle", seen |-> NoRoles, level |-> "high", loaded |-> "trusted", findings |-> {}, fresh |-> {}]
NoRebuild == [at |-> "idle", left |-> {}, level |-> [f \in Files |-> "high"],
              loaded |-> [f \in Files |-> "trusted"], findings |-> {}, fresh |-> {}]

Init ==
    /\ policy \in Policies
    /\ roles \in [Files -> {RolesFrom(reply) : reply \in RoleReplies}]
    /\ class = [f \in Files |-> None]
    /\ edges = [p \in Pairs |-> None]
    /\ trust = [f \in Files |-> "trusted"]
    /\ chain = [f \in Files |-> Idle]
    /\ rebuild = NoRebuild
    /\ begun = 0
    /\ judged = {} /\ classed = {}

\* The roles of f are committed: audits and readings of before know others.
SetsRoles(f, rs) ==
    /\ roles' = [roles EXCEPT ![f] = rs]
    /\ judged' = IF rs = roles[f] THEN judged ELSE judged \ {f}
    /\ classed' = IF rs = roles[f] THEN classed ELSE classed \ {f}

Outdated(fresh, f, rs) == IF rs = roles[f] THEN fresh ELSE fresh \ {f}

ChainsForget(f, rs) == [g \in Files |-> [chain[g] EXCEPT !.fresh = Outdated(@, f, rs)]]

(* The chain of a file, from its roles on. *)
Begins(f) ==
    /\ chain[f].at = "idle"
    /\ begun < Ingestions
    /\ begun' = begun + 1
    /\ chain' = [chain EXCEPT ![f] = [Idle EXCEPT !.at = "ontology"]]
    /\ UNCHANGED <<policy, roles, class, edges, trust, rebuild, judged, classed>>

OntologyStage(f) ==
    /\ chain[f].at = "ontology"
    /\ \E reply, again \in RoleReplies :
         LET rs == Resolved(reply, again) IN
         /\ SetsRoles(f, rs)
         /\ chain' = [ChainsForget(f, rs) EXCEPT ![f].at = IF policy.classify THEN "erp" ELSE "relate"]
         /\ rebuild' = [rebuild EXCEPT !.fresh = Outdated(@, f, rs)]
    /\ UNCHANGED <<policy, class, edges, trust, begun>>

CopiesClass(f) ==
    /\ chain[f].at = "erp"
    /\ \E g \in Siblings(f) : class' = [class EXCEPT ![f] = [class[g] EXCEPT !.source = "cache"]]
    /\ classed' = classed \cup {f}
    /\ chain' = [chain EXCEPT ![f].at = "relate"]
    /\ UNCHANGED <<policy, roles, edges, trust, rebuild, begun, judged>>

AsksForClass(f) ==
    /\ chain[f].at = "erp"
    /\ Siblings(f) = {}
    /\ chain' = [chain EXCEPT ![f].at = "asked", ![f].seen = roles[f]]
    /\ UNCHANGED <<policy, roles, class, edges, trust, rebuild, begun, judged, classed>>

Classifies(f) ==
    /\ chain[f].at = "asked"
    /\ \E reply, again \in ClassReplies :
         class' = [class EXCEPT ![f] = Escalated(Classified(reply, chain[f].seen), Classified(again, chain[f].seen))]
    /\ classed' = IF chain[f].seen = roles[f] THEN classed \cup {f} ELSE classed \ {f}
    /\ chain' = [chain EXCEPT ![f].at = "relate", ![f].seen = NoRoles]
    /\ UNCHANGED <<policy, roles, edges, trust, rebuild, begun, judged>>

Relates(f) ==
    /\ chain[f].at = "relate"
    /\ \E found \in [{p \in Pairs : f \in p} -> Edges \cup {None}] :
         edges' = [p \in Pairs |-> IF f \in p THEN found[p] ELSE edges[p]]
    /\ chain' = [chain EXCEPT ![f].at = "complete"]
    /\ UNCHANGED <<policy, roles, class, trust, rebuild, begun, judged, classed>>

Scores(f) ==
    /\ chain[f].at = "complete"
    /\ chain' = [chain EXCEPT ![f] =
         IF policy.quarantine THEN [Idle EXCEPT !.at = "scored", !.level = Level(f), !.loaded = trust[f]]
         ELSE Idle]
    /\ UNCHANGED <<policy, roles, class, edges, trust, rebuild, begun, judged, classed>>

Audits(f) ==
    /\ chain[f].at = "scored"
    /\ chain' = [chain EXCEPT ![f].at = "audited", ![f].findings = Findings, ![f].fresh = Files]
    /\ UNCHANGED <<policy, roles, class, edges, trust, rebuild, begun, judged, classed>>

\* What a session leaves in a column it has loaded and set.
Written(loaded, set, present) == IF set = loaded THEN present ELSE set

\* The files whose trust comes from, or agrees with, an audit that saw their roles.
Judged(f, set, loaded, fresh) ==
    IF set # loaded THEN f \in fresh
    ELSE f \in judged \/ (trust[f] = set /\ f \in fresh)

Judges(f) ==
    LET run == chain[f]
        state == DeriveTrustState(run.level, ForFile(run.findings, f))
    IN  /\ run.at = "audited"
        /\ trust' = [trust EXCEPT ![f] = Written(run.loaded, state, @)]
        /\ judged' = IF Judged(f, state, run.loaded, run.fresh) THEN judged \cup {f} ELSE judged \ {f}
        /\ chain' = [chain EXCEPT ![f] = Idle]
        /\ UNCHANGED <<policy, roles, class, edges, rebuild, begun, classed>>

\* A stage fails for good, or the judgement cannot be made: what was committed stays.
GivesUp(f) ==
    /\ chain[f].at \notin {"idle", "complete"}
    /\ chain' = [chain EXCEPT ![f] = Idle]
    /\ UNCHANGED <<policy, roles, class, edges, trust, rebuild, begun, judged, classed>>

-----------------------------------------------------------------------------
(* rebuild_container_semantics. *)
RebuildBegins ==
    /\ rebuild.at = "idle"
    /\ begun < Ingestions
    /\ begun' = begun + 1
    /\ rebuild' = [NoRebuild EXCEPT !.at = "resolving", !.left = Files]
    /\ UNCHANGED <<policy, roles, class, edges, trust, chain, judged, classed>>

RebuildResolves ==
    LET f == Min(rebuild.left) IN
    /\ rebuild.at = "resolving" /\ rebuild.left # {}
    /\ \/ \E reply, again \in RoleReplies :
            LET rs == Resolved(reply, again) IN SetsRoles(f, rs) /\ chain' = ChainsForget(f, rs)
       \/ UNCHANGED <<roles, judged, classed, chain>>  \* the stage raised
    /\ rebuild' = [rebuild EXCEPT !.left = @ \ {f}]
    /\ UNCHANGED <<policy, class, edges, trust, begun>>

RebuildRelates ==
    /\ rebuild.at = "resolving" /\ rebuild.left = {}
    /\ edges' \in [Pairs -> Edges \cup {None}]
    /\ rebuild' = IF policy.quarantine THEN [rebuild EXCEPT !.at = "related"] ELSE NoRebuild
    /\ UNCHANGED <<policy, roles, class, trust, chain, begun, judged, classed>>

RebuildAudits ==
    /\ rebuild.at = "related"
    /\ rebuild' = [rebuild EXCEPT !.at = "audited", !.findings = Findings, !.fresh = Files]
    /\ UNCHANGED <<policy, roles, class, edges, trust, chain, begun, judged, classed>>

RebuildLoads ==
    /\ rebuild.at = "audited"
    /\ rebuild' = [rebuild EXCEPT !.at = "loaded", !.loaded = trust, !.level = [f \in Files |-> Level(f)]]
    /\ UNCHANGED <<policy, roles, class, edges, trust, chain, begun, judged, classed>>

ApplyTrustStates ==
    LET state == [f \in Files |-> DeriveTrustState(rebuild.level[f], ForFile(rebuild.findings, f))] IN
    /\ rebuild.at = "loaded"
    /\ trust' = [f \in Files |-> Written(rebuild.loaded[f], state[f], trust[f])]
    /\ judged' = {f \in Files : Judged(f, state[f], rebuild.loaded[f], rebuild.fresh)}
    /\ rebuild' = NoRebuild
    /\ UNCHANGED <<policy, roles, class, edges, chain, begun, classed>>

RebuildFails ==
    /\ rebuild.at \in {"related", "audited", "loaded"}
    /\ rebuild' = NoRebuild
    /\ UNCHANGED <<policy, roles, class, edges, trust, chain, begun, judged, classed>>

Next ==
    \/ \E f \in Files :
         \/ Begins(f) \/ OntologyStage(f) \/ CopiesClass(f) \/ AsksForClass(f) \/ Classifies(f)
         \/ Relates(f) \/ Scores(f) \/ Audits(f) \/ Judges(f) \/ GivesUp(f)
    \/ RebuildBegins \/ RebuildResolves \/ RebuildRelates \/ RebuildAudits \/ RebuildLoads
    \/ ApplyTrustStates \/ RebuildFails

Spec == Init /\ [][Next]_vars

-----------------------------------------------------------------------------
(* Two files that use a label for things that exclude each other are never both     *)
(* let through: each chain commits its roles before it audits, so the later audit   *)
(* sees both, whatever overlaps with it and whichever writes last.                  *)
ConflictsAreCaught ==
    policy.quarantine => \A f, g \in judged :
        (\E n, m \in Names :
            /\ roles[f][n] # None /\ roles[g][m] # None
            /\ roles[f][n].label = roles[g][m].label /\ roles[f][n].kind # roles[g][m].kind
            /\ {roles[f][n].kind, roles[g][m].kind} \subseteq Exclusive)
        => \E h \in {f, g} : trust[h] = "quarantined"

(* A class that the contract may act on does not contradict the roles it was found   *)
(* under, unless the model insisted and its confidence was cut.                      *)
ClassesAreCorroborated ==
    \A f \in classed :
        (class[f] # None /\ Reliable(class[f]) /\ Hint(roles[f]) # "neutral")
        => class[f].side = Hint(roles[f]) \/ class[f].conf <= 600

(* Both: what ingestion makes of the files holds together, file by file and between    *)
(* files.                                                                              *)
FilesAreUnderstood == ConflictsAreCaught /\ ClassesAreCorroborated

=============================================================================
