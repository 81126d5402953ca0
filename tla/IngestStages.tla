----------------------------- MODULE IngestStages -----------------------------
(***************************************************************************)
(* The stages of the structured (tabular) ingestion pipeline, the order     *)
(* they run in, the subsets ("scopes") a request can ask for, and which     *)
(* stages may fail without failing the file.                                *)
(*                                                                          *)
(* Source: server/app/services/ingestion_config.py and the _NON_FATAL_STAGES *)
(* and INGEST_FAST_MODE parts of server/app/worker/ingest_tasks.py.          *)
(***************************************************************************)
EXTENDS Naturals

(* StageName, in the order of INGEST_STAGE_SPECS: Rank is the index.         *)
Rank ==
    [ clean |-> 1, metadata |-> 2, ai_description |-> 3, ontology |-> 4,
      erp_classification |-> 5, embedding |-> 6, opensearch |-> 7,
      parquet |-> 8, analytics |-> 9, relationships |-> 10,
      semantic_layer |-> 11, semantic_enrichment |-> 12, complete |-> 13 ]

Stages == DOMAIN Rank

(* The set the module of the Celery tasks calls _NON_FATAL_STAGES.           *)
NonFatal ==
    { "ontology", "erp_classification", "embedding", "opensearch", "parquet",
      "analytics", "relationships", "semantic_layer", "semantic_enrichment" }

(* What run_ingest_pipeline leaves out when INGEST_FAST_MODE is set.         *)
FastSkip ==
    { "ontology", "erp_classification", "relationships", "semantic_layer",
      "semantic_enrichment" }

(* "ingest" is run_ingest_pipeline; the others are the names of              *)
(* REPROCESS_SCOPES, started by run_scoped_ingest.                           *)
AllScopes == {"ingest", "refresh_rules", "re_analyze", "full_rebuild", "parquet_only"}

StagesOf(scope, fast) ==
    CASE scope = "ingest"        -> IF fast THEN Stages \ FastSkip ELSE Stages
      [] scope = "refresh_rules" -> {"erp_classification", "complete"}
      [] scope = "re_analyze"    -> Stages \ {"clean", "parquet"}
      [] scope = "full_rebuild"  -> Stages
      [] scope = "parquet_only"  -> {"parquet", "analytics", "complete"}

(* scope_forces_preprocess: the only reprocess scope that re-runs "clean".   *)
ForcesPreprocess(scope) == scope = "full_rebuild"

(* g is the stage of S that runs first: a scope is a set, its run order is   *)
(* always that of INGEST_STAGE_SPECS.                                        *)
IsFirst(g, S) == g \in S /\ \A h \in S : Rank[g] <= Rank[h]
===============================================================================
