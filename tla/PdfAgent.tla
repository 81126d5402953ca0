------------------------------- MODULE PdfAgent -------------------------------
(***************************************************************************)
(* A question to the PDF agent, from the cache to the audit row: the plan, its *)
(* parts, the linked entity, the budgeted tool loop (or one pass of it), the   *)
(* cited answer, the gate on claims of absence, and the cached answer that the *)
(* next asker of the same question gets.                                     *)
(*                                                                          *)
(* Source: server/pdf_chat/agent/{graph,planner,decompose,entity_linker,loop, *)
(* synthesis,negative_claim,audit}.py and server/pdf_chat/retrieval.          *)
(***************************************************************************)
EXTENDS Naturals, FiniteSets, FiniteSetsExt

CONSTANTS
    Chunks,       \* ids the searcher can return
    Denied,       \* those the asker may not read
    Cards,        \* those that are section or document cards
    CardSources,  \* by card: the chunks it was made from
    Parts,        \* what a multi-part question asks for
    Mentions,     \* by part: the chunks and cards whose text names it
    Budgets,      \* <<agent.max_tool_calls, agent.max_per_tool_calls>> of a container
    TopN,         \* rerank_top_n
    MinChunks,    \* min_accessible_chunks
    MinCitations  \* the floor of the citation gate

VARIABLES
    budget,   \* the tunables of the container
    node,     \* where the request is
    bypass,   \* the planner chose one pass of retrieval
    parts,    \* output components, {} for a question of one part
    entity,   \* an entity was linked
    used,     \* per_tool_calls
    seen,     \* seen_chunk_ids
    hits,     \* round_hits of the round under way
    turn,     \* the tool to run next, or "round" between rounds
    accessible,
    answer,
    fromCache,
    cache     \* the entry of this question's key, or NoEntry

vars == <<budget, node, bypass, parts, entity, used, seen, hits, turn, accessible, answer,
          fromCache, cache>>
loopVars == <<used, seen, hits, turn, accessible>>
planVars == <<budget, bypass, parts, entity>>

(* An index is finite, and the floors are numbers.                            *)
ConstantsOK == IsFiniteSet(Chunks) /\ MinChunks \in Nat /\ MinCitations \in Nat

Tools == {"multi_vector_search", "graph_traverse"}
NoAnswer == [kind |-> "none", citations |-> 0, noted |-> {}]
NoEntry == [answer |-> NoAnswer, chunks_used |-> 0]
Said(kind, n, noted) == [kind |-> kind, citations |-> n, noted |-> noted]

Init ==
    /\ node = "embed" /\ cache = NoEntry /\ budget \in Budgets
    /\ bypass = FALSE /\ parts = {} /\ entity = FALSE
    /\ used = [t \in Tools |-> 0] /\ seen = {} /\ hits = {} /\ turn = "round"
    /\ accessible = {} /\ answer = NoAnswer /\ fromCache = FALSE

insufficient_context(chunks) == Cardinality(chunks) < MinChunks
-----------------------------------------------------------------------------
(* The next request for the same key starts with a fresh state.               *)
Ask ==
    /\ node \in {"end", "raised"}
    /\ node' = "embed"
    /\ bypass' = FALSE /\ parts' = {} /\ entity' = FALSE
    /\ used' = [t \in Tools |-> 0] /\ seen' = {} /\ hits' = {} /\ turn' = "round"
    /\ accessible' = {} /\ answer' = NoAnswer /\ fromCache' = FALSE
    /\ UNCHANGED <<budget, cache>>

(* Nothing catches an exception of the embedder.                              *)
EmbedQuery ==
    /\ node = "embed"
    /\ node' \in {"cache_check", "raised"}
    /\ UNCHANGED <<planVars, loopVars, answer, fromCache, cache>>

(* A cache that is down reads as a miss.                                      *)
CacheCheck ==
    /\ node = "cache_check"
    /\ \/ /\ cache # NoEntry
          /\ answer' = cache.answer /\ fromCache' = TRUE
       \/ UNCHANGED <<answer, fromCache>>
    /\ node' = "plan"
    /\ UNCHANGED <<planVars, loopVars, cache>>

CacheExpires ==
    /\ cache # NoEntry /\ cache' = NoEntry
    /\ UNCHANGED <<node, planVars, loopVars, answer, fromCache>>

(* The planner is asked on a hit too.  Several parts, an intent over many        *)
(* passages, low confidence and a planner that fails all lead to the loop.     *)
Plan ==
    /\ node = "plan"
    /\ IF fromCache
       THEN node' = "audit" /\ bypass' \in BOOLEAN
       ELSE node' \in {"decompose", "link"} /\ bypass' \in BOOLEAN /\ (bypass' => node' = "link")
    /\ UNCHANGED <<budget, parts, entity, loopVars, answer, fromCache, cache>>

(* Fewer than two parts count as one question.                                *)
Decompose ==
    /\ node = "decompose"
    /\ \E P \in SUBSET Parts : parts' = IF Cardinality(P) >= 2 THEN P ELSE {}
    /\ node' = "link"
    /\ UNCHANGED <<budget, bypass, entity, loopVars, answer, fromCache, cache>>

LinkEntities ==
    /\ node = "link"
    /\ entity' \in BOOLEAN
    /\ node' = "loop"
    /\ UNCHANGED <<budget, bypass, parts, loopVars, answer, fromCache, cache>>
-----------------------------------------------------------------------------
(* run_tool_loop with the budget of the tunables, or of _bypass_retrieve.       *)
TotalCap == IF bypass THEN 2 ELSE budget[1]
ToolCap == IF bypass THEN 1 ELSE budget[2]
tool_calls == used["multi_vector_search"] + used["graph_traverse"]
NextTool(t) == IF t = "multi_vector_search" /\ entity THEN "graph_traverse" ELSE "round_end"

_components_satisfied(P, chunks) == \A p \in P : chunks \cap Mentions[p] # {}

RoundBegins ==
    /\ node = "loop" /\ turn = "round" /\ tool_calls < TotalCap
    /\ turn' = "multi_vector_search" /\ hits' = {}
    /\ UNCHANGED <<node, planVars, used, seen, accessible, answer, fromCache, cache>>

(* A tool that raises counts as a call without hits.                          *)
RunTool ==
    /\ node = "loop" /\ turn \in Tools
    /\ used[turn] < ToolCap /\ tool_calls < TotalCap
    /\ \E H \in SUBSET Chunks : hits' = hits \cup H
    /\ used' = [used EXCEPT ![turn] = @ + 1]
    /\ turn' = NextTool(turn)
    /\ UNCHANGED <<node, planVars, seen, accessible, answer, fromCache, cache>>

(* A tool at its own cap is passed over; at the total cap the round is over and *)
(* no other follows.                                                          *)
SkipTool ==
    /\ node = "loop" /\ turn \in Tools
    /\ used[turn] >= ToolCap \/ tool_calls >= TotalCap
    /\ turn' = IF used[turn] >= ToolCap THEN NextTool(turn) ELSE "capped_out"
    /\ UNCHANGED <<node, planVars, used, seen, hits, accessible, answer, fromCache, cache>>

(* What the rounds found and the asker may read, reranked and cut.             *)
Kept(found) ==
    {K \in SUBSET found : Cardinality(K) = Min({TopN, Cardinality(found)})}

LoopEnds ==
    /\ node' = "synthesize"
    /\ accessible' \in Kept(seen' \ Denied)

RoundEnds ==
    /\ node = "loop" /\ turn \in {"round_end", "capped_out"}
    /\ seen' = seen \cup hits
    /\ IF \/ hits \subseteq seen
          \/ turn = "capped_out"
          \/ _components_satisfied(parts, seen' \ Denied)
       THEN LoopEnds ELSE UNCHANGED <<node, accessible>>
    /\ turn' = "round"
    /\ UNCHANGED <<planVars, used, hits, answer, fromCache, cache>>

BudgetSpent ==
    /\ node = "loop" /\ turn = "round" /\ tool_calls >= TotalCap
    /\ UNCHANGED seen /\ LoopEnds
    /\ UNCHANGED <<planVars, used, hits, turn, answer, fromCache, cache>>
-----------------------------------------------------------------------------
(* Only chunks can be cited: a card stands for the chunks it was made from, of  *)
(* which the text is not at hand.                                            *)
_quotable_chunks == (accessible \ Cards) \cup UNION {CardSources[c] : c \in accessible \cap Cards}

_component_grounding_FromRetrieval == {p \in parts : accessible \cap Mentions[p] # {}}
_component_grounding == {p \in parts : (accessible \ Cards) \cap Mentions[p] # {}}

(* The model reads the first chunks the token budget admits and answers, with  *)
(* any of their numbers; too few grounded ones, a failure and missing evidence *)
(* are refusals.  An answer that leaves out parts says so.                     *)
Synthesize ==
    /\ node = "synthesize"
    /\ \/ answer' = Said("refusal", 0, {})
       \/ /\ ~insufficient_context(accessible) /\ ~insufficient_context(_quotable_chunks)
          /\ \E n \in 0..Cardinality(_quotable_chunks), kind \in {"text", "absence"} :
                answer' = IF n < MinCitations THEN Said("uncited", 0, {})
                          ELSE Said(kind, n, parts \ _component_grounding)
    /\ node' = "negative_claim"
    /\ UNCHANGED <<planVars, loopVars, fromCache, cache>>

(* The verdict on the model's own words: the note behind them, which says "not   *)
(* found", is no claim of absence.  A claim stands if there was text to search.*)
Proven == accessible # {}

NegativeClaim ==
    /\ node = "negative_claim"
    /\ answer' = IF answer.kind = "absence" /\ ~Proven THEN Said("rewrite", 0, {}) ELSE answer
    /\ node' = "cache_write"
    /\ UNCHANGED <<planVars, loopVars, fromCache, cache>>

Cacheable_Always == TRUE
Cacheable == ~insufficient_context(accessible)

(* The write may fail unseen.                                                 *)
CacheWrite ==
    /\ node = "cache_write"
    /\ \/ Cacheable /\ cache' = [answer |-> answer, chunks_used |-> Cardinality(accessible)]
       \/ UNCHANGED cache
    /\ node' = "audit"
    /\ UNCHANGED <<planVars, loopVars, answer, fromCache>>

(* The audit row goes to a sink outside.                                       *)
Audit ==
    /\ node = "audit" /\ node' = "end"
    /\ UNCHANGED <<planVars, loopVars, answer, fromCache, cache>>

Next ==
    \/ Ask \/ EmbedQuery \/ CacheCheck \/ CacheExpires \/ Plan \/ Decompose \/ LinkEntities
    \/ RoundBegins \/ RunTool \/ SkipTool \/ RoundEnds \/ BudgetSpent
    \/ Synthesize \/ NegativeClaim \/ CacheWrite \/ Audit

Spec == Init /\ [][Next]_vars
-----------------------------------------------------------------------------
(* "Not enough context" about evidence that one search missed is never what the *)
(* next asker gets: every cached answer was given over enough readable chunks. *)
CachedHadEvidence == cache # NoEntry => cache.chunks_used >= MinChunks

(* An answer to several parts names each part that no citable text mentions,    *)
(* also when the loop was content with a card, or the reranker cut the chunk.  *)
LackingPartsAreNamed ==
    node = "end" /\ ~fromCache /\ answer.kind \in {"text", "absence"}
        => \A p \in parts : p \in answer.noted \/ (accessible \ Cards) \cap Mentions[p] # {}

PdfAnswersAreHonest == CachedHadEvidence /\ LackingPartsAreNamed
===============================================================================
