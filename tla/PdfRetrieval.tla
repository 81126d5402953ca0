---------------------------- MODULE PdfRetrieval ----------------------------
(***************************************************************************)
(* Retrieval from the graph of a tenant's documents, and the fixed pipeline built on it: a    *)
(* query is answered from the cache or from passages that were found by nearness and over      *)
(* the entities they mention, fused by rank, reranked, filtered by what the asker may read and  *)
(* cut to a token budget. Requests overlap with each other and with deletions of documents.      *)
(*                                                                          *)
(* Source: server/pdf_chat/retrieval/ neo4j_searcher.py, rrf.py, acl.py, cache.py;       *)
(* server/pdf_chat/agent/ tools.py, graph.py (run_pdf_chat). An asker is a user with the      *)
(* groups of the request. The index is exact: the nearest nodes are found.       *)
(***************************************************************************)
EXTENDS Integers, Sequences, FiniteSets, FiniteSetsExt, SequencesExt, Functions

CONSTANTS
    Node,        \* by name: [kind, tenant, doc, acl, tokens] of a chunk, card or report; acl: [users, groups, public], None: none stored
    Near,        \* by query: all nodes, the nearest first
    Entities,    \* [name, tenant] of the entity nodes
    Mentioned,   \* set of <<chunk, entity>>
    RelatedTo,   \* set of [ends, label], ends a set of one or two entities
    RowFields,   \* fields of the searcher's rows: in the code without a tenant (see ReadableChunksPass), in the tests with
    Requests,    \* [query, tenant, user, groups, docs, entity]; docs None: all, entity None: none
    TopK, GraphTopK, TopN, K, MinChunks, Budget,
    HasReranker,
    MaxDeletions, \* bound: documents deleted
    None

VARIABLES
    index,       \* nodes of the graph
    cache,       \* by key: [cites, used]
    run,         \* by request: [at, lists, found, passed, denied, cites, cached, used]; lists: what the searches gave
    audits,      \* rows of the audit: [request, returned, denied, hit]
    tool         \* the last call of a tool: [lists, fused]

vars == <<index, cache, run, audits, tool>>

Started == [at |-> "embed", lists |-> <<>>, found |-> <<>>, passed |-> <<>>, denied |-> <<>>, cites |-> <<>>, cached |-> FALSE, used |-> 0]
Init ==
    /\ index = DOMAIN Node /\ cache = [k \in {} |-> None]
    /\ run = [r \in Requests |-> Started] /\ audits = {} /\ tool = [lists |-> <<>>, fused |-> <<>>]

-----------------------------------------------------------------------------
(* What the searches return: names of nodes, in order, the tenant's and of the documents asked for. *)
InScope(n, r) == Node[n].tenant = r.tenant /\ (r.docs /= None => Node[n].doc \in r.docs)

\* The tenant and the documents are looked at behind the cut to the nearest of all.
Nearest(kind, query, top) ==
    LET all == SelectSeq(Near[query], LAMBDA n : n \in index /\ Node[n].kind = kind)
    IN  SubSeq(all, 1, Min({top, Len(all)}))

vector_search(r) == SelectSeq(Nearest("chunk", r.query, TopK), LAMBDA n : InScope(n, r))
card_vector_search(r, kind) == SelectSeq(Nearest(kind, r.query, TopK), LAMBDA n : InScope(n, r))
community_report_lookup(r) ==
    SelectSeq(Nearest("report", r.query, GraphTopK), LAMBDA n : Node[n].tenant = r.tenant)

\* Paths of one or two different relations, in either direction, among entities of the tenant.
From(e, tenant) ==
    {[rels |-> <<x>>, other |-> o] : <<x, o>> \in
        {y \in RelatedTo \X Entities : y[1].ends = {e, y[2]} /\ y[2].tenant = tenant}}
Paths(name, tenant) ==
    LET start == [name |-> name, tenant |-> tenant]
        one == IF start \in Entities THEN From(start, tenant) ELSE {}
        two == UNION {{[rels |-> p.rels \o s.rels, other |-> s.other] :
                          s \in {t \in From(p.other, tenant) : t.rels /= p.rels}} : p \in one}
    IN  one \cup two

\* Any order of some rows, which are cut to the limit: a query without ORDER BY.
Cuts(rows, limit) ==
    {s \in [1..Min({limit, Cardinality(rows)}) -> rows] : IsInjective(s)}

\* One row for every path and every chunk that mentions its end: a chunk may be there twice.
GraphRows(r) ==
    {<<p, n>> \in Paths(r.entity, r.tenant) \X {x \in index : Node[x].kind = "chunk"} :
        <<n, p.other>> \in Mentioned /\ InScope(n, r)}
graph_traversal(r) ==
    IF r.entity = None THEN {<<>>}
    ELSE {[i \in DOMAIN s |-> s[i][2]] : s \in Cuts(GraphRows(r), GraphTopK)}

entity_neighbors(r) ==
    LET In(e) == r.docs = None \/ \E n \in index : <<n, e>> \in Mentioned /\ Node[n].kind = "chunk" /\ InScope(n, r)
    IN  IF r.entity = None THEN {<<>>}
        ELSE Cuts({e \in {p.other : p \in Paths(r.entity, r.tenant)} : In(e)}, GraphTopK)

-----------------------------------------------------------------------------
(* Reciprocal rank fusion: the ranks of an item in all lists add up, ties go to the item seen first. *)
Scale == 1000000  \* of the fractions
Score_LastList(lists, x) ==
    LET InList(l) == FoldSet(LAMBDA i, sum : sum + Scale \div (K + i), 0, {i \in DOMAIN l : l[i] = x})
    IN  FoldSeq(LAMBDA l, sum : IF x \in ToSet(l) THEN InList(l) ELSE sum, 0, lists)

Score(lists, x) ==
    LET InList(l) == FoldSet(LAMBDA i, sum : sum + Scale \div (K + i), 0, {i \in DOMAIN l : l[i] = x})
    IN  FoldSeq(LAMBDA l, sum : sum + InList(l), 0, lists)

rrf(lists) ==
    LET all == FlattenSeq(lists)
        first == SetToSortSeq({i \in DOMAIN all : \A j \in 1..(i - 1) : all[j] /= all[i]}, <)
        seen == [i \in DOMAIN first |-> all[first[i]]]
        Before(i, j) == Score(lists, seen[i]) > Score(lists, seen[j])
                        \/ (Score(lists, seen[i]) = Score(lists, seen[j]) /\ i < j)
        order == SetToSortSeq(DOMAIN seen, Before)
    IN  [i \in DOMAIN order |-> seen[order[i]]]

multi_vector_lists(r) ==
    <<vector_search(r), card_vector_search(r, "section"), card_vector_search(r, "document")>>
hybrid_lists(r) == {<<vector_search(r), hits>> : hits \in graph_traversal(r)}

-----------------------------------------------------------------------------
(* The tools of the agent: each searches for the request at hand and gives what it found.      *)
Call(lists, fused) == tool' = [lists |-> lists, fused |-> fused] /\ UNCHANGED <<index, cache, run, audits>>

MultiVectorSearchTool(r) == Call(multi_vector_lists(r), rrf(multi_vector_lists(r)))
VectorSearchTool(r) == Call(<<>>, vector_search(r))
GraphTraverseTool(r) == \E rows \in graph_traversal(r) : Call(<<>>, rows)
GetEntityNeighborsTool(r) == \E rows \in entity_neighbors(r) : Call(<<>>, [i \in DOMAIN rows |-> rows[i].name])
CommunityReportLookupTool(r) == Call(<<>>, community_report_lookup(r))

-----------------------------------------------------------------------------
(* The access check. A row has only the fields its query returns.                          *)
TenantOf(n) == IF "tenant_id" \in RowFields THEN Node[n].tenant ELSE None
deserialize_acl(n) ==
    IF "acl" \in RowFields /\ Node[n].acl /= None THEN Node[n].acl ELSE [users |-> {}, groups |-> {}, public |-> FALSE]

Admits(acl, r) == r.user \in acl.users \/ r.groups \cap acl.groups /= {} \/ acl.public
Passes(n, r) ==
    /\ r.tenant /= None /\ TenantOf(n) = r.tenant
    /\ Admits(deserialize_acl(n), r)

\* What an answer is kept under: not the user, though the access check looks at the user.
cache_key_Unscoped(r) == <<r.query, r.tenant, r.groups>>
cache_key(r) == <<r.query, r.tenant, r.groups, r.docs>>

\* The first passage, and as many of the next as the budget has room for.
Fitting(chunks) ==
    LET Tokens(i) == FoldSet(LAMBDA j, sum : sum + Node[chunks[j]].tokens, 0, 1..i)
        fits == {i \in DOMAIN chunks : \A j \in 2..i : Tokens(j) <= Budget}
    IN  SubSeq(chunks, 1, Cardinality(fits))

Insufficient(chunks) == chunks < MinChunks

-----------------------------------------------------------------------------
(* The pipeline. Every stage waits for what it calls; a call that raises ends the request.        *)
Move(r, from, changed) == run[r].at = from /\ run' = [run EXCEPT ![r] = changed]
Raises(r) == run[r].at \in {"embed", "retrieve", "rerank", "generate", "audit"} /\ run' = [run EXCEPT ![r].at = "raised"]
             /\ UNCHANGED <<index, cache, audits, tool>>

EmbedQuery(r) == Move(r, "embed", [run[r] EXCEPT !.at = "lookup"]) /\ UNCHANGED <<index, cache, audits, tool>>

\* A cache out of reach is a miss.
CacheCheck(r) ==
    /\ \/ /\ cache_key(r) \in DOMAIN cache
          /\ LET hit == cache[cache_key(r)] IN
              Move(r, "lookup", [run[r] EXCEPT !.at = "audit", !.cached = TRUE, !.cites = hit.cites, !.used = hit.used])
       \/ Move(r, "lookup", [run[r] EXCEPT !.at = "retrieve"])
    /\ UNCHANGED <<index, cache, audits, tool>>

HybridRetrieve(r) ==
    /\ \E lists \in hybrid_lists(r) :
          Move(r, "retrieve", [run[r] EXCEPT !.at = "rerank", !.lists = lists, !.found = rrf(lists)])
    /\ UNCHANGED <<index, cache, audits, tool>>

\* The cut is made before the access check: what is denied takes a place. A reranker may order at will.
Ranked(rows) ==
    LET n == Min({TopN, Len(rows)})
    IN  IF HasReranker THEN {s \in [1..n -> ToSet(rows)] : IsInjective(s)} ELSE {SubSeq(rows, 1, n)}

\* Extraction on demand gives the chunk back as it is.
RerankAndFilter(r) ==
    /\ \E ranked \in Ranked(run[r].found) :
          LET passed == SelectSeq(ranked, LAMBDA n : Passes(n, r)) IN
          Move(r, "rerank", [run[r] EXCEPT
              !.at = "generate", !.lists = <<>>, !.found = <<>>, !.passed = passed, !.denied = SelectSeq(ranked, LAMBDA n : ~Passes(n, r)),
              !.cites = Fitting(passed), !.used = Len(passed)])
    /\ UNCHANGED <<index, cache, audits, tool>>

\* A refusal for want of passages cites nothing; one for want of a model keeps what was put together.
LlmGenerate(r) ==
    /\ Move(r, "generate", [run[r] EXCEPT !.at = "write", !.cites = IF Insufficient(run[r].used) THEN <<>> ELSE @])
    /\ UNCHANGED <<index, cache, audits, tool>>

CacheWrite(r) ==
    /\ Move(r, "write", [run[r] EXCEPT !.at = "audit"])
    /\ \/ UNCHANGED cache
       \/ /\ ~Insufficient(run[r].used)
          /\ cache' = [k \in DOMAIN cache \cup {cache_key(r)} |->
                         IF k = cache_key(r) THEN [cites |-> run[r].cites, used |-> run[r].used] ELSE cache[k]]
    /\ UNCHANGED <<index, audits, tool>>

\* Of an answer from the cache the passages are unknown.
Audit(r) ==
    /\ Move(r, "audit", [run[r] EXCEPT !.at = "answered"])
    /\ audits' = audits \cup {[request |-> r, returned |-> ToSet(run[r].passed), denied |-> ToSet(run[r].denied), hit |-> run[r].cached]}
    /\ UNCHANGED <<index, cache, tool>>

run_pdf_chat(r) ==
    EmbedQuery(r) \/ CacheCheck(r) \/ HybridRetrieve(r) \/ RerankAndFilter(r) \/ LlmGenerate(r) \/ CacheWrite(r)
    \/ Audit(r) \/ Raises(r)

Expire ==
    \E k \in DOMAIN cache : cache' = [x \in DOMAIN cache \ {k} |-> cache[x]] /\ UNCHANGED <<index, run, audits, tool>>

\* The cascade of a deletion takes the document's chunks; its cards stay (GraphDelete).
DocumentDeleted(d) ==
    /\ Cardinality({Node[n].doc : n \in DOMAIN Node \ index}) < MaxDeletions
    /\ \E n \in index : Node[n].doc = d /\ Node[n].kind = "chunk"
    /\ index' = {n \in index : Node[n].doc = d => Node[n].kind /= "chunk"}
    /\ UNCHANGED <<cache, run, audits, tool>>

Next ==
    \/ \E r \in Requests :
          \/ run_pdf_chat(r)
          \/ MultiVectorSearchTool(r) \/ VectorSearchTool(r) \/ GraphTraverseTool(r)
          \/ GetEntityNeighborsTool(r) \/ CommunityReportLookupTool(r)
    \/ Expire
    \/ \E d \in {Node[n].doc : n \in DOMAIN Node} : DocumentDeleted(d)

-----------------------------------------------------------------------------
(* Properties.                                                                                     *)

\* Whatever is cited is a chunk of the asker's tenant and of a document the question was limited to. In a fresh
\* answer the asker may read it, and the audit names every passage that is cited. An answer that was kept by
\* another request and is given again cites only what somebody who asked the same with the same groups of the same
\* documents may read: that the asker may read it too holds only of passages that no access list gives to single
\* users, since the key of the cache does not have the user.
AnswersStayInScope ==
    \A r \in Requests : run[r].at /= "raised" =>
        /\ \A n \in ToSet(run[r].cites) :
              /\ Node[n].kind = "chunk" /\ InScope(n, r)
              /\ ~run[r].cached => Admits(Node[n].acl, r)
              /\ \E s \in Requests :
                    s.query = r.query /\ s.groups = r.groups /\ s.docs = r.docs /\ InScope(n, s) /\ Admits(Node[n].acl, s)
              /\ Node[n].acl.users = {} => Admits(Node[n].acl, r)
        /\ (run[r].at = "answered" /\ ~run[r].cached) =>
              \E a \in audits : a.request = r /\ ToSet(run[r].cites) \subseteq a.returned \ a.denied

\* Fusion keeps an order on which all searches agree: a hit that is ahead of another in every list that has the
\* other is ahead of it in the result, and no hit is lost or doubled. A traversal that returns a chunk twice adds up
\* its ranks twice and may lift it over others.
FusionAgrees ==
    LET PosIn(l, x) == CHOOSE i \in DOMAIN l : l[i] = x
        Ahead(a, b, l) == a \in ToSet(l) /\ (b \in ToSet(l) => PosIn(l, a) < PosIn(l, b))
        Agrees(lists, fused) ==
            /\ IsInjective(fused) /\ ToSet(fused) = UNION {ToSet(lists[i]) : i \in DOMAIN lists}
            /\ \A a, b \in ToSet(fused) :
                  (a /= b /\ \A i \in DOMAIN lists : IsInjective(lists[i]) /\ (b \in ToSet(lists[i]) => Ahead(a, b, lists[i])))
                      => PosIn(fused, a) < PosIn(fused, b)
    IN  /\ tool.lists /= <<>> => Agrees(tool.lists, tool.fused)
        /\ \A r \in Requests : run[r].lists /= <<>> => Agrees(run[r].lists, run[r].found)

\* What the access check says of itself: a chunk of the asker's tenant passes if the asker or one of the asker's
\* groups is among those it allows, or if it is public.
ReadableChunksPass ==
    \A r \in Requests : \A n \in ToSet(run[r].denied) :
        Node[n].tenant = r.tenant /\ Node[n].acl /= None => ~Admits(Node[n].acl, r)
=============================================================================
