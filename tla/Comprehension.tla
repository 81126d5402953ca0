---------------------------- MODULE Comprehension ----------------------------
(***************************************************************************)
(* What a tenant's documents are about, learned when ingestion ends: a version of *)
(* the ontology projected from the knowledge graph, and a glossary mined from the   *)
(* graph's chunks under that version; and how the page, the lookup tool and the      *)
(* query expansion read them, while other uploads finish and chunks come and go.     *)
(*                                                                          *)
(* Source: server/pdf_chat/comprehension/*.py, models/comprehension.py,            *)
(* api/onboarding.py, agent/tools_glossary.py. A short form and a token are sequences  *)
(* of letters, a long form that of its words; dates and confidences are numbers. The    *)
(* caller of finalize_comprehension commits.                                       *)
(***************************************************************************)
EXTENDS Naturals, Sequences, FiniteSets, FiniteSetsExt, SequencesExt

CONSTANTS
    Finalizers,  \* calls of finalize_comprehension, each of them once
    Chunks,      \* [doc, date, entities, defines, tokens] by chunk, see below
    First,       \* the chunks written at first
    MaxChanges,  \* bound: chunks written or deleted later
    DocDate,     \* by document: its date or None
    Metrics,     \* entities of a type that names a metric
    Initial,     \* the first letter of a word
    Share,       \* by token: the share per mille of the corpus that makes it an anomaly
    Rewordings,  \* expansions the model may write that no chunk has; None for an empty one
    MinConfidence, TaxonomyFloor,
    None

VARIABLES
    graph,      \* chunks in the graph
    changes,    \* chunks written and deleted so far
    background, \* background_freq.json could be read
    call,       \* by finalizer: [at, read, version, built, entries]
    ontologies, \* committed versions: [version, signature, entities, metrics, classes, coverage]
    glossary,   \* committed entries: [version, term, provenance, expansion, variants, spans, confidence]
    page        \* the glossary page: [at, version, entries]

vars == <<graph, changes, background, call, ontologies, glossary, page>>

Idle == [at |-> "idle", read |-> {}, version |-> 0, built |-> None, entries |-> {}]

(* Chunks and what they define are finitely many; dates and confidences are numbers.            *)
ConstantsOK ==
    /\ IsFiniteSet(DOMAIN Chunks) /\ First \subseteq DOMAIN Chunks
    /\ \A c \in DOMAIN Chunks : IsFiniteSet(Chunks[c].defines) /\ Chunks[c].date \in Nat \cup {None}
    /\ MinConfidence \in Nat \ {0}

Init ==
    /\ graph = First /\ changes = 0 /\ background \in BOOLEAN
    /\ call = [r \in Finalizers |-> Idle]
    /\ ontologies = {} /\ glossary = {} /\ page = [at |-> "idle", version |-> 0, entries |-> {}]

Write(c) ==
    /\ c \notin graph /\ changes < MaxChanges
    /\ graph' = graph \cup {c} /\ changes' = changes + 1
    /\ UNCHANGED <<background, call, ontologies, glossary, page>>

Delete(c) ==
    /\ c \in graph /\ changes < MaxChanges
    /\ graph' = graph \ {c} /\ changes' = changes + 1
    /\ UNCHANGED <<background, call, ontologies, glossary, page>>

-----------------------------------------------------------------------------
(* The ontology. Its signature names all that was read.                                        *)
Newest(S) == CHOOSE o \in S : \A p \in S : p.version =< o.version
CurrentVersion(S) == IF S = {} THEN 0 ELSE Newest(S).version

EntitiesOf(S) == UNION {Chunks[c].entities : c \in S}
DateOf(c) == IF Chunks[c].date /= None THEN Chunks[c].date ELSE DocDate[Chunks[c].doc]

ComputeTemporalCoverage(S) ==
    LET Dates(e) == {DateOf(c) : c \in {d \in S : e \in Chunks[d].entities}} \ {None} IN
    { [subject |-> e, min |-> Min(Dates(e)), max |-> Max(Dates(e))] :
      e \in {x \in EntitiesOf(S) : Dates(x) /= {}} }

\* finalize_comprehension reads the graph, and leaves when the newest version is of what it read.
Drain(r) ==
    /\ call[r].at = "idle"
    /\ call' = [call EXCEPT ![r].at = "compare", ![r].read = graph]
    /\ UNCHANGED <<graph, changes, background, ontologies, glossary, page>>

Compare(r) ==
    /\ call[r].at = "compare"
    /\ LET same == ontologies /= {} /\ Newest(ontologies).signature = call[r].read IN
       call' = [call EXCEPT ![r].at = IF same THEN "same" ELSE "build"]
    /\ UNCHANGED <<graph, changes, background, ontologies, glossary, page>>

\* build_tenant_ontology reads it again, for the signature it stamps and the rows it projects.
Project(r) ==
    /\ call[r].at = "build"
    /\ LET next == CurrentVersion(ontologies) + 1 IN
       call' = [call EXCEPT ![r].at = "insert", ![r].version = next,
                            ![r].built = [version |-> next, signature |-> graph,
                                          entities |-> EntitiesOf(graph), metrics |-> EntitiesOf(graph) \cap Metrics,
                                          classes |-> {}, coverage |-> {}]]
    /\ UNCHANGED <<graph, changes, background, ontologies, glossary, page>>

\* A version may be inserted once: a second insertion waits for the transaction of the first.
Holds(r, v) == call[r].version = v /\ call[r].at \in {"cluster", "cover", "mine", "commit"}

Insert(r) ==
    /\ call[r].at = "insert"
    /\ ~\E o \in Finalizers \ {r} : Holds(o, call[r].version)
    /\ LET taken == \E o \in ontologies : o.version = call[r].version IN
       call' = [call EXCEPT ![r] = IF taken THEN [Idle EXCEPT !.at = "raised"] ELSE [@ EXCEPT !.at = "cluster"]]
    /\ UNCHANGED <<graph, changes, background, ontologies, glossary, page>>

\* The model groups the documents, if there are any; classes it is not sure of are dropped.
PersistDocTaxonomy(r) ==
    /\ call[r].at = "cluster"
    /\ \E classes \in SUBSET [name : {"class"}, confidence : {TaxonomyFloor - 1, TaxonomyFloor}] :
          /\ (call[r].built.signature = {}) => classes = {}
          /\ call' = [call EXCEPT ![r].at = "cover",
                                  ![r].built.classes = {c \in classes : c.confidence >= TaxonomyFloor}]
    /\ UNCHANGED <<graph, changes, background, ontologies, glossary, page>>

\* The coverage reads documents and chunks a third time.
Cover(r) ==
    /\ call[r].at = "cover"
    /\ call' = [call EXCEPT ![r].at = "mine", ![r].built.coverage = ComputeTemporalCoverage(graph)]
    /\ UNCHANGED <<graph, changes, background, ontologies, glossary, page>>

-----------------------------------------------------------------------------
(* The glossary, from the chunks of the first reading. A chunk defines short forms: "Long (SF)",  *)
(* "SF (Long)" or "SF stands for Long".                                                       *)
Align(long, short) ==
    LET tail == SubSeq(long, Len(long) - Len(short) + 1, Len(long)) IN
    IF Len(long) > Len(short) /\ [i \in DOMAIN tail |-> Initial[tail[i]]] = short THEN tail ELSE long

ProposeExplicit(S) ==
    { [chunk |-> x[1], term |-> x[2].term, long |-> x[2].long, expansion |-> Align(x[2].long, x[2].term),
       form |-> x[2].form] :
      x \in {y \in S \X UNION {Chunks[c].defines : c \in S} : y[2] \in Chunks[y[1]].defines} }

AliasOf(p) == IF p.form = "after" THEN p.long ELSE None

\* Tokens more frequent here than anywhere; none when the background could not be read.
DistributionalCandidates(S) ==
    LET Count(t) == FoldSet(LAMBDA c, n : n + Cardinality({i \in DOMAIN Chunks[c].tokens : Chunks[c].tokens[i] = t}), 0, S)
        total == FoldSet(LAMBDA c, n : n + Len(Chunks[c].tokens), 0, S)
    IN  {t \in UNION {ToSet(Chunks[c].tokens) : c \in S} :
            background /\ 1000 * Count(t) >= Share[t] * total}

Contexts(t, S) == {c \in S : t \in ToSet(Chunks[c].tokens)}
SpanOf(p) == [chunk |-> p.chunk, expansion |-> p.expansion]

Entry(v, term, provenance, expansion, variants, spans, confidence) ==
    [version |-> v, term |-> term, provenance |-> provenance, expansion |-> expansion,
     variants |-> variants, spans |-> spans, confidence |-> confidence]

\* The model's verdict on a proposal: its wording of the expansion takes the place of the mined one.
Verdicts(proposed) ==
    [proposed -> [expansion : {p.expansion : p \in proposed} \cup Rewordings, confidence : {MinConfidence}]
                 \cup {[expansion |-> None, confidence |-> 0]}]  \* not confirmed, or not surely enough
Confirmed(p, verdict) ==
    [chunk |-> p.chunk, term |-> p.term, long |-> p.long, form |-> p.form,
     expansion |-> verdict.expansion, confidence |-> verdict.confidence]

\* Of what the model confirmed with enough confidence.
StatedEntry(v, term, cands) ==
    LET best == CHOOSE p \in cands : \A o \in cands : o.confidence =< p.confidence IN
    Entry(v, term, "stated", best.expansion, {AliasOf(p) : p \in cands} \ {None, best.expansion},
          {SpanOf(p) : p \in cands}, best.confidence)

Latest(cands) ==
    LET dated == {p \in cands : Chunks[p.chunk].date /= None} IN
    IF dated = {} THEN CHOOSE p \in cands : TRUE
    ELSE CHOOSE p \in dated : \A o \in dated : Chunks[o.chunk].date =< Chunks[p.chunk].date

\* Mutant: a disputed term keeps the span of the latest definition only.
ReconcileTerm_LatestSpan(v, term, cands, same) ==
    LET expansions == {p.expansion : p \in cands} \ {None} IN
    IF Cardinality(expansions) =< 1 \/ same THEN StatedEntry(v, term, cands)
    ELSE Entry(v, term, "conflicting", Latest(cands).expansion, expansions, {SpanOf(Latest(cands))},
               Max({p.confidence : p \in cands}))

ReconcileTerm(v, term, cands, same) ==
    LET expansions == {p.expansion : p \in cands} \ {None} IN
    IF Cardinality(expansions) =< 1 \/ same THEN StatedEntry(v, term, cands)
    ELSE Entry(v, term, "conflicting", Latest(cands).expansion, expansions, {SpanOf(p) : p \in cands},
               Max({p.confidence : p \in cands}))

MineGlossary(r) ==
    /\ call[r].at = "mine"
    /\ LET read == call[r].read v == call[r].version proposed == ProposeExplicit(read)
           unusual == DistributionalCandidates(read) IN
       \E said \in Verdicts(proposed), meant \in [unusual -> {MinConfidence - 1, MinConfidence}], same \in BOOLEAN :
          LET confirmed == {Confirmed(p, said[p]) : p \in {o \in proposed : said[o].confidence >= MinConfidence}}
              terms == {p.term : p \in confirmed}
              inferred == {t \in unusual : t \notin terms /\ meant[t] >= MinConfidence}
          IN call' = [call EXCEPT ![r].at = "commit", ![r].entries =
                        {ReconcileTerm(v, t, {p \in confirmed : p.term = t}, same) : t \in terms}
                        \cup {Entry(v, t, "inferred", None, {}, [chunk : Contexts(t, read), expansion : {None}],
                                    meant[t]) : t \in inferred}]
    /\ UNCHANGED <<graph, changes, background, ontologies, glossary, page>>

Commit(r) ==
    /\ call[r].at = "commit"
    /\ ontologies' = ontologies \cup {call[r].built}
    /\ glossary' = glossary \cup call[r].entries
    /\ call' = [call EXCEPT ![r] = [Idle EXCEPT !.at = "done"]]
    /\ UNCHANGED <<graph, changes, background, page>>

\* The graph, the model or the database fails, and the caller rolls back.
Fail(r) ==
    /\ call[r].at \notin {"idle", "same", "done", "raised"}
    /\ call' = [call EXCEPT ![r] = [Idle EXCEPT !.at = "raised"]]
    /\ UNCHANGED <<graph, changes, background, ontologies, glossary, page>>

-----------------------------------------------------------------------------
(* Readers. The page asks for the version first and for its entries then; the tool takes the      *)
(* newest entry of the term, whatever its version, and answers "not found" without one; the      *)
(* expansion adds the terms whose entry is sure enough now.                                    *)
CurrentOntologyVersion ==
    /\ page.at = "idle" /\ ontologies /= {}
    /\ page' = [at |-> "list", version |-> CurrentVersion(ontologies), entries |-> {}]
    /\ UNCHANGED <<graph, changes, background, call, ontologies, glossary>>

ListGlossary ==
    /\ page.at = "list"
    /\ page' = [page EXCEPT !.at = "shown", !.entries = {e \in glossary : e.version = page.version}]
    /\ UNCHANGED <<graph, changes, background, call, ontologies, glossary>>

Leave ==
    /\ page.at = "shown" /\ page' = [at |-> "idle", version |-> 0, entries |-> {}]
    /\ UNCHANGED <<graph, changes, background, call, ontologies, glossary>>

LookupGlossary(t) ==
    LET rows == {e \in glossary : e.term = t} IN
    IF rows = {} THEN [term |-> t, provenance |-> "not_found", spans |-> {}, version |-> 0] ELSE Newest(rows)

ExpandQuery(terms) ==
    {t \in terms : LookupGlossary(t).provenance /= "not_found" /\ LookupGlossary(t).confidence >= MinConfidence}

Step(r) ==
    \/ Drain(r) \/ Compare(r) \/ Project(r) \/ Insert(r) \/ PersistDocTaxonomy(r) \/ Cover(r)
    \/ MineGlossary(r) \/ Commit(r) \/ Fail(r)

Next ==
    \/ \E c \in DOMAIN Chunks : Write(c) \/ Delete(c)
    \/ \E r \in Finalizers : Step(r)
    \/ CurrentOntologyVersion \/ ListGlossary \/ Leave

Spec == Init /\ [][Next]_vars

-----------------------------------------------------------------------------
TypeOK ==
    /\ graph \subseteq DOMAIN Chunks /\ changes \in 0..MaxChanges /\ background \in BOOLEAN
    /\ \A r \in Finalizers : call[r].read \subseteq DOMAIN Chunks /\ call[r].version \in Nat
    /\ page.at \in {"idle", "list", "shown"}

(* "An inferred entry is never labelled stated; conflicting definitions keep all spans": every     *)
(* entry cites chunks, one that is stated or disputed chunks in which its term is defined, and the    *)
(* expansion that was confirmed of each; one whose definitions disagree shows every one of them, an   *)
(* inferred one cites chunks with the term, and a term is defined or inferred once in a version. The   *)
(* wording of an expansion is the model's (glossary_miner.py:410): the cited chunk need not have it.    *)
(* What a lookup finds is cited, and the query expansion trusts it.                              *)
EntriesAreGrounded ==
    /\ \A e \in glossary :
          /\ e.spans /= {}
          /\ e.provenance \in {"stated", "conflicting"} =>
                /\ \A s \in e.spans : \E d \in Chunks[s.chunk].defines : d.term = e.term
                /\ e.expansion \in {s.expansion : s \in e.spans}
          /\ e.provenance = "conflicting" =>
                Cardinality(e.variants) > 1 /\ e.variants = {s.expansion : s \in e.spans} \ {None}
          /\ e.provenance = "inferred" => \A s \in e.spans : e.term \in ToSet(Chunks[s.chunk].tokens)
    /\ \A e, f \in glossary : e.version = f.version /\ e.term = f.term => e = f
    /\ \A e \in glossary : LookupGlossary(e.term).spans /= {}
    /\ LET terms == {e.term : e \in glossary} IN ExpandQuery(terms) = terms

(* Versions are numbered without gaps, each of them once, with entries only of versions that      *)
(* there are; a page, even one that a finalization overtakes, shows one version and all of it; and  *)
(* what the newest version says of a term is what a lookup says.                                *)
VersionsAreWhole ==
    /\ {o.version : o \in ontologies} = 1..Cardinality(ontologies)
    /\ \A e \in glossary : e.version =< Cardinality(ontologies)
    /\ page.at = "shown" => page.entries = {e \in glossary : e.version = page.version}
    /\ \A e \in glossary : e.version = CurrentVersion(ontologies) => LookupGlossary(e.term) = e
=============================================================================
