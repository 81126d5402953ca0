---------------------------- MODULE KnowledgeGraph ----------------------------
(***************************************************************************)
(* The construction of a tenant's knowledge graph: a document's chunks are grouped   *)
(* into sections, a model extracts entities, relations and tags from each, a gate       *)
(* admits what the cited text says, names of one thing are resolved to one entity, and   *)
(* all of it is written statement by statement, each on its own, with cards, communities  *)
(* and their reports. Constructions of several documents overlap, and one that breaks off  *)
(* is begun again.                                                          *)
(*                                                                          *)
(* Source: server/pdf_chat/ingestion/ kg_construction.py, sectionizer.py, kg_extraction.py, *)
(* grounding_gate.py, entity_resolution.py, communities.py, card_builder.py, kg_writer.py.  *)
(* A text is the set of phrases in it; what a model answers is one of Replies.             *)
(***************************************************************************)
EXTENDS Naturals, Sequences, FiniteSets, FiniteSetsExt, SequencesExt, Relation, TLC

CONSTANTS
    Reading,     \* by document: its chunks in reading order
    Text, Page, Heading,  \* by chunk; Heading: a text of a few words
    Words,       \* by text: what stands in it as words of their own
    Within,      \* by text: what stands in it as part of longer words
    Short,       \* claims of so few letters that they count as words only
    ByPage,      \* the granularity is the page
    Replies,     \* [entities, relations, tags]; "at" is a place in the section, 0 none, else invented
    MaxPasses, NewFloor, TagCap, CardCap, TagFloor,
    Like, Lift, MergeFloor, Quantile,  \* per mille; Like: by set of two names
    Ordinals, MinSize, MinEdges,
    MaxRuns,     \* bound: constructions begun
    None

VARIABLES
    run,    \* by document: [at, section, entities, edges, tags, cards, todo]
    runs,   \* constructions begun so far
    cache,  \* extraction results kept by fingerprint
    entity, edge, mention, part, tag, card, community, member, report  \* the graph; the card of the document is card 0

graph == <<entity, edge, mention, part, tag, card, community, member, report>>
vars == <<run, runs, cache, entity, edge, mention, part, tag, card, community, member, report>>

Docs == DOMAIN Reading
Empty == [x \in {} |-> None]
Begun(at) == [at |-> at, section |-> 1, entities |-> <<>>, edges |-> <<>>, tags |-> <<>>, cards |-> <<>>, todo |-> <<>>]

Init ==
    /\ run = [d \in Docs |-> Begun("idle")] /\ runs = 0 /\ cache = Empty
    /\ entity = Empty /\ edge = Empty /\ mention = {} /\ part = {} /\ tag = {}
    /\ card = Empty /\ community = Empty /\ member = {} /\ report = Empty

-----------------------------------------------------------------------------
(* Sections: the chunks of a page, or a heading and what follows it.                            *)
PageGrouping(chunks) ==
    LET pages == SetToSortSeq({Page[c] : c \in ToSet(chunks)}, <) IN
    [i \in DOMAIN pages |-> SelectSeq(chunks, LAMBDA c : Page[c] = pages[i])]

HeadingGrouping(chunks) ==
    LET starts == SetToSortSeq({1} \cup {i \in DOMAIN chunks : Heading[chunks[i]]}, <)
        End(i) == IF i = Len(starts) THEN Len(chunks) ELSE starts[i + 1] - 1
    IN  [i \in DOMAIN starts |-> SubSeq(chunks, starts[i], End(i))]

Sectionize(chunks) ==
    IF chunks = <<>> THEN <<>>
    ELSE IF ByPage \/ \A c \in ToSet(chunks) : ~Heading[c] THEN PageGrouping(chunks) ELSE HeadingGrouping(chunks)

Section(d) == Sectionize(Reading[d])[run[d].section]
Texts(chunks) == {Text[c] : c \in ToSet(chunks)}
SectionFingerprint(chunks) == [i \in DOMAIN chunks |-> Text[chunks[i]]]  \* of the texts alone

-----------------------------------------------------------------------------
(* The extraction of a section, in passes while a pass still names new entities.                *)
SrcChunk(item, chunks) ==
    CASE item.at = 0 -> chunks[1] [] item.at \in DOMAIN chunks -> chunks[item.at] [] OTHER -> "invented"

Named(e) == e.name /= None
Stated(r) == None \notin {r.subject, r.predicate, r.obj}
Labelled(t) == t.label /= None
Located(items, chunks) == [i \in DOMAIN items |-> [items[i] EXCEPT !.at = SrcChunk(items[i], chunks)]]

\* The first of each name.
NewOf(items, seen) ==
    LET Fresh(i) == items[i].name \notin seen \cup {items[j].name : j \in 1..(i - 1)}
        picked == SetToSortSeq({i \in DOMAIN items : Named(items[i]) /\ Fresh(i)}, <)
    IN  [k \in DOMAIN picked |-> items[picked[k]]]

ByConfidence(tags) ==
    LET order == SetToSortSeq(DOMAIN tags, LAMBDA i, j : \/ tags[i].confidence > tags[j].confidence
                                             \/ (tags[i].confidence = tags[j].confidence /\ i < j))
    IN  [k \in DOMAIN order |-> tags[order[k]]]

FirstOf(n, s) == SubSeq(s, 1, Min({n, Len(s)}))

\* The surest tag of the document and the surest few of the section.
ShapeTags(tags) ==
    FirstOf(1, ByConfidence(SelectSeq(tags, LAMBDA t : t.scope = "doc")))
    \o FirstOf(TagCap, ByConfidence(SelectSeq(tags, LAMBDA t : t.scope /= "doc")))

\* What the passes answered, in order. Entities are taken once, relations and tags as often as said.
Extracted(answers, chunks) ==
    LET all == FoldLeft(LAMBDA r, p : [ entities  |-> r.entities \o NewOf(p.entities, {e.name : e \in ToSet(r.entities)}),
                                       relations |-> r.relations \o SelectSeq(p.relations, Stated),
                                       tags      |-> r.tags \o SelectSeq(p.tags, Labelled) ],
                       [entities |-> <<>>, relations |-> <<>>, tags |-> <<>>], answers)
    IN  [ entities  |-> Located(all.entities, chunks), relations |-> Located(all.relations, chunks),
          tags      |-> ShapeTags(Located(all.tags, chunks)) ]

\* A pass is followed by another while it found enough that is new.
GoesOn(answers, chunks) ==
    LET known == Extracted(Front(answers), chunks).entities IN
    Len(NewOf(Last(answers).entities, {e.name : e \in ToSet(known)})) >= NewFloor

Passes(chunks) ==
    {a \in UNION {[1..n -> Replies] : n \in 1..MaxPasses} :
        /\ \A k \in 1..(Len(a) - 1) : GoesOn(SubSeq(a, 1, k), chunks)
        /\ Len(a) = MaxPasses \/ ~GoesOn(a, chunks)}

-----------------------------------------------------------------------------
(* The gate. An item is held against the chunk that it cites, or against the whole section when the  *)
(* document has no such chunk.                                                               *)
Cited(item, d, chunks) == IF item.at \in ToSet(Reading[d]) THEN {Text[item.at]} ELSE Texts(chunks)

Present(claim, texts) ==
    \/ \E t \in texts : claim \in Words[t]
    \/ /\ claim \notin Short
       /\ \E t \in texts : claim \in Within[t]

AdmitEdge_SpanOnly(r, texts) == Present(r.span, texts)
AdmitEdge(r, texts) == \A claim \in {r.span, r.subject, r.obj} : Present(claim, texts)

\* A label counts wherever its letters stand.
AdmitTag(t, texts) ==
    /\ \E x \in texts : t.label \in Words[x] \cup Within[x]
    /\ t.confidence >= TagFloor

TagAsAnswer(t, texts) == IF \E x \in texts : t.label \in Words[x] \cup Within[x] THEN t.label ELSE None

-----------------------------------------------------------------------------
(* Resolution: names of one type are one entity when they are alike enough, among this document's     *)
(* pairs and at all; the first name stands for those that it reaches.                           *)
Unique(items) ==
    LET first == SetToSortSeq({i \in DOMAIN items : \A j \in 1..(i - 1) :
                                  <<items[j].name, items[j].etype>> /= <<items[i].name, items[i].etype>>}, <)
    IN  [k \in DOMAIN first |-> items[first[k]]]

TypeAgree(a, b) == a.etype /= None /\ a.etype = b.etype
Score(a, b) ==
    IF ~TypeAgree(a, b) THEN 0
    ELSE Min({1000, (IF a.name = b.name THEN 1000 ELSE Like[{a.name, b.name}]) + IF a.at = b.at THEN Lift ELSE 0})

\* Per million, between the two nearest of the sorted scores; nothing to compare with lets nothing pass.
QuantileOf(scores) ==
    IF scores = <<>> THEN 1000000
    ELSE LET pos == Quantile * (Len(scores) - 1) lo == 1 + pos \div 1000 hi == Min({lo + 1, Len(scores)}) IN
         scores[lo] * (1000 - (pos % 1000)) + scores[hi] * (pos % 1000)

Merged(u) ==
    LET pairs == {p \in (DOMAIN u) \X (DOMAIN u) : p[1] < p[2]}
        Of(p) == Score(u[p[1]], u[p[2]])
        agreeing == SetToSortSeq({p \in pairs : TypeAgree(u[p[1]], u[p[2]])}, LAMBDA p, q :
                        Of(p) < Of(q) \/ (Of(p) = Of(q) /\ p[1] < q[1]) \/ (Of(p) = Of(q) /\ p[1] = q[1] /\ p[2] < q[2]))
        band == QuantileOf([k \in DOMAIN agreeing |-> Of(agreeing[k])])
    IN  {p \in pairs : TypeAgree(u[p[1]], u[p[2]]) /\ Of(p) >= MergeFloor /\ 1000 * Of(p) >= band}

Resolve(items) ==
    LET u == Unique(items)
        merged == Merged(u)
        same == ReflexiveTransitiveClosure([x, y \in DOMAIN u |-> <<x, y>> \in merged \/ <<y, x>> \in merged], DOMAIN u)
        heads == SetToSortSeq({i \in DOMAIN u : \A j \in 1..(i - 1) : ~same[i, j]}, <)
    IN  [k \in DOMAIN heads |->
           [kind |-> "entity", name |-> u[heads[k]].name, etype |-> u[heads[k]].etype,
            aliases |-> {u[j].name : j \in {x \in DOMAIN u : same[heads[k], x]}} \ {u[heads[k]].name}]]

-----------------------------------------------------------------------------
(* The statements of a construction, in the order of the writer's calls.                          *)
Ends(e) == {e.subject, e.obj}
EdgeRows(edges) == [i \in DOMAIN edges |-> [kind |-> "edge", key |-> <<edges[i].subject, edges[i].predicate, edges[i].obj>>,
                                            chunk |-> edges[i].at, span |-> edges[i].span]]
Mention(name, e) == [kind |-> "mention", chunk |-> e.at, name |-> name]
MentionRows(edges) == FlattenSeq([i \in DOMAIN edges |-> <<Mention(edges[i].subject, edges[i]), Mention(edges[i].obj, edges[i])>>])
SectionRows(d) ==
    LET s == Sectionize(Reading[d]) IN
    FlattenSeq([i \in DOMAIN s |-> [k \in DOMAIN s[i] |-> [kind |-> "section", section |-> <<d, i>>, chunk |-> s[i][k]]]])
TagRows(tags) == [i \in DOMAIN tags |-> [kind |-> "tag", of |-> <<tags[i].label, tags[i].scope, tags[i].at>>]]

Card(id, tags) == [kind |-> "card", id |-> id, labels |-> {t.label : t \in ToSet(tags)}, chunks |-> {t.at : t \in ToSet(tags)}]
BuildSectionCard(id, tags) == Card(id, FirstOf(CardCap, SelectSeq(tags, LAMBDA t : t.scope /= "doc")))
BuildDocCard(d, tags) == Card(<<d, 0>>, SelectSeq(tags, LAMBDA t : t.scope = "doc"))

\* Communities are numbered from the largest, each node in one. The numbers start again for each document.
Clusterings(edges) ==
    LET nodes == UNION {Ends(e) : e \in ToSet(edges)}
        Size(f, k) == Cardinality({n \in nodes : f[n] = k})
    IN  {f \in [nodes -> Ordinals] : \A k \in Ordinals : k + 1 \in Ordinals => Size(f, k) >= Size(f, k + 1)}

Members(f, k) == {n \in DOMAIN f : f[n] = k}
DetectCommunities(f) == SetToSortSeq({k \in Ordinals : Cardinality(Members(f, k)) >= MinSize /\ Members(f, k) /= {}}, <)

MemberRows(f) ==
    LET kept == DetectCommunities(f)
        names == [i \in DOMAIN kept |-> SetToSeq(Members(f, kept[i]))]
    IN  FlattenSeq([i \in DOMAIN kept |-> [j \in DOMAIN names[i] |->
            [kind |-> "member", id |-> kept[i], name |-> names[i][j], size |-> Len(names[i])]]])

\* Mutant: an edge with one end inside supports the report too.
Supporting_OneEnd(f, k, edges) == SelectSeq(edges, LAMBDA e : Ends(e) \cap Members(f, k) /= {})

\* A report cites the chunks of the edges inside its community, and there is none without enough of them.
Supporting(f, k, edges) == SelectSeq(edges, LAMBDA e : Ends(e) \subseteq Members(f, k))

ReportRows(f, edges) ==
    LET kept == SelectSeq(DetectCommunities(f), LAMBDA k : Len(Supporting(f, k, edges)) >= MinEdges) IN
    [i \in DOMAIN kept |-> [kind |-> "report", id |-> kept[i], count |-> Len(Supporting(f, kept[i], edges)),
                            citations |-> {e.at : e \in ToSet(Supporting(f, kept[i], edges))}]]

-----------------------------------------------------------------------------
(* construct_knowledge_graph.                                                              *)
Begin(d) ==
    /\ run[d].at = "idle" /\ runs < MaxRuns
    /\ runs' = runs + 1
    /\ run' = [run EXCEPT ![d] = Begun(IF Sectionize(Reading[d]) = <<>> THEN "done" ELSE "look")]
    /\ UNCHANGED <<cache, graph>>

\* The gate over what a section's extraction gave; mentions and the section's card come of it.
Gated(d, found) ==
    LET chunks == Section(d)
        edges == SelectSeq(found.relations, LAMBDA r : AdmitEdge(r, Cited(r, d, chunks)))
        tags == SelectSeq(found.tags, LAMBDA t : AdmitTag(t, Cited(t, d, chunks)))
    IN  [run[d] EXCEPT !.at = IF run[d].section = Len(Sectionize(Reading[d])) THEN "resolve" ELSE "look",
                       !.section = @ + 1, !.entities = @ \o found.entities, !.edges = @ \o edges, !.tags = @ \o tags,
                       !.cards = Append(@, BuildSectionCard(<<d, run[d].section>>, tags))]

\* What another document's section of the same text gave is taken as it is.
Extract(d) ==
    /\ run[d].at = "look"
    /\ LET fp == SectionFingerprint(Section(d)) IN
       run' = [run EXCEPT ![d] = IF fp \in DOMAIN cache THEN Gated(d, cache[fp]) ELSE [@ EXCEPT !.at = "ask"]]
    /\ UNCHANGED <<runs, cache, graph>>

RunExtraction(d) ==
    /\ run[d].at = "ask"
    /\ \E answers \in Passes(Section(d)) :
          LET found == Extracted(answers, Section(d)) IN
          /\ cache' = (SectionFingerprint(Section(d)) :> found) @@ cache
          /\ run' = [run EXCEPT ![d] = Gated(d, found)]
    /\ UNCHANGED <<runs, graph>>

Plan(d) ==
    /\ run[d].at = "resolve"
    /\ \E f \in Clusterings(run[d].edges) :
          run' = [run EXCEPT ![d].at = "write",
                    ![d].todo = Resolve(run[d].entities) \o EdgeRows(run[d].edges) \o MentionRows(run[d].edges)
                                \o SectionRows(d) \o TagRows(run[d].tags)
                                \o Append(run[d].cards, BuildDocCard(d, run[d].tags))
                                \o MemberRows(f) \o ReportRows(f, run[d].edges)]
    /\ UNCHANGED <<runs, cache, graph>>

\* One statement of the writer. Every statement merges what it names, so an entity may come without a type.
Untyped(names) == [n \in names |-> [etype |-> None, aliases |-> {}]]
Due(d, kind) == run[d].at = "write" /\ run[d].todo /= <<>> /\ Head(run[d].todo).kind = kind
Pop(d) ==
    /\ run' = [run EXCEPT ![d].todo = Tail(@)]
    /\ UNCHANGED <<runs, cache>>

WriteEntity(d) ==
    /\ Due(d, "entity") /\ Pop(d)
    /\ LET s == Head(run[d].todo) IN entity' = (s.name :> [etype |-> s.etype, aliases |-> s.aliases]) @@ entity
    /\ UNCHANGED <<edge, mention, part, tag, card, community, member, report>>

WriteRelatedTo(d) ==
    /\ Due(d, "edge") /\ Pop(d)
    /\ LET s == Head(run[d].todo) IN
       /\ entity' = entity @@ Untyped({s.key[1], s.key[3]})
       /\ edge' = (s.key :> [chunk |-> s.chunk, span |-> s.span]) @@ edge
    /\ UNCHANGED <<mention, part, tag, card, community, member, report>>

WriteMention(d) ==
    /\ Due(d, "mention") /\ Pop(d)
    /\ LET s == Head(run[d].todo) IN
       /\ entity' = entity @@ Untyped({s.name})
       /\ mention' = mention \cup {<<s.chunk, s.name>>}
    /\ UNCHANGED <<edge, part, tag, card, community, member, report>>

WriteSection(d) ==
    /\ Due(d, "section") /\ Pop(d)
    /\ LET s == Head(run[d].todo) IN part' = part \cup {<<s.section, s.chunk>>}
    /\ UNCHANGED <<entity, edge, mention, tag, card, community, member, report>>

WriteTag(d) ==
    /\ Due(d, "tag") /\ Pop(d)
    /\ tag' = tag \cup {Head(run[d].todo).of}
    /\ UNCHANGED <<entity, edge, mention, part, card, community, member, report>>

WriteCard(d) ==
    /\ Due(d, "card") /\ Pop(d)
    /\ LET s == Head(run[d].todo) IN card' = (s.id :> [labels |-> s.labels, chunks |-> s.chunks]) @@ card
    /\ UNCHANGED <<entity, edge, mention, part, tag, community, member, report>>

\* The community keeps the rank of the member written last.
WriteCommunity(d) ==
    /\ Due(d, "member") /\ Pop(d)
    /\ LET s == Head(run[d].todo) IN
       /\ community' = (s.id :> [size |-> s.size, ranked |-> s.name]) @@ community
       /\ entity' = entity @@ Untyped({s.name})
       /\ member' = member \cup {<<s.name, s.id>>}
    /\ UNCHANGED <<edge, mention, part, tag, card, report>>

WriteReport(d) ==
    /\ Due(d, "report") /\ Pop(d)
    /\ LET s == Head(run[d].todo) IN report' = (s.id :> [citations |-> s.citations, count |-> s.count]) @@ report
    /\ UNCHANGED <<entity, edge, mention, part, tag, card, community, member>>

Finish(d) ==
    /\ run[d].at = "write" /\ run[d].todo = <<>>
    /\ run' = [run EXCEPT ![d].at = "done"]
    /\ UNCHANGED <<runs, cache, graph>>

\* The model, the embedder or the database fails, or the process ends; the caller may begin again.
BreakOff(d) ==
    /\ run[d].at \in {"ask", "resolve", "write"}
    /\ run' = [run EXCEPT ![d] = Begun("idle")]
    /\ UNCHANGED <<runs, cache, graph>>

Write(d) ==
    \/ WriteEntity(d) \/ WriteRelatedTo(d) \/ WriteMention(d) \/ WriteSection(d) \/ WriteTag(d) \/ WriteCard(d)
    \/ WriteCommunity(d) \/ WriteReport(d)

Next == \E d \in Docs : Begin(d) \/ Extract(d) \/ RunExtraction(d) \/ Plan(d) \/ Write(d) \/ Finish(d) \/ BreakOff(d)

Spec == Init /\ [][Next]_vars

-----------------------------------------------------------------------------
TypeOK ==
    /\ \A d \in Docs : run[d].at \in {"idle", "look", "ask", "resolve", "write", "done"}
    /\ runs \in 0..MaxRuns /\ \A k \in DOMAIN edge : {k[1], k[3]} \subseteq DOMAIN entity
    /\ DOMAIN report \subseteq DOMAIN community /\ DOMAIN community \subseteq Ordinals

(* "An ungrounded edge or tag is never written": one document says the whole of an edge, in the chunk  *)
(* that it cites or else in one section, and every label of a document's cards is in its text, also    *)
(* when the extraction was made for another document or the model invented the chunk. An alias has    *)
(* been named with the type of its entity. And a tag on a card can be an answer from the document.    *)
GraphIsGrounded ==
    LET Sections(d) == ToSet(Sectionize(Reading[d]))
        Says(t, k) == \A claim \in {edge[k].span, k[1], k[3]} : Present(claim, t)
    IN  /\ \A k \in DOMAIN edge : \E d \in Docs :
              IF edge[k].chunk \in ToSet(Reading[d]) THEN Says({Text[edge[k].chunk]}, k)
              ELSE \E s \in Sections(d) : Says(Texts(s), k)
        /\ \A i \in DOMAIN card : \A l \in card[i].labels :
              TagAsAnswer([label |-> l], Texts(Reading[i[1]])) = l
        /\ \A n \in DOMAIN entity : \A a \in entity[n].aliases :
              \E p \in Replies : \E e \in ToSet(p.entities) : e.name = a /\ e.etype = entity[n].etype

(* What a report cites can be followed: each cited chunk mentions both ends of a relation of the graph, *)
(* both of them members of the report's community, also between two statements, after a construction    *)
(* broke off in the middle, and after another document's community of the same number took its place.  *)
ReportsCanBeFollowed ==
    /\ \A k \in DOMAIN report : report[k].citations /= {} /\ report[k].count >= MinEdges
    /\ \A k \in DOMAIN report : \A c \in report[k].citations :
          \E r \in DOMAIN edge : \A n \in {r[1], r[3]} : <<c, n>> \in mention /\ <<n, k>> \in member
=============================================================================
