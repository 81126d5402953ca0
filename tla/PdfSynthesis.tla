---------------------------- MODULE PdfSynthesis ----------------------------
(***************************************************************************)
(* From retrieved evidence to the answer a user of the PDF agent reads: what   *)
(* may be quoted, what fits the prompt, the model's reply, a label for every   *)
(* source it cites, the floor of citations, the notes behind the answer, and   *)
(* the gate on claims of absence, which reuses the verdict of the synthesis.   *)
(*                                                                          *)
(* Source: server/pdf_chat/agent/{synthesis,negative_claim,graph}.py and      *)
(* server/pdf_chat/ingestion/grounding_gate.py.                              *)
(*                                                                          *)
(* A text is the set of its content words, and whether it negates.            *)
(***************************************************************************)
EXTENDS Integers, Sequences, FiniteSets, FiniteSetsExt

CONSTANTS
    Element,      \* by hit: [id, card, sources, doc, page, words, denies, tokens, date]
    Accessible,   \* the sequences of hits that retrieval can leave
    PartSets,     \* what a question can ask for
    Candidates,   \* tags that shaped the retrieval
    MaxCited,     \* a reply cites numbers up to this one
    MinChunks,    \* min_accessible_chunks
    MinCitations, \* agent.min_citations_per_claim
    MinCoverage,  \* agent.neg_claim.min_coverage_chunks
    TokenBudget,  \* context_token_budget
    None

VARIABLES
    accessible,    \* hits the asker may read, best first
    parts,         \* output_components, or sub_queries
    at,            \* where the request is
    context,       \* the numbered block of the prompt and its citation map
    admitted_tags,
    answer,
    citations,     \* those that go out with the answer
    provenance,    \* by cited number
    memo,          \* {neg_verdict}, stamped for an answer, or {} before there is one
    conflicts

vars == <<accessible, parts, at, context, admitted_tags, answer, citations, provenance, memo, conflicts>>

(* Retrieval leaves hits the index has, and the floor is a number.             *)
ConstantsOK == MinCitations \in Nat /\ \A h \in Accessible : h \in Seq(DOMAIN Element)

Said(kind, cites, noted, date) == [kind |-> kind, cites |-> cites, noted |-> noted, date |-> date]
Message(kind) == Said(kind, {}, {}, None)

Init ==
    /\ accessible \in Accessible /\ parts \in PartSets
    /\ at = "synthesize" /\ context = {} /\ admitted_tags = {}
    /\ answer = Message("none") /\ citations = {} /\ provenance = <<>>
    /\ memo = {} /\ conflicts = {}
-----------------------------------------------------------------------------
(* A hit is its place in accessible; a quotable chunk is an entry of the pool.  *)
Hits == DOMAIN accessible
Hit(i) == Element[accessible[i]]

Real == {i \in Hits : ~Hit(i).card /\ \A j \in Hits : j < i => Hit(j).card \/ Hit(j).id # Hit(i).id}

(* A card stands for the chunks it was made from, or for the one the searcher   *)
(* names, of which it has no text and no date.  It has the card's page.         *)
_src_chunk_ids(card) == IF card.sources = <<>> THEN <<card.id>> ELSE card.sources

Demoted ==
    {d \in {<<i, k>> : i \in {c \in Hits : Hit(c).card}, k \in 1..3} :
        LET source(e) == _src_chunk_ids(Hit(e[1]))[e[2]]
            Lists(e) == e[2] \in DOMAIN _src_chunk_ids(Hit(e[1]))
        IN  /\ Lists(d) /\ \A i \in Real : Hit(i).id # source(d)
            /\ \A c \in Hits, k \in 1..3 :
                   (Hit(c).card /\ Lists(<<c, k>>) /\ (c < d[1] \/ (c = d[1] /\ k < d[2])))
                       => source(<<c, k>>) # source(d)}

Entry(i, place, id, words, tokens, date, derived) ==
    [hit |-> i, place |-> place, id |-> id, doc |-> Hit(i).doc, page |-> Hit(i).page,
     words |-> words, tokens |-> tokens, date |-> date, derived |-> derived]

_quotable_chunks ==
    {Entry(i, <<0, i, 0>>, Hit(i).id, Hit(i).words, Hit(i).tokens, Hit(i).date, FALSE) : i \in Real}
    \cup {Entry(d[1], <<1, d[1], d[2]>>, _src_chunk_ids(Hit(d[1]))[d[2]], {}, 1, None, TRUE) : d \in Demoted}

(* Chunks first, then what the cards stand for, each in the order of the hits.   *)
Before(a, b) ==
    \/ a[1] < b[1]
    \/ a[1] = b[1] /\ (a[2] < b[2] \/ (a[2] = b[2] /\ a[3] < b[3]))
UpTo(e, pool) == {d \in pool : d = e \/ Before(d.place, e.place)}
Number(e, pool) == Cardinality(UpTo(e, pool))
Size(e) == e.tokens

(* The first entry is admitted whatever its length; the first too many ends it.  *)
_assemble_context(pool) ==
    {[n |-> Number(e, pool), entry |-> e] :
        e \in {x \in pool : \A d \in UpTo(x, pool) :
                   Number(d, pool) > 1 => MapThenSumSet(Size, UpTo(d, pool)) <= TokenBudget}}

_is_insufficient(n) == n < MinChunks

tag_as_answer(tag, pool) == \E e \in pool : tag \in e.words
_gate_tags(pool) == {t \in Candidates : tag_as_answer(t, pool)}
-----------------------------------------------------------------------------
(* Two texts contradict each other when they share two content words and one of  *)
(* them negates.  Cards are compared too.                                     *)
Contradict(a, b) == Cardinality(a.words \cap b.words) >= 2 /\ a.denies # b.denies
_chunk_provenance(hit) == [id |-> hit.id, page |-> hit.page, doc |-> hit.doc]
_detect_conflicts == {_chunk_provenance(Hit(i)) : i \in {j \in Hits : \E k \in Hits : Contradict(Hit(j), Hit(k))}}

(* The note on lacking parts says "not found", which is a phrase of the gate.    *)
_is_negative(a) == a.kind = "absence" \/ a.noted # {}
_coverage_complete == Len(accessible) >= MinCoverage /\ Len(accessible) >= 1
_diagnosed == \E i \in Hits : Hit(i).words # {}

evaluate_pdf_negative_claim(a) ==
    [negative |-> _is_negative(a),
     proven |-> _is_negative(a) => _coverage_complete /\ _diagnosed,
     conflicts |-> _detect_conflicts, for |-> a]

(* Whatever the document, a page with a conflict makes every source on it one.   *)
Label(n, pages) ==
    IF \A c \in context : c.n # n THEN "not_found"
    ELSE IF \E c \in context : c.n = n /\ c.entry.page \in pages THEN "conflicting"
    ELSE IF \E c \in context : c.n = n /\ c.entry.derived THEN "inferred"
    ELSE "stated"
-----------------------------------------------------------------------------
(* synthesize: every return before the reply is judged leaves nothing but words. *)
Refuse ==
    /\ answer' = Message("refusal") /\ citations' = {} /\ provenance' = <<>>
    /\ at' = "negative_claim"
    /\ UNCHANGED <<memo, conflicts>>

TooLittle == _is_insufficient(Len(accessible)) \/ _is_insufficient(Cardinality(_quotable_chunks))

Insufficient ==
    /\ at = "synthesize" /\ TooLittle
    /\ Refuse
    /\ UNCHANGED <<accessible, parts, context, admitted_tags>>

Gather ==
    /\ at = "synthesize" /\ ~TooLittle
    /\ admitted_tags' = _gate_tags(_quotable_chunks)
    /\ context' = _assemble_context(_quotable_chunks)
    /\ at' = "generate"
    /\ UNCHANGED <<accessible, parts, answer, citations, provenance, memo, conflicts>>

(* No model is wired, or it raises.                                           *)
ModelFails ==
    /\ at = "generate"
    /\ Refuse
    /\ UNCHANGED <<accessible, parts, context, admitted_tags>>

Generate ==
    /\ at = "generate"
    /\ \E kind \in {"claim", "absence"}, cites \in SUBSET (1..MaxCited) : answer' = Said(kind, cites, {}, None)
    /\ at' = "judge"
    /\ UNCHANGED <<accessible, parts, context, admitted_tags, citations, provenance, memo, conflicts>>

Grounded == {c \in context : c.n \in answer.cites}

(* _component_grounding, in the words of the chunks and not of the cards.       *)
Lacking == {p \in parts : \A e \in _quotable_chunks : p \notin e.words}

_latest_mention_date(cited) ==
    LET dates == {c.entry.date : c \in cited} \ {None} IN IF dates = {} THEN None ELSE Max(dates)

(* The verdict is on the model's own words, and stamped for what goes out: for   *)
(* a refusal it stays stamped for the words refused.                          *)
Judge ==
    /\ at = "judge"
    /\ LET verdict == evaluate_pdf_negative_claim(answer)
           pages == {c.page : c \in verdict.conflicts}
           final == Said(answer.kind, answer.cites, Lacking, _latest_mention_date(Grounded))
       IN  /\ provenance' = [n \in answer.cites |-> Label(n, pages)]
           /\ conflicts' = IF verdict.conflicts = {} THEN conflicts ELSE verdict.conflicts
           /\ IF Cardinality(Grounded) < MinCitations
              THEN answer' = Message("uncited") /\ citations' = {} /\ memo' = {verdict}
              ELSE answer' = final /\ citations' = Grounded /\ memo' = {[verdict EXCEPT !.for = final]}
    /\ at' = "negative_claim"
    /\ UNCHANGED <<accessible, parts, context, admitted_tags>>

Memoised == {v \in memo : v.for = answer}
Verdict == IF Memoised = {} THEN evaluate_pdf_negative_claim(answer) ELSE CHOOSE v \in Memoised : TRUE

NegativeClaim ==
    /\ at = "negative_claim"
    /\ conflicts' = IF Verdict.conflicts = {} THEN conflicts ELSE Verdict.conflicts
    /\ IF Verdict.negative /\ ~Verdict.proven
       THEN answer' = Message("rewrite") /\ citations' = {}
       ELSE UNCHANGED <<answer, citations>>
    /\ at' = "end"
    /\ UNCHANGED <<accessible, parts, context, admitted_tags, provenance, memo>>

Next == Insufficient \/ Gather \/ ModelFails \/ Generate \/ Judge \/ NegativeClaim

Spec == Init /\ [][Next]_vars
-----------------------------------------------------------------------------
(* Both sides of every contradiction in the evidence are shown, whichever way    *)
(* the request went: refused, cited too little, withdrawn, or answered.         *)
ConflictsAreShown ==
    at = "end" => \A i, j \in Hits : Contradict(Hit(i), Hit(j)) => _chunk_provenance(Hit(i)) \in conflicts

(* What is called stated is the text of a chunk the asker may read, never of a   *)
(* card, and nothing else that was read says the contrary.                     *)
StatedIsQuoted ==
    \A n \in DOMAIN provenance : provenance[n] = "stated" =>
        \E c \in context :
            /\ c.n = n /\ c.entry.hit \in Hits
            /\ ~Hit(c.entry.hit).card /\ c.entry.words = Hit(c.entry.hit).words
            /\ \A j \in Hits : ~Contradict(Hit(c.entry.hit), Hit(j))

(* An answer has the floor of sources, all in the prompt and cited; anything     *)
(* else that is said has none.                                               *)
AnswersAreCited ==
    at = "end" =>
        IF answer.kind \in {"claim", "absence"}
        THEN /\ Cardinality(citations) >= MinCitations
             /\ \A c \in citations : c \in context /\ c.n \in answer.cites
        ELSE citations = {}

(* A claim of absence stands on enough hits with something in them; and nothing  *)
(* but a claim of absence is withdrawn: an answer to some of the parts, which    *)
(* says "not found" of the others, is not.                                    *)
AbsenceIsJudged ==
    at = "end" =>
        /\ answer.kind = "absence" => Len(accessible) >= MinCoverage /\ \E i \in Hits : Hit(i).words # {}
        /\ answer.kind = "rewrite" => \E v \in memo : v.negative /\ ~v.proven

(* A tag that goes with the answer is a word of a chunk, not of a card alone.    *)
TagsAreInChunks ==
    \A t \in admitted_tags : \E i \in Hits : ~Hit(i).card /\ t \in Hit(i).words

PdfAnswersAreHonest ==
    ConflictsAreShown /\ StatedIsQuoted /\ AnswersAreCited /\ AbsenceIsJudged /\ TagsAreInChunks
=============================================================================
