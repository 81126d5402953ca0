----------------------------- MODULE ChatShortlist -----------------------------
(***************************************************************************)
(* The files a chat question is answered from: the catalog cut to the domains  *)
(* of the user, the files the entities of the question resolve to, the files   *)
(* the searches find, and what is forced in, expanded and pruned after that.  *)
(*                                                                          *)
(* Source: server/app/agent/graph/graph.py (_build_agent_context),            *)
(* server/app/agent/catalog_cache.py, server/app/retrieval/,                  *)
(* server/app/services/{entity_resolver,semantic_expansion,                   *)
(* workflow_capability_resolver}.py.                                         *)
(* A file is a model value with a name, a folder tag and a trust state; what    *)
(* the words of an entity share with it is a percentage by signal; scores of   *)
(* searches are the ranks the code sorts by.                                  *)
(***************************************************************************)
EXTENDS Integers, FiniteSets, SequencesExt, Lists

CONSTANTS
    Catalog,        \* sequence of all files, in the order of the rows
    NameOf, TagOf,  \* by file: name without its hash prefix; inherited tag, "" without
    Lookups, Quarantined, HasParquet,  \* sets of files
    Edges,          \* approved relationships: sets of two files
    Domains,        \* values of allowed_domains; {} is no restriction
    Resolutions,    \* values of evidence
    TableRank,      \* by file: its place by _candidate_table_rank, name and path, below 100
    KeysOf,         \* by file: records [kind, card, names] of column_key_registry, the entities named
    DomainsOf,      \* by file: the semantic domains of its columns, records [label, type]
    HasRoles,       \* files with column roles
    Activates,      \* pairs of an entity and a label that share half their words
    Masters,        \* pairs of an entity and a file: a canonical master whose label the entity contains
    Primary,        \* pairs of a file and a label that is in its name or description
    Rankings,       \* lists a search may return
    Wishes,         \* records [named, prior]: files the question names, files used before
    TopK, LookupSlots, CandidateCap, RrfK, MaxCandidates, ExpandSlots, HardMax, MaxDomains,
    MinCard, Complete, Pin, Keep, Seed, Emit  \* thresholds in percent

VARIABLES
    step,       \* "ask", "resolve", "score", "search", "shortlist", "named", "workflow", "expand",
                \* "prune", "done", "none"
    visible,    \* sequence: load_catalog
    resolved,   \* by entity: sequence of candidates, best first
    evidence,   \* by entity, file and signal: the overlap
    masters,    \* files pinned as canonical masters
    registry,   \* the registry of keys was read: candidates are marked corroborated or not
    found,      \* sequence: retrieved_with_scores
    candidates, \* files some search found
    wish, guarded, summary, multi,  \* inputs: wish, value guard on, the plan asks for a summary,
                                    \* for several steps
    required,   \* sequence: the semantic domains the question activates
    shortlist,  \* sequence: catalog of the prompt
    paths       \* files with an entry in parquet_paths_all

inputs == <<wish, guarded, summary, multi>>
vars == <<step, visible, resolved, evidence, registry, masters, found, candidates, inputs, required,
          shortlist, paths>>
question == <<visible, resolved, evidence, registry, masters, inputs>>

Top(s, n) == SubSeq(s, 1, IF n < Len(s) THEN n ELSE Len(s))
(* What of s is not yet in t.                                                *)
Beside(s, t) == Those(s, ToSet(s) \ ToSet(t))
Permuted(S) == {p \in [1..Cardinality(S) -> S] : ToSet(p) = S}
Least(a, b) == IF a < b THEN a ELSE b
FirstOfEach(s) == AtPlaces(s, {i \in DOMAIN s : \A j \in 1..(i - 1) : s[j] # s[i]})

(* Every file has evidence for every entity; what an entity pins is more than one signal can give     *)
(* and a summary keeps it.                                                                       *)
ConstantsOK ==
    /\ Catalog \in Seq(ToSet(Catalog)) /\ \A w \in Wishes : w.prior \in Seq(ToSet(w.prior))
    /\ \A c \in Resolutions : \A e \in DOMAIN c : \A f \in ToSet(Catalog) : \A s \in 1..8 : c[e][f][s] \in Int
    /\ \A f \in ToSet(Catalog) : TableRank[f] \in Int
    /\ Pin \in Int /\ Pin >= 75 /\ Keep \in Int /\ Keep <= Pin /\ ExpandSlots \in Nat /\ HardMax \in Nat
    /\ IsFiniteSet(UNION {DomainsOf[f] : f \in ToSet(Catalog)}) /\ MaxDomains \in Nat
    /\ TopK \in Int /\ LookupSlots \in Nat /\ MaxCandidates \in Nat

Init ==
    /\ step = "ask"
    /\ wish \in Wishes /\ guarded \in BOOLEAN /\ summary \in BOOLEAN /\ multi \in BOOLEAN
    /\ evidence \in Resolutions /\ registry = FALSE /\ masters = {} /\ required = <<>>
    /\ visible = <<>> /\ resolved = <<>> /\ found = <<>> /\ candidates = {}
    /\ shortlist = <<>> /\ paths = {}

(* _query_filtered_catalog: a file without a tag is kept only when nothing is   *)
(* restricted; an empty catalog ends the question.                           *)
InDomains(f, allowed) == allowed = {} \/ TagOf[f] \in allowed

LoadCatalog ==
    /\ step = "ask"
    /\ \E allowed \in Domains :
          visible' = Those(Catalog, {f \in ToSet(Catalog) : InDomains(f, allowed)})
    /\ step' = IF visible' = <<>> THEN "none" ELSE "resolve"
    /\ UNCHANGED <<resolved, evidence, registry, masters, found, candidates, inputs, required,
                   shortlist, paths>>

(* The signals of _score_entry, as they are asked: entity key, reference key, key  *)
(* dimension, name of the table, name of a column, description, use, metric; each   *)
(* has a weight in percent, counts from half the words on, and gives a rank.        *)
SignalWeight == <<55, 28, 38, 42, 28, 18, 14, 8>>
SignalRank == <<0, 2, 3, 1, 4, 5, 6, 7>>
Fires(o, s) == o[s] >= 50
Gain(o, s) == IF Fires(o, s) THEN SignalWeight[s] * o[s] ELSE 0
AllGains(o) ==
    Gain(o, 1) + Gain(o, 2) + Gain(o, 3) + Gain(o, 4) + Gain(o, 5) + Gain(o, 6) + Gain(o, 7) + Gain(o, 8)

(* Without a key or a name a file stays low, with a key that its name does not bear   *)
(* out below every pin; in ten-thousandths.                                         *)
Cap(o) ==
    IF ~Fires(o, 1) /\ ~Fires(o, 2) /\ ~Fires(o, 4) THEN 3500
    ELSE IF Fires(o, 1) /\ ~Fires(o, 4) THEN 7400 ELSE 9500
Score(o) == Least(AllGains(o), Cap(o))
Confidence(o) == (Score(o) + 50) \div 100

(* The reason is the first signal; a key its name does not bear out is a reference.     *)
ReasonRank(o) ==
    IF Fires(o, 1) /\ ~Fires(o, 4) THEN 2
    ELSE IF \A s \in 1..8 : ~Fires(o, s) THEN 99
    ELSE SignalRank[CHOOSE s \in 1..8 : Fires(o, s) /\ \A t \in 1..(s - 1) : ~Fires(o, t)]

(* The roles of the columns are read; without them no key has evidence.             *)
WithoutRoles ==
    [e \in DOMAIN evidence |-> [f \in ToSet(Catalog) |->
        [s \in 1..8 |-> IF s <= 2 THEN 0 ELSE evidence[e][f][s]]]]

ReadRoles ==
    /\ step = "resolve"
    /\ evidence' \in {evidence, WithoutRoles}
    /\ step' = "score"
    /\ UNCHANGED <<visible, resolved, registry, masters, found, candidates, inputs, required,
                   shortlist, paths>>

(* resolve_entities: the best files of each entity, one of each name.              *)
FirstOfName(s) ==
    AtPlaces(s, {i \in DOMAIN s : \A j \in 1..(i - 1) : NameOf[s[j]] # NameOf[s[i]]})

Standing(e, f) ==
    10000 * Confidence(evidence[e][f]) - 100 * ReasonRank(evidence[e][f]) - TableRank[f]
Candidates(e) ==
    LET scored == Those(visible, {f \in ToSet(visible) : Score(evidence[e][f]) >= 100 * Emit})
    IN  Top(FirstOfName(Descending(scored, [f \in ToSet(visible) |-> Standing(e, f)])), MaxCandidates)

(* _pin_canonical_masters: a master is pinned when an entity's words hold all of its label.    *)
MasterPins == {f \in ToSet(visible) : \E e \in DOMAIN evidence : <<e, f>> \in Masters}

(* _annotate_pin_corroboration: with the guard on, the registry of keys is read, if it can     *)
(* be.  Masters are pinned in the mode of the expert, if they can be read.                   *)
ResolveEntities ==
    /\ step = "score"
    /\ resolved' = [e \in DOMAIN evidence |-> Candidates(e)]
    /\ registry' \in IF guarded THEN BOOLEAN ELSE {FALSE}
    /\ masters' \in {{}, MasterPins}
    /\ step' = "search"
    /\ UNCHANGED <<visible, evidence, found, candidates, inputs, required, shortlist, paths>>

Scored(level) ==
    {f \in ToSet(visible) : \E e \in DOMAIN resolved :
        f \in ToSet(resolved[e]) /\ Confidence(evidence[e][f]) >= level}

(* apply_pin_value_guard: a primary or foreign key of the entity with enough values.  *)
Corroborated(e, f) ==
    \E k \in KeysOf[f] : k.kind \in {"pk", "fk"} /\ k.card >= MinCard /\ e \in k.names

(* select_pinnable_blobs: with the guard on an entity pins a file only when it is the  *)
(* one corroborated candidate above the threshold.                                 *)
AboveThreshold(e) == {f \in ToSet(resolved[e]) : Confidence(evidence[e][f]) >= Pin}
PinsOf(e) ==
    LET sure == {f \in AboveThreshold(e) : registry /\ Corroborated(e, f)}
    IN  IF ~guarded THEN AboveThreshold(e) ELSE IF Cardinality(sure) = 1 THEN sure ELSE {}
EntityPins == UNION {PinsOf(e) : e \in DOMAIN resolved}
Pinned == EntityPins \cup masters
-----------------------------------------------------------------------------
(* rrf_fuse: a file gains 1/(k + rank) from every list it is on.               *)
Weight(rank) == 10000 \div (RrfK + rank)
RrfScore(f, lists) ==
    LET gain(l) == IF f \in ToSet(l) THEN Weight(CHOOSE i \in DOMAIN l : l[i] = f) ELSE 0
    IN  FoldLeft(LAMBDA sum, l : sum + gain(l), 0, lists)
Fused(lists, k) ==
    LET all == FoldLeft(LAMBDA acc, l : acc \o Beside(l, acc), <<>>, lists)
    IN  Top(Descending(all, [f \in ToSet(all) |-> RrfScore(f, lists)]), k)

(* The candidate cap cuts the ends of fuzzy, vector, bm25 and graph, in turn.   *)
Trimmed(lists) ==
    LET total(ls) == FoldLeft(LAMBDA n, l : n + Len(l), 0, ls)
        cut(ls, i) ==
            LET excess == total(ls) - CandidateCap
            IN  IF total(ls) <= CandidateCap THEN ls
                ELSE [ls EXCEPT ![i] = Top(@, IF excess > Len(@) THEN 0 ELSE Len(@) - excess)]
    IN  FoldLeft(cut, lists, <<2, 3, 1, 4>>)

(* _filter_quarantined: never down to nothing.                               *)
Trusted(s) == LET kept == Those(s, ToSet(s) \ Quarantined) IN IF kept = <<>> THEN s ELSE kept

Neighbours(S) == {f \in ToSet(Catalog) \ S : \E g \in S : {f, g} \in Edges}

(* The search index answers, or keyword, fuzzy and vector search, each of which  *)
(* may fail; approved relationships widen what was found and anchored.  Without   *)
(* a result, or when the question has no user, the shortlist is recovered later. *)
Retrieve ==
    /\ step = "search"
    /\ \E first \in Rankings, second \in Rankings \cup {<<>>}, viaIndex, widen \in BOOLEAN :
          LET seeds == ToSet(first) \cup ToSet(second) \cup Scored(Seed)
          IN  \E graph \in Permuted(IF widen THEN Neighbours(seeds) ELSE {}) :
                LET lists == IF viaIndex THEN <<first, <<>>, <<>>, graph>>
                             ELSE Trimmed(<<first, <<>>, second, graph>>)
                IN  /\ viaIndex => first # <<>> /\ second = <<>>
                    /\ found' = Trusted(Fused(lists, TopK))
                    /\ candidates' = UNION {ToSet(l) : l \in ToSet(lists)}
    /\ step' = "shortlist"
    /\ UNCHANGED <<question, required, shortlist, paths>>

Failed ==
    /\ step = "search"
    /\ step' = "shortlist" /\ found' = <<>> /\ candidates' = {}
    /\ UNCHANGED <<question, required, shortlist, paths>>

(* Pins go first, files of medium confidence and those used before go last.     *)
Forced(list, medium) ==
    LET pins == Beside(Those(visible, Pinned), list)
        more == IF medium THEN Those(visible, Scored(Seed) \ Pinned) ELSE <<>>
        withMore == pins \o list \o Beside(more, pins \o list)
        prior == Those(wish.prior, ToSet(visible))
    IN  withMore \o Beside(prior, withMore)

Retrieved ==
    /\ step = "shortlist" /\ found # <<>>
    /\ LET base == Forced(Those(visible, ToSet(found)), TRUE)
           eligible == ToSet(found) \cup Neighbours(ToSet(found))
           pool == Those(visible, (Lookups \cap eligible) \ ToSet(base))
       IN  \E order \in Permuted(ToSet(pool)) :
              shortlist' = base \o Top(order, LookupSlots)
    /\ step' = "named"
    /\ UNCHANGED <<question, found, candidates, required, paths>>

(* semantic_recovery_retrieve ranks the whole catalog; lookups that fall behind  *)
(* the cut get places of their own.                                          *)
Recovered ==
    /\ step = "shortlist" /\ found = <<>>
    /\ \E ranked \in Permuted(ToSet(visible)) :
          LET primary == Top(ranked, TopK - LookupSlots)
              lookups == Those(Beside(ranked, primary), Lookups)
          IN  shortlist' = Forced(primary \o Top(lookups, LookupSlots), FALSE)
    /\ step' = "named"
    /\ UNCHANGED <<question, found, candidates, required, paths>>

(* Files named in the question are moved to the front.                        *)
Mentioned == Those(visible, wish.named)

MentionFirst ==
    /\ step = "named"
    /\ shortlist' = Mentioned \o Beside(shortlist, Mentioned)
    /\ step' = "workflow"
    /\ UNCHANGED <<question, found, candidates, required, paths>>

-----------------------------------------------------------------------------
(* resolve_workflow_requirements: the semantic domains the question activates.  The    *)
(* catalog of the user knows a domain by its files; a round of the closure adds them in  *)
(* an order of its own, and no more than the limit.                                  *)
Having(d) == {f \in ToSet(visible) : d \in DomainsOf[f]}
Labels(S) == {d.label : d \in S}
More(active, S) == {Top(active \o order, MaxDomains) : order \in Permuted(S \ ToSet(active))}

ByEntities ==
    {d \in UNION {DomainsOf[f] : f \in ToSet(visible)} :
        \E e \in DOMAIN resolved : resolved[e] # <<>> /\ <<e, d.label>> \in Activates}
ByShortlist == UNION {DomainsOf[f] : f \in ToSet(shortlist)}

(* Files with an active label, those at hand if there are any, activate what they have   *)
(* but for the dimensions of files that are not on the shortlist.                     *)
ViaRoles(labels, around) ==
    LET holders == {f \in ToSet(visible) : Labels(DomainsOf[f]) \cap labels # {}}
        athand == holders \cap (ToSet(shortlist) \cup candidates \cup around)
        active == IF athand = {} THEN holders ELSE athand
    IN  UNION {{d \in DomainsOf[f] : d.type # "dimension" \/ f \in ToSet(shortlist)} : f \in active}

(* Files an approved relationship leads to activate only what they are about.           *)
ViaGraph(around) ==
    UNION {{d \in DomainsOf[f] : d.type # "dimension" /\ <<f, d.label>> \in Primary} :
           f \in around \cap ToSet(visible)}

(* The files approved relationships lead to; they may not be read.                      *)
Around == {{}, Neighbours(ToSet(shortlist))}

(* Entities, the shortlist, then two rounds of roles and relationships, of which the     *)
(* second follows only what roles added: relationships would add the same again.          *)
Workflow ==
    /\ step = "workflow"
    /\ \E around \in Around :
       \E named \in More(<<>>, ByEntities) :
       \E direct \in More(named, ByShortlist) :
       \E roles \in More(direct, ViaRoles(Labels(ToSet(direct)), around)) :
       \E linked \in More(roles, IF direct = <<>> THEN {} ELSE ViaGraph(around)) :
          required' \in More(linked, ViaRoles(Labels(ToSet(roles) \ ToSet(direct)), around))
    /\ step' = "expand"
    /\ UNCHANGED <<question, found, candidates, shortlist, paths>>

(* What is required of the shortlist and lacks there; whether that calls for more files. *)
Lacking == Those(required, {d \in ToSet(required) : Having(d) \cap ToSet(shortlist) = {}})
Needed == Lacking # <<>> /\ 100 * (Len(required) - Len(Lacking)) < Complete * Len(required)
NothingActive == required = <<>> /\ \E f \in ToSet(visible) : DomainsOf[f] # {}

(* decide_expansion: of every domain that lacks the best file, then the second best; when *)
(* nothing was activated, files with roles by their score; on a thin shortlist of a      *)
(* question of several steps, further files of entities, of each those ahead of one that  *)
(* is chosen already.                                                                *)
Ranked == {r \in [DOMAIN Lacking -> ToSet(visible)] : \A i \in DOMAIN Lacking : r[i] \in Having(Lacking[i])}
GapOffers ==
    IF ~Needed THEN {<<>>}
    ELSE {p[1] \o p[2] : p \in {q \in Ranked \X Ranked : \A i \in DOMAIN Lacking :
            q[1][i] # q[2][i] \/ Having(Lacking[i]) = {q[1][i]}}}
RoleOffers == IF NothingActive THEN Permuted((HasRoles \cap ToSet(visible)) \ ToSet(shortlist)) ELSE {<<>>}
ThinOffers ==
    IF multi /\ Len(shortlist) < 3
    THEN LET further == UNION {Having(d) : d \in {x \in ToSet(required) : x.type = "entity"}} \ ToSet(shortlist)
         IN  UNION {Permuted(some) : some \in SUBSET further}
    ELSE {<<>>}

Room_StrictlyBelow ==
    IF Len(shortlist) >= HardMax - 1 THEN 0 ELSE Least(ExpandSlots, HardMax - 1 - Len(shortlist))
Room == IF Len(shortlist) >= HardMax THEN 0 ELSE Least(ExpandSlots, HardMax - Len(shortlist))
Expand ==
    /\ step = "expand"
    /\ \E gaps \in GapOffers, withRoles \in RoleOffers, thin \in ThinOffers :
          shortlist' = shortlist \o Top(FirstOfEach(Beside(gaps \o withRoles \o thin, shortlist)), Room)
    /\ step' = "prune"
    /\ UNCHANGED <<question, found, candidates, required, paths>>

(* _prune_summary_shortlist: a summary is given from the resolved and the first  *)
(* retrieved files only, one of each name, when at least three are left.       *)
Prunable == summary /\ Mentioned = <<>>

Kept_FoundOnly == ToSet(Top(found, 4))
Kept == Scored(Keep) \cup ToSet(Top(found, 4))

Pruned ==
    LET left == FirstOfName(Those(shortlist, Kept))
    IN  IF Prunable /\ Len(left) >= 3 THEN left ELSE shortlist

Prune ==
    /\ step = "prune"
    /\ shortlist' = Pruned
    /\ paths' = ToSet(shortlist') \cap HasParquet
    /\ step' = "done"
    /\ UNCHANGED <<question, found, candidates, required>>

Next ==
    \/ LoadCatalog \/ ReadRoles \/ ResolveEntities \/ Retrieve \/ Failed \/ Retrieved \/ Recovered
    \/ MentionFirst \/ Workflow \/ Expand \/ Prune
    \/ step \in {"done", "none"} /\ UNCHANGED vars

Spec == Init /\ [][Next]_vars
-----------------------------------------------------------------------------
(* Whatever search, expansion and pruning do, every file the user may see and    *)
(* names is in the prompt, every file an entity pins is, or one of its name, a     *)
(* master is but for summaries, and nothing outside the user's domains is.  A pin    *)
(* rests on the name of the table or on a reference to the entity, however well      *)
(* columns and descriptions fit.                                                 *)
ForcedFilesSurvive ==
    /\ step = "done" =>
        /\ ToSet(Mentioned) \subseteq ToSet(shortlist)
        /\ \A f \in EntityPins : \E g \in ToSet(shortlist) : NameOf[g] = NameOf[f]
        /\ Prunable \/ masters \subseteq ToSet(shortlist)
        /\ ToSet(shortlist) \subseteq ToSet(visible)
    /\ step \notin {"ask", "resolve", "score", "none"} =>
        \A e \in DOMAIN resolved : \A f \in PinsOf(e) :
            Fires(evidence[e][f], 4) \/ (Fires(evidence[e][f], 2) /\ ~Fires(evidence[e][f], 1))

(* A domain that lacks when more files are called for has one after the expansion,   *)
(* unless all the room there was has been used, for others.                        *)
GapsAreFilled ==
    step = "expand" /\ step' = "prune" /\ Needed =>
        \/ \A d \in ToSet(required) : Having(d) \cap ToSet(shortlist') # {}
        \/ Len(shortlist') >= HardMax \/ Len(shortlist') = Len(shortlist) + ExpandSlots
===============================================================================
