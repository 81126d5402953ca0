------------------------------ MODULE MCServices ------------------------------
(* Small instances for TLC of the components that are modelled one by one. No two of them share state  *)
(* that the models keep, so one run checks them side by side: a behaviour is one of the component that *)
(* focus names.                                                                                *)
EXTENDS Services, Sequences, TLC

VARIABLES  \* of the components that Services does not compose
    v1, v2, v3, v4, v5, v6, v7, v8, v9, v10, v11, v12, v13

\* A component's variables are the first of v1, v2, ...; the others stay 0.
Blank(n) ==
    /\ IF n < 1 THEN v1 = 0 ELSE TRUE
    /\ IF n < 2 THEN v2 = 0 ELSE TRUE
    /\ IF n < 3 THEN v3 = 0 ELSE TRUE
    /\ IF n < 4 THEN v4 = 0 ELSE TRUE
    /\ IF n < 5 THEN v5 = 0 ELSE TRUE
    /\ IF n < 6 THEN v6 = 0 ELSE TRUE
    /\ IF n < 7 THEN v7 = 0 ELSE TRUE
    /\ IF n < 8 THEN v8 = 0 ELSE TRUE
    /\ IF n < 9 THEN v9 = 0 ELSE TRUE
    /\ IF n < 10 THEN v10 = 0 ELSE TRUE
    /\ IF n < 11 THEN v11 = 0 ELSE TRUE
    /\ IF n < 12 THEN v12 = 0 ELSE TRUE
    /\ IF n < 13 THEN v13 = 0 ELSE TRUE
Still(n) ==
    /\ IF n < 1 THEN v1' = v1 ELSE TRUE
    /\ IF n < 2 THEN v2' = v2 ELSE TRUE
    /\ IF n < 3 THEN v3' = v3 ELSE TRUE
    /\ IF n < 4 THEN v4' = v4 ELSE TRUE
    /\ IF n < 5 THEN v5' = v5 ELSE TRUE
    /\ IF n < 6 THEN v6' = v6 ELSE TRUE
    /\ IF n < 7 THEN v7' = v7 ELSE TRUE
    /\ IF n < 8 THEN v8' = v8 ELSE TRUE
    /\ IF n < 9 THEN v9' = v9 ELSE TRUE
    /\ IF n < 10 THEN v10' = v10 ELSE TRUE
    /\ IF n < 11 THEN v11' = v11 ELSE TRUE
    /\ IF n < 12 THEN v12' = v12 ELSE TRUE
    /\ IF n < 13 THEN v13' = v13 ELSE TRUE

\* FileUploads: a file two directories down, and one of a directory of the name of the inner one.
TwoBatches == <<<<"a">>, <<"c">>>>
SmallPaths == [a |-> <<"top", "sub">>, c |-> <<"sub">>]

\* GraphDelete: three documents of which two mention a shared entity, and each one of its own.
GraphDocs == {"d1", "d2", "d3"}
TwoChunksEach ==
    { <<<<"d1", 1>>, "own1">>, <<<<"d1", 2>>, "shared">>, <<<<"d2", 1>>, "own2">>, <<<<"d2", 2>>, "shared">>,
      <<<<"d3", 1>>, "own3">>, <<<<"d3", 2>>, "own3">> }
GraphEntities == {"own1", "own2", "own3", "shared"}
TwoCommunities == [e \in GraphEntities |-> IF e \in {"own1", "own2"} THEN "c1" ELSE "c2"]

\* PdfRetrieval: chunks of three documents of two tenants, one of which only one user may read, cards, a
\* report; three entities in a row; two users of the same groups.
Passage(kind, tenant, doc, acl) == [kind |-> kind, tenant |-> tenant, doc |-> doc, acl |-> acl, tokens |-> 2]
Only(users, groups, all) == [users |-> users, groups |-> groups, public |-> all]
Passages == [c1 |-> Passage("chunk", "t", "d", Only({}, {"g"}, FALSE)), c2 |-> Passage("chunk", "t", "d", Only({"v"}, {}, FALSE)),
             c3 |-> Passage("chunk", "t", "e", Only({}, {}, TRUE)), c4 |-> Passage("chunk", "t", "d", Only({}, {"g"}, FALSE)),
             x1 |-> Passage("chunk", "u", "f", Only({}, {}, TRUE)), s1 |-> Passage("section", "t", "d", None),
             k1 |-> Passage("document", "t", "d", None), p1 |-> Passage("report", "t", "", None)]
Nearby == [q |-> <<"x1", "k1", "c3", "s1", "c2", "c1", "c4", "p1">>]
Named(n) == [name |-> n, tenant |-> "t"]
Tenanted == {Named("A"), Named("B"), Named("C")}
MentionedIn == {<<"c1", Named("B")>>, <<"c4", Named("B")>>, <<"c3", Named("C")>>, <<"c1", Named("C")>>}
Relating == {[ends |-> {Named("A"), Named("B")}, label |-> "l"], [ends |-> {Named("B"), Named("C")}, label |-> "l"]}
Question == [query |-> "q", tenant |-> "t", user |-> "u", groups |-> {"g"}, docs |-> None, entity |-> "A"]
Other == [Question EXCEPT !.user = "v", !.entity = None]
Asked == {Question, [Question EXCEPT !.docs = {"d"}], Other}

\* ModelPool: two embedding lanes, one of weight 0, and two chat lanes of which one is high.
SmallKind == [l \in Lanes |-> IF l \in {"e1", "e2"} THEN "embedding" ELSE "chat"]
SmallTier == [l \in Lanes |-> IF l = "c2" THEN "high" ELSE "standard"]
SmallWeight == [l \in Lanes |-> IF l = "e2" THEN 0 ELSE 1]
SmallDeployment == [l \in Lanes |-> l]
SmallRank == [e1 |-> 1, e2 |-> 2, c1 |-> 4, c2 |-> 5]
SmallStyle == [c \in Calls |-> IF c = "s1" THEN "sync" ELSE "pool"]
SmallCallTier == [c \in Calls |-> IF c = "s1" THEN "high" ELSE "standard"]

\* ChatTurn: a plan with rows and one without.
SmallPlanRows == [p |-> "rows", z |-> "none"]

\* PdfAgent: a chunk, a card made from it and a chunk the asker may not read.
SmallCardSources == [card |-> {"c1", "s"}]
SmallBudgets == {<<3, 2>>}
SmallMentions == [p |-> {"c1", "card", "x"}, q |-> {"card"}]

\* ChatShortlist: two files of one name, a file outside the user's domains, a quarantined one, a lookup.
SmallCatalog == <<"a", "b", "c", "d", "l">>
SmallNameOf == [a |-> "A", b |-> "A", c |-> "C", d |-> "D", l |-> "L"]
SmallTagOf == [a |-> "x", b |-> "x", c |-> "x", d |-> "", l |-> "x"]
Overlaps(f, key, reference, table, column) ==
    f :> <<key, reference, 0, table, column, 0, 50, 0>>
SmallResolutions ==
    { [vendor |-> Overlaps("a", 100, 0, 100, 0) @@ Overlaps("b", 0, 100, 100, 50) @@ Overlaps("c", 0, 0, 0, 0)
                  @@ Overlaps("d", 0, 100, 0, 50) @@ Overlaps("l", 0, 0, 0, 0)],
      [vendor |-> Overlaps("a", 100, 0, 0, 100) @@ Overlaps("b", 0, 0, 100, 100) @@ Overlaps("c", 0, 0, 0, 0)
                  @@ Overlaps("d", 100, 0, 100, 0) @@ Overlaps("l", 0, 0, 0, 0)],
      [vendor |-> [f \in {"a", "b", "c", "d", "l"} |-> [s \in 1..8 |-> 0]]] }
SmallTableRank == [a |-> 1, b |-> 2, c |-> 3, d |-> 4, l |-> 5]
SmallKeys == [a |-> {[kind |-> "pk", card |-> 9, names |-> {"vendor"}]},
              b |-> {[kind |-> "fk", card |-> 3, names |-> {"vendor"}], [kind |-> "none", card |-> 9, names |-> {"vendor"}]},
              c |-> {}, d |-> {[kind |-> "fk", card |-> 8, names |-> {"vendor"}]}, l |-> {}]
OfDomain(label, type) == [label |-> label, type |-> type]
SmallDomains == [a |-> {OfDomain("vendor", "entity")}, b |-> {OfDomain("vendor", "entity"), OfDomain("invoice", "transaction")},
                 c |-> {}, d |-> {OfDomain("payment", "transaction")},
                 l |-> {OfDomain("invoice", "transaction"), OfDomain("region", "dimension")}]
SmallActivates == {<<"vendor", "vendor">>, <<"vendor", "payment">>}
SmallMasters == {<<"vendor", "c">>}
SmallPrimary == {<<"d", "payment">>}
SmallRankings == {<<"c", "b", "l">>, <<"b", "d">>}
SmallWishes == {[named |-> {}, prior |-> <<>>], [named |-> {"d"}, prior |-> <<>>], [named |-> {}, prior |-> <<"c">>]}

\* SqlGates: a query over invoices, one joined to payments, and their variants.
Single == [tables |-> <<"inv">>, raw |-> {}, form |-> "select", joins |-> {}, cross |-> FALSE, equals |-> TRUE,
           summed |-> {}, known |-> TRUE, aggs |-> 1, groups |-> {"a"}, star |-> FALSE, outer |-> 0, inner |-> 0,
           nested |-> FALSE, first |-> [aggs |-> 1, groups |-> {"a"}]]
Grouped(by) == [Single EXCEPT !.groups = by, !.first.groups = by]
Joined == [Single EXCEPT !.tables = <<"inv", "pay">>, !.joins = {{"inv", "pay"}}, !.summed = {"inv"}]
SmallQueries == { Single, Joined, [Single EXCEPT !.inner = 1, !.nested = TRUE], Grouped({"a", "b"}),
             Grouped({"b"}), [Single EXCEPT !.raw = {"ghost"}], [Single EXCEPT !.form = "forbidden"],
             [Single EXCEPT !.form = "with", !.nested = TRUE, !.aggs = 2, !.groups = {"b"}],
             [Single EXCEPT !.aggs = 2, !.first.aggs = 2], [Single EXCEPT !.known = FALSE],
             [Joined EXCEPT !.cross = TRUE, !.equals = FALSE], [Joined EXCEPT !.summed = {"inv", "pay"}] }
SmallMembers == [inv |-> <<"i1", "i2">>, pay |-> <<"p1">>]
Without == {Single}

\* AnswerTrust: four files, approved relationships of every strength, one that leaves the shortlist.
Relations == { [a |-> 1, b |-> 2, conf |-> 900], [a |-> 3, b |-> 4, conf |-> 720], [a |-> 1, b |-> 3, conf |-> 600],
               [a |-> 2, b |-> 4, conf |-> 800], [a |-> 3, b |-> 9, conf |-> 950] }
Questions ==
    { [shortlist |-> s, top |-> t, resolved |-> r, trust |-> [f \in 1..4 |-> tr], window |-> w,
       ranges |-> [f \in 1..4 |-> CASE f = 1 -> <<1, 2>> [] f = 2 -> <<4, 5>> [] OTHER -> None],
       keys |-> [f \in 1..4 |-> IF k THEN {1} ELSE {f}], subject |-> {1}] :
      s \in {{1, 2}, {1, 2, 3, 4}}, t \in {None, 164, 656}, r \in {None, 1000},
      tr \in {0, 1000}, w \in {None, <<3, 5>>}, k \in BOOLEAN }

\* BoardPlanning: a table with everything, one whose only column has one value, one out of the domain.
Tables ==
    << [columns |-> <<1, 2, 3, 4, 5, 6>>,
        role |-> <<"date", "dimension", "dimension", "dimension", "measure", "key">>,
        card |-> <<30, 3, 12, 60>>, metrics |-> <<8>>, dimensions |-> <<6>>, tags |-> {"d"}],
       [columns |-> <<2, 5, 7>>, role |-> (2 :> "dimension") @@ (5 :> "measure") @@ (7 :> "measure"),
        card |-> 2 :> 1, metrics |-> <<>>, dimensions |-> <<>>, tags |-> {}],
       [columns |-> <<2, 4>>, role |-> (2 :> "dimension") @@ (4 :> "dimension"),
        card |-> 2 :> 4, metrics |-> <<>>, dimensions |-> <<>>, tags |-> {"e"}] >>
Widget(type, table, measure, dim, dim2, title) ==
    [type |-> type, table |-> table, measure |-> measure, dim |-> dim, dim2 |-> dim2, viz |-> None, title |-> title]
OneWidget == { Widget(ty, tb, m, d, d2, "a") : ty \in {"kpi", "trend", "share", "matrix", "detail"},
               tb \in {1, 3, None}, m \in {5, 9}, d \in {2, 4, 9}, d2 \in {None, 3} }
Proposals ==
    {None, <<>>} \cup {<<w>> : w \in OneWidget}
    \cup { <<w, Widget("kpi", 1, 5, 2, None, "b"), Widget("breakdown", 2, 7, 9, None, "a"),
             Widget("kpi", 1, 5, None, None, "b"), Widget("trend", 2, 7, 9, None, "a")>> :
           w \in {x \in OneWidget : x.dim2 = None /\ x.dim /= 4} }

\* FileCleaning: text files with a title line, totals, rules and ragged rows, and workbooks.
TextFile(plain, large, polars, lines) ==
    [kind |-> "text", plain |-> plain, large |-> large, polars |-> polars, sheets |-> <<lines>>]
Amounts == << <<"Name", "Amount">>, <<"word", "$40k">>, <<"n/a", "$40k">>, <<"word", "$40k">>, <<"total", "$40k">>,
              <<>>, <<"7">>, <<"---", "---">> >>
Titled == << <<"Report", "">>, <<"Date", "Name">>, <<"40k", "yes">>, <<"iso", "1">>, <<"word", "word">> >>
Raws ==
    { TextFile(p, l, po, t) : p \in BOOLEAN, l \in BOOLEAN, po \in BOOLEAN, t \in {Amounts, Titled} }
    \cup { TextFile(TRUE, FALSE, FALSE, << <<"Id", "Id">>, <<"word", "7">> >>), TextFile(TRUE, FALSE, FALSE, <<>>),
           TextFile(TRUE, FALSE, FALSE, << <<"Name", "Id">>, <<"word", "7">>, <<"total", "7">> >>) }
    \cup { [kind |-> "excel", plain |-> TRUE, large |-> l, polars |-> po, sheets |-> <<<<>>, Amounts>>] :
           l \in BOOLEAN, po \in BOOLEAN }
    \cup { [kind |-> "excel", plain |-> TRUE, large |-> FALSE, polars |-> FALSE, sheets |-> <<<<>>>>] }

\* IngestCapacity: containers with a quota of cores or of memory, a bare machine, one that tells nothing.
SmallMachines ==
    { [quota |-> c, affinity |-> 12, logical |-> 8, limit |-> l, host |-> 32000, usage |-> u, avail |-> a] :
      c \in {None, 1, 4}, l \in {None, 2000, 16000}, u \in {None, 500}, a \in {1200, 15000} }
    \cup { [quota |-> None, affinity |-> None, logical |-> 2, limit |-> None, host |-> None, usage |-> None, avail |-> None] }
Unset == [k \in {"ingestion_cores", "preprocess", "excel", "parquet", "celery", "io", "batch", "delay", "duckdb_threads",
                 "duckdb_memory"} |-> None]
SmallPolicies == { [env |-> Unset, file |-> Unset], [env |-> Unset, file |-> [Unset EXCEPT !.parquet = 4]] }
SmallQuotas == { [chat |-> 0, embed |-> 0, rpm |-> 0], [chat |-> 20000, embed |-> 10000, rpm |-> 0], [chat |-> 0, embed |-> 0, rpm |-> 1] }

\* SemanticJoins: two key columns of one name.
SmallColumn == <<"k", "k", "m">>

\* Dashboards: a generation of one board and an addition to another.
SmallPlanned == [r1 |-> {1}, r2 |-> {2}]

\* Comprehension: two definitions of one short form, the longer of them with a word too many, and a new one.
SmallDates == [x |-> 5, y |-> None]
SmallInitials == [The |-> "T", Earnings |-> "E", Before |-> "B", European |-> "E", Bank |-> "B"]
EB == <<"E", "B">>
GRN == <<"G", "R", "N">>
The == <<"t">>
Shares == (EB :> 300) @@ (GRN :> 100) @@ (The :> 900)
Defines(form, long) == [term |-> EB, long |-> long, form |-> form]
Learnable ==
    [a |-> [doc |-> "x", date |-> None, entities |-> {"m"}, tokens |-> <<EB, The, The>>,
            defines |-> {Defines("after", <<"The", "Earnings", "Before">>)}],
     b |-> [doc |-> "y", date |-> 7, entities |-> {"m", "e"}, tokens |-> <<The, EB, GRN>>,
            defines |-> {Defines("before", <<"European", "Bank">>)}],
     c |-> [doc |-> "y", date |-> None, entities |-> {"e"}, tokens |-> <<GRN, The>>, defines |-> {}]]

\* KnowledgeGraph: two sections, and a document that repeats the first; two names of one firm, a person
\* of the same name as a firm, an answer that cites the wrong chunk, one that invents, one that is empty.
Reading == [x |-> <<"a1", "a2", "a3">>, y |-> <<"b1", "b2">>]
TextOf == [a1 |-> "t1", a2 |-> "t2", a3 |-> "t3", b1 |-> "t1", b2 |-> "t2"]
Headings == [a1 |-> TRUE, a2 |-> FALSE, a3 |-> TRUE, b1 |-> TRUE, b2 |-> FALSE]
WordsOf == [t1 |-> {"Acme", "Bob", "pays"}, t2 |-> {"Acme Co", "Bob", "Dora", "owns"}, t3 |-> {"Bob", "Acme"}]
WithinOf == [t1 |-> {"Acm"}, t2 |-> {"ID"}, t3 |-> {}]
Says(s, p, o, span, where) == [subject |-> s, predicate |-> p, obj |-> o, span |-> span, at |-> where]
Thing(name, etype, where) == [name |-> name, etype |-> etype, at |-> where]
About(label, scope, confidence, where) == [label |-> label, scope |-> scope, confidence |-> confidence, at |-> where]
Replies ==
    { [entities |-> <<Thing("Acme", "firm", 1), Thing("Bob", "person", 1), Thing("Acme Co", "firm", 2), Thing(None, "firm", 0)>>,
       relations |-> <<Says("Acme", "pays", "Bob", "pays", 1), Says("Acme Co", "owns", "Bob", "owns", 2),
                       Says("Acme Co", "owns", "Dora", "owns", 1), Says("Acme", None, "Bob", "pays", 1),
                       Says("Acme", "pays", "Ghost", "pays", 9), Says("ID", "owns", "Bob", "owns", 2)>>,
       tags |-> <<About("Acme", "doc", 600, 1), About("Bob", "doc", 900, 0), About("Dora", "section", 700, 9),
                  About("Bob", "section", 400, 2), About("Ghost", "section", 900, 0)>>],
      [entities |-> <<>>, relations |-> <<>>, tags |-> <<>>] }
Alike == [p \in {q \in SUBSET {"Acme", "Acme Co", "Bob"} : q /= {}} |-> IF p = {"Acme", "Acme Co"} THEN 900 ELSE 700]

SaidOf(kind, label, conf, flat) == [kind |-> kind, label |-> label, conf |-> conf, flat |-> flat]
Silent == [n \in 1..3 |-> None]
Said == {[form |-> "broken", of |-> Silent],
    [form |-> "json", of |-> [Silent EXCEPT ![1] = SaidOf("entity_key", "vendor", 900, FALSE),
                                            ![2] = SaidOf("attribute", "other", 900, FALSE)]],
    [form |-> "json", of |-> [Silent EXCEPT ![1] = SaidOf("date", "vendor", 0, TRUE),
                                            ![2] = SaidOf("date", "other", 400, FALSE),
                                            ![3] = SaidOf("attribute", "made_up", 1200, FALSE)]]}
GuessOf(known, side, conf) == [form |-> "json", known |-> known, side |-> side, conf |-> conf]
Guesses == {[form |-> "failed", known |-> FALSE, side |-> "neutral", conf |-> 0],
            GuessOf(TRUE, "customer", 950), GuessOf(TRUE, "sideways", 700),
            GuessOf(FALSE, "vendor", 750)}
SmallDescribed == <<3, 1>>
SmallEdges == {[score |-> 500, evidence |-> 1, approved |-> TRUE]}
Ways == {[classify |-> FALSE, quarantine |-> TRUE, threshold |-> 0],
         [classify |-> TRUE, quarantine |-> FALSE, threshold |-> 0],
         [classify |-> TRUE, quarantine |-> FALSE, threshold |-> 800]}

\* PdfSynthesis: two chunks of one document that contradict each other, one of another document, a card
\* of the first and of a chunk that was not found, and a card without text.
Found(id, card, sources, doc, page, words, denies, size, date) ==
    [id |-> id, card |-> card, sources |-> sources, doc |-> doc, page |-> page, words |-> words,
     denies |-> denies, tokens |-> size, date |-> date]
Evidence ==
    [a |-> Found("a", FALSE, <<>>, "d", 1, {"rent", "paid", "p"}, FALSE, 3, 7),
     b |-> Found("b", FALSE, <<>>, "d", 2, {"rent", "paid"}, TRUE, 3, None),
     c |-> Found("c", FALSE, <<>>, "e", 3, {"q"}, FALSE, 2, 8),
     k |-> Found("k", TRUE, <<"a", "s">>, "d", 4, {"rent", "paid", "p", "t"}, TRUE, 2, None),
     e |-> Found("e", TRUE, <<>>, "e", 5, {}, FALSE, 1, None)]
Retrieved == {<<>>, <<"a">>, <<"a", "b", "c">>, <<"c", "k">>, <<"k", "a", "c", "e">>, <<"e">>, <<"e", "e">>, <<"a", "c", "a">>}

\* ParquetStream: three versions of a file, of which the last has no rows; a dictionary by its name.
Headed(name, kind, few) == [name |-> name, kind |-> kind, few |-> few]
SmallHeader == <<Headed("Field Name", "string", FALSE), Headed("Meaning", "string", TRUE), Headed("field", "number", FALSE),
            Headed("remark", "temporal", FALSE), Headed("other", "dictionary", FALSE)>>
ThreeVersions == <<3, 2, 0>>
HeaderNames == {SmallHeader[i].name : i \in DOMAIN SmallHeader}
ExactName == [n \in HeaderNames |-> n]
PartOfName == [n \in HeaderNames |-> CASE n = "Field Name" -> {"field"} [] n = "field" -> {"field", "description"}
                                        [] n = "Meaning" -> {"description"} [] OTHER -> {}]
SmallTokens == [field |-> {"field"}, description |-> {"description"}, notes |-> {"remark"}]

Trust == INSTANCE AnswerTrust WITH
    Questions <- Questions, Relations <- Relations, TopJoins <- 3, MaxChanges <- 1,
    Shadow <- FALSE, None <- None,
    q <- v1, rels <- v2, at <- v3, joins <- v4, clusters <- v5, isolated <- v6, health <- v7,
    score <- v8, reply <- v9, changes <- v10
Board == INSTANCE BoardPlanning WITH
    Files <- Tables, Proposals <- Proposals, Domains <- {"d"}, MaxWidgets <- 6, None <- None,
    at <- v1, catalog <- v2, proposed <- v3, kept <- v4, board <- v5, drawn <- v6
Cleaning == INSTANCE FileCleaning WITH
    Raws <- Raws, ProbeRows <- 6, ScanRows <- 3, SampleRows <- 3, ChunkRows <- 2,
    MaxStarts <- 3,
    raw <- v1, blob <- v2, path <- v3, done <- v4, run <- v5, starts <- v6
Ingest == INSTANCE StagedIngestion WITH
    Files <- {"f"}, Slots <- {"t1", "t2"}, NoFile <- None, Scopes <- {"ingest"},
    ApiOps <- {"reingest_all", "delete_file", "sync_container"},
    Faults <- {"worker_lost", "ack_lost", "blob_lost", "broker_down_api"}, Preprocessable <- {},
    FastMode <- TRUE, Impatient <- TRUE, MaxRetries <- 1, MaxRequests <- 2, MaxFaults <- 1,
    status <- v1, prepped <- v2, blob <- v3, version <- v4, meta <- v5, pqPath <- v6,
    pqContent <- v7, tasks <- v8, requests <- v9, faults <- v10
Graph == INSTANCE GraphDelete WITH
    Docs <- GraphDocs, ChunksPerDoc <- 2, Entities <- GraphEntities, Mentioned <- TwoChunksEach,
    Communities <- {"c1", "c2"}, CommunityOf <- TwoCommunities, Late <- {}, BatchSize <- 1,
    Concurrent <- 1, MaxCrashes <- 0,
    chunks <- v1, mentions <- v2, entities <- v3, members <- v4, communities <- v5, nodes <- v6,
    cards <- v7, dpc <- v8, orphans <- v9, bpc <- v10, found <- v11, toWrite <- v12,
    crashes <- v13
Know == INSTANCE KnowledgeGraph WITH
    Reading <- Reading, Text <- TextOf, Page <- [c \in {"a1", "a2", "a3", "b1", "b2"} |-> 1],
    Heading <- Headings, Words <- WordsOf, Within <- WithinOf, Short <- {"ID", "Bob"},
    ByPage <- FALSE, Replies <- Replies, MaxPasses <- 2, NewFloor <- 1, TagCap <- 5,
    CardCap <- 6, TagFloor <- 500, Like <- Alike, Lift <- 50, MergeFloor <- 600,
    Quantile <- 850, Ordinals <- 0..1, MinSize <- 2, MinEdges <- 2, MaxRuns <- 2, None <- None,
    run <- v1, runs <- v2, cache <- v3, entity <- v4, edge <- v5, mention <- v6, part <- v7,
    tag <- v8, card <- v9, community <- v10, member <- v11, report <- v12
Retrieval == INSTANCE PdfRetrieval WITH
    Node <- Passages, Near <- Nearby, Entities <- Tenanted, Mentioned <- MentionedIn,
    RelatedTo <- Relating, RowFields <- {"tenant_id", "acl"}, Requests <- Asked, TopK <- 4,
    GraphTopK <- 3, TopN <- 3, K <- 60, MinChunks <- 1, Budget <- 4, HasReranker <- FALSE,
    MaxDeletions <- 1, None <- None,
    index <- v1, cache <- v2, run <- v3, audits <- v4, tool <- v5

MCInit ==
    /\ focus \in Focuses \cup {"trust", "board", "cleaning", "ingest", "graph", "knowledge", "retrieval"}
    /\ Begins
    /\ \/ focus \in Focuses /\ Blank(0)
       \/ focus = "trust" /\ Trust!Init /\ Blank(10)
       \/ focus = "board" /\ Board!Init /\ Blank(6)
       \/ focus = "cleaning" /\ Cleaning!Init /\ Blank(6)
       \/ focus = "ingest" /\ Ingest!Init /\ Blank(10)
       \/ focus = "graph" /\ Graph!Init /\ Blank(13)
       \/ focus = "knowledge" /\ Know!Init /\ Blank(12)
       \/ focus = "retrieval" /\ Retrieval!Init /\ Blank(5)
MCNext ==
    \/ focus \in Focuses /\ Next /\ Still(0)
    \/ focus = "trust" /\ Trust!Next /\ Still(10) /\ UNCHANGED vars
    \/ focus = "board" /\ Board!Next /\ Still(6) /\ UNCHANGED vars
    \/ focus = "cleaning" /\ Cleaning!Next /\ Still(6) /\ UNCHANGED vars
    \/ focus = "ingest" /\ Ingest!Next /\ Still(10) /\ UNCHANGED vars
    \/ focus = "graph" /\ Graph!Next /\ Still(13) /\ UNCHANGED vars
    \/ focus = "knowledge" /\ Know!Next /\ Still(12) /\ UNCHANGED vars
    \/ focus = "retrieval" /\ Retrieval!Next /\ Still(5) /\ UNCHANGED vars

allvars == <<vars, v1, v2, v3, v4, v5, v6, v7, v8, v9, v10, v11, v12, v13>>
(* Fair: while a chain has a task, some task of the API process or of the workers goes on. Requests,  *)
(* retries and faults are finite, so no task can keep another from running for ever.                 *)
MCSpec ==
    /\ MCInit /\ [][MCNext]_allvars
    /\ WF_(Ingest!vars)(/\ focus = "ingest"
                        /\ \E t \in {"t1", "t2"} : Ingest!Dispatch(t) \/ Ingest!Worker(t))

(* Bounds. Knowledge, retrieval: one order of concurrent steps where the other reaches no more.   *)
(* Comprehension: only versions in which a term is disputed or inferred are read or followed; no  *)
(* page is open while a glossary is mined, it is opened before the commit.                        *)
(* IngestCapacity: a process that has not measured yet scales. FileUploads: no synchronisation    *)
(* beside the second batch. ChatClient: nothing is followed once the hook has lost track (see     *)
(* ThreadIsOfActive). Onboarding: the second request connects a storage, the first is of any      *)
(* step, and the organisation has the container connected last, or none; by then the first one is gone or has   *)
(* its root folder and no other. Dashboards: boards are duplicated while no request runs. UserAdmin: the second person    *)
(* asks for no access, has no domains and is granted none, but may be the owner. ChatShortlist: a   *)
(* plan asks for a summary when it asks for several steps, and then without the value guard, which is *)
(* on for questions that name no file and follow no other; masters are pinned in a question without   *)
(* files used before. Comprehension: an ontology without a confident class is not followed.          *)
(* AnswerTrust: relationships change in requests of one question, on either shortlist.             *)
Bounds ==
    /\ focus = "trust" =>
          LET q == v1 changes == v10 IN
          changes > 0 => q.window = None /\ q.resolved = 1000 /\ q.top = 656 /\ q.trust[1] = 1000
    /\ focus = "knowledge" =>
          LET run == v1 Ids(d) == {run[d].todo[i].id : i \in {j \in DOMAIN run[d].todo : run[d].todo[j].kind = "member"}} IN
          /\ \A i \in DOMAIN run["x"].entities : run["x"].entities[i].at /= "a3"
          /\ run["y"].at = "write" => \/ run["x"].at = "done"
                                      \/ run["x"].todo /= <<>> /\ Head(run["x"].todo).kind \in {"member", "report"}
          /\ Ids("y") \subseteq {0} /\ Ids("x") /= {0, 1} /\ Ids("x") /= {1} /\ (run["x"].at = "idle" => run["y"].at \in {"idle", "done"})
    /\ focus = "retrieval" =>
          LET index == v1 kept == v2 run == v3 tool == v5 tookUp == {r \in Asked : run[r].at /= "embed"} IN
          /\ Other \in tookUp => /\ tookUp \subseteq {Question, Other} /\ index = DOMAIN Passages
                                 /\ tookUp /= {Other} => \E x \in tookUp : /\ run[x].at = "answered"
                                        /\ \A y \in tookUp : y = x \/ run[y].at \in {"lookup", "audit", "answered"}
          /\ tool.fused /= <<>> => tookUp = {}
          /\ index /= DOMAIN Passages => \E r \in tookUp : run[r].at \in {"generate", "answered"}
          /\ \A r \in tookUp : run[r].at = "raised" => tookUp = {r}
    /\ focus = "comprehension" =>
          /\ "b" \in learnedGraph
          /\ \A r \in Finalizers : finalizer[r].at \in {"cover", "mine", "commit"} => finalizer[r].built.classes /= {}
          /\ \A r \in Finalizers : finalizer[r].at = "mine" => glossaryPage.at = "idle"
          /\ \A r \in Finalizers : finalizer[r].at = "commit" =>
                \E e \in finalizer[r].entries : e.term = EB /\ e.provenance \in {"conflicting", "inferred"}
          /\ glossary /= {} => \E e \in glossary : e.term = EB /\ e.provenance \in {"conflicting", "inferred"}
    /\ focus = "capacity" =>
          (depth > 0 \/ ~capacitySeen \/ decision /= None => machine.host = None /\ profile = None)
    /\ focus = "uploads" /\ batchesOpened = 2 => sync["s"].st = "none"
    /\ focus = "chat" => ~astray
    /\ focus = "shortlist" => /\ asksSteps = asksSummary /\ (asksSteps => ~valueGuard)
                              /\ masterFiles /= {} => questionWish.prior = <<>>
                              /\ valueGuard => questionWish = [named |-> {}, prior |-> <<>>]
    /\ focus = "onboarding" => /\ step["r2"] = "storage_connected"
                               /\ container \in {0, connected} /\ (connected = 2 => /\ 2 \in containers
                                       /\ 1 \in roots <=> 1 \in containers
                                       /\ \A f \in folders : f[2] = 2)
    /\ focus = "dashboards" /\ dashRows[2] /= None => \A r \in {"r1", "r2"} : dashAt[r] /= "running"
    /\ focus = "users" =>
          /\ request["q"] = "none" /\ assigned["q"] = {} /\ user["q"].allowed = {}
          /\ user["q"].role \in {"nobody", "owner", "platform_admin", "org_owner"}
          /\ assigned["p"] /= {} \/ granted /= {} \/ request["p"] /= "none" => user["q"].role \in {"nobody", "owner"}
          /\ \A g \in granted : g[1] = "p"

(* What the theorems about a component take for granted of its constants, which no ASSUME of an   *)
(* instance is asked for.                                                                         *)
ASSUME InstancesOK == ConstantsOK

(* The promises of each component, stated in its module.                                          *)
ShownIsGrounded ==
    /\ focus = "trust" => Trust!NotesAgree /\ Trust!UnjoinedIsCaveated
    /\ focus = "board" => Board!WidgetsAreGrounded /\ Board!AddedWidgetsAreDrawnAsPlanned
NoOrphansLeft == focus = "graph" => Graph!NoOrphansLeft
EveryBusyFileSettles ==
    (focus = "ingest" /\ Ingest!Busy("f")) ~> (focus = "ingest" /\ ~Ingest!Busy("f"))
FilesArriveWhole ==
    /\ focus = "uploads" => Loading!KeepsItsDirectories
    /\ focus = "cleaning" => Cleaning!CleanedWholeAndOnce
    /\ focus = "ingest" => Ingest!NothingForgotten
KnowledgeIsCited == focus = "knowledge" => Know!GraphIsGrounded /\ Know!ReportsCanBeFollowed
PassagesAreInScope == focus = "retrieval" => Retrieval!AnswersStayInScope /\ Retrieval!FusionAgrees
==============================================================================
