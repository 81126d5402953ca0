---------------------------- MODULE BoardPlanning ----------------------------
(***************************************************************************)
(* The planning of a dashboard: tables are read into a catalog, a model          *)
(* proposes widgets, each is repaired or dropped against the catalog, the board   *)
(* is filled up to a readable density, and what a widget's query returns picks    *)
(* the component that draws it.                                                *)
(*                                                                          *)
(* Source: server/app/services/dashboard/{data_catalog,board_planner,query_engine, *)
(* recommendation_engine,component_catalog}.py. Columns are numbers in the order of *)
(* their names; titles, time windows, query texts, polarity and formats are left    *)
(* out.                                                                     *)
(***************************************************************************)
EXTENDS Integers, Sequences, FiniteSets, SequencesExt

CONSTANTS
    Files,       \* by number: [columns, role, card, metrics, dimensions, tags] of a file that is ready
    Proposals,   \* what the model can design: sequences of specs, or None when the call fails
    Domains,     \* domains the user may see, {} for no restriction
    MaxWidgets,  \* widgets asked for
    None

VARIABLES
    at,        \* the step of the request
    catalog,   \* tables, in the order the query returned them
    proposed,  \* the specs the model designed
    kept,      \* those that survive the feasibility filter
    board,     \* the widgets that are run
    drawn      \* [widget, result, viz]: a widget, what its query returned, the component drawn

vars == <<at, catalog, proposed, kept, board, drawn>>

\* Ceilings of the planner.
ShareMax == 8
BreakdownMax == 50
MatrixMax == 40
RankMax == 1000
MinVisuals == 5
MaxRibbon == 4
MaxBreakdowns == 3

First(s) == IF s = <<>> THEN None ELSE s[1]

\* Columns of a file by the kind of their role; what the model called a metric or a dimension of the
\* file counts as one although no such column may exist.
OfKind(f, kind) == SelectSeq(f.columns, LAMBDA c : f.role[c] = kind)

BuildTable(f) ==
    LET measures == OfKind(f, "measure")
        temporal == OfKind(f, "date")
        dims     == OfKind(f, "dimension")
    IN  [measures   |-> measures \o SelectSeq(f.metrics, LAMBDA m : m \notin ToSet(measures)),
         dimensions |-> dims \o SelectSeq(f.dimensions, LAMBDA d : d \notin ToSet(dims \o temporal)),
         temporal   |-> temporal,
         card       |-> [c \in ToSet(f.columns \o f.metrics \o f.dimensions) |->
                            IF c \in DOMAIN f.card THEN f.card[c] ELSE None],
         tags       |-> f.tags]

\* A file without tags passes the domain filter.
Visible(t) == Domains = {} \/ t.tags = {} \/ t.tags \cap Domains /= {}

BuildCatalog(fs) ==
    SelectSeq([i \in DOMAIN fs |-> [name |-> fs[i]] @@ BuildTable(Files[fs[i]])], Visible)

Named(name) == SelectSeq(catalog, LAMBDA t : t.name = name)
Known(name) == \E i \in DOMAIN catalog : catalog[i].name = name
Table(name) == First(Named(name))
Columns(t) == ToSet(t.dimensions) \cup ToSet(t.temporal)
Least(S) == CHOOSE c \in S : \A d \in S : c <= d
CardOf(t, c) == IF c \in DOMAIN t.card THEN t.card[c] ELSE None

\* The first table with the measure, else the one with most measures.
Richest ==
    catalog[CHOOSE i \in DOMAIN catalog :
              \A j \in DOMAIN catalog : \/ Len(catalog[i].measures) > Len(catalog[j].measures)
                                        \/ Len(catalog[i].measures) = Len(catalog[j].measures) /\ i <= j]

FindTableFor(m) ==
    LET having == SelectSeq(catalog, LAMBDA t : m \in ToSet(t.measures))
    IN  IF having /= <<>> THEN having[1] ELSE Richest

\* The dimension with fewest values in 1..max, else the first one whatever its values.
PickDimension(t, max, exclude) ==
    LET rest == SelectSeq(t.dimensions, LAMBDA d : d \notin exclude)
        fits == SelectSeq(rest, LAMBDA d : CardOf(t, d) /= None /\ CardOf(t, d) \in 1..max)
    IN  IF fits = <<>> THEN First(rest)
        ELSE fits[CHOOSE i \in DOMAIN fits :
                    \A j \in DOMAIN fits : \/ CardOf(t, fits[i]) < CardOf(t, fits[j])
                                           \/ CardOf(t, fits[i]) = CardOf(t, fits[j]) /\ i <= j]

\* The dimension with most values in min..max.
HighestCardDimension(t, max, min, exclude) ==
    LET fits == SelectSeq(t.dimensions, LAMBDA d : /\ d \notin exclude
                                                   /\ CardOf(t, d) /= None
                                                   /\ CardOf(t, d) \in min..max)
    IN  IF fits = <<>> THEN None
        ELSE fits[CHOOSE i \in DOMAIN fits :
                    \A j \in DOMAIN fits : \/ CardOf(t, fits[i]) > CardOf(t, fits[j])
                                           \/ CardOf(t, fits[i]) = CardOf(t, fits[j]) /\ i <= j]

\* The repairs of a spec, each applied to what the one before left.
ToTable(s) == IF Known(s.table) THEN s ELSE [s EXCEPT !.table = FindTableFor(s.measure).name]

ToMeasure(s) ==
    LET ms == ToSet(Table(s.table).measures)
    IN  IF s.type = "detail" \/ s.measure \in ms \/ ms = {} THEN s ELSE [s EXCEPT !.measure = Least(ms)]

Kpi(s) == [s EXCEPT !.type = "kpi", !.viz = "kpi_card", !.dim = None]
Bar(s) == [s EXCEPT !.type = "breakdown", !.viz = "bar_chart"]

ToTrend(s) ==
    LET picked == PickDimension(Table(s.table), BreakdownMax, {})
    IN  IF s.type /= "trend" \/ Table(s.table).temporal /= <<>> THEN s
        ELSE IF picked = None THEN Kpi(s) ELSE [Bar(s) EXCEPT !.dim = picked]

ToDimension(s) ==
    LET picked == PickDimension(Table(s.table), IF s.type = "share" THEN ShareMax ELSE BreakdownMax, {})
    IN  IF s.type \notin {"breakdown", "share", "matrix"} \/ s.dim \in Columns(Table(s.table)) THEN s
        ELSE IF picked = None THEN Kpi(s) ELSE [s EXCEPT !.dim = picked]

ToShare(s) ==
    LET card == CardOf(Table(s.table), s.dim)
    IN  IF s.type = "share" /\ card /= None /\ card > ShareMax THEN Bar(s) ELSE s

ToMatrix_SameTwice(s) ==
    LET pick2 == PickDimension(Table(s.table), MatrixMax, {})
    IN  IF s.type /= "matrix" \/ s.dim2 \in Columns(Table(s.table)) \ {s.dim} THEN s
        ELSE IF pick2 = None THEN Bar(s) ELSE [s EXCEPT !.dim2 = pick2]

ToMatrix(s) ==
    LET pick2 == PickDimension(Table(s.table), MatrixMax, {s.dim})
    IN  IF s.type /= "matrix" \/ s.dim2 \in Columns(Table(s.table)) \ {s.dim} THEN s
        ELSE IF pick2 = None THEN Bar(s) ELSE [s EXCEPT !.dim2 = pick2]

Repaired(s) == ToMatrix(ToShare(ToDimension(ToTrend(ToMeasure(ToTable(s))))))

\* A spec that needs a measure is dropped when its table has none.
Droppable(s) == s.type /= "detail" /\ Table(ToTable(s).table).measures = <<>>

LatticeKey(s) == <<s.type, s.table, s.measure, s.dim, s.dim2>>
Same(s, u) == LatticeKey(s) = LatticeKey(u) /\ s.title = u.title

FeasibilityFilter(specs) ==
    LET repaired == [i \in DOMAIN SelectSeq(specs, LAMBDA s : ~Droppable(s)) |->
                        Repaired(SelectSeq(specs, LAMBDA s : ~Droppable(s))[i])]
        Keep(acc, s) == IF \E i \in DOMAIN acc : Same(acc[i], s) THEN acc ELSE Append(acc, s)
    IN  FoldLeft(Keep, <<>>, repaired)

\* The table most widgets are about; the first to reach the most.
PrimaryTable(specs) ==
    LET about(name) == Len(SelectSeq(specs, LAMBDA s : s.type /= "detail" /\ s.table = name))
        votes == SelectSeq(specs, LAMBDA s : s.type /= "detail")
    IN  IF votes = <<>> THEN Richest
        ELSE Table(votes[CHOOSE i \in DOMAIN votes :
                \A j \in DOMAIN votes : \/ about(votes[i].table) > about(votes[j].table)
                                        \/ about(votes[i].table) = about(votes[j].table) /\ i <= j].table)

Visuals(specs) == Len(SelectSeq(specs, LAMBDA s : s.type /= "detail"))

TryAdd(specs, s) ==
    IF Len(specs) >= MaxWidgets \/ \E i \in DOMAIN specs : LatticeKey(specs[i]) = LatticeKey(s)
    THEN specs ELSE Append(specs, s)

Widget(type, t, m, d, viz) ==
    [type |-> type, table |-> t.name, measure |-> m, dim |-> d, dim2 |-> None, viz |-> viz,
     title |-> "added"]

AddRibbon(specs, t) ==
    LET Add(acc, m) == IF Visuals(acc) >= MinVisuals THEN acc
                       ELSE TryAdd(acc, Widget("kpi", t, m, None, "kpi_card"))
    IN  FoldLeft(Add, specs, SubSeq(t.measures, 1, IF Len(t.measures) < MaxRibbon THEN Len(t.measures)
                                                    ELSE MaxRibbon))

AddTrend(specs, t) ==
    IF t.measures = <<>> \/ t.temporal = <<>> \/ \E i \in DOMAIN specs : specs[i].type = "trend"
    THEN specs
    ELSE TryAdd(specs, Widget("trend", t, t.measures[1], t.temporal[1], "line_chart"))

\* How a breakdown by a dimension is shown: entities ranked, one part-of-whole, plain bars.
BreakdownViz_PieUpToTwelve(card, shared) ==
    IF card /= None /\ card > 12 THEN <<"breakdown", "ranked_bar">>
    ELSE IF card /= None /\ ~shared THEN <<"share", "pie_chart">>
    ELSE <<"breakdown", "bar_chart">>

BreakdownViz(card, shared) ==
    IF card /= None /\ card > ShareMax THEN <<"breakdown", "ranked_bar">>
    ELSE IF card /= None /\ ~shared THEN <<"share", "pie_chart">>
    ELSE <<"breakdown", "bar_chart">>

\* One round of the breakdown loop: acc is [specs, used].
AddBreakdown(acc, t) ==
    LET high == HighestCardDimension(t, RankMax, ShareMax + 1, acc.used)
        dim  == IF high /= None THEN high ELSE PickDimension(t, BreakdownMax, acc.used)
        kind == BreakdownViz(CardOf(t, dim), \E i \in DOMAIN acc.specs : acc.specs[i].type = "share")
    IN  IF Visuals(acc.specs) >= MinVisuals \/ dim = None THEN acc
        ELSE [specs |-> TryAdd(acc.specs, Widget(kind[1], t, t.measures[1], dim, kind[2])),
              used  |-> acc.used \cup {dim}]

EnsureComposition(specs) ==
    LET t      == PrimaryTable(specs)
        lines  == AddTrend(AddRibbon(specs, t), t)
        used   == {lines[i].dim : i \in DOMAIN lines} \ {None}
        rounds == [i \in 1..MaxBreakdowns |-> t]
    IN  IF t.measures = <<>> THEN lines
        ELSE FoldLeft(AddBreakdown, [specs |-> lines, used |-> used], rounds).specs

-----------------------------------------------------------------------------
(* The components that can draw a result.                                     *)

Rule(least, most, dims, temporal, maxcard, intents, priority) ==
    [least |-> least, most |-> most, dims |-> dims, temporal |-> temporal, maxcard |-> maxcard,
     intents |-> intents, priority |-> priority]

NoLimit == 100000

Headlines == <<
    <<"kpi_card",    Rule(0, 1, 0, FALSE, NoLimit, {"kpi"}, 90)>>,
    <<"metric_tile", Rule(0, 2, 0, FALSE, NoLimit, {"kpi"}, 70)>>,
    <<"line_chart",  Rule(2, NoLimit, 1, TRUE, NoLimit, {"trend"}, 85)>>,
    <<"area_chart",  Rule(2, NoLimit, 1, TRUE, NoLimit, {"trend"}, 60)>> >>

Charts == <<
    <<"bar_chart",   Rule(2, NoLimit, 1, FALSE, BreakdownMax, {"comparison"}, 80)>>,
    <<"pie_chart",   Rule(2, NoLimit, 1, FALSE, ShareMax, {"distribution"}, 65)>>,
    <<"heatmap",     Rule(2, NoLimit, 2, FALSE, MatrixMax, {"multi-dim", "distribution"}, 75)>>,
    <<"funnel",      Rule(2, NoLimit, 1, FALSE, 12, {"funnel"}, 55)>> >>

Others == <<
    <<"gauge_ring",  Rule(0, 1, 0, FALSE, NoLimit, {"kpi"}, 50)>>,
    <<"progress_kpi", Rule(0, 1, 0, FALSE, NoLimit, {"kpi"}, 50)>>,
    <<"bullet",      Rule(0, 1, 0, FALSE, NoLimit, {"kpi"}, 50)>>,
    <<"delta_kpi",   Rule(2, NoLimit, 1, TRUE, NoLimit, {"trend", "kpi"}, 58)>>,
    <<"ranked_bar",  Rule(2, NoLimit, 1, FALSE, RankMax, {"comparison"}, 78)>>,
    <<"table",       Rule(1, NoLimit, None, FALSE, NoLimit, {"detail"}, 40)>> >>

Catalog == Headlines \o Charts \o Others

\* A result: [rows, dims, temporal, card]; every one has a measure.
Fits(r, shape) ==
    /\ shape.rows \in r.least..r.most
    /\ r.temporal => shape.temporal
    /\ r.dims = 0 => shape.dims = 0
    /\ r.dims \in Nat => shape.dims >= r.dims
    /\ shape.card <= r.maxcard

Intent(shape) ==
    CASE shape.dims = 0 /\ shape.rows = 1   -> "kpi"
      [] shape.temporal                     -> "trend"
      [] shape.dims >= 2                    -> "multi-dim"
      [] shape.dims = 1                     -> "comparison"
      [] OTHER                              -> "detail"

\* The score, in thousandths.
Score(viz, r, shape) ==
    1000 + (IF Intent(shape) \in r.intents THEN 4000 ELSE 0)
         + (IF r.dims = shape.dims THEN 1000 ELSE 0)
         + (IF r.dims \in Nat THEN 500 ELSE 0)
         - (IF viz = "pie_chart" /\ shape.card > 6 THEN 1000 ELSE 0)
         - (IF viz = "table" /\ Intent(shape) /= "detail" THEN 500 ELSE 0) + r.priority

Recommend(requested, shape) ==
    LET fitting == SelectSeq(Catalog, LAMBDA c : Fits(c[2], shape))
        asked   == SelectSeq(fitting, LAMBDA c : c[1] = requested)
    IN  CASE shape.rows = 0      -> "empty"
          [] shape.rows > 0 /\ asked /= <<>> -> requested
          [] OTHER -> fitting[CHOOSE i \in DOMAIN fitting : \A j \in DOMAIN fitting :
                                Score(fitting[i][1], fitting[i][2], shape)
                                  >= Score(fitting[j][1], fitting[j][2], shape)][1]

\* What the query of a widget returns when the agent does as it is told.
Groups(w) == IF CardOf(Table(w.table), w.dim) = None THEN 3 ELSE CardOf(Table(w.table), w.dim)

Faithful(w) ==
    LET rows == CASE w.type = "kpi" -> 1
                  [] w.type = "breakdown" -> IF Groups(w) < 10 THEN Groups(w) ELSE 10
                  [] w.type = "share" -> Groups(w)
                  [] OTHER -> 12
    IN  [rows |-> rows, temporal |-> w.type = "trend",
         dims |-> CASE w.type = "kpi" -> 0 [] w.type \in {"matrix", "detail"} -> 2 [] OTHER -> 1,
         card |-> IF w.type = "kpi" THEN 0 ELSE IF w.type = "matrix" THEN Groups(w) ELSE rows]

\* ... or nothing, or rows of another shape.
Results(w) == {Faithful(w), [rows |-> 0, dims |-> 0, temporal |-> FALSE, card |-> 0],
               [rows |-> 2, dims |-> 1, temporal |-> TRUE, card |-> 2]}

DefaultViz == [kpi |-> "kpi_card", trend |-> "line_chart", breakdown |-> "bar_chart",
               share |-> "pie_chart", matrix |-> "heatmap", detail |-> "table"]

Requested(w) == IF w.viz = None THEN DefaultViz[w.type] ELSE w.viz

-----------------------------------------------------------------------------
Init ==
    /\ at = "start"
    /\ catalog = <<>>
    /\ proposed = <<>>
    /\ kept = <<>>
    /\ board = <<>>
    /\ drawn = None

\* The catalog of the ready files of the scope; the query has no order.
ReadCatalog ==
    /\ at = "start"
    /\ \E S \in SUBSET DOMAIN Files : \E fs \in SetToSeqs(S) : catalog' = BuildCatalog(fs)
    /\ at' = IF catalog' = <<>> THEN "no_data" ELSE "design"
    /\ UNCHANGED <<proposed, kept, board, drawn>>

\* A call that fails and a design without a usable widget take the plain decomposition of the prompt.
DesignBoard ==
    /\ at = "design"
    /\ \E p \in Proposals :
         /\ proposed' = IF p = None THEN <<>> ELSE SubSeq(p, 1, IF Len(p) < MaxWidgets THEN Len(p) ELSE MaxWidgets)
         /\ at' = IF proposed' = <<>> THEN "decompose" ELSE "plan"
    /\ UNCHANGED <<catalog, kept, board, drawn>>

PlanWidgets ==
    /\ at = "plan"
    /\ kept' = FeasibilityFilter(proposed)
    /\ board' = EnsureComposition(kept')
    /\ at' = IF board' = <<>> THEN "decompose" ELSE "run"
    /\ UNCHANGED <<catalog, proposed, drawn>>

\* Any widget of the board, with what its query returned.
Draw ==
    /\ at = "run"
    /\ \E i \in DOMAIN board : \E shape \in Results(board[i]) :
         drawn' = [widget |-> board[i], result |-> shape,
                   viz |-> Recommend(Requested(board[i]), shape)]
    /\ at' = "drawn"
    /\ UNCHANGED <<catalog, proposed, kept, board>>

Next == ReadCatalog \/ DesignBoard \/ PlanWidgets \/ Draw

Spec == Init /\ [][Next]_vars

-----------------------------------------------------------------------------
\* board_planner.py:9-20 ("resolve, never invent"): whatever the model proposes, a widget that is
\* run measures what its table measures and groups by two different columns of it; the axis of a
\* trend alone is the model's word (no repair looks at it). What the model proposed and the
\* filter kept leads the board, and nothing added to it repeats a widget.
WidgetsAreGrounded ==
    at \in {"run", "drawn"} =>
        /\ \A i \in DOMAIN board :
             LET w == board[i] t == Table(w.table) IN
             /\ w.type /= "detail" => w.measure \in ToSet(t.measures)
             /\ w.type \in {"breakdown", "share", "matrix"} => w.dim \in Columns(t)
             /\ w.type = "matrix" => w.dim2 \in Columns(t) \ {w.dim}
             /\ w.type = "share" => CardOf(t, w.dim) \in {None} \cup 0..ShareMax
        /\ IsPrefix(kept, board)
        /\ \A i, j \in DOMAIN board :
             (i < j /\ j > Len(kept)) => LatticeKey(board[i]) /= LatticeKey(board[j])

\* board_planner.py:470-472 ("the densifier and the recommender agree on the shape"): a widget the
\* planner added itself, over a column with at least two values, whose query returned what was asked
\* for, is drawn with the component it was planned with.
AddedWidgetsAreDrawnAsPlanned ==
    drawn /= None =>
        \/ drawn.widget.title /= "added"
        \/ drawn.result /= Faithful(drawn.widget)
        \/ drawn.widget.dim /= None /\ Groups(drawn.widget) < 2
        \/ drawn.viz = drawn.widget.viz
=============================================================================
