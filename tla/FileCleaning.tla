---------------------------- MODULE FileCleaning ----------------------------
(***************************************************************************)
(* The cleaning of an uploaded file. A probe of its first rows picks the      *)
(* header, the names and one converter per column; a text file that the probe *)
(* finds clean is left as it is, any other is read in chunks, cleaned and      *)
(* written back over itself as blocks committed at once; a workbook is         *)
(* written to a CSV beside it. A crash before the flag of the file is saved    *)
(* makes a retry clean again, and a re-ingest clears the flag.                *)
(*                                                                          *)
(* Source: server/app/services/data_preprocessor.py, preprocessor/*.py and the *)
(* clean stage of ingestion_stages.py. A row is a sequence of cells and a cell a  *)
(* class of text that one of the rules tells apart; staged blocks are the rows    *)
(* written so far; warnings, samples and audits are left out. One cleaning of a   *)
(* file runs at a time.                                                      *)
(***************************************************************************)
EXTENDS Integers, Sequences, FiniteSets, SequencesExt

CONSTANTS
    Raws,         \* uploads: [kind, plain, large, polars, sheets], a text file has one sheet
    ProbeRows, ScanRows, SampleRows, ChunkRows,   \* sizes of the probe, the header scan, the sample, a chunk
    MaxStarts     \* bound on the runs of the clean stage

VARIABLES
    raw,       \* the upload
    blob,      \* [plain, rows] of the text file, or of the CSV beside the workbook
    path,      \* which of the two the file's row names
    done,      \* is_preprocessed
    run,       \* the cleaning under way
    starts     \* runs so far

vars == <<raw, blob, path, done, run, starts>>

\* Classes of cells. "$40k" is an amount with a currency sign whose number lies in the range of the
\* spreadsheet's serial dates, "40k" that number.
Nulls    == {"n/a"}
Totals   == {"total"}
Rules    == {"---"}
TrueWords == {"yes", "1", "True"}
DateWords == {"iso", "40k"}
Numbers   == {"40k", "7", "1"}
Amounts   == Numbers \cup {"$40k"}
DateNames == {"Date"}
AmountNames == {"Amount"}
IdNames   == {"Id"}

EarlyLimit == 4
EarlyScore == 70
Epsilon    == 5

Nullified(row) == [i \in DOMAIN row |-> IF row[i] \in Nulls THEN "" ELSE row[i]]
Filled(row) == SelectSeq(Nullified(row), LAMBDA c : c /= "")
Fit(row, n) == [i \in 1 .. n |-> IF i <= Len(row) THEN row[i] ELSE ""]
Upto(s, n) == SubSeq(s, 1, IF Len(s) < n THEN Len(s) ELSE n)
After(s, n) == SubSeq(s, n + 1, Len(s))
Lines(rows) == SelectSeq(rows, LAMBDA r : r /= <<>>)
Widest(rows) == IF rows = <<>> THEN 0 ELSE CHOOSE w \in {Len(rows[i]) : i \in DOMAIN rows} :
                                              \A i \in DOMAIN rows : Len(rows[i]) <= w

\* Percentage of text in the whole row, less half that of numbers among its filled cells.
Score(row) ==
    LET f    == Filled(row)
        nums == Len(SelectSeq(f, LAMBDA c : c \in Numbers))
    IN  IF f = <<>> THEN -100
        ELSE (100 * (Len(f) - nums)) \div Len(row) - (50 * nums) \div Len(f)

_find_header_row(head) ==
    LET early == {i \in DOMAIN head : i <= EarlyLimit /\ Score(head[i]) > EarlyScore}
        stop  == IF early = {} THEN Len(head) ELSE CHOOSE i \in early : \A j \in early : i <= j
        better(best, i) == IF Score(head[i]) > Score(head[best]) + Epsilon THEN i ELSE best
    IN  FoldLeft(better, 1, [i \in 1 .. stop |-> i])

\* A repeated name gets a number; that the numbered name may be taken as well is not looked at.
_dedup_column_names(row) ==
    LET clean == [i \in DOMAIN row |-> IF row[i] = "" THEN "col_" \o ToString(i - 1) ELSE row[i]]
        before(i) == Cardinality({j \in 1 .. i - 1 : clean[j] = clean[i]})
    IN  [i \in DOMAIN row |-> IF before(i) = 0 THEN clean[i] ELSE clean[i] \o "_" \o ToString(before(i))]

\* The converter of a column, from its name and the filled cells of the sample.
Share(vals, S) == 100 * Len(SelectSeq(vals, LAMBDA v : v \in S))
AtLeast(vals, S, percent) == Share(vals, S) >= percent * Len(vals)

detect_column_converter(name, vals) ==
    CASE name \in IdNames -> "identifier"
      [] vals = <<>>      -> "none"
      [] AtLeast(vals, TrueWords, 100) -> "boolean"
      [] AtLeast(vals, DateWords, IF name \in DateNames THEN 55 ELSE 80) -> "date"
      [] AtLeast(vals, Amounts, IF name \in AmountNames THEN 50 ELSE 75) -> "numeric"
      [] OTHER -> "none"

\* A boolean or a date converter blanks what it does not know, a numeric one keeps it.
Converted(kind, c) ==
    CASE kind = "boolean" -> IF c \in TrueWords THEN "True" ELSE ""
      [] kind = "date"    -> IF c \in DateWords THEN "iso" ELSE ""
      [] kind = "numeric" -> IF c = "$40k" THEN "40k" ELSE c
      [] OTHER            -> c

_build_converters(names, sample) ==
    [i \in DOMAIN names |->
        LET column == [k \in DOMAIN sample |-> Nullified(sample[k])[i]]
        IN  detect_column_converter(names[i], SelectSeq(column, LAMBDA c : c /= ""))]

\* Blank rows, rows of totals and separator lines are dropped, the rest converted.
clean_rows(row) ==
    LET r == Nullified(row)
    IN  /\ \E i \in DOMAIN r : r[i] /= ""
        /\ r[1] \notin Totals
        /\ \E i \in DOMAIN r : r[i] \notin Rules \cup {""}

_clean_chunk(rows, kinds) ==
    LET rest == SelectSeq(rows, clean_rows)
    IN  [k \in DOMAIN rest |-> [i \in DOMAIN kinds |-> Converted(kinds[i], Nullified(rest[k])[i])]]

IsExcel == raw.kind = "excel"

\* The sheet with the largest area, the first of those.
Area(sheet) == Len(sheet) * Widest(sheet)
BestSheet == CHOOSE i \in DOMAIN raw.sheets :
                 /\ \A j \in DOMAIN raw.sheets : Area(raw.sheets[j]) <= Area(raw.sheets[i])
                 /\ \A j \in 1 .. i - 1 : Area(raw.sheets[j]) < Area(raw.sheets[i])

\* What the header is looked for in. The reader of text skips blank lines and takes the width of the
\* first line for that of the table: wider lines are skipped.
HeadRows(rows) ==
    LET lines == Lines(Upto(rows, ProbeRows))
        width == IF IsExcel THEN Widest(Upto(rows, ScanRows)) ELSE Len(lines[1])
    IN  IF IsExcel
        THEN [i \in 1 .. Len(Upto(rows, ScanRows)) |-> Fit(rows[i], width)]
        ELSE IF lines = <<>> THEN <<>>
        ELSE Upto([i \in 1 .. Len(SelectSeq(lines, LAMBDA l : Len(l) <= width)) |->
                      Fit(SelectSeq(lines, LAMBDA l : Len(l) <= width)[i], width)], ScanRows)

\* Rows below the header. Only pandas drops the malformed ones, the others are cut or filled.
Body(rows, skip, n, cleaner) ==
    LET below == IF IsExcel THEN After(rows, skip) ELSE Lines(After(rows, skip))
        whole == IF ~IsExcel /\ cleaner = "pandas" THEN SelectSeq(below, LAMBDA r : Len(r) = n) ELSE below
    IN  [i \in DOMAIN whole |-> Fit(whole[i], n)]

Layout(rows, cleaner) ==
    LET head  == HeadRows(rows)
        h     == _find_header_row(head)
        names == _dedup_column_names(Nullified(head[h]))
        seen  == IF IsExcel THEN rows ELSE Upto(rows, ProbeRows)
    IN  [header |-> h, cells |-> Nullified(head[h]), names |-> names,
         sample |-> Upto(Body(seen, h, Len(names), cleaner), SampleRows)]

\* The five checks under which a text file is left as it is.
FastPath_Never(b, lay, cleaner) == FALSE
FastPath(b, lay, cleaner) ==
    /\ ~IsExcel
    /\ cleaner = "pandas"
    /\ b.plain
    /\ lay.header = 1
    /\ lay.cells = lay.names
    /\ \A k \in DOMAIN lay.sample : Nullified(lay.sample[k]) = lay.sample[k]

Dedups(cleaner) == ~raw.large \/ (IsExcel /\ cleaner = "polars")

Idle == [at |-> "idle"]
Fresh(cleaner) == [at |-> "probe", cleaner |-> cleaner]
Absent == [plain |-> TRUE, rows |-> <<>>]
Rows == IF IsExcel THEN raw.sheets[BestSheet] ELSE blob.rows

Init ==
    /\ raw \in Raws
    /\ blob = IF raw.kind = "excel" THEN Absent ELSE [plain |-> raw.plain, rows |-> raw.sheets[1]]
    /\ path = "raw"
    /\ done = FALSE
    /\ run = Idle
    /\ starts = 0

\* The polars cleaner is tried first when the policy asks for it.
Start ==
    /\ run = Idle
    /\ ~done
    /\ starts < MaxStarts
    /\ starts' = starts + 1
    /\ run' = Fresh(IF raw.polars THEN "polars" ELSE "pandas")
    /\ UNCHANGED <<raw, blob, path, done>>

\* A workbook is downloaded from the path in the file's row, which after a first cleaning is the CSV.
Readable == ~(IsExcel /\ path = "clean")

Probe ==
    /\ run.at = "probe"
    /\ Readable
    /\ HeadRows(Rows) /= <<>>
    /\ LET lay == Layout(Rows, run.cleaner)
       IN  run' = IF FastPath(blob, lay, run.cleaner)
                  THEN [at |-> "written", cleaner |-> run.cleaner]
                  ELSE [at |-> "reading", cleaner |-> run.cleaner,
                        kinds |-> _build_converters(lay.names, lay.sample),
                        rest |-> Body(Rows, lay.header, Len(lay.names), run.cleaner),
                        held |-> <<>>, out |-> <<lay.names>>]
    /\ UNCHANGED <<raw, blob, path, done, starts>>

\* An empty workbook is committed as an empty blob.
EmptyWorkbook ==
    /\ run.at = "probe"
    /\ Readable
    /\ IsExcel
    /\ Rows = <<>>
    /\ blob' = Absent
    /\ run' = [at |-> "written", cleaner |-> run.cleaner]
    /\ UNCHANGED <<raw, path, done, starts>>

\* Rows written go to blocks that no reader sees before the commit.
Write(out) == run' = [run EXCEPT !.out = out, !.rest = After(@, ChunkRows)] /\ blob' = blob

ReadChunk ==
    /\ run.at = "reading"
    /\ run.rest /= <<>>
    /\ ~Dedups(run.cleaner)
    /\ Write(run.out \o _clean_chunk(Upto(run.rest, ChunkRows), run.kinds))
    /\ UNCHANGED <<raw, path, done, starts>>

\* A small file is held in memory, as its duplicates are dropped over the whole.
HoldChunk ==
    /\ run.at = "reading"
    /\ run.rest /= <<>>
    /\ Dedups(run.cleaner)
    /\ run' = [run EXCEPT !.held = @ \o _clean_chunk(Upto(run.rest, ChunkRows), run.kinds),
                          !.rest = After(@, ChunkRows)]
    /\ UNCHANGED <<raw, blob, path, done, starts>>

\* The distinct rows of the database come in any order.
Commit ==
    /\ run.at = "reading"
    /\ run.rest = <<>>
    /\ \E rows \in SetToSeqs(ToSet(run.held)) : blob' = [plain |-> TRUE, rows |-> run.out \o rows]
    /\ run' = [at |-> "written", cleaner |-> run.cleaner]
    /\ UNCHANGED <<raw, path, done, starts>>

Save ==
    /\ run.at = "written"
    /\ done' = TRUE
    /\ path' = "clean"
    /\ run' = Idle
    /\ UNCHANGED <<raw, blob, starts>>

\* Whatever the polars cleaner raises sends the file to pandas, from the start; what pandas raises
\* fails the stage.
Raises ==
    /\ run.at \in {"probe", "reading"}
    /\ run' = IF run.cleaner = "polars" THEN Fresh("pandas") ELSE Idle
    /\ UNCHANGED <<raw, blob, path, done, starts>>

Crash ==
    /\ run /= Idle
    /\ run' = Idle
    /\ UNCHANGED <<raw, blob, path, done, starts>>

\* A re-ingest of the file clears its flag and keeps its path.
Reingest ==
    /\ done
    /\ run = Idle
    /\ starts < MaxStarts
    /\ done' = FALSE
    /\ UNCHANGED <<raw, blob, path, run, starts>>

Next == Start \/ Probe \/ EmptyWorkbook \/ ReadChunk \/ HoldChunk \/ Commit \/ Save \/ Raises \/ Crash \/ Reingest

Spec == Init /\ [][Next]_vars

-----------------------------------------------------------------------------
\* The reference: the body of the upload cleaned in one piece.
First == IF IsExcel THEN raw.sheets[BestSheet] ELSE raw.sheets[1]

IsCleaned(b, cleaner) ==
    LET lay  == Layout(First, cleaner)
        rows == _clean_chunk(Body(First, lay.header, Len(lay.names), cleaner),
                             _build_converters(lay.names, lay.sample))
    IN  /\ b.rows /= <<>>
        /\ b.rows[1] = lay.names
        /\ IF Dedups(cleaner)
           THEN ToSet(Tail(b.rows)) = ToSet(rows) /\ Len(b.rows) = 1 + Cardinality(ToSet(rows))
           ELSE Tail(b.rows) = rows

\* Whatever crashes, retries and re-ingests come between, readers find the upload as it was or the
\* cleaning of it in one piece: no part of it, and never the cleaning of a cleaned file, in which
\* an amount whose sign is gone would be taken for a date. Holds of the pandas cleaner, whose fast path
\* leaves a cleaned file alone.
CleanedWholeAndOnce ==
    \/ raw.polars
    \/ blob = IF IsExcel THEN Absent ELSE [plain |-> raw.plain, rows |-> raw.sheets[1]]
    \/ blob.plain /\ IsCleaned(blob, "pandas")
=============================================================================
