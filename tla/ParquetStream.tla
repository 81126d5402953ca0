---------------------------- MODULE ParquetStream ----------------------------
(***************************************************************************)
(* One conversion of a CSV blob into the Parquet blob beside it, batch by      *)
(* batch: the writer that gathers what ParquetWriter writes into blocks, the   *)
(* blocks staged under their numbers, the commit that publishes them, and what *)
(* an exception leaves behind.  Attempts may follow each other or overlap.     *)
(*                                                                          *)
(* Source: server/app/services/parquet_service.py.                           *)
(***************************************************************************)
EXTENDS Integers, Sequences, FiniteSets, FiniteSetsExt, SequencesExt

CONSTANTS
    Attempts,    \* calls of _run_conversion for one path
    Batches,     \* by version of the CSV: how many batches the reader yields
    Columns,     \* the columns of the file: [name, kind, few], few: a small number of values
    Exact,       \* by column name: its normalised form
    Within,      \* by column name: the tokens its normalised form contains
    MarksSchema, \* the file name says "schema"
    Tokens,      \* by role: the tokens that name a field, a description, notes
    BlockPieces, \* _MIN_BLOCK, in writes
    MaxPct, BatchPct, \* INGEST_PARQUET_PROGRESS_MAX_PCT, .._BATCH_PCT
    None

VARIABLES
    source,   \* the version of the CSV
    blob,     \* the blocks of the published copy, <<>> without one
    staged,   \* blocks staged since the last commit, by block id
    at,       \* by attempt
    of,       \* the version it reads
    batch,    \* batches written
    open,     \* its ParquetWriter is open
    buf, blocks, \* _buf, and how many _blocks
    closed,   \* its _ParquetBlobWriter is closed
    progress, \* _PROGRESS
    result,   \* what it returned
    tangled   \* history: attempts that can spoil each other have met

attemptVars == <<at, of, batch, open, buf, blocks, closed, progress, result>>
vars == <<source, blob, staged, attemptVars, tangled>>

(* What the proofs take for granted of the constants.                          *)
ConstantsOK ==
    /\ Batches \in Seq(Nat) /\ None \notin DOMAIN Batches
    /\ BlockPieces \in Nat \ {0}
    /\ \E n \in 0..Len(Columns) : DOMAIN Columns = 1..n

Init ==
    /\ source \in DOMAIN Batches /\ blob = <<>> /\ staged = <<>>
    /\ at = [a \in Attempts |-> "new"] /\ of = [a \in Attempts |-> None]
    /\ batch = [a \in Attempts |-> 0] /\ open = [a \in Attempts |-> FALSE]
    /\ buf = [a \in Attempts |-> <<>>] /\ blocks = [a \in Attempts |-> 0]
    /\ closed = [a \in Attempts |-> FALSE]
    /\ progress = [a \in Attempts |-> None] /\ result = [a \in Attempts |-> None]
    /\ tangled = FALSE

Running(a) == at[a] \in {"reading", "footed", "flushed"}
(* A writer that failed and is not collected yet still holds a footer.          *)
Lingers(a) == at[a] = "failed" /\ ~closed[a] /\ buf[a] # <<>>

Rows(v, k) == <<v, k, "rows">>
Footer(v, k) == <<v, k, "footer">>
Whole(v) == [k \in 1..Batches[v] |-> Rows(v, k)] \o <<Footer(v, Batches[v])>>
-----------------------------------------------------------------------------
(* Azure (external): a block staged under an id replaces one staged before; a     *)
(* commit takes each id from the staged blocks, or else from the published ones, *)
(* and forgets every staged block.                                            *)
Put(f, id, block) == [i \in DOMAIN f \cup {id} |-> IF i = id THEN block ELSE f[i]]
HasBlock(f, i) == i \in DOMAIN f \/ i < Len(blob)
commit_block_list(f, n) ==
    /\ \A i \in 0..(n - 1) : HasBlock(f, i)
    /\ blob' = [i \in 1..n |-> IF i - 1 \in DOMAIN f THEN f[i - 1] ELSE blob[i]]
    /\ staged' = <<>>

(* _ParquetBlobWriter.write and _stage_block.                                  *)
Write(a, piece) ==
    LET full == Append(buf[a], piece) IN
    IF Len(full) >= BlockPieces
    THEN /\ staged' = Put(staged, blocks[a], full)
         /\ blocks' = [blocks EXCEPT ![a] = @ + 1]
         /\ buf' = [buf EXCEPT ![a] = <<>>]
    ELSE /\ buf' = [buf EXCEPT ![a] = full]
         /\ UNCHANGED <<staged, blocks>>
-----------------------------------------------------------------------------
Semantic(c) ==
    CASE c.kind = "temporal" -> "date" [] c.kind = "number" -> "measure"
      [] c.kind = "dictionary" -> "category" [] c.kind = "string" /\ c.few -> "category"
      [] OTHER -> "text"

(* The columns as the first batch has them; there are none without a batch.     *)
_profile_from_batch(n) ==
    IF n = 0 THEN <<>>
    ELSE [i \in DOMAIN Columns |-> [name |-> Columns[i].name, semantic |-> Semantic(Columns[i])]]

(* The first column of that very name, or else the first that contains one.      *)
_pick(profiles, tokens, exclude) ==
    LET Free == {i \in DOMAIN profiles : profiles[i].name \notin exclude}
        Named == {i \in Free : Exact[profiles[i].name] \in tokens}
        Like == {i \in Free : Within[profiles[i].name] \cap tokens # {}}
    IN  IF Named # {} THEN profiles[Min(Named)].name
        ELSE IF Like # {} THEN profiles[Min(Like)].name ELSE None

detect_schema_dictionary(profiles) ==
    LET field == _pick(profiles, Tokens.field, {})
        description == _pick(profiles, Tokens.description, {field} \ {None})
    IN  IF ~MarksSchema \/ field = None \/ description = None THEN None
        ELSE [field |-> field, description |-> description,
              notes |-> _pick(profiles, Tokens.notes, {field, description})]
-----------------------------------------------------------------------------
(* The size of the CSV is read before there is any progress to show; the         *)
(* download and the reader may fail before there is a writer.                   *)
Begin(a) ==
    /\ at[a] = "new"
    /\ of' = [of EXCEPT ![a] = source]
    /\ \E st \in {"failed", "reading"} :
          /\ at' = [at EXCEPT ![a] = st]
          /\ closed' = [closed EXCEPT ![a] = st = "failed"]
          /\ progress' \in {[progress EXCEPT ![a] = 0]} \cup {p \in {progress} : st = "failed"}
          /\ tangled' = (tangled \/ (st = "reading" /\ \E b \in Attempts \ {a} :
                            Lingers(b) \/ (Running(b) /\ of[b] # source)))
    /\ UNCHANGED <<source, blob, staged, batch, open, buf, blocks, result>>

(* What was downloaded before the CSV is replaced is still converted; the rest    *)
(* of the download fails.                                                     *)
WriteBatch(a) ==
    /\ at[a] = "reading" /\ batch[a] < Batches[of[a]]
    /\ Write(a, Rows(of[a], batch[a] + 1))
    /\ open' = [open EXCEPT ![a] = TRUE]
    /\ batch' = [batch EXCEPT ![a] = @ + 1]
    /\ progress' = [progress EXCEPT ![a] = Min({MaxPct, batch[a] * BatchPct})]
    /\ UNCHANGED <<source, blob, at, of, closed, result, tangled>>

(* Without a batch there is no ParquetWriter to close.                         *)
WriteFooter(a) ==
    /\ at[a] = "reading" /\ batch[a] = Batches[of[a]]
    /\ at' = [at EXCEPT ![a] = "footed"]
    /\ IF open[a] THEN Write(a, Footer(of[a], batch[a])) ELSE UNCHANGED <<buf, blocks, staged>>
    /\ open' = [open EXCEPT ![a] = FALSE]
    /\ UNCHANGED <<source, blob, of, batch, closed, progress, result, tangled>>

(* close: the rest is staged, then everything published at once.                *)
Flush(a) ==
    /\ at[a] = "footed"
    /\ at' = [at EXCEPT ![a] = "flushed"]
    /\ IF buf[a] = <<>> THEN UNCHANGED <<buf, blocks, staged>>
       ELSE /\ staged' = Put(staged, blocks[a], buf[a])
            /\ blocks' = [blocks EXCEPT ![a] = @ + 1]
            /\ buf' = [buf EXCEPT ![a] = <<>>]
    /\ UNCHANGED <<source, blob, of, batch, open, closed, progress, result, tangled>>

Publish(a) ==
    /\ at[a] = "flushed"
    /\ IF blocks[a] = 0 THEN UNCHANGED <<blob, staged>> ELSE commit_block_list(staged, blocks[a])
    /\ at' = [at EXCEPT ![a] = "published"]
    /\ closed' = [closed EXCEPT ![a] = TRUE]
    /\ UNCHANGED <<source, of, batch, open, buf, blocks, progress, result, tangled>>

(* As if an exception dropped neither the buffer nor the list of blocks.          *)
Fail_DropsNothing(a) ==
    /\ Running(a)
    /\ at' = [at EXCEPT ![a] = "failed"]
    /\ UNCHANGED <<source, blob, staged, of, batch, open, buf, blocks, closed, progress, result, tangled>>

(* Any call fails: the rest and the list of blocks are dropped, but an open      *)
(* ParquetWriter is closed, and what it still writes is a footer.               *)
Fail(a) ==
    /\ Running(a)
    /\ at' = [at EXCEPT ![a] = "failed"]
    /\ \E rest \in {<<>>} \cup {<<Footer(of[a], batch[a])>> : x \in {y \in {a} : open[y]}} :
          /\ buf' = [buf EXCEPT ![a] = rest]
          /\ tangled' = (tangled \/ (rest # <<>> /\ \E b \in Attempts \ {a} : Running(b) \/ at[b] = "published"))
    /\ blocks' = [blocks EXCEPT ![a] = 0]
    /\ open' = [open EXCEPT ![a] = FALSE]
    /\ UNCHANGED <<source, blob, staged, of, batch, closed, progress, result>>

(* The writer is an IOBase: when it is collected, close stages and publishes     *)
(* what the buffer holds.  An exception of a finalizer goes unseen.             *)
Collect(a) ==
    /\ at[a] = "failed" /\ ~closed[a]
    /\ closed' = [closed EXCEPT ![a] = TRUE]
    /\ buf' = [buf EXCEPT ![a] = <<>>]
    /\ LET rest == IF buf[a] = <<>> THEN staged ELSE Put(staged, blocks[a], buf[a])
           count == IF buf[a] = <<>> THEN blocks[a] ELSE blocks[a] + 1
       IN  UNCHANGED <<blob, staged>> \/ (count > 0 /\ commit_block_list(rest, count))
    /\ UNCHANGED <<source, at, of, batch, open, blocks, progress, result, tangled>>

(* The size of the copy is asked last, and a copy that is not there has none.    *)
Return(a) ==
    /\ at[a] = "published"
    /\ \/ /\ blob # <<>>
          /\ at' = [at EXCEPT ![a] = "done"]
          /\ progress' = [progress EXCEPT ![a] = None]
          /\ LET profiles == _profile_from_batch(batch[a]) IN
             result' = [result EXCEPT ![a] = [rows |-> batch[a], profiles |-> profiles,
                                              schema |-> detect_schema_dictionary(profiles)]]
       \/ at' = [at EXCEPT ![a] = "failed"] /\ UNCHANGED <<progress, result>>
    /\ UNCHANGED <<source, blob, staged, of, batch, open, buf, blocks, closed, tangled>>

(* The process of an attempt is lost: nothing of it is ever collected.           *)
Die(a) ==
    /\ Running(a)
    /\ at' = [at EXCEPT ![a] = "dead"]
    /\ closed' = [closed EXCEPT ![a] = TRUE]
    /\ progress' = [progress EXCEPT ![a] = None]
    /\ UNCHANGED <<source, blob, staged, of, batch, open, buf, blocks, result, tangled>>

(* Another version of the file is uploaded.                                    *)
Upload ==
    /\ source' \in {v \in DOMAIN Batches : v > source}
    /\ UNCHANGED <<blob, staged, attemptVars, tangled>>

Next ==
    \/ Upload
    \/ \E a \in Attempts : \/ Begin(a) \/ WriteBatch(a) \/ WriteFooter(a) \/ Flush(a) \/ Publish(a)
                           \/ Fail(a) \/ Collect(a) \/ Return(a) \/ Die(a)

Spec == Init /\ [][Next]_vars
-----------------------------------------------------------------------------
Content == FlattenSeq(blob)

(* Half of the rows are never published, also not out of the blocks that a lost,   *)
(* a failed or another attempt at the same version left staged: a copy is whole,   *)
(* or, after a failure, a footer without rows.                                   *)
NothingHalfPublished ==
    ~tangled => \/ blob = <<>>
                \/ \E v \in DOMAIN Batches : Content = Whole(v) /\ Batches[v] > 0
                \/ \E a \in Attempts : at[a] = "failed" /\ Content = <<Footer(of[a], batch[a])>>

(* When an attempt comes to report its version converted, the copy is there, with  *)
(* every row it counts, whichever attempt at that version published last.        *)
PublishedBeforeReported ==
    \A a \in Attempts :
        at[a] = "published" /\ ~tangled /\ batch[a] > 0 /\ (\A b \in Attempts : of[b] \in {None, of[a]})
            => Content = Whole(of[a]) /\ batch[a] = Batches[of[a]]

(* A dictionary has a column for the fields and another for what they mean, both  *)
(* of the file, and its progress is gone once an attempt succeeded.              *)
DictionaryIsOfTheFile ==
    \A a \in Attempts : at[a] = "done" =>
        /\ progress[a] = None
        /\ LET d == result[a].schema IN d # None =>
              /\ MarksSchema /\ d.field # d.description /\ d.notes \notin {d.field, d.description}
              /\ {d.field, d.description} \subseteq {Columns[i].name : i \in DOMAIN Columns}

CopiesAreWhole == NothingHalfPublished /\ PublishedBeforeReported /\ DictionaryIsOfTheFile
=============================================================================
