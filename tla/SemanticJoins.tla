----------------------------- MODULE SemanticJoins -----------------------------
(***************************************************************************)
(* The joins of one container: the last stages of the ingestion chains of some  *)
(* of its files beside a semantic rebuild of all of them. Key fingerprints lead  *)
(* to technical relationships, these to semantic ones with an approval, and the  *)
(* approved ones are declared by the contract.                                *)
(*                                                                          *)
(* Source: server/app/services/{relationship_index,relationship_detector,       *)
(* semantic_layer_builder,semantic_rebuild}.py, contract/builder.py,            *)
(* ingestion_stages.py. A read and the commit that follows it are two steps; the  *)
(* unique and foreign keys of the tables refuse a commit that is too late.      *)
(***************************************************************************)
EXTENDS Naturals, FiniteSets

CONSTANTS
    Files,        \* 1..n, in the order of their ids
    Fresh,        \* files whose chains run
    Column,       \* by file: the name of its key column
    Values,       \* what a key column can hold; equal values overlap
    Ceiling,      \* ubiquity_ceiling, in percent
    MaxTries,     \* attempts of a stage
    None

VARIABLES
    data,      \* by file: the key values of its metadata, None before the analysis
    registry,  \* by file: the values its fingerprints were taken from
    related,   \* file_relationships: pairs of files
    approval,  \* semantic_relationships: pair |-> "none", "candidate", "approved"
    entities,  \* files with a semantic entity
    masters,   \* entities elected as canonical masters
    contract,  \* joins the stored contract declares
    at,        \* by chain (its file) and for the rebuild (0): the step it is at
    cursor,    \* the file the rebuild is at
    read,      \* by worker, of its open transaction: [old, new, ents] rows found, rows to insert,
               \* entities to insert (or the keys to register)
    tries,     \* by chain: failed attempts of the stage
    skipped    \* a stage was given up or a file failed in the rebuild

vars == <<data, registry, related, approval, entities, masters, contract, at, cursor, read, tries,
          skipped>>
tables == <<registry, related, approval, entities, masters, contract>>

ConstantsOK ==
    /\ \E n \in Files : Files = 1..n
    /\ Fresh \subseteq Files /\ Fresh # Files   \* some file has been analysed before
    /\ None \notin Values

Rebuild == 0
Workers == Fresh \cup {Rebuild}
Pairs == {p \in SUBSET Files : Cardinality(p) = 2}
Nothing == [old |-> {}, new |-> {}, ents |-> {}]
Eligible == {f \in Files : data[f] # None}

Init ==
    /\ data \in [Files -> Values \cup {None}]
    /\ \A f \in Files \ Fresh : data[f] # None
    /\ registry = data
    /\ related = {p \in Pairs : \E v \in Values : \A f \in p : data[f] = v}
    /\ approval = [p \in Pairs |-> IF p \in related THEN "candidate" ELSE "none"]
    /\ entities = Eligible
    /\ masters = {} /\ contract = {}
    /\ at = [w \in Workers |-> "start"]
    /\ cursor = 0
    /\ read = [w \in Workers |-> Nothing]
    /\ tries = [f \in Fresh |-> 0]
    /\ skipped = FALSE

(* The file a worker works on.                                               *)
Of(w) == IF w = Rebuild THEN cursor ELSE w
Goes(w, step) == at' = [at EXCEPT ![w] = step]
Remembers(w, r) == read' = [read EXCEPT ![w] = r]

(* The next eligible file of a phase of the rebuild, else its next phase; the     *)
(* chain goes on to its next step.                                           *)
Following == {f \in Eligible : f > cursor}
Then(w, here, next) ==
    /\ Remembers(w, Nothing)
    /\ IF w # Rebuild THEN Goes(w, next) /\ tries' = [tries EXCEPT ![w] = 0] /\ UNCHANGED cursor
       ELSE /\ IF Following # {}
               THEN Goes(w, here) /\ cursor' = CHOOSE f \in Following : \A g \in Following : f <= g
               ELSE Goes(w, next) /\ cursor' = CHOOSE f \in Eligible : \A g \in Eligible : f <= g
            /\ UNCHANGED tries

(* The commit is refused: a chain retries the stage, in the end without it, the   *)
(* rebuild goes on with the next file.                                       *)
Refused(w, stage, again, next) ==
    /\ UNCHANGED <<data, tables>>
    /\ IF w = Rebuild \/ tries[w] + 1 = MaxTries
       THEN Then(w, stage, next) /\ skipped' = TRUE
       ELSE /\ tries' = [tries EXCEPT ![w] = @ + 1]
            /\ Goes(w, again) /\ Remembers(w, Nothing)
            /\ UNCHANGED <<cursor, skipped>>
-----------------------------------------------------------------------------
(* The stages before: new metadata of the file.                               *)
Analyze(f) ==
    /\ at[f] = "start"
    /\ \E v \in Values : data' = [data EXCEPT ![f] = v]
    /\ Goes(f, "match")
    /\ UNCHANGED <<tables, cursor, read, tries, skipped>>

(* _clear_semantic_artifacts: two commits; relationships go with their semantic    *)
(* ones.                                                                     *)
ClearIndexes ==
    /\ at[Rebuild] = "start"
    /\ registry' = [f \in Files |-> None]
    /\ entities' = {} /\ masters' = {}
    /\ approval' = [p \in Pairs |-> "none"]
    /\ Goes(Rebuild, "clear")
    /\ UNCHANGED <<data, related, contract, cursor, read, tries, skipped>>

ClearRelationships ==
    /\ at[Rebuild] = "clear"
    /\ related' = {p \in related : p \cap Eligible = {}}
    /\ approval' = [p \in Pairs |-> IF p \in related' THEN approval[p] ELSE "none"]
    /\ Goes(Rebuild, "register") /\ cursor' = CHOOSE f \in Eligible : \A g \in Eligible : f <= g
    /\ UNCHANGED <<data, registry, entities, masters, contract, read, tries, skipped>>

(* register_file_key_fingerprints: what is deleted and inserted in one commit was    *)
(* taken from the metadata before. detect_relationships begins with it, too.    *)
ReadMetadata(w) ==
    /\ at[w] \in {"register", "match"}
    /\ Remembers(w, [Nothing EXCEPT !.ents = {data[Of(w)]}])
    /\ Goes(w, IF at[w] = "register" THEN "registers" ELSE "matches")
    /\ UNCHANGED <<data, tables, cursor, tries, skipped>>

Register(w) ==
    /\ at[w] \in {"registers", "matches"}
    /\ \E v \in read[w].ents : registry' = [registry EXCEPT ![Of(w)] = v]
    /\ IF at[w] = "registers" THEN Then(w, "register", "match")
       ELSE Goes(w, "find") /\ Remembers(w, Nothing) /\ UNCHANGED <<cursor, tries>>
    /\ UNCHANGED <<data, related, approval, entities, masters, contract, skipped>>

(* find_fingerprint_matches, and the rows there are for the matches.           *)
Matches_Later(f) == {p \in Pairs : f \in p /\ \A g \in p : g >= f /\ registry[g] = registry[f]}
Matches(f) == {p \in Pairs : f \in p /\ \A g \in p : registry[g] = registry[f]}

Find(w) ==
    /\ at[w] = "find"
    /\ LET found == IF registry[Of(w)] = None THEN {} ELSE Matches(Of(w))
       IN  Remembers(w, [Nothing EXCEPT !.old = found \cap related, !.new = found \ related])
    /\ Goes(w, "relate")
    /\ UNCHANGED <<data, tables, cursor, tries, skipped>>

(* One commit for all the pairs of the file. A row that was there is only written   *)
(* when its evidence changed, and then must still be there.                    *)
Relate(w) ==
    /\ at[w] = "relate"
    /\ \/ /\ read[w].new \cap related = {}
          /\ related' = related \cup read[w].new
          /\ Then(w, "match", "look")
          /\ UNCHANGED <<data, registry, approval, entities, masters, contract, skipped>>
       \/ /\ read[w].new \cap related # {} \/ ~(read[w].old \subseteq related)
          /\ Refused(w, "match", "match", "look")

(* classify_join_approval, for pairs with the same column name: a ubiquitous key    *)
(* or one without fingerprints is a candidate; the rest waits for an election.    *)
Registered == {f \in Files : registry[f] # None}
Ubiquity(c) == LET n == Cardinality({f \in Registered : Column[f] = c})
               IN  IF Registered = {} THEN 0 ELSE (100 * n) \div Cardinality(Registered)
Approval(p) ==
    IF /\ \A f, g \in p : Column[f] = Column[g]
       /\ p \subseteq Registered
       /\ \A f \in p : Ubiquity(Column[f]) <= Ceiling
    THEN "approved" ELSE "candidate"

(* upsert_semantic_entity, for the file and both sides of its relationships.      *)
Lacking(w, mine) == ((UNION mine) \cup {Of(w)}) \ entities

(* build_semantic_layer_for_file: the relationships of the file and the entities    *)
(* of both sides.                                                            *)
Look(w) ==
    /\ at[w] = "look"
    /\ LET mine == {p \in related : Of(w) \in p}
       IN  Remembers(w, [old |-> {p \in mine : approval[p] # "none"},
                         new |-> {p \in mine : approval[p] = "none"},
                         ents |-> Lacking(w, mine)])
    /\ Goes(w, "layer")
    /\ UNCHANGED <<data, tables, cursor, tries, skipped>>

LayerConflicts(w) ==
    \/ ~((read[w].new \cup read[w].old) \subseteq related)
    \/ \E p \in read[w].new : approval[p] # "none"
    \/ \E p \in read[w].old : approval[p] = "none"
    \/ read[w].ents \cap entities # {}

Layer(w) ==
    /\ at[w] = "layer"
    /\ \/ /\ ~LayerConflicts(w)
          /\ approval' = [p \in Pairs |-> IF p \in read[w].new \cup read[w].old THEN Approval(p)
                                          ELSE approval[p]]
          /\ entities' = entities \cup read[w].ents
          /\ Then(w, "look", IF w = Rebuild THEN "elect" ELSE "compile")
          /\ UNCHANGED <<data, registry, related, masters, contract, skipped>>
       \/ /\ LayerConflicts(w)
          /\ Refused(w, "look", "look", IF w = Rebuild THEN "elect" ELSE "compile")

(* apply_master_election: one master for each name of an entity, and the joins to   *)
(* its key with enough confidence are approved.                                *)
Elect ==
    /\ at[Rebuild] = "elect"
    /\ \E best \in SUBSET entities :
          /\ \A f \in entities : \E g \in best : Column[g] = Column[f]
          /\ \A f, g \in best : Column[f] = Column[g] => f = g
          /\ masters' = best
    /\ \E promoted \in SUBSET {p \in related : p \cap masters' # {} /\ approval[p] # "none"} :
          approval' = [p \in Pairs |-> IF p \in promoted THEN "approved" ELSE approval[p]]
    /\ Goes(Rebuild, "end")
    /\ UNCHANGED <<data, registry, related, entities, contract, cursor, read, tries, skipped>>

(* compile_and_store_contract, at the end of a chain: what is approved is read and  *)
(* then written over what is stored.                                          *)
Approved == {p \in Pairs : approval[p] = "approved"}

Compile(f) ==
    /\ at[f] = "compile"
    /\ Remembers(f, [Nothing EXCEPT !.new = Approved])
    /\ Goes(f, "store")
    /\ UNCHANGED <<data, tables, cursor, tries, skipped>>

Store(f) ==
    /\ at[f] = "store"
    /\ contract' = read[f].new
    /\ Goes(f, "end") /\ Remembers(f, Nothing)
    /\ UNCHANGED <<data, registry, related, approval, entities, masters, cursor, tries, skipped>>

Next ==
    \/ \E f \in Fresh : Analyze(f) \/ Compile(f) \/ Store(f)
    \/ ClearIndexes \/ ClearRelationships \/ Elect
    \/ \E w \in Workers : \/ ReadMetadata(w) \/ Register(w) \/ Find(w) \/ Relate(w)
                          \/ Look(w) \/ Layer(w)

Spec == Init /\ [][Next]_vars
-----------------------------------------------------------------------------
Settled == \A w \in Workers : at[w] = "end"

(* However chains and the rebuild interleave, when they have come to an end and no    *)
(* stage was given up, every two files whose stored fingerprints overlap are joined  *)
(* by a semantic relationship, and both have their entities.                     *)
MatchesAreRelated ==
    Settled /\ ~skipped =>
        \A p \in Pairs :
            (\A f, g \in p : registry[f] # None /\ registry[f] = registry[g]) =>
                p \in related /\ approval[p] # "none" /\ p \subseteq entities
===============================================================================
