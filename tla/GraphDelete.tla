------------------------------ MODULE GraphDelete -----------------------------
(***************************************************************************)
(* The cascade that clears a deleted document from the knowledge graph of   *)
(* its tenant, beside other cascades and beside the construction of other   *)
(* documents' graphs.  Each statement is a transaction of its own in Neo4j; *)
(* what a cascade knows of other documents is the mention index it read     *)
(* first.                                                                   *)
(*                                                                          *)
(* Source: server/pdf_chat/control_plane/{delete_service,graph_delete}.py,  *)
(* ingestion/{kg_construction,kg_writer}.py, api/routes.py.                 *)
(***************************************************************************)
EXTENDS Naturals, FiniteSets

CONSTANTS
    Docs,        \* documents of one tenant, all extracted
    ChunksPerDoc,
    Entities,
    Mentioned,   \* the mentions their graphs have: pairs of a chunk and an entity
    Communities,
    CommunityOf, \* the community of each entity
    Late,        \* documents whose graph is built while others are deleted
    BatchSize,   \* delete.batch_size
    Concurrent,  \* bound: cascades that run at the same time
    MaxCrashes   \* bound: cascades that fail half way

Chunks == Docs \X (1..ChunksPerDoc)
DocOf(c) == c[1]

ASSUME ConstantsOK ==
    /\ ChunksPerDoc \in Nat
    /\ Mentioned \subseteq Chunks \X Entities
    /\ CommunityOf \in [Entities -> Communities]
    /\ Late \subseteq Docs
    /\ BatchSize \in Nat \ {0}
    /\ Concurrent \in Nat \ {0}
    /\ MaxCrashes \in Nat

VARIABLES
    chunks,      \* Chunk nodes with their doc_id
    mentions,    \* MENTIONS relationships
    entities,    \* Entity nodes
    members,     \* entities with an IN_COMMUNITY relationship
    communities, \* Community nodes
    nodes,       \* documents whose Document and Page nodes exist
    cards,       \* documents with Section, SectionCard and DocCard nodes
    dpc,         \* where the deletion of each document is
    orphans,     \* the entities its cascade is going to delete
    bpc,         \* where the construction of each document's graph is
    found,       \* the mentions it found in the chunks it loaded
    toWrite,     \* those whose entity, mention or membership is not written yet
    crashes

graphVars == <<chunks, mentions, entities, members, communities, nodes, cards>>
cascadeVars == <<dpc, orphans, crashes>>
buildVars == <<bpc, found, toWrite>>
vars == <<graphVars, cascadeVars, buildVars>>

MentionsOf(d) == {m \in Mentioned : DocOf(m[1]) = d}
Named(M) == {m[2] : m \in M}

Init ==
    /\ chunks = Chunks
    /\ mentions = UNION {MentionsOf(d) : d \in Docs \ Late}
    /\ entities = Named(mentions)
    /\ members = entities
    /\ communities = {CommunityOf[e] : e \in entities}
    /\ nodes = Docs
    /\ cards = Docs \ Late
    /\ dpc = [d \in Docs |-> "live"]
    /\ orphans = [d \in Docs |-> {}]
    /\ bpc = [d \in Docs |-> IF d \in Late THEN "ready" ELSE "built"]
    /\ found = [d \in Docs |-> {}]
    /\ toWrite = [d \in Docs |-> {}]
    /\ crashes = 0
-----------------------------------------------------------------------------
(* construct_knowledge_graph, on the chunks of the document it was given: the *)
(* entities are written one by one, then the mentions, then the sections with  *)
(* the cards, then the memberships.  Without chunks there are no sections, and  *)
(* nothing is written.                                                       *)

BuildLoads(d) ==
    /\ bpc[d] = "ready"
    /\ found' = [found EXCEPT ![d] = {m \in MentionsOf(d) : m[1] \in chunks}]
    /\ toWrite' = [toWrite EXCEPT ![d] = found'[d]]
    /\ bpc' = [bpc EXCEPT ![d] = IF \E c \in chunks : DocOf(c) = d THEN "entities" ELSE "built"]
    /\ UNCHANGED <<graphVars, cascadeVars>>

BuildEntity(d) ==
    /\ bpc[d] = "entities"
    /\ \E m \in toWrite[d] :
           /\ entities' = entities \cup {m[2]}
           /\ toWrite' = [toWrite EXCEPT ![d] = @ \ {m}]
    /\ UNCHANGED <<chunks, mentions, members, communities, nodes, cards, cascadeVars, bpc, found>>

(* Both ends are merged: an entity deleted meanwhile is created again, and so *)
(* is a chunk, without the doc_id by which a cascade would find it.          *)
BuildMention(d) ==
    /\ bpc[d] = "mentions"
    /\ \E m \in toWrite[d] :
           /\ mentions' = mentions \cup {m}
           /\ entities' = entities \cup {m[2]}
           /\ toWrite' = [toWrite EXCEPT ![d] = @ \ {m}]
    /\ UNCHANGED <<chunks, members, communities, nodes, cards, cascadeVars, bpc, found>>

(* write_sections and write_cards: Section, SectionCard and DocCard nodes,    *)
(* keyed by ids of their own and with the doc_id as a property.              *)
BuildCards(d) ==
    /\ bpc[d] = "cards"
    /\ cards' = cards \cup {d}
    /\ bpc' = [bpc EXCEPT ![d] = "communities"]
    /\ toWrite' = [toWrite EXCEPT ![d] = found[d]]
    /\ UNCHANGED <<chunks, mentions, entities, members, communities, nodes, cascadeVars, found>>

BuildMember(d) ==
    /\ bpc[d] = "communities"
    /\ \E m \in toWrite[d] :
           /\ entities' = entities \cup {m[2]}
           /\ members' = members \cup {m[2]}
           /\ communities' = communities \cup {CommunityOf[m[2]]}
           /\ toWrite' = [toWrite EXCEPT ![d] = @ \ {m}]
    /\ UNCHANGED <<chunks, mentions, nodes, cards, cascadeVars, bpc, found>>

(* All of a kind is written: the next kind.                                  *)
FollowedBy ==
    [entities |-> "mentions", mentions |-> "cards", communities |-> "built"]

BuildGoesOn(d) ==
    /\ bpc[d] \in DOMAIN FollowedBy
    /\ toWrite[d] = {}
    /\ bpc' = [bpc EXCEPT ![d] = FollowedBy[@]]
    /\ toWrite' = [toWrite EXCEPT ![d] = IF bpc[d] = "entities" THEN found[d] ELSE {}]
    /\ UNCHANGED <<graphVars, cascadeVars, found>>

Build(d) ==
    \/ BuildLoads(d) \/ BuildEntity(d) \/ BuildMention(d) \/ BuildCards(d) \/ BuildMember(d)
    \/ BuildGoesOn(d)
-----------------------------------------------------------------------------
(* _run_cascade_sync.                                                        *)

Running(d) == dpc[d] \in {"draining", "drained", "unlinked", "cleared"}

(* delete_document: the soft delete, which schedules the cascade.  Only the    *)
(* same request again makes up for a cascade that failed.                    *)
Delete(d) ==
    /\ dpc[d] \in {"live", "failed"}
    /\ dpc' = [dpc EXCEPT ![d] = "scheduled"]
    /\ UNCHANGED <<graphVars, orphans, crashes, buildVars>>

(* build_mention_index_cypher: the documents that mention entity e, by the    *)
(* doc_id of their chunks.                                                   *)
DocsMentioning(e) == {DocOf(m[1]) : m \in {n \in mentions : n[2] = e /\ n[1] \in chunks}}

(* select_orphan_entities.                                                   *)
Orphans_Mentioned(d) == {e \in entities : d \in DocsMentioning(e)}
Orphans_IndexAfterChunks(d) == {e \in entities : DocsMentioning(e) \ {d} = {d}}
Orphans(d) == {e \in entities : DocsMentioning(e) = {d}}

Snapshot(d) ==
    /\ dpc[d] = "scheduled"
    /\ Cardinality({x \in Docs : Running(x)}) < Concurrent
    /\ orphans' = [orphans EXCEPT ![d] = Orphans(d)]
    /\ dpc' = [dpc EXCEPT ![d] = "draining"]
    /\ UNCHANGED <<graphVars, crashes, buildVars>>

(* The loop over batches stops at one that deleted n = 0 chunks.             *)
Drained_FirstBatch(n) == n <= BatchSize
Drained_Negative(n) == n < 0
Drained(n) == n <= 0

DeleteBatch(d) ==
    /\ dpc[d] = "draining"
    /\ \E batch \in SUBSET {c \in chunks : DocOf(c) = d} :
           /\ \/ Cardinality(batch) = BatchSize
              \/ Cardinality(batch) < BatchSize /\ batch = {c \in chunks : DocOf(c) = d}
           /\ chunks' = chunks \ batch
           /\ mentions' = {m \in mentions : m[1] \notin batch}
           /\ dpc' = IF Drained(Cardinality(batch)) THEN [dpc EXCEPT ![d] = "drained"] ELSE dpc
    /\ UNCHANGED <<entities, members, communities, nodes, cards, orphans, crashes, buildVars>>

(* build_document_node_delete_cypher: the Document and Page nodes.  It is the  *)
(* only statement that deletes nodes by the id of the document but the one for  *)
(* chunks: none of the cascade names the Section, SectionCard or DocCard nodes. *)
DeleteNodes(d) ==
    /\ dpc[d] = "drained"
    /\ nodes' = nodes \ {d}
    /\ dpc' = [dpc EXCEPT ![d] = "unlinked"]
    /\ UNCHANGED <<chunks, mentions, entities, members, communities, cards, orphans, crashes, buildVars>>

(* DETACH DELETE: the relationships of an entity go with it, whosoever they   *)
(* are by now.                                                               *)
DeleteOrphans(d) ==
    /\ dpc[d] = "unlinked"
    /\ entities' = entities \ orphans[d]
    /\ members' = members \ orphans[d]
    /\ mentions' = {m \in mentions : m[2] \notin orphans[d]}
    /\ dpc' = [dpc EXCEPT ![d] = "cleared"]
    /\ UNCHANGED <<chunks, communities, nodes, cards, orphans, crashes, buildVars>>

Sweep(d) ==
    /\ dpc[d] = "cleared"
    /\ communities' = communities \cap {CommunityOf[e] : e \in members}
    /\ dpc' = [dpc EXCEPT ![d] = "done"]
    /\ orphans' = [orphans EXCEPT ![d] = {}]
    /\ UNCHANGED <<chunks, mentions, entities, members, nodes, cards, crashes, buildVars>>

(* A statement fails or the process dies: _run_graph_cleanup logs it and the  *)
(* cascade is not run again by itself.                                       *)
Crash(d) ==
    /\ Running(d)
    /\ crashes < MaxCrashes
    /\ dpc' = [dpc EXCEPT ![d] = "failed"]
    /\ orphans' = [orphans EXCEPT ![d] = {}]
    /\ crashes' = crashes + 1
    /\ UNCHANGED <<graphVars, buildVars>>

Cascade(d) ==
    Snapshot(d) \/ DeleteBatch(d) \/ DeleteNodes(d) \/ DeleteOrphans(d) \/ Sweep(d)

Next == \E d \in Docs : Build(d) \/ Delete(d) \/ Cascade(d) \/ Crash(d)

Spec == Init /\ [][Next]_vars

(* A scheduled cascade is run and goes on to its end, unless it fails.       *)
FairSpec == Spec /\ \A d \in Docs : WF_vars(Cascade(d))
-----------------------------------------------------------------------------
TypeOK ==
    /\ chunks \subseteq Chunks
    /\ mentions \subseteq Mentioned
    /\ entities \subseteq Entities
    /\ members \subseteq Entities
    /\ communities \subseteq Communities
    /\ nodes \subseteq Docs
    /\ cards \subseteq Docs
    /\ dpc \in [Docs -> {"live", "scheduled", "draining", "drained", "unlinked", "cleared", "done",
                     "failed"}]
    /\ orphans \in [Docs -> SUBSET Entities]
    /\ bpc \in [Docs -> {"ready", "entities", "mentions", "cards", "communities", "built"}]
    /\ found \in [Docs -> SUBSET Mentioned]
    /\ toWrite \in [Docs -> SUBSET Mentioned]
    /\ crashes \in 0..MaxCrashes

(* A cascade takes no mention from a document that is not deleted, if its     *)
(* graph was complete before any deletion: whatever cascades run beside each  *)
(* other, fail and start over, and whatever graphs are built meanwhile.       *)
BuiltAreKept ==
    [][\A m \in mentions :
          DocOf(m[1]) \notin Late /\ dpc[DocOf(m[1])] = "live" => m \in mentions']_vars

(* When no deletion is under way, no entity that only deleted documents        *)
(* mentioned is left and no community without members: each entity is         *)
(* mentioned, each community has a member.                                   *)
Quiet == \A d \in Docs : dpc[d] \in {"live", "done"}
NoOrphansLeft ==
    Quiet =>
        /\ entities = Named(mentions)
        /\ communities = {CommunityOf[e] : e \in members}

(* A cascade that has ended leaves no chunk with the id of its document and no *)
(* Document or Page node of it, even after failing half way, and beside other  *)
(* cascades.  It says nothing of the Section, SectionCard and DocCard nodes     *)
(* with that id: no statement of the cascade deletes them, and they stay.      *)
DocumentIsGone ==
    \A d \in Docs : dpc[d] = "done" => d \notin nodes /\ \A c \in chunks : DocOf(c) # d

(* Every cascade comes to its end, or fails and says so: the loop over the    *)
(* batches of chunks stops, also beside other cascades.                      *)
DeletionEnds == \A d \in Docs : dpc[d] = "scheduled" ~> dpc[d] \in {"done", "failed"}
===============================================================================
