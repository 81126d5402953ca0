-------------------------- MODULE GraphDelete_proofs --------------------------
(***************************************************************************)
(* Theorems about GraphDelete, for every graph and every number of cascades. *)
(***************************************************************************)
EXTENDS GraphDelete, FiniteSetTheorems, TLAPS

LEMMA InitType == Init => TypeOK
<1> SUFFICES ASSUME Init PROVE TypeOK
  OBVIOUS
<1>1. mentions \subseteq Mentioned
  BY DEF Init, MentionsOf
<1>2. entities \subseteq Entities /\ members \subseteq Entities
  BY <1>1, ConstantsOK DEF Init, Named
<1>3. communities \subseteq Communities
  BY <1>2, ConstantsOK DEF Init
<1> QED
  BY <1>1, <1>2, <1>3, ConstantsOK DEF Init, TypeOK

LEMMA NextType ==
    ASSUME TypeOK, [Next]_vars
    PROVE  TypeOK'
<1> USE ConstantsOK DEF TypeOK, graphVars, cascadeVars, buildVars
<1>1. ASSUME NEW d \in Docs, Build(d)
      PROVE  TypeOK'
  <2>1. CASE BuildLoads(d)
    BY <2>1 DEF BuildLoads, MentionsOf
  <2>2. CASE BuildEntity(d)
    BY <2>2 DEF BuildEntity
  <2>3. CASE BuildMention(d)
    BY <2>3 DEF BuildMention
  <2>4. CASE BuildMember(d)
    BY <2>4 DEF BuildMember
  <2>5. CASE BuildGoesOn(d)
    BY <2>5 DEF BuildGoesOn, FollowedBy
  <2>6. CASE BuildCards(d)
    BY <2>6 DEF BuildCards
  <2> QED
    BY <1>1, <2>1, <2>2, <2>3, <2>4, <2>5, <2>6 DEF Build
<1>2. ASSUME NEW d \in Docs, Cascade(d)
      PROVE  TypeOK'
  <2>1. CASE Snapshot(d)
    BY <2>1 DEF Snapshot, Orphans
  <2>2. CASE DeleteBatch(d)
    BY <2>2 DEF DeleteBatch
  <2>3. CASE DeleteNodes(d)
    BY <2>3 DEF DeleteNodes
  <2>4. CASE DeleteOrphans(d)
    BY <2>4 DEF DeleteOrphans
  <2>5. CASE Sweep(d)
    BY <2>5 DEF Sweep
  <2> QED
    BY <1>2, <2>1, <2>2, <2>3, <2>4, <2>5 DEF Cascade
<1>3. ASSUME NEW d \in Docs, Delete(d) \/ Crash(d)
      PROVE  TypeOK'
  BY <1>3 DEF Delete, Crash
<1>4. CASE UNCHANGED vars
  BY <1>4 DEF vars
<1> QED
  BY <1>1, <1>2, <1>3, <1>4 DEF Next

(* Every state has its type.                                                 *)
THEOREM TypeCorrect == Spec => []TypeOK
<1>1. TypeOK /\ [Next]_vars => TypeOK'
  BY NextType
<1> QED
  BY <1>1, InitType, PTL DEF Spec
-----------------------------------------------------------------------------
(* DocumentIsGone is not inductive: what a cascade has cleared must be known  *)
(* at each of its steps, not only at its end.                                *)
Cleared ==
    \A d \in Docs :
        /\ dpc[d] \in {"drained", "unlinked", "cleared", "done"} => \A c \in chunks : DocOf(c) # d
        /\ dpc[d] \in {"unlinked", "cleared", "done"} => d \notin nodes

(* The batch loop stops at an empty batch, and a batch is empty only when no  *)
(* chunk of the document is left.                                            *)
LEMMA DrainedMeansEmpty ==
    ASSUME TypeOK, NEW d \in Docs, NEW batch \in SUBSET {c \in chunks : DocOf(c) = d},
           \/ Cardinality(batch) = BatchSize
           \/ Cardinality(batch) < BatchSize /\ batch = {c \in chunks : DocOf(c) = d},
           Drained(Cardinality(batch))
    PROVE  \A c \in chunks : DocOf(c) # d
<1>1. IsFiniteSet(batch)
  <2>1. IsFiniteSet(1..ChunksPerDoc)
    BY FS_Interval, ConstantsOK
  <2>2. IsFiniteSet({d} \X (1..ChunksPerDoc))
    BY <2>1, FS_Singleton, FS_Product
  <2>3. batch \subseteq {d} \X (1..ChunksPerDoc)
    BY DEF TypeOK, Chunks, DocOf
  <2> QED
    BY <2>2, <2>3, FS_Subset
<1>2. Cardinality(batch) = 0
  BY <1>1, FS_CardinalityType DEF Drained
<1>3. batch = {}
  BY <1>1, <1>2, FS_EmptySet
<1> QED
  BY <1>2, <1>3, ConstantsOK

LEMMA NextCleared ==
    ASSUME TypeOK, Cleared, [Next]_vars
    PROVE  Cleared'
<1> USE DEF Cleared, TypeOK, graphVars, cascadeVars, buildVars
<1>1. ASSUME NEW d \in Docs, Build(d)
      PROVE  Cleared'
  BY <1>1 DEF Build, BuildLoads, BuildEntity, BuildMention, BuildCards, BuildMember, BuildGoesOn
<1>2. ASSUME NEW d \in Docs, Cascade(d)
      PROVE  Cleared'
  <2>1. CASE Snapshot(d)
    BY <2>1 DEF Snapshot
  <2>2. CASE DeleteBatch(d)
    <3>1. PICK batch \in SUBSET {c \in chunks : DocOf(c) = d} :
              /\ \/ Cardinality(batch) = BatchSize
                 \/ Cardinality(batch) < BatchSize /\ batch = {c \in chunks : DocOf(c) = d}
              /\ chunks' = chunks \ batch
              /\ dpc' = IF Drained(Cardinality(batch)) THEN [dpc EXCEPT ![d] = "drained"] ELSE dpc
      BY <2>2 DEF DeleteBatch
    <3>2. Drained(Cardinality(batch)) => \A c \in chunks : DocOf(c) # d
      BY <3>1, DrainedMeansEmpty
    <3>3. dpc[d] = "draining" /\ nodes' = nodes
      BY <2>2 DEF DeleteBatch
    <3> QED
      BY <3>1, <3>2, <3>3
  <2>3. CASE DeleteNodes(d)
    BY <2>3 DEF DeleteNodes
  <2>4. CASE DeleteOrphans(d)
    BY <2>4 DEF DeleteOrphans
  <2>5. CASE Sweep(d)
    BY <2>5 DEF Sweep
  <2> QED
    BY <1>2, <2>1, <2>2, <2>3, <2>4, <2>5 DEF Cascade
<1>3. ASSUME NEW d \in Docs, Delete(d) \/ Crash(d)
      PROVE  Cleared'
  BY <1>3 DEF Delete, Crash
<1>4. CASE UNCHANGED vars
  BY <1>4 DEF vars
<1> QED
  BY <1>1, <1>2, <1>3, <1>4 DEF Next

(* A cascade that has ended leaves no chunk with the id of its document and no *)
(* Document or Page node of it, however often it failed, beside any number of   *)
(* other cascades and builds.  Nothing is claimed of its section and card nodes, *)
(* which no statement of the cascade deletes.                                *)
THEOREM DeletedIsGone == Spec => []DocumentIsGone
<1>1. Init => Cleared
  BY DEF Init, Cleared
<1>2. TypeOK /\ Cleared /\ [Next]_vars => TypeOK' /\ Cleared'
  BY NextType, NextCleared
<1>3. Cleared => DocumentIsGone
  BY DEF Cleared, DocumentIsGone
<1> QED
  BY <1>1, <1>2, <1>3, InitType, PTL DEF Spec
-----------------------------------------------------------------------------
(* Mentions come from chunks that are there, and what a cascade took for the  *)
(* entities of its document alone stays so: but for the documents of Late,    *)
(* the only ones whose graph is still being built.                           *)
Settled ==
    /\ \A m \in mentions : DocOf(m[1]) \notin Late => m[1] \in chunks
    /\ \A d \in Docs \ Late : bpc[d] = "built"
    /\ \A d \in Docs : \A m \in toWrite[d] \cup found[d] : DocOf(m[1]) = d
    /\ \A d \in Docs : \A m \in mentions :
           m[2] \in orphans[d] /\ DocOf(m[1]) \notin Late => DocOf(m[1]) = d

LEMMA NextSettled ==
    ASSUME TypeOK, Settled, [Next]_vars
    PROVE  Settled'
<1> USE DEF Settled, TypeOK, graphVars, cascadeVars, buildVars
<1>1. ASSUME NEW d \in Docs, Build(d)
      PROVE  Settled'
  <2>1. CASE BuildLoads(d)
    BY <2>1 DEF BuildLoads, MentionsOf
  <2>2. CASE BuildEntity(d)
    BY <2>2 DEF BuildEntity
  <2>3. CASE BuildMention(d)
    <3>1. PICK m \in toWrite[d] :
              /\ mentions' = mentions \cup {m}
              /\ toWrite' = [toWrite EXCEPT ![d] = @ \ {m}]
      BY <2>3 DEF BuildMention
    <3>2. DocOf(m[1]) \in Late
      BY <2>3, <3>1 DEF BuildMention
    <3> QED
      BY <2>3, <3>1, <3>2 DEF BuildMention
  <2>4. CASE BuildMember(d)
    BY <2>4 DEF BuildMember
  <2>5. CASE BuildGoesOn(d)
    BY <2>5 DEF BuildGoesOn, FollowedBy
  <2>6. CASE BuildCards(d)
    BY <2>6 DEF BuildCards
  <2> QED
    BY <1>1, <2>1, <2>2, <2>3, <2>4, <2>5, <2>6 DEF Build
<1>2. ASSUME NEW d \in Docs, Cascade(d)
      PROVE  Settled'
  <2>1. CASE Snapshot(d)
    <3>1. ASSUME NEW m \in mentions, m[2] \in Orphans(d), DocOf(m[1]) \notin Late
          PROVE  DocOf(m[1]) = d
      <4>1. DocOf(m[1]) \in DocsMentioning(m[2])
        BY <3>1 DEF DocsMentioning
      <4> QED
        BY <3>1, <4>1 DEF Orphans
    <3> QED
      BY <2>1, <3>1 DEF Snapshot
  <2>2. CASE DeleteBatch(d)
    BY <2>2 DEF DeleteBatch
  <2>3. CASE DeleteNodes(d)
    BY <2>3 DEF DeleteNodes
  <2>4. CASE DeleteOrphans(d)
    BY <2>4 DEF DeleteOrphans
  <2>5. CASE Sweep(d)
    BY <2>5 DEF Sweep
  <2> QED
    BY <1>2, <2>1, <2>2, <2>3, <2>4, <2>5 DEF Cascade
<1>3. ASSUME NEW d \in Docs, Delete(d) \/ Crash(d)
      PROVE  Settled'
  BY <1>3 DEF Delete, Crash
<1>4. CASE UNCHANGED vars
  BY <1>4 DEF vars
<1> QED
  BY <1>1, <1>2, <1>3, <1>4 DEF Next

(* No cascade takes a mention from a document that is not deleted and whose   *)
(* graph was complete before the deletions: for any number of documents,      *)
(* cascades, failures and late builds.                                       *)
THEOREM BuiltKeepTheirMentions == Spec => BuiltAreKept
<1>1. Init => Settled
  BY ConstantsOK DEF Init, Settled, MentionsOf
<1>2. TypeOK /\ Settled /\ [Next]_vars => TypeOK' /\ Settled'
  BY NextType, NextSettled
<1> DEFINE Keeps ==
        \A m \in mentions :
            DocOf(m[1]) \notin Late /\ dpc[DocOf(m[1])] = "live" => m \in mentions'
<1>3. TypeOK /\ Settled /\ [Next]_vars => [Keeps]_vars
  <2> SUFFICES ASSUME TypeOK, Settled, Next,
                      NEW m \in mentions,
                      DocOf(m[1]) \notin Late,
                      dpc[DocOf(m[1])] = "live"
               PROVE  m \in mentions'
    OBVIOUS
  <2>1. ASSUME NEW d \in Docs, DeleteBatch(d)
        PROVE  m \in mentions'
    BY <2>1 DEF DeleteBatch
  <2>2. ASSUME NEW d \in Docs, DeleteOrphans(d)
        PROVE  m \in mentions'
    BY <2>2 DEF DeleteOrphans, Settled
  <2>3. ASSUME NEW d \in Docs,
               \/ Build(d) \/ Delete(d) \/ Crash(d)
               \/ Snapshot(d) \/ DeleteNodes(d) \/ Sweep(d)
        PROVE  m \in mentions'
    BY <2>3 DEF Build, BuildLoads, BuildEntity, BuildMention, BuildCards, BuildMember, BuildGoesOn, Delete,
                Crash, Snapshot, DeleteNodes, Sweep, graphVars
  <2> QED
    BY <2>1, <2>2, <2>3 DEF Next, Cascade
<1> QED
  BY <1>1, <1>2, <1>3, InitType, PTL DEF Spec, BuiltAreKept
-----------------------------------------------------------------------------
(* The deletions of a quiet system: no graph is being built, no cascade fails, *)
(* and one runs at a time.                                                   *)
OneByOne ==
    /\ IsFiniteSet(Docs)
    /\ Late = {} /\ MaxCrashes = 0 /\ Concurrent = 1

Emptying(d) == dpc[d] \in {"draining", "drained", "unlinked"}

(* An entity may be without mentions only between the batches of a cascade and *)
(* the deletion of its orphans, and only if it is one of them; a community      *)
(* without members only between that and the sweep.                          *)
Accounted ==
    /\ \A d \in Docs : bpc[d] = "built" /\ dpc[d] # "failed"
    /\ \A x, y \in Docs : Running(x) /\ Running(y) => x = y
    /\ \A m \in mentions : m[1] \in chunks /\ m[2] \in entities
    /\ members = entities
    /\ \A e \in entities : CommunityOf[e] \in communities
    /\ (\A d \in Docs : ~Emptying(d)) => \A e \in entities : \E m \in mentions : m[2] = e
    /\ \A d \in Docs : Emptying(d) =>
           \A e \in entities \ orphans[d] : \E m \in mentions : m[2] = e /\ DocOf(m[1]) # d
    /\ (\A d \in Docs : dpc[d] # "cleared") =>
           \A c \in communities : \E e \in entities : CommunityOf[e] = c

LEMMA InitAccounted == ASSUME OneByOne, Init PROVE Accounted
<1>1. \A d \in Docs : bpc[d] = "built" /\ dpc[d] = "live"
  BY DEF Init, OneByOne
<1>2. \A m \in mentions : m \in Mentioned
  BY DEF Init, MentionsOf
<1>3. \A m \in mentions : m[1] \in chunks /\ m[2] \in entities
  BY <1>2, ConstantsOK DEF Init, Named
<1>4. \A e \in entities : \E m \in mentions : m[2] = e
  BY DEF Init, Named
<1>5. members = entities /\ communities = {CommunityOf[e] : e \in entities}
  BY DEF Init
<1> QED
  BY <1>1, <1>3, <1>4, <1>5 DEF Accounted, Running, Emptying

(* Nothing else runs when a cascade begins.                                  *)
LEMMA FirstOfAll ==
    ASSUME OneByOne, NEW d \in Docs, Snapshot(d)
    PROVE  \A x \in Docs : ~Running(x)
<1> DEFINE R == {x \in Docs : Running(x)}
<1>1. IsFiniteSet(R)
  BY FS_Subset DEF OneByOne
<1>2. Cardinality(R) \in Nat /\ Cardinality(R) < 1
  BY <1>1, FS_CardinalityType DEF Snapshot, OneByOne
<1>3. R = {}
  BY <1>1, <1>2, FS_EmptySet
<1> QED
  BY <1>3

LEMMA NextAccounted ==
    ASSUME OneByOne, TypeOK, Accounted, [Next]_vars
    PROVE  Accounted'
<1> USE DEF Accounted, TypeOK, Running, Emptying, graphVars, cascadeVars, buildVars
<1>1. ASSUME NEW d \in Docs, Build(d)
      PROVE  FALSE
  BY <1>1 DEF Build, BuildLoads, BuildEntity, BuildMention, BuildCards, BuildMember, BuildGoesOn, FollowedBy
<1>2. ASSUME NEW d \in Docs, Crash(d)
      PROVE  FALSE
  BY <1>2 DEF Crash, OneByOne
<1>3. ASSUME NEW d \in Docs, Delete(d)
      PROVE  Accounted'
  BY <1>3 DEF Delete
<1>4. ASSUME NEW d \in Docs, Snapshot(d)
      PROVE  Accounted'
  <2>1. \A x \in Docs : ~Running(x)
    BY <1>4, FirstOfAll
  <2>2. ASSUME NEW e \in entities, e \notin Orphans(d)
        PROVE  \E m \in mentions : m[2] = e /\ DocOf(m[1]) # d
    <3>1. PICK n \in mentions : n[2] = e
      BY <2>1
    <3>2. DocOf(n[1]) \in DocsMentioning(e)
      BY <3>1 DEF DocsMentioning
    <3>3. DocsMentioning(e) # {d}
      BY <2>2 DEF Orphans
    <3>4. PICK x \in DocsMentioning(e) : x # d
      BY <3>2, <3>3
    <3> QED
      BY <3>4 DEF DocsMentioning
  <2>3. dpc' = [dpc EXCEPT ![d] = "draining"] /\ orphans' = [orphans EXCEPT ![d] = Orphans(d)]
        /\ UNCHANGED <<graphVars, buildVars>>
    BY <1>4 DEF Snapshot
  <2>4. \A x \in Docs : x # d => ~Running(x)' /\ dpc'[x] = dpc[x]
    BY <2>1, <2>3
  <2>5. dpc'[d] = "draining" /\ orphans'[d] = Orphans(d)
    BY <2>3
  <2>6. \A e \in entities' \ orphans'[d] : \E m \in mentions' : m[2] = e /\ DocOf(m[1]) # d
    BY <2>2, <2>3, <2>5
  <2>7. \A x \in Docs : dpc[x] # "cleared"
    BY <2>1
  <2> QED
    BY <2>3, <2>4, <2>5, <2>6, <2>7
<1>5. ASSUME NEW d \in Docs, DeleteBatch(d)
      PROVE  Accounted'
  <2>1. PICK batch \in SUBSET {c \in chunks : DocOf(c) = d} :
            /\ chunks' = chunks \ batch
            /\ mentions' = {m \in mentions : m[1] \notin batch}
            /\ dpc' = IF Drained(Cardinality(batch)) THEN [dpc EXCEPT ![d] = "drained"] ELSE dpc
    BY <1>5 DEF DeleteBatch
  <2>2. dpc[d] = "draining" /\ dpc'[d] \in {"draining", "drained"}
        /\ (\A x \in Docs : x # d => dpc'[x] = dpc[x])
        /\ UNCHANGED <<entities, members, communities, nodes, cards, orphans, crashes, buildVars>>
    BY <1>5, <2>1 DEF DeleteBatch
  <2>3. \A m \in mentions' : m[1] \in chunks' /\ m[2] \in entities'
    BY <2>1, <2>2
  <2>4. ASSUME NEW e \in entities', e \notin orphans'[d]
        PROVE  \E m \in mentions' : m[2] = e /\ DocOf(m[1]) # d
    <3>1. PICK m \in mentions : m[2] = e /\ DocOf(m[1]) # d
      BY <2>2, <2>4
    <3>2. m \in mentions'
      BY <2>1, <3>1
    <3> QED
      BY <3>1, <3>2
  <2>5. \A x \in Docs : x # d => ~Running(x) /\ ~Emptying(x)'
    BY <2>2
  <2> QED
    BY <2>2, <2>3, <2>4, <2>5
<1>6. ASSUME NEW d \in Docs, DeleteNodes(d)
      PROVE  Accounted'
  BY <1>6 DEF DeleteNodes
<1>7. ASSUME NEW d \in Docs, DeleteOrphans(d)
      PROVE  Accounted'
  <2>1. /\ entities' = entities \ orphans[d]
        /\ members' = members \ orphans[d]
        /\ mentions' = {m \in mentions : m[2] \notin orphans[d]}
        /\ dpc[d] = "unlinked" /\ dpc' = [dpc EXCEPT ![d] = "cleared"]
        /\ UNCHANGED <<chunks, communities, nodes, cards, orphans, crashes, buildVars>>
    BY <1>7 DEF DeleteOrphans
  <2>2. dpc'[d] = "cleared" /\ \A x \in Docs : x # d => dpc'[x] = dpc[x] /\ ~Running(x)
    BY <2>1
  <2>3. ASSUME NEW e \in entities'
        PROVE  \E m \in mentions' : m[2] = e
    <3>1. PICK m \in mentions : m[2] = e
      BY <2>1, <2>3
    <3> QED
      BY <2>1, <2>3, <3>1
  <2>4. \A m \in mentions' : m[1] \in chunks' /\ m[2] \in entities'
    BY <2>1
  <2>5. members' = entities' /\ \A e \in entities' : CommunityOf[e] \in communities'
    BY <2>1
  <2> QED
    BY <2>1, <2>2, <2>3, <2>4, <2>5
<1>8. ASSUME NEW d \in Docs, Sweep(d)
      PROVE  Accounted'
  <2>1. /\ communities' = communities \cap {CommunityOf[e] : e \in members}
        /\ dpc[d] = "cleared" /\ dpc' = [dpc EXCEPT ![d] = "done"]
        /\ UNCHANGED <<chunks, mentions, entities, members, nodes, cards, crashes, buildVars>>
        /\ orphans' = [orphans EXCEPT ![d] = {}]
    BY <1>8 DEF Sweep
  <2>2. dpc'[d] = "done" /\ \A x \in Docs : x # d => dpc'[x] = dpc[x] /\ ~Running(x)
    BY <2>1
  <2>3. \A e \in entities : \E m \in mentions : m[2] = e
    BY <2>1, <2>2
  <2>4. \A c \in communities' : \E e \in entities' : CommunityOf[e] = c
    BY <2>1
  <2>5. \A e \in entities' : CommunityOf[e] \in communities'
    BY <2>1
  <2> QED
    BY <2>1, <2>2, <2>3, <2>4, <2>5
<1>9. CASE UNCHANGED vars
  BY <1>9 DEF vars
<1> QED
  BY <1>1, <1>2, <1>3, <1>4, <1>5, <1>6, <1>7, <1>8, <1>9 DEF Next, Cascade

(* Deletions one at a time leave no entity without mentions and no community      *)
(* without members: in any graph, for any order of the deletions and size of batches. *)
THEOREM OrphansGo == ASSUME OneByOne PROVE Spec => []NoOrphansLeft
<1>1. Init => TypeOK /\ Accounted
  BY InitType, InitAccounted
<1>2. TypeOK /\ Accounted /\ [Next]_vars => TypeOK' /\ Accounted'
  BY NextType, NextAccounted
<1>3. TypeOK /\ Accounted => NoOrphansLeft
  <2> SUFFICES ASSUME TypeOK, Accounted, Quiet
               PROVE  entities = Named(mentions) /\ communities = {CommunityOf[e] : e \in members}
    BY DEF NoOrphansLeft
  <2>1. \A d \in Docs : ~Emptying(d) /\ dpc[d] # "cleared"
    BY DEF Quiet, Emptying
  <2>2. entities = Named(mentions)
    BY <2>1 DEF Accounted, Named
  <2>3. \A c \in communities : \E e \in members : CommunityOf[e] = c
    BY <2>1 DEF Accounted
  <2> QED
    BY <2>2, <2>3 DEF Accounted
<1> QED
  BY <1>1, <1>2, <1>3, PTL DEF Spec
===============================================================================
