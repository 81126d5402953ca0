---------------------------- MODULE Catalog_proofs ----------------------------
(* Proofs about what is understood of files: their meaning and their joins.                       *)
EXTENDS Services, FiniteSets, FiniteSetTheorems, Sequences, WellFoundedInduction, TLAPS

-----------------------------------------------------------------------------
(* A set of numbers has a least one.                                          *)

Smaller == {ss \in Nat \X Nat : ss[1] < ss[2]}

LEMMA SmallerIsWellFounded == IsWellFoundedOn(Smaller, Nat)
<1>1. OpToRel(<, Nat) = Smaller
  BY DEF OpToRel, Smaller
<1> QED
  BY NatLessThanWellFounded, <1>1

LEMMA LeastNumber == ASSUME NEW S \in SUBSET Nat, S # {} PROVE \E n \in S : \A m \in S : n <= m
<1>1. PICK n \in S : \A m \in S : <<m, n>> \notin Smaller
  BY SmallerIsWellFounded, WFMin
<1>2. ASSUME NEW m \in S, m < n
      PROVE  FALSE
  <2>1. <<m, n>> \in Nat \X Nat /\ <<m, n>>[1] < <<m, n>>[2]
    BY <1>2
  <2> QED
    BY <1>1, <2>1 DEF Smaller
<1> QED
  BY <1>2
-----------------------------------------------------------------------------
(* FileMeaning.                                                              *)

(* Two files, or two columns of one, use a label for kinds that exclude each other. *)
Conflict(a, b) ==
    \E n, m \in ColumnNames :
        /\ roles[a][n] # None /\ roles[b][m] # None
        /\ roles[a][n].label = roles[b][m].label /\ roles[a][n].kind # roles[b][m].kind
        /\ {roles[a][n].kind, roles[b][m].kind} \subseteq Meaning!Exclusive

LEMMA ConflictIsMutual == \A a, b : Conflict(a, b) => Conflict(b, a)
BY DEF Conflict

Charges(findings, a, b) == \E x \in findings : x.severity = "error" /\ a \in x.files /\ b \in x.files

(* An audit charges both with an error.                                        *)
LEMMA AuditsCharge ==
    ASSUME NEW a \in MeaningFiles, NEW b \in MeaningFiles, Conflict(a, b) PROVE Charges(Meaning!Findings, a, b)
<1>1. PICK n \in ColumnNames, m \in ColumnNames :
        /\ roles[a][n] # None /\ roles[b][m] # None
        /\ roles[a][n].label = roles[b][m].label /\ roles[a][n].kind # roles[b][m].kind
        /\ roles[a][n].kind \in Meaning!Exclusive /\ roles[b][m].kind \in Meaning!Exclusive
  BY DEF Conflict
<1> DEFINE label == roles[a][n].label
           uses == Meaning!Uses(label, Meaning!Exclusive)
           finding == [severity |-> "error", code |-> "conflicting_role_kinds", files |-> Meaning!FilesIn(uses)]
<1>2. label \in Meaning!Labels
  <2>1. <<a, n>> \in {x \in MeaningFiles \X ColumnNames : roles[x[1]][x[2]] # None}
    BY <1>1
  <2> QED
    BY <2>1 DEF Meaning!Labels
<1>3. <<roles[a][n].kind, a>> \in uses /\ <<roles[b][m].kind, b>> \in uses
  <2> DEFINE columns == {y \in MeaningFiles \X ColumnNames :
                            roles[y[1]][y[2]] # None /\ roles[y[1]][y[2]].label = label
                            /\ roles[y[1]][y[2]].kind \in Meaning!Exclusive}
  <2>1. <<a, n>> \in columns /\ <<b, m>> \in columns
    BY <1>1
  <2>2. uses = {<<roles[x[1]][x[2]].kind, x[1]>> : x \in columns}
    BY DEF Meaning!Uses
  <2> HIDE DEF columns, uses
  <2> QED
    BY <2>1, <2>2
<1> HIDE DEF uses, label
<1>4. a \in Meaning!FilesIn(uses) /\ b \in Meaning!FilesIn(uses)
  BY <1>3 DEF Meaning!FilesIn
<1>5. finding \in Meaning!When(\E u, v \in uses : u[1] # v[1],
                               Meaning!Finding("error", "conflicting_role_kinds", Meaning!FilesIn(uses)))
  <2>1. \E u, v \in uses : u[1] # v[1]
    BY <1>1, <1>3
  <2> QED
    BY <2>1 DEF Meaning!When, Meaning!Finding
<1>6. finding \in Meaning!Conflicts
  BY <1>2, <1>5 DEF Meaning!Conflicts, uses
<1>7. finding \in Meaning!Findings
  BY <1>6 DEF Meaning!Findings
<1> QED
  BY <1>4, <1>7 DEF Charges

(* What is under way, of a file and of the container.                          *)
Runs == {chain[f] : f \in MeaningFiles} \cup {rebuild}

IsRun(run) ==
    /\ run = [at |-> run.at, seen |-> run.seen, level |-> run.level, loaded |-> run.loaded,
              findings |-> run.findings, fresh |-> run.fresh]
    /\ run.fresh \subseteq MeaningFiles

RebuildIsRun ==
    /\ rebuild = [at |-> rebuild.at, left |-> rebuild.left, level |-> rebuild.level, loaded |-> rebuild.loaded,
                  findings |-> rebuild.findings, fresh |-> rebuild.fresh]
    /\ rebuild.fresh \subseteq MeaningFiles
    /\ rebuild.at = "resolving" => rebuild.fresh = {}

RunTypes ==
    /\ roles = [f \in MeaningFiles |-> roles[f]] /\ DOMAIN chain = MeaningFiles /\ DOMAIN trust = MeaningFiles
    /\ judged \subseteq MeaningFiles
    /\ \A f \in MeaningFiles : IsRun(chain[f])
    /\ RebuildIsRun

(* An audit charges the conflicts among the files whose roles are still those it saw. *)
AuditsSee == \A run \in Runs : \A a, b \in run.fresh : Conflict(a, b) => Charges(run.findings, a, b)

(* Of two audits the later has seen the present roles of whatever the earlier has.  *)
LaterSeesMore == \A run, other \in Runs : run.fresh \subseteq other.fresh \/ other.fresh \subseteq run.fresh

(* A file that is let through although it contradicts another was judged before the  *)
(* other had its roles: the other is not judged by them, unless it is quarantined,    *)
(* and an audit that has seen them has seen those of the first.                      *)
LetThroughEarlier ==
    \A a \in judged : trust[a] # "quarantined" =>
        \A b \in MeaningFiles : Conflict(a, b) =>
            /\ b \in judged => trust[b] = "quarantined"
            /\ \A run \in Runs : b \in run.fresh => a \in run.fresh

Caught == AuditsSee /\ LaterSeesMore /\ LetThroughEarlier

LEMMA CaughtWithRuns ==
    ASSUME RunTypes, Caught, UNCHANGED <<roles, judged, trust>>,
           \A run \in Runs' :
               \/ run.fresh = {}
               \/ run.fresh = MeaningFiles /\ run.findings = Meaning!Findings
               \/ \E old \in Runs : run.fresh = old.fresh /\ run.findings = old.findings
    PROVE  Caught'
<1>1. \A a, b : Conflict(a, b)' <=> Conflict(a, b)
  BY DEF Conflict
<1>2. \A run \in Runs : run.fresh \subseteq MeaningFiles
  BY DEF Runs, RunTypes, IsRun, RebuildIsRun
<1>3. AuditsSee'
  BY <1>1, <1>2, AuditsCharge DEF Caught, AuditsSee
<1>4. LaterSeesMore'
  BY <1>2 DEF Caught, LaterSeesMore
<1>5. LetThroughEarlier'
  BY <1>1, <1>2 DEF Caught, LetThroughEarlier, RunTypes
<1> QED
  BY <1>3, <1>4, <1>5 DEF Caught

LEMMA CaughtWithRoles ==
    ASSUME RunTypes, Caught, NEW f, NEW rs, Meaning!SetsRoles(f, rs), trust' = trust,
           \A run \in Runs' : \E old \in Runs :
               run.fresh = Meaning!Outdated(old.fresh, f, rs) /\ run.findings = old.findings
    PROVE  Caught'
<1>0. CASE f \notin MeaningFiles
  <2>1. roles' = roles
    BY <1>0 DEF Meaning!SetsRoles, RunTypes
  <2>2. judged' = judged
    BY <1>0 DEF Meaning!SetsRoles, RunTypes
  <2>3. \A run \in Runs : Meaning!Outdated(run.fresh, f, rs) = run.fresh
    <3>1. \A run \in Runs : run.fresh \subseteq MeaningFiles
      BY DEF Runs, RunTypes, IsRun, RebuildIsRun
    <3> QED
      BY <1>0, <3>1 DEF Meaning!Outdated
  <2> QED
    BY <2>1, <2>2, <2>3, CaughtWithRuns
<1>1. CASE rs = roles[f]
  <2>1. roles' = roles
    BY <1>1 DEF Meaning!SetsRoles, RunTypes
  <2>2. judged' = judged
    BY <1>1 DEF Meaning!SetsRoles
  <2> QED
    BY <1>1, <2>1, <2>2, CaughtWithRuns DEF Meaning!Outdated
<1>2. CASE f \in MeaningFiles /\ rs # roles[f]
  <2>1. judged' = judged \ {f}
    BY <1>2 DEF Meaning!SetsRoles
  <2>2. \A a, b \in MeaningFiles \ {f} : Conflict(a, b)' <=> Conflict(a, b)
    BY DEF Meaning!SetsRoles, Conflict, RunTypes
  <2>3. \A run \in Runs' : \E old \in Runs : run.fresh = old.fresh \ {f} /\ run.findings = old.findings
    BY <1>2 DEF Meaning!Outdated
  <2>4. \A run \in Runs : run.fresh \subseteq MeaningFiles
    BY DEF Runs, RunTypes, IsRun, RebuildIsRun
  <2>5. AuditsSee'
    BY <2>2, <2>3, <2>4 DEF Caught, AuditsSee
  <2>6. LaterSeesMore'
    BY <2>3 DEF Caught, LaterSeesMore
  <2>7. LetThroughEarlier'
    <3> SUFFICES ASSUME NEW a \in judged', trust'[a] # "quarantined", NEW b \in MeaningFiles, Conflict(a, b)'
                 PROVE  /\ b \in judged' => trust'[b] = "quarantined"
                        /\ \A run \in Runs' : b \in run.fresh => a \in run.fresh
      BY DEF LetThroughEarlier
    <3>1. a \in MeaningFiles \ {f} /\ a \in judged /\ trust[a] # "quarantined"
      BY <2>1 DEF RunTypes
    <3>2. CASE b = f
      BY <2>1, <2>3, <3>2
    <3>3. CASE b # f
      <4>1. Conflict(a, b)
        BY <2>2, <3>1, <3>3
      <4>2. (b \in judged => trust[b] = "quarantined") /\ \A run \in Runs : b \in run.fresh => a \in run.fresh
        BY <3>1, <4>1 DEF Caught, LetThroughEarlier
      <4> QED
        BY <2>1, <2>3, <3>1, <3>3, <4>2
    <3> QED
      BY <3>2, <3>3
  <2> QED
    BY <2>5, <2>6, <2>7 DEF Caught
<1> QED
  BY <1>0, <1>1, <1>2

(* A run judges some files: of each it leaves the trust, and nothing new is judged;   *)
(* or what is judged is fresh, and quarantined if the run's audit charged it.        *)
LEMMA CaughtWithVerdicts ==
    ASSUME RunTypes, Caught, NEW run \in Runs, roles' = roles, judged' \subseteq MeaningFiles,
           \A r \in Runs' : r.fresh = {} \/ r \in Runs,
           \A f \in MeaningFiles :
               \/ trust'[f] = trust[f] /\ (f \in judged' => f \in judged)
               \/ f \in judged' => f \in run.fresh /\ ((\E g : Charges(run.findings, f, g)) => trust'[f] = "quarantined")
    PROVE  Caught'
<1>1. \A a, b : Conflict(a, b)' <=> Conflict(a, b)
  BY DEF Conflict
<1>2. AuditsSee'
  BY <1>1 DEF Caught, AuditsSee
<1>3. LaterSeesMore'
  BY DEF Caught, LaterSeesMore
<1>4. LetThroughEarlier'
  <2> SUFFICES ASSUME NEW a \in judged', trust'[a] # "quarantined", NEW b \in MeaningFiles, Conflict(a, b)
               PROVE  /\ b \in judged' => trust'[b] = "quarantined"
                      /\ \A r \in Runs' : b \in r.fresh => a \in r.fresh
    BY <1>1 DEF LetThroughEarlier
  <2>1. a \in MeaningFiles /\ Conflict(b, a)
    BY ConflictIsMutual
  <2>2. \A x, y \in run.fresh : Conflict(x, y) => Charges(run.findings, x, y)
    BY DEF Caught, AuditsSee
  <2>3. CASE a \in judged /\ trust'[a] = trust[a]
    <3>1. (b \in judged => trust[b] = "quarantined") /\ \A r \in Runs : b \in r.fresh => a \in r.fresh
      BY <2>3 DEF Caught, LetThroughEarlier
    <3>2. ASSUME b \in judged', trust'[b] # "quarantined" PROVE FALSE
      <4>1. b \in run.fresh /\ ~ \E g : Charges(run.findings, b, g)
        BY <3>1, <3>2
      <4> QED
        BY <2>1, <2>2, <3>1, <4>1
    <3> QED
      BY <3>1, <3>2
  <2>4. CASE ~(a \in judged /\ trust'[a] = trust[a])
    <3>1. a \in run.fresh /\ ~ \E g : Charges(run.findings, a, g)
      BY <2>1, <2>4
    <3>2. b \notin run.fresh
      BY <2>2, <3>1
    <3>3. \A r \in Runs : b \in r.fresh => a \in r.fresh
      BY <3>1, <3>2 DEF Caught, LaterSeesMore
    <3>4. ASSUME b \in judged', trust'[b] # "quarantined" PROVE FALSE
      <4>1. b \in judged /\ trust'[b] = trust[b]
        BY <3>2, <3>4
      <4>2. a \in run.fresh => b \in run.fresh
        BY <2>1, <3>4, <4>1 DEF Caught, LetThroughEarlier
      <4> QED
        BY <3>1, <3>2, <4>2
    <3> QED
      BY <3>3, <3>4
  <2> QED
    BY <2>3, <2>4
<1> QED
  BY <1>2, <1>3, <1>4 DEF Caught
(* The chain of one file moves on.                                            *)
LEMMA ChainMoves ==
    ASSUME RunTypes, NEW f \in MeaningFiles, NEW new, IsRun(new), chain' = [chain EXCEPT ![f] = new], rebuild' = rebuild
    PROVE  /\ DOMAIN chain' = MeaningFiles /\ \A g \in MeaningFiles : IsRun(chain'[g])
           /\ RebuildIsRun'
           /\ \A run \in Runs' : run = new \/ run \in Runs
BY DEF RunTypes, Runs, RebuildIsRun, IsRun

LEMMA RebuildMoves ==
    ASSUME RunTypes, NEW new, rebuild' = new, chain' = chain
    PROVE  \A run \in Runs' : run = new \/ run \in Runs
BY DEF Runs

Run(a, s, l, o, g, fr) == [at |-> a, seen |-> s, level |-> l, loaded |-> o, findings |-> g, fresh |-> fr]

LEMMA RunIsRun ==
    ASSUME NEW a, NEW s, NEW l, NEW o, NEW g, NEW fr \in SUBSET MeaningFiles
    PROVE  IsRun(Run(a, s, l, o, g, fr)) /\ Run(a, s, l, o, g, fr).fresh = fr /\ Run(a, s, l, o, g, fr).findings = g
BY DEF Run, IsRun

(* Steps of a chain that change no role and judge nothing.                       *)
LEMMA ChainStep ==
    ASSUME RunTypes, Caught, NEW f \in MeaningFiles,
           \/ Meaning!Begins(f) \/ Meaning!CopiesClass(f) \/ Meaning!AsksForClass(f) \/ Meaning!Classifies(f)
           \/ Meaning!Relates(f) \/ Meaning!Scores(f) \/ Meaning!Audits(f) \/ Meaning!GivesUp(f)
    PROVE  RunTypes' /\ Caught'
<1> DEFINE
    AsItWas(new) == IsRun(new) /\ \/ new.fresh = {}
                                  \/ new.fresh = MeaningFiles /\ new.findings = Meaning!Findings
                                  \/ new.fresh = chain[f].fresh /\ new.findings = chain[f].findings
<1>1. IsRun(chain[f]) /\ f \in DOMAIN chain
  BY DEF RunTypes
<1>a. PICK a, s, l, o, g, fr : chain[f] = Run(a, s, l, o, g, fr) /\ fr \subseteq MeaningFiles
  BY <1>1 DEF IsRun, Run
<1>b. fr = chain[f].fresh /\ g = chain[f].findings
  BY <1>a DEF Run
<1>c. /\ \A x, y : AsItWas(Run(x, y, l, o, g, fr))
      /\ \A x, y : AsItWas(Run(x, y, l, o, Meaning!Findings, MeaningFiles))
      /\ \A x, y, z, u, v : AsItWas(Run(x, y, z, u, v, {}))
  BY <1>a, <1>b, RunIsRun
<1>d. Meaning!Idle = Run("idle", Meaning!NoRoles, "high", "trusted", {}, {})
  BY DEF Meaning!Idle, Run
<1> HIDE DEF AsItWas
<1>2. \E new : chain' = [chain EXCEPT ![f] = new] /\ AsItWas(new)
  <2>1. CASE Meaning!Begins(f)
    <3> DEFINE new == [Meaning!Idle EXCEPT !.at = "ontology"]
    <3>1. new = Run("ontology", Meaning!NoRoles, "high", "trusted", {}, {})
      BY <1>d DEF Run
    <3>2. chain' = [chain EXCEPT ![f] = new]
      BY <1>1, <2>1 DEF Meaning!Begins
    <3> HIDE DEF new
    <3> QED
      BY <1>c, <3>1, <3>2
  <2>2. CASE Meaning!CopiesClass(f)
    <3> DEFINE new == [chain[f] EXCEPT !.at = "relate"]
    <3>1. new = Run("relate", s, l, o, g, fr)
      BY <1>a DEF Run
    <3>2. chain' = [chain EXCEPT ![f] = new]
      BY <1>1, <2>2 DEF Meaning!CopiesClass
    <3> HIDE DEF new
    <3> QED
      BY <1>c, <3>1, <3>2
  <2>3. CASE Meaning!AsksForClass(f)
    <3> DEFINE moved == [chain[f] EXCEPT !.at = "asked"]
               new == [moved EXCEPT !.seen = roles[f]]
    <3>a. moved = Run("asked", s, l, o, g, fr)
      BY <1>a DEF Run
    <3>1. new = Run("asked", roles[f], l, o, g, fr)
      <4> HIDE DEF moved
      <4> QED
        BY <3>a DEF Run
    <3>2. chain' = [chain EXCEPT ![f] = new]
      BY <1>1, <2>3 DEF Meaning!AsksForClass
    <3> HIDE DEF new
    <3> QED
      BY <1>c, <3>1, <3>2
  <2>4. CASE Meaning!Classifies(f)
    <3> DEFINE moved == [chain[f] EXCEPT !.at = "relate"]
               new == [moved EXCEPT !.seen = Meaning!NoRoles]
    <3>a. moved = Run("relate", s, l, o, g, fr)
      BY <1>a DEF Run
    <3>1. new = Run("relate", Meaning!NoRoles, l, o, g, fr)
      <4> HIDE DEF moved
      <4> QED
        BY <3>a DEF Run
    <3>2. chain' = [chain EXCEPT ![f] = new]
      BY <1>1, <2>4 DEF Meaning!Classifies
    <3> HIDE DEF new
    <3> QED
      BY <1>c, <3>1, <3>2
  <2>5. CASE Meaning!Relates(f)
    <3> DEFINE new == [chain[f] EXCEPT !.at = "complete"]
    <3>1. new = Run("complete", s, l, o, g, fr)
      BY <1>a DEF Run
    <3>2. chain' = [chain EXCEPT ![f] = new]
      BY <1>1, <2>5 DEF Meaning!Relates
    <3> HIDE DEF new
    <3> QED
      BY <1>c, <3>1, <3>2
  <2>6. CASE Meaning!Scores(f)
    <3> DEFINE new == IF policy.quarantine
                      THEN [Meaning!Idle EXCEPT !.at = "scored", !.level = Meaning!Level(f), !.loaded = trust[f]]
                      ELSE Meaning!Idle
    <3>1. \/ new = Run("scored", Meaning!NoRoles, Meaning!Level(f), trust[f], {}, {})
          \/ new = Run("idle", Meaning!NoRoles, "high", "trusted", {}, {})
      BY <1>d DEF Run
    <3>2. chain' = [chain EXCEPT ![f] = new]
      BY <1>1, <2>6 DEF Meaning!Scores
    <3> HIDE DEF new
    <3> QED
      BY <1>c, <3>1, <3>2
  <2>7. CASE Meaning!Audits(f)
    <3> DEFINE moved == [chain[f] EXCEPT !.at = "audited"]
               found == [moved EXCEPT !.findings = Meaning!Findings]
               new == [found EXCEPT !.fresh = MeaningFiles]
    <3>a. moved = Run("audited", s, l, o, g, fr)
      BY <1>a DEF Run
    <3>b. found = Run("audited", s, l, o, Meaning!Findings, fr)
      <4> HIDE DEF moved
      <4> QED
        BY <3>a DEF Run
    <3>1. new = Run("audited", s, l, o, Meaning!Findings, MeaningFiles)
      <4> HIDE DEF found
      <4> QED
        BY <3>b DEF Run
    <3>2. chain' = [chain EXCEPT ![f] = new]
      BY <1>1, <2>7 DEF Meaning!Audits
    <3> HIDE DEF new
    <3> QED
      BY <1>c, <3>1, <3>2
  <2>8. CASE Meaning!GivesUp(f)
    <3> DEFINE new == Meaning!Idle
    <3>1. new = Run("idle", Meaning!NoRoles, "high", "trusted", {}, {})
      BY <1>d DEF Run
    <3>2. chain' = [chain EXCEPT ![f] = new]
      BY <1>1, <2>8 DEF Meaning!GivesUp
    <3> HIDE DEF new
    <3> QED
      BY <1>c, <3>1, <3>2
  <2> QED
    BY <2>1, <2>2, <2>3, <2>4, <2>5, <2>6, <2>7, <2>8
<1>3. PICK new : chain' = [chain EXCEPT ![f] = new] /\ AsItWas(new)
  BY <1>2
<1> USE DEF AsItWas
<1>4. UNCHANGED <<roles, judged, trust, rebuild>>
  BY DEF Meaning!Begins, Meaning!CopiesClass, Meaning!AsksForClass, Meaning!Classifies, Meaning!Relates,
     Meaning!Scores, Meaning!Audits, Meaning!GivesUp
<1>5. /\ DOMAIN chain' = MeaningFiles /\ \A x \in MeaningFiles : IsRun(chain'[x])
      /\ RebuildIsRun'
      /\ \A run \in Runs' : run = new \/ run \in Runs
  BY <1>3, <1>4, ChainMoves
<1>6. RunTypes'
  BY <1>4, <1>5 DEF RunTypes, IsRun
<1>7. chain[f] \in Runs
  BY DEF Runs
<1>8. \A run \in Runs' :
          \/ run.fresh = {}
          \/ run.fresh = MeaningFiles /\ run.findings = Meaning!Findings
          \/ \E old \in Runs : run.fresh = old.fresh /\ run.findings = old.findings
  BY <1>3, <1>5, <1>7
<1>9. Caught'
  BY <1>4, <1>8, CaughtWithRuns
<1> QED
  BY <1>6, <1>9
(* The roles of a file are set, and what has seen others is told.               *)
LEMMA RebuildForgets ==
    ASSUME RebuildIsRun, NEW fr \in SUBSET rebuild.fresh, rebuild' = [rebuild EXCEPT !.fresh = fr]
    PROVE  RebuildIsRun' /\ rebuild'.fresh = fr /\ rebuild'.findings = rebuild.findings
BY DEF RebuildIsRun

LEMMA OutdatedIsLess == \A fresh, f, rs : Meaning!Outdated(fresh, f, rs) \subseteq fresh
BY DEF Meaning!Outdated

LEMMA RolesStayTyped ==
    ASSUME RunTypes, NEW f, NEW rs, Meaning!SetsRoles(f, rs)
    PROVE  roles' = [g \in MeaningFiles |-> roles'[g]] /\ judged' \subseteq MeaningFiles
BY DEF RunTypes, Meaning!SetsRoles

LEMMA ChainsForgetWell ==
    ASSUME RunTypes, NEW f, NEW rs, NEW forgetful, forgetful = Meaning!ChainsForget(f, rs)
    PROVE  /\ DOMAIN forgetful = MeaningFiles
           /\ \A g \in MeaningFiles : /\ IsRun(forgetful[g])
                               /\ forgetful[g].fresh = Meaning!Outdated(chain[g].fresh, f, rs)
                               /\ forgetful[g].findings = chain[g].findings
<1>1. DOMAIN forgetful = MeaningFiles
  BY DEF Meaning!ChainsForget
<1>2. ASSUME NEW g \in MeaningFiles
      PROVE  /\ IsRun(forgetful[g])
             /\ forgetful[g].fresh = Meaning!Outdated(chain[g].fresh, f, rs)
             /\ forgetful[g].findings = chain[g].findings
  <2> DEFINE fr == Meaning!Outdated(chain[g].fresh, f, rs)
             new == [chain[g] EXCEPT !.fresh = fr]
  <2>1. IsRun(chain[g])
    BY DEF RunTypes
  <2>2. fr \in SUBSET MeaningFiles
    BY <2>1, OutdatedIsLess DEF IsRun
  <2>3. forgetful[g] = new
    BY DEF Meaning!ChainsForget
  <2> HIDE DEF fr, new
  <2>4. new = [chain[g] EXCEPT !.fresh = fr]
    BY DEF new
  <2>5. IsRun(new) /\ new.fresh = fr /\ new.findings = chain[g].findings
    BY <2>1, <2>2, <2>4 DEF IsRun
  <2> QED
    BY <2>3, <2>5 DEF fr
<1> QED
  BY <1>1, <1>2

LEMMA OntologyStep ==
    ASSUME RunTypes, Caught, NEW f \in MeaningFiles, Meaning!OntologyStage(f)
    PROVE  RunTypes' /\ Caught'
<1> DEFINE next == IF policy.classify THEN "erp" ELSE "relate"
<1>1. PICK rs : /\ Meaning!SetsRoles(f, rs)
                /\ chain' = [Meaning!ChainsForget(f, rs) EXCEPT ![f].at = next]
                /\ rebuild' = [rebuild EXCEPT !.fresh = Meaning!Outdated(@, f, rs)]
                /\ trust' = trust
  <2>1. PICK ask, again \in RoleReplies :
          /\ Meaning!SetsRoles(f, Meaning!Resolved(ask, again))
          /\ chain' = [Meaning!ChainsForget(f, Meaning!Resolved(ask, again)) EXCEPT
                         ![f].at = IF policy.classify THEN "erp" ELSE "relate"]
          /\ rebuild' = [rebuild EXCEPT !.fresh = Meaning!Outdated(@, f, Meaning!Resolved(ask, again))]
    BY DEF Meaning!OntologyStage
  <2>2. trust' = trust
    BY DEF Meaning!OntologyStage
  <2> QED
    BY <2>1, <2>2
<1> DEFINE forgetful == Meaning!ChainsForget(f, rs)
           moved == [forgetful[f] EXCEPT !.at = next]
           left == Meaning!Outdated(rebuild.fresh, f, rs)
<1>2. /\ DOMAIN forgetful = MeaningFiles
      /\ \A g \in MeaningFiles : /\ IsRun(forgetful[g])
                          /\ forgetful[g].fresh = Meaning!Outdated(chain[g].fresh, f, rs)
                          /\ forgetful[g].findings = chain[g].findings
  BY ChainsForgetWell
<1>3. chain' = [forgetful EXCEPT ![f] = moved]
  BY <1>1
<1>4. rebuild' = [rebuild EXCEPT !.fresh = left] /\ left \in SUBSET rebuild.fresh
  BY <1>1, OutdatedIsLess
<1>m. moved = [forgetful[f] EXCEPT !.at = next]
  OBVIOUS
<1> HIDE DEF forgetful, moved, next
<1>5. IsRun(moved) /\ moved.fresh = forgetful[f].fresh /\ moved.findings = forgetful[f].findings
  BY <1>2, <1>m DEF IsRun
<1>6. RebuildIsRun' /\ rebuild'.fresh = left /\ rebuild'.findings = rebuild.findings
  <2> HIDE DEF left
  <2> QED
    BY <1>4, RebuildForgets DEF RunTypes
<1>7. /\ DOMAIN chain' = MeaningFiles
      /\ \A g \in MeaningFiles : /\ IsRun(chain'[g])
                          /\ chain'[g].fresh = Meaning!Outdated(chain[g].fresh, f, rs)
                          /\ chain'[g].findings = chain[g].findings
  BY <1>2, <1>3, <1>5
<1>8. \A run \in Runs' : \E old \in Runs :
          run.fresh = Meaning!Outdated(old.fresh, f, rs) /\ run.findings = old.findings
  BY <1>6, <1>7 DEF Runs
<1>9. Caught'
  BY <1>1, <1>8, CaughtWithRoles
<1>10. RunTypes'
  <2>1. roles' = [g \in MeaningFiles |-> roles'[g]] /\ judged' \subseteq MeaningFiles
    BY <1>1, RolesStayTyped
  <2>2. (\A g \in MeaningFiles : IsRun(chain[g]))'
    BY <1>7 DEF IsRun
  <2> QED
    BY <1>1, <1>6, <1>7, <2>1, <2>2 DEF RunTypes
<1> QED
  BY <1>9, <1>10

LEMMA ResolvesStep ==
    ASSUME RunTypes, Caught, Meaning!RebuildResolves
    PROVE  RunTypes' /\ Caught'
<1> DEFINE f == Meaning!Min(rebuild.left)
           new == [rebuild EXCEPT !.left = @ \ {f}]
<1>1. rebuild.at = "resolving" /\ rebuild' = new /\ trust' = trust
  BY DEF Meaning!RebuildResolves
<1>2. RebuildIsRun' /\ rebuild'.fresh = {} /\ rebuild'.findings = rebuild.findings
  <2> HIDE DEF f
  <2> QED
    BY <1>1 DEF RunTypes, RebuildIsRun
<1>3. CASE UNCHANGED <<roles, judged, classed, chain>>
  <2>1. \A run \in Runs' : run.fresh = {} \/ run \in Runs
    BY <1>2, <1>3 DEF Runs
  <2>2. Caught'
    <3> HIDE DEF f, new
    <3> QED
      BY <1>1, <1>3, <2>1, CaughtWithRuns
  <2>3. RunTypes'
    <3> HIDE DEF f, new
    <3> QED
      BY <1>1, <1>2, <1>3 DEF RunTypes, IsRun
  <2> QED
    BY <2>2, <2>3
<1>4. CASE \E ask, again \in RoleReplies :
             Meaning!SetsRoles(f, Meaning!Resolved(ask, again)) /\ chain' = Meaning!ChainsForget(f, Meaning!Resolved(ask, again))
  <2>1. PICK rs : Meaning!SetsRoles(f, rs) /\ chain' = Meaning!ChainsForget(f, rs)
    BY <1>4
  <2> HIDE DEF f, new
  <2>2. /\ DOMAIN chain' = MeaningFiles
        /\ \A g \in MeaningFiles : /\ IsRun(chain'[g])
                            /\ chain'[g].fresh = Meaning!Outdated(chain[g].fresh, f, rs)
                            /\ chain'[g].findings = chain[g].findings
    BY <2>1, ChainsForgetWell
  <2>3. rebuild'.fresh = Meaning!Outdated(rebuild.fresh, f, rs)
    BY <1>1, <1>2, OutdatedIsLess DEF RunTypes, RebuildIsRun
  <2>4. \A run \in Runs' : \E old \in Runs :
            run.fresh = Meaning!Outdated(old.fresh, f, rs) /\ run.findings = old.findings
    BY <1>2, <2>2, <2>3 DEF Runs
  <2>5. Caught'
    BY <1>1, <2>1, <2>4, CaughtWithRoles
  <2>6. roles' = [g \in MeaningFiles |-> roles'[g]] /\ judged' \subseteq MeaningFiles
    BY <2>1, RolesStayTyped
  <2>7. (\A g \in MeaningFiles : IsRun(chain[g]))'
    BY <2>2 DEF IsRun
  <2>8. RunTypes'
    BY <1>1, <1>2, <2>2, <2>6, <2>7 DEF RunTypes
  <2> QED
    BY <2>5, <2>8
<1> QED
  BY <1>3, <1>4 DEF Meaning!RebuildResolves
(* An audit that finds an error charged to a file has the file quarantined.        *)
LEMMA ErrorsQuarantine ==
    ASSUME NEW findings, NEW f, NEW level, \E g : Charges(findings, f, g)
    PROVE  Meaning!DeriveTrustState(level, Meaning!ForFile(findings, f)) = "quarantined"
<1>1. \E x \in Meaning!ForFile(findings, f) : x.severity = "error"
  BY DEF Charges, Meaning!ForFile
<1> QED
  BY <1>1 DEF Meaning!DeriveTrustState

(* What the session writes for a file, and whether that is a judgement by this audit. *)
LEMMA VerdictOfAFile ==
    ASSUME NEW f \in MeaningFiles, NEW run, NEW level, NEW old,
           NEW fate, fate = Meaning!DeriveTrustState(level, Meaning!ForFile(run.findings, f)),
           NEW set, set = Meaning!Written(old, fate, trust[f])
    PROVE  \/ set = trust[f] /\ (Meaning!Judged(f, fate, old, run.fresh) => f \in judged)
           \/ Meaning!Judged(f, fate, old, run.fresh) =>
                  f \in run.fresh /\ ((\E g : Charges(run.findings, f, g)) => set = "quarantined")
<1>1. (\E g : Charges(run.findings, f, g)) => fate = "quarantined"
  BY ErrorsQuarantine
<1>2. CASE fate # old
  BY <1>1, <1>2 DEF Meaning!Written, Meaning!Judged
<1>3. CASE fate = old
  BY <1>1, <1>3 DEF Meaning!Written, Meaning!Judged
<1> QED
  BY <1>2, <1>3

LEMMA JudgesStep ==
    ASSUME RunTypes, Caught, NEW f \in MeaningFiles, Meaning!Judges(f)
    PROVE  RunTypes' /\ Caught'
<1> DEFINE run == chain[f]
           fate == Meaning!DeriveTrustState(run.level, Meaning!ForFile(run.findings, f))
           in == Meaning!Judged(f, fate, run.loaded, run.fresh)
           set == Meaning!Written(run.loaded, fate, trust[f])
<1>1. /\ trust' = [trust EXCEPT ![f] = set]
      /\ judged' = IF in THEN judged \cup {f} ELSE judged \ {f}
      /\ chain' = [chain EXCEPT ![f] = Meaning!Idle]
      /\ roles' = roles /\ rebuild' = rebuild
  BY DEF Meaning!Judges
<1>2. \/ set = trust[f] /\ (in => f \in judged)
      \/ in => f \in run.fresh /\ ((\E g : Charges(run.findings, f, g)) => set = "quarantined")
  <2> HIDE DEF run
  <2>1. \A x, y : x = fate /\ y = set =>
            \/ y = trust[f] /\ (Meaning!Judged(f, x, run.loaded, run.fresh) => f \in judged)
            \/ Meaning!Judged(f, x, run.loaded, run.fresh) =>
                   f \in run.fresh /\ ((\E g : Charges(run.findings, f, g)) => y = "quarantined")
    BY VerdictOfAFile
  <2> QED
    BY <2>1
<1>3. IsRun(Meaning!Idle) /\ Meaning!Idle.fresh = {}
  BY DEF Meaning!Idle, IsRun
<1>4. /\ DOMAIN chain' = MeaningFiles /\ \A x \in MeaningFiles : IsRun(chain'[x])
      /\ RebuildIsRun'
      /\ \A r \in Runs' : r = Meaning!Idle \/ r \in Runs
  BY <1>1, <1>3, ChainMoves
<1> HIDE DEF in, set, fate
<1>5. DOMAIN trust' = MeaningFiles /\ judged' \subseteq MeaningFiles
  BY <1>1 DEF RunTypes
<1>6. RunTypes'
  BY <1>1, <1>4, <1>5 DEF RunTypes, IsRun
<1>7. \A g \in MeaningFiles :
          \/ trust'[g] = trust[g] /\ (g \in judged' => g \in judged)
          \/ g \in judged' => g \in run.fresh /\ ((\E h : Charges(run.findings, g, h)) => trust'[g] = "quarantined")
  <2> HIDE DEF run
  <2> TAKE g \in MeaningFiles
  <2>1. CASE g # f
    BY <1>1, <2>1 DEF RunTypes
  <2>2. CASE g = f
    <3>1. trust'[f] = set /\ (f \in judged' <=> in)
      BY <1>1 DEF RunTypes
    <3> QED
      BY <1>2, <2>2, <3>1
  <2> QED
    BY <2>1, <2>2
<1>8. run \in Runs /\ \A r \in Runs' : r.fresh = {} \/ r \in Runs
  BY <1>3, <1>4 DEF Runs
<1>9. Caught'
  <2> HIDE DEF run
  <2> QED
    BY <1>1, <1>5, <1>7, <1>8, CaughtWithVerdicts
<1> QED
  BY <1>6, <1>9

LEMMA VerdictsStep ==
    ASSUME RunTypes, Caught, Meaning!ApplyTrustStates
    PROVE  RunTypes' /\ Caught'
<1> DEFINE fate(f) == Meaning!DeriveTrustState(rebuild.level[f], Meaning!ForFile(rebuild.findings, f))
           in(f) == Meaning!Judged(f, fate(f), rebuild.loaded[f], rebuild.fresh)
           set(f) == Meaning!Written(rebuild.loaded[f], fate(f), trust[f])
<1>1. /\ trust' = [f \in MeaningFiles |-> set(f)]
      /\ judged' = {f \in MeaningFiles : in(f)}
      /\ rebuild' = Meaning!NoRebuild
      /\ roles' = roles /\ chain' = chain
  BY DEF Meaning!ApplyTrustStates
<1>2. ASSUME NEW f \in MeaningFiles
      PROVE  \/ set(f) = trust[f] /\ (in(f) => f \in judged)
             \/ in(f) => f \in rebuild.fresh
                         /\ ((\E g : Charges(rebuild.findings, f, g)) => set(f) = "quarantined")
  <2>1. \A x, y : x = fate(f) /\ y = set(f) =>
            \/ y = trust[f] /\ (Meaning!Judged(f, x, rebuild.loaded[f], rebuild.fresh) => f \in judged)
            \/ Meaning!Judged(f, x, rebuild.loaded[f], rebuild.fresh) =>
                   f \in rebuild.fresh /\ ((\E g : Charges(rebuild.findings, f, g)) => y = "quarantined")
    BY VerdictOfAFile
  <2> QED
    BY <2>1
<1>3. Meaning!NoRebuild.fresh = {} /\ RebuildIsRun'
  BY <1>1 DEF Meaning!NoRebuild, RebuildIsRun
<1> HIDE DEF in, set, fate
<1>4. DOMAIN trust' = MeaningFiles /\ judged' \subseteq MeaningFiles
  BY <1>1
<1>5. RunTypes'
  BY <1>1, <1>3, <1>4 DEF RunTypes, IsRun
<1>6. \A f \in MeaningFiles :
          \/ trust'[f] = trust[f] /\ (f \in judged' => f \in judged)
          \/ f \in judged' => f \in rebuild.fresh
                              /\ ((\E g : Charges(rebuild.findings, f, g)) => trust'[f] = "quarantined")
  BY <1>1, <1>2
<1>7. rebuild \in Runs /\ \A r \in Runs' : r.fresh = {} \/ r \in Runs
  BY <1>1, <1>3 DEF Runs
<1>8. Caught'
  BY <1>1, <1>4, <1>6, <1>7, CaughtWithVerdicts
<1> QED
  BY <1>5, <1>8

(* Steps of a rebuild that change no role and judge nothing.                      *)
LEMMA RebuildStep ==
    ASSUME RunTypes, Caught,
           \/ Meaning!RebuildBegins \/ Meaning!RebuildRelates \/ Meaning!RebuildAudits
           \/ Meaning!RebuildLoads \/ Meaning!RebuildFails
    PROVE  RunTypes' /\ Caught'
<1>1. UNCHANGED <<roles, judged, trust, chain>>
  BY DEF Meaning!RebuildBegins, Meaning!RebuildRelates, Meaning!RebuildAudits, Meaning!RebuildLoads,
         Meaning!RebuildFails
<1>2. /\ RebuildIsRun'
      /\ \/ rebuild'.fresh = {}
         \/ rebuild'.fresh = MeaningFiles /\ rebuild'.findings = Meaning!Findings
         \/ rebuild'.fresh = rebuild.fresh /\ rebuild'.findings = rebuild.findings
  <2>1. CASE Meaning!RebuildBegins
    BY <2>1 DEF Meaning!RebuildBegins, Meaning!NoRebuild, RebuildIsRun
  <2>2. CASE Meaning!RebuildRelates
    BY <2>2 DEF Meaning!RebuildRelates, Meaning!NoRebuild, RebuildIsRun, RunTypes
  <2>3. CASE Meaning!RebuildAudits
    <3> DEFINE found == Meaning!Findings
    <3>1. rebuild' = [rebuild EXCEPT !.at = "audited", !.findings = found, !.fresh = MeaningFiles]
      BY <2>3 DEF Meaning!RebuildAudits
    <3> HIDE DEF found
    <3>2. RebuildIsRun' /\ rebuild'.fresh = MeaningFiles /\ rebuild'.findings = found
      BY <3>1 DEF RebuildIsRun, RunTypes
    <3> QED
      BY <3>2 DEF found
  <2>4. CASE Meaning!RebuildLoads
    <3> DEFINE levels == [f \in MeaningFiles |-> Meaning!Level(f)]
    <3>1. rebuild' = [rebuild EXCEPT !.at = "loaded", !.loaded = trust, !.level = levels]
      BY <2>4 DEF Meaning!RebuildLoads
    <3> HIDE DEF levels
    <3>2. RebuildIsRun' /\ rebuild'.fresh = rebuild.fresh /\ rebuild'.findings = rebuild.findings
      BY <3>1 DEF RebuildIsRun, RunTypes
    <3> QED
      BY <3>2
  <2>5. CASE Meaning!RebuildFails
    BY <2>5 DEF Meaning!RebuildFails, Meaning!NoRebuild, RebuildIsRun
  <2> QED
    BY <2>1, <2>2, <2>3, <2>4, <2>5
<1>3. \A run \in Runs' : run = rebuild' \/ run \in Runs
  BY <1>1 DEF Runs
<1>4. \A run \in Runs' :
          \/ run.fresh = {}
          \/ run.fresh = MeaningFiles /\ run.findings = Meaning!Findings
          \/ \E old \in Runs : run.fresh = old.fresh /\ run.findings = old.findings
  <2>1. rebuild \in Runs
    BY DEF Runs
  <2> QED
    BY <1>2, <1>3, <2>1
<1>5. Caught'
  BY <1>1, <1>4, CaughtWithRuns
<1>6. RunTypes'
  BY <1>1, <1>2 DEF RunTypes, IsRun
<1> QED
  BY <1>5, <1>6
LEMMA CaughtAtFirst == ASSUME Meaning!Init PROVE RunTypes /\ Caught
<1>1. /\ chain = [f \in MeaningFiles |-> Meaning!Idle] /\ rebuild = Meaning!NoRebuild
      /\ judged = {} /\ trust = [f \in MeaningFiles |-> "trusted"] /\ roles = [f \in MeaningFiles |-> roles[f]]
  BY DEF Meaning!Init
<1>2. IsRun(Meaning!Idle) /\ Meaning!Idle.fresh = {}
  BY DEF Meaning!Idle, IsRun
<1>3. RebuildIsRun /\ rebuild.fresh = {}
  BY <1>1 DEF Meaning!NoRebuild, RebuildIsRun
<1>4. RunTypes
  BY <1>1, <1>2, <1>3 DEF RunTypes
<1>5. \A run \in Runs : run.fresh = {}
  BY <1>1, <1>2, <1>3 DEF Runs
<1> QED
  BY <1>1, <1>4, <1>5 DEF Caught, AuditsSee, LaterSeesMore, LetThroughEarlier

LEMMA CaughtAlways ==
    ASSUME RunTypes, Caught, [Meaning!Next]_Meaning!vars PROVE RunTypes' /\ Caught'
<1>1. CASE UNCHANGED Meaning!vars
  <2>1. UNCHANGED <<roles, trust, judged, chain, rebuild>>
    BY <1>1 DEF Meaning!vars
  <2>2. Runs' = Runs
    BY <2>1 DEF Runs
  <2>3. Caught'
    BY <2>1, <2>2, CaughtWithRuns
  <2>4. RunTypes'
    BY <2>1 DEF RunTypes, IsRun, RebuildIsRun
  <2> QED
    BY <2>3, <2>4
<1>2. CASE Meaning!Next
  BY <1>2, ChainStep, OntologyStep, JudgesStep, ResolvesStep, RebuildStep, VerdictsStep DEF Meaning!Next
<1> QED
  BY <1>1, <1>2

LEMMA CaughtIsEnough == RunTypes /\ Caught => Meaning!ConflictsAreCaught
<1> SUFFICES ASSUME RunTypes, Caught, NEW f \in judged, NEW g \in judged, Conflict(f, g)
             PROVE  trust[f] = "quarantined" \/ trust[g] = "quarantined"
  BY DEF Meaning!ConflictsAreCaught, Conflict
<1> QED
  BY DEF RunTypes, Caught, LetThroughEarlier

(* What a row of a class says, against the labels of the columns.                *)
Corroborated(row, hint) == Meaning!Reliable(row) /\ hint # "neutral" => row.side = hint \/ row.conf =< 600

IsRow(row) == row = [source |-> row.source, known |-> row.known, side |-> row.side, conf |-> row.conf]

Rows ==
    /\ roles = [f \in MeaningFiles |-> roles[f]] /\ class = [f \in MeaningFiles |-> class[f]] /\ classed \subseteq MeaningFiles
    /\ \A f \in MeaningFiles : class[f] # None => IsRow(class[f])
    /\ \A f \in classed : class[f] # None => Corroborated(class[f], Meaning!Hint(roles[f]))

LEMMA ClassifiedWell ==
    ASSUME Meaning!ConstantsOK, NEW answered \in ClassReplies, NEW rs
    PROVE  /\ IsRow(Meaning!Classified(answered, rs))
           /\ Corroborated(Meaning!Classified(answered, rs), Meaning!Hint(rs))
<1> DEFINE coerced == Meaning!Coerced(answered)
           hint == Meaning!Hint(rs)
           conf == Meaning!Weighed(coerced, hint)
<1>1. /\ coerced.conf \in Int /\ coerced.conf =< 1000
      /\ coerced.side \in {"customer", "vendor", "neutral"}
  BY DEF Meaning!Coerced, Meaning!ConstantsOK
<1>2. hint # "neutral" /\ coerced.side # "neutral" /\ coerced.side # hint => conf =< 600
  BY <1>1 DEF Meaning!Weighed
<1>3. IsRow(Meaning!Unknown) /\ ~Meaning!Reliable(Meaning!Unknown)
  BY DEF Meaning!Unknown, Meaning!Reliable, IsRow
<1> DEFINE row == [source |-> "llm", known |-> coerced.known, conf |-> conf,
                   side |-> IF coerced.side = "neutral" THEN hint ELSE coerced.side]
<1>4. Meaning!Classified(answered, rs) = Meaning!Unknown \/ Meaning!Classified(answered, rs) = row
  BY DEF Meaning!Classified
<1> HIDE DEF coerced, hint, conf
<1>5. IsRow(row)
  BY DEF IsRow
<1>6. Corroborated(row, hint)
  BY <1>1, <1>2 DEF Corroborated
<1> HIDE DEF row
<1> QED
  BY <1>3, <1>4, <1>5, <1>6 DEF Corroborated, hint

LEMMA EscalatedIsOne == \A first, second : Meaning!Escalated(first, second) \in {first, second}
BY DEF Meaning!Escalated, Meaning!Better

LEMMA RowsKept ==
    ASSUME Meaning!ConstantsOK, Rows, [Meaning!Next]_Meaning!vars PROVE Rows'
<1>1. CASE UNCHANGED <<roles, class, classed>>
  BY <1>1 DEF Rows, IsRow, Corroborated
<1>2. ASSUME NEW f, NEW rs, Meaning!SetsRoles(f, rs), class' = class PROVE Rows'
  <2>1. CASE f \in MeaningFiles /\ rs # roles[f]
    <3>1. /\ classed' = classed \ {f} /\ roles' = [g \in MeaningFiles |-> roles'[g]]
          /\ \A g \in MeaningFiles \ {f} : roles'[g] = roles[g]
      BY <1>2, <2>1 DEF Meaning!SetsRoles, Rows
    <3>2. \A g \in classed' : class[g] # None => Corroborated(class[g], Meaning!Hint(roles'[g]))
      BY <3>1 DEF Rows
    <3>3. \A g \in classed' : class'[g] # None => Corroborated(class'[g], Meaning!Hint(roles'[g]))
      BY <1>2, <3>2
    <3> QED
      BY <1>2, <3>1, <3>3 DEF Rows, IsRow, Corroborated
  <2>2. CASE ~(f \in MeaningFiles /\ rs # roles[f])
    <3>1. roles' = roles /\ classed' = classed
      BY <1>2, <2>2 DEF Meaning!SetsRoles, Rows
    <3> QED
      BY <1>2, <3>1 DEF Rows, IsRow, Corroborated
  <2> QED
    BY <2>1, <2>2
<1>3. ASSUME NEW f \in MeaningFiles, Meaning!CopiesClass(f) PROVE Rows'
  <2>1. PICK g \in Meaning!Siblings(f) : class' = [class EXCEPT ![f] = [class[g] EXCEPT !.source = "cache"]]
    BY <1>3 DEF Meaning!CopiesClass
  <2> DEFINE row == [class[g] EXCEPT !.source = "cache"]
  <2>2. IsRow(class[g])
    <3>1. CASE f \in SameShape
      BY <3>1 DEF Meaning!Siblings, Meaning!ConstantsOK, Rows
    <3>2. CASE f \notin SameShape
      BY <3>2 DEF Meaning!Siblings
    <3> QED
      BY <3>1, <3>2
  <2>3. IsRow(row) /\ ~Meaning!Reliable(row)
    BY <2>2 DEF IsRow, Meaning!Reliable
  <2>4. class' = [class EXCEPT ![f] = row] /\ classed' = classed \cup {f} /\ roles' = roles
    BY <1>3, <2>1 DEF Meaning!CopiesClass
  <2> HIDE DEF row
  <2> QED
    BY <2>3, <2>4 DEF Rows, IsRow, Corroborated
<1>4. ASSUME NEW f \in MeaningFiles, Meaning!Classifies(f) PROVE Rows'
  <2>1. PICK answered \in ClassReplies, again \in ClassReplies :
            class' = [class EXCEPT ![f] = Meaning!Escalated(Meaning!Classified(answered, chain[f].seen),
                                                            Meaning!Classified(again, chain[f].seen))]
    BY <1>4 DEF Meaning!Classifies
  <2> DEFINE first == Meaning!Classified(answered, chain[f].seen)
             second == Meaning!Classified(again, chain[f].seen)
             row == Meaning!Escalated(first, second)
  <2>2. /\ class' = [class EXCEPT ![f] = row] /\ roles' = roles
        /\ classed' = IF chain[f].seen = roles[f] THEN classed \cup {f} ELSE classed \ {f}
    BY <1>4, <2>1 DEF Meaning!Classifies
  <2>3. row \in {first, second}
    BY EscalatedIsOne
  <2>4. IsRow(first) /\ IsRow(second)
    BY ClassifiedWell
  <2>5. /\ Corroborated(first, Meaning!Hint(chain[f].seen))
        /\ Corroborated(second, Meaning!Hint(chain[f].seen))
    BY ClassifiedWell
  <2> HIDE DEF first, second, row
  <2>6. IsRow(row) /\ Corroborated(row, Meaning!Hint(chain[f].seen))
    BY <2>3, <2>4, <2>5
  <2> QED
    BY <2>2, <2>6 DEF Rows, IsRow, Corroborated
<1>5. CASE UNCHANGED Meaning!vars
  BY <1>1, <1>5 DEF Meaning!vars
<1>6. ASSUME NEW f \in MeaningFiles,
             \/ Meaning!Begins(f) \/ Meaning!AsksForClass(f) \/ Meaning!Relates(f) \/ Meaning!Scores(f)
             \/ Meaning!Audits(f) \/ Meaning!Judges(f) \/ Meaning!GivesUp(f)
      PROVE  Rows'
  <2>1. UNCHANGED <<roles, class, classed>>
    BY <1>6 DEF Meaning!Begins, Meaning!AsksForClass, Meaning!Relates, Meaning!Scores, Meaning!Audits,
                Meaning!Judges, Meaning!GivesUp
  <2> QED
    BY <1>1, <2>1
<1>7. ASSUME NEW f \in MeaningFiles, Meaning!OntologyStage(f) PROVE Rows'
  <2>1. (\E rs : Meaning!SetsRoles(f, rs)) /\ class' = class
    BY <1>7 DEF Meaning!OntologyStage
  <2> QED
    BY <1>2, <2>1
<1>8. CASE Meaning!RebuildResolves
  <2>1. /\ (\E f, rs : Meaning!SetsRoles(f, rs)) \/ UNCHANGED <<roles, judged, classed, chain>>
        /\ class' = class
    BY <1>8 DEF Meaning!RebuildResolves
  <2> QED
    BY <1>1, <1>2, <2>1
<1>9. CASE \/ Meaning!RebuildBegins \/ Meaning!RebuildRelates \/ Meaning!RebuildAudits
           \/ Meaning!RebuildLoads \/ Meaning!ApplyTrustStates \/ Meaning!RebuildFails
  <2>1. UNCHANGED <<roles, class, classed>>
    BY <1>9 DEF Meaning!RebuildBegins, Meaning!RebuildRelates, Meaning!RebuildAudits,
                Meaning!RebuildLoads, Meaning!ApplyTrustStates, Meaning!RebuildFails
  <2> QED
    BY <1>1, <2>1
<1> QED
  BY <1>3, <1>4, <1>5, <1>6, <1>7, <1>8, <1>9 DEF Meaning!Next

(* What ingestion makes of the files of a container holds together, for any files, columns,     *)
(* replies of the models and relationships between files, however many chains and rebuilds       *)
(* overlap: two files whose roles contradict each other are never both let through once both    *)
(* are judged by their present roles, and a class the contract may act on agrees with the        *)
(* labels it was found under or was marked down (semantic_rebuild.py, ingestion_stages.py,       *)
(* trust_state.py, erp/classifier.py).                                                            *)
LEMMA MeaningHolds ==
    ASSUME Meaning!ConstantsOK PROVE Meaning!Spec => []Meaning!FilesAreUnderstood
<1>1. Meaning!Init => RunTypes /\ Caught /\ Rows
  <2>1. Meaning!Init => Rows
    BY DEF Meaning!Init, Rows
  <2> QED
    BY <2>1, CaughtAtFirst
<1>2. RunTypes /\ Caught /\ Rows /\ [Meaning!Next]_Meaning!vars => RunTypes' /\ Caught' /\ Rows'
  BY CaughtAlways, RowsKept
<1>3. RunTypes /\ Caught /\ Rows => Meaning!FilesAreUnderstood
  <2>1. Rows => Meaning!ClassesAreCorroborated
    BY DEF Rows, Corroborated, Meaning!ClassesAreCorroborated
  <2> QED
    BY <2>1, CaughtIsEnough DEF Meaning!FilesAreUnderstood
<1> QED
  BY <1>1, <1>2, <1>3, PTL DEF Meaning!Spec
-----------------------------------------------------------------------------
(* SemanticJoins.                                                            *)

Read == [old : SUBSET Joins!Pairs, new : SUBSET Joins!Pairs, ents : SUBSET (JoinFiles \cup KeyValues)]
ChainSteps == {"start", "match", "matches", "find", "relate", "look", "layer", "compile", "store", "end"}
FileSteps == {"register", "registers", "match", "matches", "find", "relate", "look", "layer"}
RebuildSteps == FileSteps \cup {"start", "clear", "elect", "end"}

(* Rows and workers keep their types; what was matched or related has been analysed. *)
JoinTypes ==
    /\ keyData \in [JoinFiles -> KeyValues \cup {None}] /\ registry \in [JoinFiles -> KeyValues \cup {None}]
    /\ JoinFiles \ ChainFiles \subseteq Joins!Eligible
    /\ Joins!Registered \subseteq Joins!Eligible
    /\ related \subseteq {p \in Joins!Pairs : p \subseteq Joins!Eligible}
    /\ approval \in [Joins!Pairs -> {"none", "candidate", "approved"}]
    /\ joinsAt \in [Joins!Workers -> ChainSteps \cup RebuildSteps]
    /\ joinsAt[Joins!Rebuild] \in RebuildSteps
    /\ \A f \in ChainFiles : joinsAt[f] \in ChainSteps /\ (joinsAt[f] # "start" => f \in Joins!Eligible)
    /\ joinsAt[Joins!Rebuild] \in FileSteps => cursor \in Joins!Eligible
    /\ joinsRead \in [Joins!Workers -> Read]
    /\ joinTries \in [ChainFiles -> Nat] /\ joinSkipped \in BOOLEAN
    /\ \A w \in Joins!Workers :
          /\ joinsAt[w] \in {"registers", "matches"} => joinsRead[w].ents \subseteq KeyValues
          /\ joinsAt[w] \in {"relate", "layer"} => \A p \in joinsRead[w].new \cup joinsRead[w].old : Joins!Of(w) \in p /\ p \subseteq Joins!Eligible

(* A worker is still to look for the relationship of two files ...              *)
Finds(w, p) ==
    \/ joinsAt[w] = "relate" /\ p \in joinsRead[w].new
    \/ IF w = Joins!Rebuild
       THEN \/ joinsAt[w] \in {"start", "clear", "register", "registers"}
            \/ joinsAt[w] \in {"match", "matches", "find"} /\ \E f \in p : f >= cursor
            \/ joinsAt[w] = "relate" /\ \E f \in p : f > cursor
       ELSE w \in p /\ joinsAt[w] \in {"start", "match", "matches", "find"}

(* ... or to put them into the semantic layer.                                 *)
Layers(w, p) ==
    \/ joinsAt[w] = "layer" /\ p \in joinsRead[w].new \cup joinsRead[w].old /\ p \subseteq joinEntities \cup joinsRead[w].ents
    \/ IF w = Joins!Rebuild
       THEN \/ joinsAt[w] \in {"start", "clear", "register", "registers", "match", "matches", "find", "relate"}
            \/ joinsAt[w] = "look" /\ \E f \in p : f >= cursor
            \/ joinsAt[w] = "layer" /\ \E f \in p : f > cursor
       ELSE w \in p /\ joinsAt[w] \in {"start", "match", "matches", "find", "relate", "look"}

Overlap(p) == \A f, g \in p : registry[f] # None /\ registry[f] = registry[g]
InLayer(p) == approval[p] # "none" /\ p \subseteq joinEntities
Found == \A p \in Joins!Pairs : Overlap(p) => p \in related \/ \E w \in Joins!Workers : Finds(w, p)
Layered == \A p \in related : InLayer(p) \/ \E w \in Joins!Workers : Layers(w, p)
Joined == JoinTypes /\ (~joinSkipped => Found /\ Layered)

LEMMA FilesAreNumbered ==
    ASSUME Joins!ConstantsOK
    PROVE  /\ JoinFiles \subseteq Nat \ {0} /\ ChainFiles \subseteq JoinFiles /\ Joins!Rebuild \notin ChainFiles
           /\ \A p \in Joins!Pairs : p \subseteq JoinFiles /\ p # {}
<1>1. \A p \in Joins!Pairs : p # {}
  <2>1. \A S : Joins!Cardinality(S) = Cardinality(S)
    BY Zenon DEF Joins!Cardinality, Cardinality
  <2> QED
    BY <2>1, FS_EmptySet DEF Joins!Pairs
<1> QED
  BY <1>1 DEF Joins!ConstantsOK, Joins!Pairs, Joins!Rebuild

(* The rebuild goes through the analysed files in their order.                *)
LEMMA ThenMoves ==
    ASSUME Joins!ConstantsOK, JoinTypes, NEW w \in Joins!Workers, NEW here, NEW next, Joins!Then(w, here, next)
    PROVE  /\ joinsRead' = [joinsRead EXCEPT ![w] = Joins!Nothing]
           /\ \/ w # Joins!Rebuild /\ joinsAt' = [joinsAt EXCEPT ![w] = next] /\ cursor' = cursor
              \/ /\ w = Joins!Rebuild /\ joinsAt' = [joinsAt EXCEPT ![w] = here]
                 /\ cursor' \in Joins!Eligible /\ \A f \in Joins!Eligible : f > cursor => f >= cursor'
              \/ /\ w = Joins!Rebuild /\ joinsAt' = [joinsAt EXCEPT ![w] = next]
                 /\ cursor' \in Joins!Eligible /\ \A f \in Joins!Eligible : ~(f > cursor) /\ f >= cursor'
           /\ joinTries' \in [ChainFiles -> Nat]
<1>1. Joins!Eligible \subseteq Nat /\ Joins!Eligible # {}
  <2>1. Joins!Eligible \subseteq JoinFiles
    BY DEF Joins!Eligible
  <2>2. JoinFiles \subseteq Nat
    BY FilesAreNumbered
  <2>3. PICK f \in JoinFiles \ ChainFiles : TRUE
    BY DEF Joins!ConstantsOK
  <2>4. f \in Joins!Eligible
    BY <2>3 DEF JoinTypes
  <2> HIDE DEF Joins!Eligible
  <2> QED
    BY <2>1, <2>2, <2>4
<1>2. \A S \in SUBSET Joins!Eligible : S # {} => \E f \in S : \A g \in S : f <= g
  BY <1>1, LeastNumber
<1>3. ASSUME NEW S, S \subseteq Joins!Eligible, S # {}
      PROVE  LET m == CHOOSE f \in S : \A g \in S : f <= g
             IN  m \in S /\ \A g \in S : m <= g
  BY <1>2, <1>3
<1>4. CASE w # Joins!Rebuild
  BY <1>4 DEF Joins!Then, Joins!Remembers, Joins!Goes, JoinTypes, Joins!Workers
<1>5. CASE w = Joins!Rebuild /\ Joins!Following # {}
  <2>1. cursor' = CHOOSE f \in Joins!Following : \A g \in Joins!Following : f <= g
    BY <1>5 DEF Joins!Then
  <2>2. Joins!Following \subseteq Joins!Eligible
    BY DEF Joins!Following
  <2>3. cursor' \in Joins!Following /\ \A g \in Joins!Following : cursor' <= g
    BY <1>3, <1>5, <2>1, <2>2
  <2> QED
    BY <1>1, <1>5, <2>2, <2>3 DEF Joins!Then, Joins!Remembers, Joins!Goes, JoinTypes, Joins!Following
<1>6. CASE w = Joins!Rebuild /\ Joins!Following = {}
  <2>1. cursor' = CHOOSE f \in Joins!Eligible : \A g \in Joins!Eligible : f <= g
    BY <1>6 DEF Joins!Then
  <2>2. cursor' \in Joins!Eligible /\ \A g \in Joins!Eligible : cursor' <= g
    BY <1>1, <1>3, <2>1
  <2> QED
    BY <1>1, <1>6, <2>2 DEF Joins!Then, Joins!Remembers, Joins!Goes, JoinTypes, Joins!Following
<1> QED
  BY <1>4, <1>5, <1>6
LEMMA WorkedOn ==
    ASSUME Joins!ConstantsOK, JoinTypes, NEW w \in Joins!Workers,
           joinsAt[w] \in {"register", "registers", "match", "matches", "find", "relate", "look", "layer"}
    PROVE  Joins!Of(w) \in Joins!Eligible
BY DEF JoinTypes, Joins!Of, Joins!Workers, FileSteps, Joins!Rebuild

(* A stage that is given up or begins anew leaves the tables alone.             *)
LEMMA RefusedMoves ==
    ASSUME Joins!ConstantsOK, JoinTypes, NEW w \in Joins!Workers, NEW here, NEW again, NEW next, Joins!Refused(w, here, again, next)
    PROVE  /\ UNCHANGED <<keyData, Joins!tables>>
           /\ \/ joinSkipped' = TRUE /\ Joins!Then(w, here, next)
              \/ /\ w # Joins!Rebuild /\ joinsAt' = [joinsAt EXCEPT ![w] = again] /\ joinsRead' = [joinsRead EXCEPT ![w] = Joins!Nothing]
                 /\ UNCHANGED <<cursor, joinSkipped>> /\ joinTries' \in [ChainFiles -> Nat]
BY DEF Joins!Refused, Joins!Goes, Joins!Remembers, JoinTypes, Joins!Workers

LEMMA ThenTypes ==
    ASSUME Joins!ConstantsOK, JoinTypes, NEW w \in Joins!Workers, NEW here, NEW next, Joins!Then(w, here, next),
           joinsAt[w] \in FileSteps, here \in {"register", "match", "look"},
           next \in {"match", "look", "elect", "compile"},
           w = Joins!Rebuild => next # "compile", w # Joins!Rebuild => next # "elect",
           UNCHANGED keyData
    PROVE  /\ joinsAt' \in [Joins!Workers -> ChainSteps \cup RebuildSteps] /\ joinsAt'[Joins!Rebuild] \in RebuildSteps
           /\ \A f \in ChainFiles : joinsAt'[f] \in ChainSteps /\ (joinsAt'[f] # "start" => f \in Joins!Eligible')
           /\ joinsAt'[Joins!Rebuild] \in FileSteps => cursor' \in Joins!Eligible'
           /\ joinsRead' \in [Joins!Workers -> Read] /\ joinTries' \in [ChainFiles -> Nat]
           /\ \A v \in Joins!Workers :
                 /\ joinsAt'[v] \in {"registers", "matches"} => joinsRead'[v].ents \subseteq KeyValues
                 /\ joinsAt'[v] \in {"relate", "layer"} => \A p \in joinsRead'[v].new \cup joinsRead'[v].old :
                        Joins!Of(v)' \in p /\ p \subseteq Joins!Eligible'
<1>1. Joins!Rebuild \in Joins!Workers /\ ChainFiles \subseteq Joins!Workers /\ Joins!Rebuild \notin ChainFiles
  BY FilesAreNumbered DEF Joins!Workers
<1>2. Joins!Nothing \in Read
  BY DEF Joins!Nothing, Read
<1>3. /\ joinsRead' = [joinsRead EXCEPT ![w] = Joins!Nothing] /\ joinTries' \in [ChainFiles -> Nat]
      /\ \/ w # Joins!Rebuild /\ joinsAt' = [joinsAt EXCEPT ![w] = next] /\ cursor' = cursor
         \/ w = Joins!Rebuild /\ joinsAt' = [joinsAt EXCEPT ![w] = here] /\ cursor' \in Joins!Eligible
         \/ w = Joins!Rebuild /\ joinsAt' = [joinsAt EXCEPT ![w] = next] /\ cursor' \in Joins!Eligible
  BY ThenMoves
<1>4. joinsRead' \in [Joins!Workers -> Read] /\ Joins!Eligible' = Joins!Eligible
  BY <1>2, <1>3 DEF JoinTypes, Joins!Eligible
<1>5. /\ joinsAt' \in [Joins!Workers -> ChainSteps \cup RebuildSteps] /\ joinsAt'[Joins!Rebuild] \in RebuildSteps
      /\ \A f \in ChainFiles : joinsAt'[f] \in ChainSteps /\ (joinsAt'[f] # "start" => f \in Joins!Eligible)
      /\ joinsAt'[Joins!Rebuild] \in FileSteps => cursor' \in Joins!Eligible
  BY <1>1, <1>3 DEF JoinTypes, ChainSteps, RebuildSteps, FileSteps, Joins!Workers
<1>6. ASSUME NEW v \in Joins!Workers
      PROVE  /\ joinsAt'[v] \in {"registers", "matches"} => joinsRead'[v].ents \subseteq KeyValues
             /\ joinsAt'[v] \in {"relate", "layer"} => \A p \in joinsRead'[v].new \cup joinsRead'[v].old :
                    Joins!Of(v)' \in p /\ p \subseteq Joins!Eligible
  <2>1. CASE v = w
    <3>1. joinsAt'[v] \notin {"registers", "matches", "relate", "layer"}
      BY <1>1, <1>3, <2>1 DEF JoinTypes
    <3> QED
      BY <3>1
  <2>2. CASE v # w
    <3>1. joinsAt'[v] = joinsAt[v] /\ joinsRead'[v] = joinsRead[v] /\ Joins!Of(v)' = Joins!Of(v)
      BY <1>3, <2>2 DEF JoinTypes, Joins!Of
    <3> QED
      BY <3>1 DEF JoinTypes
  <2> QED
    BY <2>1, <2>2
<1> QED
  BY <1>3, <1>4, <1>5, <1>6

(* What a stage of one worker leaves to the types of the others.                  *)
LEMMA StepTypes ==
    ASSUME Joins!ConstantsOK, JoinTypes, NEW w \in Joins!Workers, NEW stage, NEW r \in Read,
           joinsAt' = [joinsAt EXCEPT ![w] = stage], joinsRead' = [joinsRead EXCEPT ![w] = r],
           UNCHANGED <<keyData, cursor>>,
           IF w = Joins!Rebuild THEN stage \in RebuildSteps /\ (stage \in FileSteps => joinsAt[w] \in FileSteps)
           ELSE stage \in ChainSteps \ {"start"} /\ (joinsAt[w] = "start" => w \in Joins!Eligible),
           stage \in {"registers", "matches"} => r.ents \subseteq KeyValues,
           stage \in {"relate", "layer"} => \A p \in r.new \cup r.old : Joins!Of(w) \in p /\ p \subseteq Joins!Eligible
    PROVE  /\ joinsAt' \in [Joins!Workers -> ChainSteps \cup RebuildSteps] /\ joinsAt'[Joins!Rebuild] \in RebuildSteps
           /\ \A f \in ChainFiles : joinsAt'[f] \in ChainSteps /\ (joinsAt'[f] # "start" => f \in Joins!Eligible')
           /\ joinsAt'[Joins!Rebuild] \in FileSteps => cursor' \in Joins!Eligible'
           /\ joinsRead' \in [Joins!Workers -> Read]
           /\ \A v \in Joins!Workers :
                 /\ joinsAt'[v] \in {"registers", "matches"} => joinsRead'[v].ents \subseteq KeyValues
                 /\ joinsAt'[v] \in {"relate", "layer"} => \A p \in joinsRead'[v].new \cup joinsRead'[v].old :
                        Joins!Of(v)' \in p /\ p \subseteq Joins!Eligible'
<1>1. Joins!Rebuild \in Joins!Workers /\ ChainFiles \subseteq Joins!Workers /\ Joins!Rebuild \notin ChainFiles
  BY FilesAreNumbered DEF Joins!Workers
<1>2. Joins!Eligible' = Joins!Eligible
  BY DEF Joins!Eligible
<1>3. /\ joinsAt' \in [Joins!Workers -> ChainSteps \cup RebuildSteps] /\ joinsAt'[Joins!Rebuild] \in RebuildSteps
      /\ joinsAt'[Joins!Rebuild] \in FileSteps => cursor' \in Joins!Eligible
      /\ joinsRead' \in [Joins!Workers -> Read]
  BY <1>1 DEF JoinTypes
<1>4. ASSUME NEW f \in ChainFiles
      PROVE  joinsAt'[f] \in ChainSteps /\ (joinsAt'[f] # "start" => f \in Joins!Eligible)
  BY <1>1 DEF JoinTypes
<1>5. ASSUME NEW v \in Joins!Workers
      PROVE  /\ joinsAt'[v] \in {"registers", "matches"} => joinsRead'[v].ents \subseteq KeyValues
             /\ joinsAt'[v] \in {"relate", "layer"} => \A p \in joinsRead'[v].new \cup joinsRead'[v].old :
                    Joins!Of(v)' \in p /\ p \subseteq Joins!Eligible
  <2>1. Joins!Of(v)' = Joins!Of(v)
    BY DEF Joins!Of
  <2>2. CASE v = w
    BY <2>1, <2>2 DEF JoinTypes
  <2>3. CASE v # w
    BY <2>1, <2>3 DEF JoinTypes
  <2> QED
    BY <2>2, <2>3
<1> QED
  BY <1>2, <1>3, <1>4, <1>5

LEMMA JoinTypesStep == ASSUME Joins!ConstantsOK, JoinTypes, [Joins!Next]_(Joins!vars) PROVE JoinTypes'
<1> DEFINE
    StepsWell ==
       /\ joinsAt' \in [Joins!Workers -> ChainSteps \cup RebuildSteps] /\ joinsAt'[Joins!Rebuild] \in RebuildSteps
       /\ \A f \in ChainFiles : joinsAt'[f] \in ChainSteps /\ (joinsAt'[f] # "start" => f \in Joins!Eligible')
       /\ joinsAt'[Joins!Rebuild] \in FileSteps => cursor' \in Joins!Eligible'
       /\ joinsRead' \in [Joins!Workers -> Read]
       /\ \A v \in Joins!Workers :
             /\ joinsAt'[v] \in {"registers", "matches"} => joinsRead'[v].ents \subseteq KeyValues
             /\ joinsAt'[v] \in {"relate", "layer"} => \A p \in joinsRead'[v].new \cup joinsRead'[v].old :
                    Joins!Of(v)' \in p /\ p \subseteq Joins!Eligible'
    RowsWell ==
       /\ keyData' \in [JoinFiles -> KeyValues \cup {None}] /\ registry' \in [JoinFiles -> KeyValues \cup {None}]
       /\ JoinFiles \ ChainFiles \subseteq Joins!Eligible'
       /\ Joins!Registered' \subseteq Joins!Eligible'
       /\ related' \subseteq {p \in Joins!Pairs : p \subseteq Joins!Eligible'}
       /\ approval' \in [Joins!Pairs -> {"none", "candidate", "approved"}]
<1>0. /\ Joins!Rebuild \in Joins!Workers /\ ChainFiles \subseteq Joins!Workers /\ Joins!Rebuild \notin ChainFiles /\ ChainFiles \subseteq JoinFiles
      /\ \A w \in Joins!Workers : w = Joins!Rebuild \/ w \in ChainFiles
      /\ \A w \in Joins!Workers : joinsRead[w] \in Read
      /\ Joins!Nothing \in Read /\ None \notin KeyValues
  BY FilesAreNumbered DEF Joins!Workers, JoinTypes, Joins!Nothing, Read, Joins!ConstantsOK
<1>1. RowsWell /\ StepsWell /\ joinTries' \in [ChainFiles -> Nat] /\ joinSkipped' \in BOOLEAN => JoinTypes'
  BY DEF JoinTypes, Joins!Eligible, Joins!Registered
<1>2. UNCHANGED <<keyData, registry, related>> /\ approval' \in [Joins!Pairs -> {"none", "candidate", "approved"}] => RowsWell
  BY DEF JoinTypes, Joins!Eligible, Joins!Registered
<1>3. UNCHANGED joinTries => joinTries' \in [ChainFiles -> Nat]
  BY DEF JoinTypes
<1>4. UNCHANGED joinSkipped => joinSkipped' \in BOOLEAN
  BY DEF JoinTypes
<1> HIDE DEF RowsWell
<1>5. ASSUME NEW w \in Joins!Workers, NEW here, NEW again, NEW next, Joins!Refused(w, here, again, next),
             joinsAt[w] \in FileSteps, here \in {"match", "look"}, again \in {"match", "look"},
             next \in {"look", "elect", "compile"},
             w = Joins!Rebuild => next # "compile", w # Joins!Rebuild => next # "elect"
      PROVE  JoinTypes'
  <2>1. RowsWell
    BY <1>2, <1>5, RefusedMoves DEF Joins!tables, JoinTypes
  <2>2. CASE joinSkipped' = TRUE /\ Joins!Then(w, here, next)
    <3>1. UNCHANGED keyData
      BY <1>5, RefusedMoves
    <3>2. StepsWell /\ joinTries' \in [ChainFiles -> Nat]
      BY <1>5, <2>2, <3>1, ThenTypes
    <3> QED
      BY <1>1, <2>1, <2>2, <3>2
  <2>3. CASE /\ w # Joins!Rebuild /\ joinsAt' = [joinsAt EXCEPT ![w] = again] /\ joinsRead' = [joinsRead EXCEPT ![w] = Joins!Nothing]
             /\ UNCHANGED <<cursor, joinSkipped>> /\ joinTries' \in [ChainFiles -> Nat]
    <3>1. UNCHANGED keyData /\ again \in ChainSteps \ {"start"} /\ joinsAt[w] # "start"
      BY <1>5, RefusedMoves DEF ChainSteps, FileSteps
    <3>2. again \notin {"registers", "matches", "relate", "layer"}
      BY <1>5
    <3>3. StepsWell
      BY <1>0, <2>3, <3>1, <3>2, StepTypes
    <3> QED
      BY <1>1, <1>4, <2>1, <2>3, <3>3
  <2> QED
    BY <1>5, <2>2, <2>3, RefusedMoves
<1>6. ASSUME NEW f \in ChainFiles, Joins!Analyze(f)
      PROVE  JoinTypes'
  <2>1. f \in JoinFiles /\ f \in Joins!Workers
    BY <1>0
  <2>2. PICK x \in KeyValues : keyData' = [keyData EXCEPT ![f] = x]
    BY <1>6 DEF Joins!Analyze
  <2>3. Joins!Eligible' = Joins!Eligible \cup {f}
    BY <1>0, <2>1, <2>2 DEF Joins!Eligible, JoinTypes
  <2>4. RowsWell
    BY <1>0, <1>6, <2>1, <2>2, <2>3 DEF RowsWell, Joins!Analyze, JoinTypes, Joins!Registered, Joins!tables
  <2>5. joinsAt' = [joinsAt EXCEPT ![f] = "match"] /\ UNCHANGED <<cursor, joinsRead, joinTries, joinSkipped>>
    BY <1>6 DEF Joins!Analyze, Joins!Goes
  <2>6. /\ joinsAt' \in [Joins!Workers -> ChainSteps \cup RebuildSteps] /\ joinsAt'[Joins!Rebuild] \in RebuildSteps
        /\ \A g \in ChainFiles : joinsAt'[g] \in ChainSteps /\ (joinsAt'[g] # "start" => g \in Joins!Eligible')
        /\ joinsAt'[Joins!Rebuild] \in FileSteps => cursor' \in Joins!Eligible'
    BY <1>0, <2>3, <2>5 DEF JoinTypes, ChainSteps
  <2>7. ASSUME NEW v \in Joins!Workers
        PROVE  /\ joinsAt'[v] \in {"registers", "matches"} => joinsRead'[v].ents \subseteq KeyValues
               /\ joinsAt'[v] \in {"relate", "layer"} => \A p \in joinsRead'[v].new \cup joinsRead'[v].old :
                      Joins!Of(v)' \in p /\ p \subseteq Joins!Eligible'
    <3>1. Joins!Of(v)' = Joins!Of(v) /\ joinsRead'[v] = joinsRead[v]
      BY <2>5 DEF Joins!Of
    <3>2. joinsAt'[v] = joinsAt[v] \/ joinsAt'[v] = "match"
      BY <1>0, <2>5 DEF JoinTypes
    <3> QED
      BY <2>3, <3>1, <3>2 DEF JoinTypes
  <2>8. joinsRead' \in [Joins!Workers -> Read]
    BY <2>5 DEF JoinTypes
  <2> QED
    BY <1>1, <1>3, <1>4, <2>4, <2>5, <2>6, <2>7, <2>8
<1>7. CASE Joins!ClearIndexes
  <2>1. RowsWell
    BY <1>7 DEF RowsWell, Joins!ClearIndexes, JoinTypes, Joins!Eligible, Joins!Registered
  <2>2. joinsAt' = [joinsAt EXCEPT ![Joins!Rebuild] = "clear"] /\ UNCHANGED <<keyData, cursor, joinsRead, joinTries, joinSkipped>>
    BY <1>7 DEF Joins!ClearIndexes, Joins!Goes
  <2>3. joinsRead' = [joinsRead EXCEPT ![Joins!Rebuild] = joinsRead[Joins!Rebuild]] /\ joinsRead[Joins!Rebuild] \in Read
    BY <1>0, <2>2 DEF JoinTypes
  <2>4. StepsWell
    BY <1>0, <2>2, <2>3, StepTypes DEF RebuildSteps, FileSteps
  <2> QED
    BY <1>1, <1>3, <1>4, <2>1, <2>2, <2>4
<1>8. CASE Joins!ClearRelationships
  <2>1. RowsWell
    BY <1>8 DEF RowsWell, Joins!ClearRelationships, JoinTypes, Joins!Eligible, Joins!Registered
  <2>2. /\ joinsAt' = [joinsAt EXCEPT ![Joins!Rebuild] = "register"] /\ UNCHANGED <<keyData, joinsRead, joinTries, joinSkipped>>
        /\ cursor' = CHOOSE f \in Joins!Eligible : \A g \in Joins!Eligible : f <= g
    BY <1>8 DEF Joins!ClearRelationships, Joins!Goes
  <2>3. Joins!Eligible \in SUBSET Nat /\ Joins!Eligible # {} /\ Joins!Eligible' = Joins!Eligible
    BY <2>2, FilesAreNumbered DEF Joins!ConstantsOK, JoinTypes, Joins!Eligible
  <2>4. cursor' \in Joins!Eligible'
    BY <2>2, <2>3, LeastNumber
  <2>5. /\ joinsAt' \in [Joins!Workers -> ChainSteps \cup RebuildSteps] /\ joinsAt'[Joins!Rebuild] \in RebuildSteps
        /\ \A f \in ChainFiles : joinsAt'[f] \in ChainSteps /\ (joinsAt'[f] # "start" => f \in Joins!Eligible')
        /\ joinsRead' \in [Joins!Workers -> Read]
    BY <1>0, <2>2, <2>3 DEF JoinTypes, RebuildSteps, FileSteps
  <2>6. ASSUME NEW v \in Joins!Workers
        PROVE  /\ joinsAt'[v] \in {"registers", "matches"} => joinsRead'[v].ents \subseteq KeyValues
               /\ joinsAt'[v] \in {"relate", "layer"} => \A p \in joinsRead'[v].new \cup joinsRead'[v].old :
                      Joins!Of(v)' \in p /\ p \subseteq Joins!Eligible'
    <3>1. CASE v = Joins!Rebuild
      BY <1>0, <2>2, <3>1 DEF JoinTypes
    <3>2. CASE v # Joins!Rebuild
      <4>1. joinsAt'[v] = joinsAt[v] /\ joinsRead'[v] = joinsRead[v] /\ Joins!Of(v)' = Joins!Of(v)
        BY <1>0, <2>2, <3>2 DEF JoinTypes, Joins!Of
      <4> QED
        BY <2>3, <4>1 DEF JoinTypes
    <3> QED
      BY <3>1, <3>2
  <2> QED
    BY <1>1, <1>3, <1>4, <2>1, <2>2, <2>4, <2>5, <2>6
<1>9. CASE Joins!Elect
  <2>1. approval' \in [Joins!Pairs -> {"none", "candidate", "approved"}]
    BY <1>9 DEF Joins!Elect, JoinTypes
  <2>2. RowsWell
    BY <1>2, <1>9, <2>1 DEF Joins!Elect
  <2>3. joinsAt' = [joinsAt EXCEPT ![Joins!Rebuild] = "end"] /\ UNCHANGED <<keyData, cursor, joinsRead, joinTries, joinSkipped>>
    BY <1>9 DEF Joins!Elect, Joins!Goes
  <2>4. joinsRead' = [joinsRead EXCEPT ![Joins!Rebuild] = joinsRead[Joins!Rebuild]] /\ joinsRead[Joins!Rebuild] \in Read
    BY <1>0, <2>3 DEF JoinTypes
  <2>5. StepsWell
    BY <1>0, <2>3, <2>4, StepTypes DEF RebuildSteps, FileSteps
  <2> QED
    BY <1>1, <1>3, <1>4, <2>2, <2>3, <2>5
<1>10. ASSUME NEW f \in ChainFiles, Joins!Compile(f) \/ Joins!Store(f)
       PROVE  JoinTypes'
  <2>1. RowsWell /\ UNCHANGED <<keyData, cursor, joinTries, joinSkipped>>
    BY <1>2, <1>10 DEF Joins!Compile, Joins!Store, Joins!tables, JoinTypes
  <2>2. PICK r \in Read, stage \in {"store", "end"} :
            joinsAt' = [joinsAt EXCEPT ![f] = stage] /\ joinsRead' = [joinsRead EXCEPT ![f] = r]
    BY <1>10 DEF Joins!Compile, Joins!Store, Joins!Goes, Joins!Remembers, Joins!Nothing, Read, Joins!Approved
  <2>3. joinsAt[f] # "start" /\ f \in Joins!Workers /\ f # Joins!Rebuild
    BY <1>0, <1>10 DEF Joins!Compile, Joins!Store
  <2>4. StepsWell
    BY <2>1, <2>2, <2>3, StepTypes DEF ChainSteps
  <2> QED
    BY <1>1, <1>3, <1>4, <2>1, <2>4
<1>11. ASSUME NEW w \in Joins!Workers, Joins!ReadMetadata(w)
       PROVE  JoinTypes'
  <2> DEFINE r == [Joins!Nothing EXCEPT !.ents = {keyData[Joins!Of(w)]}]
             stage == IF joinsAt[w] = "register" THEN "registers" ELSE "matches"
  <2>1. RowsWell /\ UNCHANGED <<keyData, cursor, joinTries, joinSkipped>>
    BY <1>2, <1>11 DEF Joins!ReadMetadata, Joins!tables, JoinTypes
  <2>2. Joins!Of(w) \in Joins!Eligible
    BY <1>11, WorkedOn DEF Joins!ReadMetadata
  <2>3. r \in Read /\ r.ents \subseteq KeyValues
    BY <2>2 DEF Joins!Eligible, JoinTypes, Read, Joins!Nothing
  <2>4. joinsAt' = [joinsAt EXCEPT ![w] = stage] /\ joinsRead' = [joinsRead EXCEPT ![w] = r]
    BY <1>11 DEF Joins!ReadMetadata, Joins!Goes, Joins!Remembers
  <2>5. joinsAt[w] \in {"register", "match"} /\ (w # Joins!Rebuild => joinsAt[w] = "match")
    BY <1>0, <1>11 DEF Joins!ReadMetadata, JoinTypes, ChainSteps
  <2> HIDE DEF r
  <2>6. /\ stage \in {"registers", "matches"}
        /\ IF w = Joins!Rebuild THEN stage \in RebuildSteps /\ joinsAt[w] \in FileSteps
           ELSE stage \in ChainSteps \ {"start"} /\ joinsAt[w] # "start"
    BY <2>5 DEF ChainSteps, RebuildSteps, FileSteps
  <2> HIDE DEF stage
  <2>7. StepsWell
    BY <2>1, <2>3, <2>4, <2>6, StepTypes
  <2> QED
    BY <1>1, <1>3, <1>4, <2>1, <2>7
<1>12. ASSUME NEW w \in Joins!Workers, Joins!Register(w)
       PROVE  JoinTypes'
  <2>1. Joins!Of(w) \in Joins!Eligible /\ joinsRead[w].ents \subseteq KeyValues
    BY <1>12, WorkedOn DEF Joins!Register, JoinTypes
  <2>2. RowsWell
    BY <1>12, <2>1 DEF RowsWell, Joins!Register, JoinTypes, Joins!Eligible, Joins!Registered
  <2>3. CASE joinsAt[w] = "registers"
    <3>1. w = Joins!Rebuild /\ Joins!Then(w, "register", "match") /\ UNCHANGED <<keyData, joinSkipped>>
      BY <1>0, <1>12, <2>3 DEF Joins!Register, JoinTypes, ChainSteps
    <3>2. StepsWell /\ joinTries' \in [ChainFiles -> Nat]
      BY <2>3, <3>1, ThenTypes DEF FileSteps
    <3> QED
      BY <1>1, <1>4, <2>2, <3>1, <3>2
  <2>4. CASE joinsAt[w] = "matches"
    <3>1. /\ joinsAt' = [joinsAt EXCEPT ![w] = "find"] /\ joinsRead' = [joinsRead EXCEPT ![w] = Joins!Nothing]
          /\ UNCHANGED <<keyData, cursor, joinTries, joinSkipped>>
      BY <1>12, <2>4 DEF Joins!Register, Joins!Goes, Joins!Remembers
    <3>2. StepsWell
      BY <1>0, <2>4, <3>1, StepTypes DEF ChainSteps, RebuildSteps, FileSteps
    <3> QED
      BY <1>1, <1>3, <1>4, <2>2, <3>1, <3>2
  <2> QED
    BY <1>12, <2>3, <2>4 DEF Joins!Register
<1>13. ASSUME NEW w \in Joins!Workers, Joins!Find(w)
       PROVE  JoinTypes'
  <2> DEFINE found == IF registry[Joins!Of(w)] = None THEN {} ELSE Joins!Matches(Joins!Of(w))
             r == [Joins!Nothing EXCEPT !.old = found \cap related, !.new = found \ related]
  <2>1. RowsWell /\ UNCHANGED <<keyData, cursor, joinTries, joinSkipped>>
    BY <1>2, <1>13 DEF Joins!Find, Joins!tables, JoinTypes
  <2>2. \A p \in found : p \in Joins!Pairs /\ Joins!Of(w) \in p /\ p \subseteq Joins!Eligible
    BY FilesAreNumbered DEF Joins!Matches, JoinTypes, Joins!Registered
  <2>3. r \in Read /\ r.new \cup r.old = found
    BY <2>2 DEF Read, Joins!Nothing
  <2>4. joinsAt[w] = "find" /\ joinsAt' = [joinsAt EXCEPT ![w] = "relate"] /\ joinsRead' = [joinsRead EXCEPT ![w] = r]
    BY <1>13 DEF Joins!Find, Joins!Goes, Joins!Remembers
  <2> HIDE DEF found, r
  <2>5. StepsWell
    BY <1>0, <2>1, <2>2, <2>3, <2>4, StepTypes DEF ChainSteps, RebuildSteps, FileSteps
  <2> QED
    BY <1>1, <1>3, <1>4, <2>1, <2>5
<1>14. ASSUME NEW w \in Joins!Workers, Joins!Relate(w)
       PROVE  JoinTypes'
  <2>1. CASE Joins!Refused(w, "match", "match", "look")
    BY <1>5, <1>14, <2>1 DEF Joins!Relate, FileSteps
  <2>2. CASE /\ related' = related \cup joinsRead[w].new /\ Joins!Then(w, "match", "look")
             /\ UNCHANGED <<keyData, registry, approval, joinEntities, masters, contract, joinSkipped>>
    <3>1. RowsWell
      BY <1>0, <1>14, <2>2 DEF RowsWell, Joins!Relate, JoinTypes, Joins!Eligible, Joins!Registered, Read
    <3>2. StepsWell /\ joinTries' \in [ChainFiles -> Nat]
      BY <1>14, <2>2, ThenTypes DEF Joins!Relate, FileSteps
    <3> QED
      BY <1>1, <1>4, <2>2, <3>1, <3>2
  <2> QED
    BY <1>14, <2>1, <2>2 DEF Joins!Relate
<1>15. ASSUME NEW w \in Joins!Workers, Joins!Look(w)
       PROVE  JoinTypes'
  <2> DEFINE mine == {p \in related : Joins!Of(w) \in p}
             r == [old |-> {p \in mine : approval[p] # "none"}, new |-> {p \in mine : approval[p] = "none"},
                   ents |-> Joins!Lacking(w, mine)]
  <2>1. RowsWell /\ UNCHANGED <<keyData, cursor, joinTries, joinSkipped>>
    BY <1>2, <1>15 DEF Joins!Look, Joins!tables, JoinTypes
  <2>2. Joins!Of(w) \in Joins!Eligible /\ Joins!Eligible \subseteq JoinFiles
    BY <1>15, WorkedOn DEF Joins!Look, Joins!Eligible
  <2>3. \A p \in mine : p \in Joins!Pairs /\ Joins!Of(w) \in p /\ p \subseteq Joins!Eligible
    BY DEF JoinTypes
  <2>4. r \in Read /\ r.new \cup r.old \subseteq mine
    <3>1. Joins!Lacking(w, mine) \subseteq JoinFiles
      BY <2>2, <2>3 DEF Joins!Lacking
    <3>2. mine \subseteq Joins!Pairs
      BY <2>3
    <3> HIDE DEF mine
    <3> QED
      BY <3>1, <3>2 DEF Read
  <2>5. joinsAt[w] = "look" /\ joinsAt' = [joinsAt EXCEPT ![w] = "layer"] /\ joinsRead' = [joinsRead EXCEPT ![w] = r]
    BY <1>15 DEF Joins!Look, Joins!Goes, Joins!Remembers
  <2> HIDE DEF mine, r
  <2>6. StepsWell
    BY <1>0, <2>1, <2>3, <2>4, <2>5, StepTypes DEF ChainSteps, RebuildSteps, FileSteps
  <2> QED
    BY <1>1, <1>3, <1>4, <2>1, <2>6
<1>16. ASSUME NEW w \in Joins!Workers, Joins!Layer(w)
       PROVE  JoinTypes'
  <2> DEFINE next == IF w = Joins!Rebuild THEN "elect" ELSE "compile"
  <2>1. CASE Joins!Refused(w, "look", "look", next)
    BY <1>5, <1>16, <2>1 DEF Joins!Layer, FileSteps
  <2>2. CASE /\ approval' = [p \in Joins!Pairs |-> IF p \in joinsRead[w].new \cup joinsRead[w].old THEN Joins!Approval(p) ELSE approval[p]]
             /\ Joins!Then(w, "look", next)
             /\ UNCHANGED <<keyData, registry, related, masters, contract, joinSkipped>>
    <3>1. approval' \in [Joins!Pairs -> {"none", "candidate", "approved"}]
      BY <2>2 DEF JoinTypes, Joins!Approval
    <3>2. RowsWell
      BY <1>2, <2>2, <3>1
    <3>3. StepsWell /\ joinTries' \in [ChainFiles -> Nat]
      BY <1>16, <2>2, ThenTypes DEF Joins!Layer, FileSteps
    <3> QED
      BY <1>1, <1>4, <2>2, <3>2, <3>3
  <2> QED
    BY <1>16, <2>1, <2>2 DEF Joins!Layer
<1>17. CASE UNCHANGED Joins!vars
  BY <1>17 DEF Joins!vars, JoinTypes, Joins!Eligible, Joins!Registered, Joins!Of
<1> QED
  BY <1>6, <1>7, <1>8, <1>9, <1>10, <1>11, <1>12, <1>13, <1>14, <1>15, <1>16, <1>17 DEF Joins!Next

(* A stage of one worker takes nothing from what the others are still to do.       *)
LEMMA FoundByOthers ==
    ASSUME NEW w \in Joins!Workers, Found,
           \A v \in Joins!Workers : v # w => joinsAt'[v] = joinsAt[v] /\ joinsRead'[v] = joinsRead[v],
           w # Joins!Rebuild => cursor' = cursor,
           \A p \in Joins!Pairs : Overlap(p)' =>
               \/ p \in related' \/ Finds(w, p)'
               \/ Overlap(p) /\ p \notin related /\ ~Finds(w, p)
    PROVE  Found'
<1>1. ASSUME NEW p \in Joins!Pairs, NEW v \in Joins!Workers, v # w
      PROVE  Finds(v, p) => Finds(v, p)'
  BY <1>1 DEF Finds, Joins!Rebuild
<1> QED
  BY <1>1 DEF Found, Joins!Pairs, Joins!Workers

LEMMA LayeredByOthers ==
    ASSUME NEW w \in Joins!Workers, Layered,
           \A v \in Joins!Workers : v # w => joinsAt'[v] = joinsAt[v] /\ joinsRead'[v] = joinsRead[v],
           w # Joins!Rebuild => cursor' = cursor,
           joinEntities \subseteq joinEntities',
           \A p \in related' :
               \/ InLayer(p)' \/ Layers(w, p)'
               \/ p \in related /\ ~InLayer(p) /\ ~Layers(w, p)
    PROVE  Layered'
<1>1. ASSUME NEW p, NEW v \in Joins!Workers, v # w
      PROVE  Layers(v, p) => Layers(v, p)'
  BY <1>1 DEF Layers, Joins!Rebuild
<1> QED
  BY <1>1 DEF Layered, Joins!Workers

(* A worker that took back what it had begun does it again.                     *)
LEMMA RefusedKeeps ==
    ASSUME Joins!ConstantsOK, JoinTypes, Found, Layered, NEW w \in Joins!Workers, NEW here, NEW again, NEW next,
           Joins!Refused(w, here, again, next), ~joinSkipped',
           \/ joinsAt[w] = "relate" /\ again = "match"
           \/ joinsAt[w] = "layer" /\ again = "look"
    PROVE  Found' /\ Layered'
<1>1. /\ UNCHANGED <<keyData, Joins!tables, cursor>> /\ w # Joins!Rebuild
      /\ joinsAt' = [joinsAt EXCEPT ![w] = again] /\ joinsRead' = [joinsRead EXCEPT ![w] = Joins!Nothing]
  BY RefusedMoves DEF JoinTypes
<1>2. /\ \A v \in Joins!Workers : v # w => joinsAt'[v] = joinsAt[v] /\ joinsRead'[v] = joinsRead[v]
      /\ joinsAt'[w] = again /\ joinsRead'[w] = Joins!Nothing
  BY <1>1 DEF JoinTypes
<1>3. \A p \in joinsRead[w].new \cup joinsRead[w].old : w \in p
  BY <1>1 DEF JoinTypes, Joins!Of
<1>4. ASSUME NEW p \in Joins!Pairs, Finds(w, p)
      PROVE  Finds(w, p)'
  BY <1>1, <1>2, <1>3, <1>4 DEF Finds, Joins!Rebuild
<1>5. ASSUME NEW p, Layers(w, p)
      PROVE  Layers(w, p)'
  BY <1>1, <1>2, <1>3, <1>5 DEF Layers, Joins!Rebuild
<1>6. /\ \A p \in Joins!Pairs : Overlap(p)' <=> Overlap(p)
      /\ \A p \in related : InLayer(p)' <=> InLayer(p)
      /\ related' = related /\ joinEntities' = joinEntities
  BY <1>1 DEF Overlap, InLayer, Joins!tables
<1>7. Found'
  BY <1>1, <1>2, <1>4, <1>6, FoundByOthers
<1>8. Layered'
  BY <1>1, <1>2, <1>5, <1>6, LayeredByOthers
<1> QED
  BY <1>7, <1>8

LEMMA JoinedStep ==
    ASSUME Joins!ConstantsOK, JoinTypes, Found, Layered, Joins!Next, ~joinSkipped', JoinTypes'
    PROVE  Found' /\ Layered'
<1>0. /\ Joins!Rebuild \in Joins!Workers /\ ChainFiles \subseteq Joins!Workers /\ Joins!Rebuild \notin ChainFiles
      /\ \A w \in Joins!Workers : w = Joins!Rebuild \/ w \in ChainFiles
      /\ JoinFiles \subseteq Nat /\ related \subseteq Joins!Pairs
  BY FilesAreNumbered DEF Joins!Workers, JoinTypes
<1>1. \A p \in Joins!Pairs : Overlap(p) => p \subseteq Joins!Eligible
  BY FilesAreNumbered DEF Overlap, JoinTypes, Joins!Registered
<1>2. UNCHANGED registry => \A p : Overlap(p)' <=> Overlap(p)
  BY DEF Overlap
<1>3. UNCHANGED <<approval, joinEntities>> => \A p : InLayer(p)' <=> InLayer(p)
  BY DEF InLayer
<1>4. \A p \in Joins!Pairs : p # {}
  BY FilesAreNumbered
<1>6. ASSUME NEW f \in ChainFiles, Joins!Analyze(f)
      PROVE  Found' /\ Layered'
  <2>1. /\ f \in Joins!Workers /\ f # Joins!Rebuild /\ joinsAt[f] = "start" /\ joinsAt' = [joinsAt EXCEPT ![f] = "match"]
        /\ UNCHANGED <<registry, related, approval, joinEntities, cursor, joinsRead>>
    BY <1>0, <1>6 DEF Joins!Analyze, Joins!Goes, Joins!tables
  <2>2. joinsAt'[f] = "match" /\ \A v \in Joins!Workers : v # f => joinsAt'[v] = joinsAt[v] /\ joinsRead'[v] = joinsRead[v]
    BY <2>1 DEF JoinTypes
  <2>3. \A p \in Joins!Pairs : Finds(f, p) => Finds(f, p)'
    BY <2>1, <2>2 DEF Finds
  <2>4. \A p \in Joins!Pairs : Layers(f, p) => Layers(f, p)'
    BY <2>1, <2>2 DEF Layers
  <2> QED
    BY <1>0, <1>2, <1>3, <2>1, <2>2, <2>3, <2>4, FoundByOthers, LayeredByOthers
<1>7. CASE Joins!ClearIndexes
  <2>1. joinsAt' = [joinsAt EXCEPT ![Joins!Rebuild] = "clear"]
    BY <1>7 DEF Joins!ClearIndexes, Joins!Goes
  <2>2. joinsAt'[Joins!Rebuild] = "clear"
    BY <1>0, <2>1 DEF JoinTypes
  <2>3. \A p : Finds(Joins!Rebuild, p)' /\ Layers(Joins!Rebuild, p)'
    BY <2>2 DEF Finds, Layers
  <2> QED
    BY <1>0, <2>3 DEF Found, Layered, Joins!Workers
<1>8. CASE Joins!ClearRelationships
  <2>1. joinsAt' = [joinsAt EXCEPT ![Joins!Rebuild] = "register"]
    BY <1>8 DEF Joins!ClearRelationships, Joins!Goes
  <2>2. joinsAt'[Joins!Rebuild] = "register"
    BY <1>0, <2>1 DEF JoinTypes
  <2>3. \A p : Finds(Joins!Rebuild, p)' /\ Layers(Joins!Rebuild, p)'
    BY <2>2 DEF Finds, Layers
  <2> QED
    BY <1>0, <2>3 DEF Found, Layered, Joins!Workers
<1>9. CASE Joins!Elect
  <2>1. /\ joinsAt[Joins!Rebuild] = "elect" /\ joinsAt' = [joinsAt EXCEPT ![Joins!Rebuild] = "end"]
        /\ UNCHANGED <<registry, related, joinEntities, cursor, joinsRead>>
    BY <1>9 DEF Joins!Elect, Joins!Goes
  <2>2. \A v \in Joins!Workers : v # Joins!Rebuild => joinsAt'[v] = joinsAt[v] /\ joinsRead'[v] = joinsRead[v]
    BY <2>1 DEF JoinTypes
  <2>3. \A p : ~Finds(Joins!Rebuild, p) /\ ~Layers(Joins!Rebuild, p)
    BY <2>1 DEF Finds, Layers
  <2>4. \A p \in related : InLayer(p) => InLayer(p)'
    BY <1>0, <1>9 DEF InLayer, Joins!Elect
  <2> QED
    BY <1>0, <1>2, <2>1, <2>2, <2>3, <2>4, FoundByOthers, LayeredByOthers
<1>10. ASSUME NEW f \in ChainFiles, Joins!Compile(f) \/ Joins!Store(f)
       PROVE  Found' /\ Layered'
  <2>1. /\ f \in Joins!Workers /\ f # Joins!Rebuild /\ joinsAt[f] \in {"compile", "store"}
        /\ UNCHANGED <<registry, related, approval, joinEntities, cursor>>
    BY <1>0, <1>10 DEF Joins!Compile, Joins!Store, Joins!tables
  <2>2. \A v \in Joins!Workers : v # f => joinsAt'[v] = joinsAt[v] /\ joinsRead'[v] = joinsRead[v]
    BY <1>10 DEF Joins!Compile, Joins!Store, Joins!Goes, Joins!Remembers, JoinTypes
  <2>3. \A p : ~Finds(f, p) /\ ~Layers(f, p)
    BY <2>1 DEF Finds, Layers
  <2> QED
    BY <1>0, <1>2, <1>3, <2>1, <2>2, <2>3, FoundByOthers, LayeredByOthers
<1>11. ASSUME NEW w \in Joins!Workers, Joins!ReadMetadata(w)
       PROVE  Found' /\ Layered'
  <2>1. /\ joinsAt' = [joinsAt EXCEPT ![w] = IF joinsAt[w] = "register" THEN "registers" ELSE "matches"]
        /\ joinsAt[w] \in {"register", "match"}
        /\ UNCHANGED <<registry, related, approval, joinEntities, cursor>>
    BY <1>11 DEF Joins!ReadMetadata, Joins!Goes, Joins!tables
  <2>2. \A v \in Joins!Workers : v # w => joinsAt'[v] = joinsAt[v] /\ joinsRead'[v] = joinsRead[v]
    BY <1>11, <2>1 DEF Joins!ReadMetadata, Joins!Remembers, JoinTypes
  <2>3. joinsAt'[w] = IF joinsAt[w] = "register" THEN "registers" ELSE "matches"
    BY <2>1 DEF JoinTypes
  <2>4. w # Joins!Rebuild => joinsAt[w] = "match"
    BY <1>0, <2>1 DEF JoinTypes, ChainSteps
  <2>5. \A p : Finds(w, p) => Finds(w, p)'
    BY <2>1, <2>3, <2>4 DEF Finds
  <2>6. \A p : Layers(w, p) => Layers(w, p)'
    BY <2>1, <2>3, <2>4 DEF Layers
  <2> QED
    BY <1>0, <1>2, <1>3, <2>1, <2>2, <2>5, <2>6, FoundByOthers, LayeredByOthers
<1>12. ASSUME NEW w \in Joins!Workers, Joins!Register(w)
       PROVE  Found' /\ Layered'
  <2>1. UNCHANGED <<related, approval, joinEntities>>
    BY <1>12 DEF Joins!Register
  <2>2. CASE joinsAt[w] = "registers"
    <3>1. w = Joins!Rebuild /\ Joins!Then(w, "register", "match") /\ UNCHANGED keyData
      BY <1>0, <1>12, <2>2 DEF Joins!Register, JoinTypes, ChainSteps
    <3>2. \/ joinsAt'[Joins!Rebuild] = "register"
          \/ joinsAt'[Joins!Rebuild] = "match" /\ \A f \in Joins!Eligible : f >= cursor'
      BY <1>0, <3>1, ThenMoves DEF JoinTypes
    <3>3. \A p \in Joins!Pairs : Overlap(p)' => p \subseteq Joins!Eligible
      BY <3>1, FilesAreNumbered DEF Overlap, JoinTypes, Joins!Registered, Joins!Eligible
    <3>4. \A p \in Joins!Pairs : Overlap(p)' => Finds(Joins!Rebuild, p)'
      BY <1>4, <3>2, <3>3 DEF Finds
    <3>5. \A p : Layers(Joins!Rebuild, p)'
      BY <3>2 DEF Layers
    <3> QED
      BY <1>0, <3>4, <3>5 DEF Found, Layered, Joins!Pairs, Joins!Workers
  <2>3. CASE joinsAt[w] = "matches"
    <3>1. /\ joinsAt' = [joinsAt EXCEPT ![w] = "find"] /\ joinsRead' = [joinsRead EXCEPT ![w] = Joins!Nothing] /\ UNCHANGED cursor
          /\ \E x \in KeyValues : registry' = [registry EXCEPT ![Joins!Of(w)] = x]
      BY <1>12, <2>3 DEF Joins!Register, Joins!Goes, Joins!Remembers, JoinTypes
    <3>2. joinsAt'[w] = "find" /\ \A v \in Joins!Workers : v # w => joinsAt'[v] = joinsAt[v] /\ joinsRead'[v] = joinsRead[v]
      BY <3>1 DEF JoinTypes
    <3>3. Joins!Of(w) \in Nat
      BY <1>0, <2>3, WorkedOn DEF Joins!Eligible
    <3>4. \A p \in Joins!Pairs : Joins!Of(w) \in p => Finds(w, p)'
      BY <3>1, <3>2, <3>3 DEF Finds, Joins!Of
    <3>5. \A p \in Joins!Pairs : Joins!Of(w) \notin p => (Overlap(p)' <=> Overlap(p))
      BY <3>1, FilesAreNumbered DEF Overlap, JoinTypes
    <3>6. \A p : Finds(w, p) => Finds(w, p)'
      BY <2>3, <3>1, <3>2 DEF Finds
    <3>7. \A p : Layers(w, p) => Layers(w, p)'
      BY <2>3, <3>1, <3>2 DEF Layers
    <3>8. Found'
      BY <2>1, <3>1, <3>2, <3>4, <3>5, <3>6, FoundByOthers
    <3>9. Layered'
      BY <1>0, <1>3, <2>1, <3>1, <3>2, <3>7, LayeredByOthers
    <3> QED
      BY <3>8, <3>9
  <2> QED
    BY <1>12, <2>2, <2>3 DEF Joins!Register
<1>13. ASSUME NEW w \in Joins!Workers, Joins!Find(w)
       PROVE  Found' /\ Layered'
  <2> DEFINE found == IF registry[Joins!Of(w)] = None THEN {} ELSE Joins!Matches(Joins!Of(w))
             r == [Joins!Nothing EXCEPT !.old = found \cap related, !.new = found \ related]
  <2>1. /\ joinsAt[w] = "find" /\ joinsAt' = [joinsAt EXCEPT ![w] = "relate"] /\ joinsRead' = [joinsRead EXCEPT ![w] = r]
        /\ UNCHANGED <<registry, related, approval, joinEntities, cursor>>
    BY <1>13 DEF Joins!Find, Joins!Goes, Joins!Remembers, Joins!tables
  <2>2. r.new = found \ related
    BY DEF Joins!Nothing
  <2>3. \A p \in Joins!Pairs : Overlap(p) /\ Joins!Of(w) \in p => p \in found
    BY DEF Overlap, Joins!Matches
  <2> HIDE DEF found, r
  <2>4. /\ joinsAt'[w] = "relate" /\ joinsRead'[w] = r
        /\ \A v \in Joins!Workers : v # w => joinsAt'[v] = joinsAt[v] /\ joinsRead'[v] = joinsRead[v]
    BY <2>1 DEF JoinTypes
  <2>5. ASSUME NEW p \in Joins!Pairs, Overlap(p)
        PROVE  p \in related \/ Finds(w, p)' \/ ~Finds(w, p)
    <3>1. CASE Joins!Of(w) \in p
      BY <2>2, <2>3, <2>4, <2>5, <3>1 DEF Finds
    <3>2. CASE Joins!Of(w) \notin p
      <4>1. Finds(w, p) => w = Joins!Rebuild /\ \E f \in p : f >= cursor /\ f # cursor
        BY <2>1, <3>2 DEF Finds, Joins!Of
      <4>2. p \subseteq Nat /\ (w = Joins!Rebuild => cursor \in Nat)
        BY <1>0, <2>1, WorkedOn, FilesAreNumbered DEF Joins!Of, Joins!Eligible
      <4>3. Finds(w, p) => w = Joins!Rebuild /\ \E f \in p : f > cursor
        BY <4>1, <4>2
      <4> QED
        BY <2>1, <2>4, <4>3 DEF Finds
    <3> QED
      BY <3>1, <3>2
  <2>6. \A p : Layers(w, p) => Layers(w, p)'
    BY <2>1, <2>4 DEF Layers
  <2>7. Found'
    BY <1>2, <2>1, <2>4, <2>5, FoundByOthers
  <2>8. Layered'
    BY <1>0, <1>3, <2>1, <2>4, <2>6, LayeredByOthers
  <2> QED
    BY <2>7, <2>8
<1>14. ASSUME NEW w \in Joins!Workers, Joins!Relate(w)
       PROVE  Found' /\ Layered'
  <2>1. CASE Joins!Refused(w, "match", "match", "look")
    BY <1>14, <2>1, RefusedKeeps DEF Joins!Relate
  <2>2. CASE /\ related' = related \cup joinsRead[w].new /\ Joins!Then(w, "match", "look")
             /\ UNCHANGED <<keyData, registry, approval, joinEntities, masters, contract, joinSkipped>>
    <3>1. /\ joinsRead' = [joinsRead EXCEPT ![w] = Joins!Nothing]
          /\ \/ w # Joins!Rebuild /\ joinsAt' = [joinsAt EXCEPT ![w] = "look"] /\ cursor' = cursor
             \/ /\ w = Joins!Rebuild /\ joinsAt' = [joinsAt EXCEPT ![w] = "match"]
                /\ cursor' \in Joins!Eligible /\ \A f \in Joins!Eligible : f > cursor => f >= cursor'
             \/ /\ w = Joins!Rebuild /\ joinsAt' = [joinsAt EXCEPT ![w] = "look"]
                /\ cursor' \in Joins!Eligible /\ \A f \in Joins!Eligible : ~(f > cursor) /\ f >= cursor'
      BY <2>2, ThenMoves
    <3>2. /\ \A v \in Joins!Workers : v # w => joinsAt'[v] = joinsAt[v] /\ joinsRead'[v] = joinsRead[v]
          /\ w # Joins!Rebuild => joinsAt'[w] = "look" /\ cursor' = cursor
          /\ w = Joins!Rebuild => \/ joinsAt'[w] = "match" /\ \A f \in Joins!Eligible : f > cursor => f >= cursor'
                                  \/ joinsAt'[w] = "look" /\ \A f \in Joins!Eligible : ~(f > cursor) /\ f >= cursor'
      BY <3>1 DEF JoinTypes
    <3>3. joinsAt[w] = "relate" /\ \A p \in joinsRead[w].new : Joins!Of(w) \in p
      BY <1>14 DEF Joins!Relate, JoinTypes
    <3>4. ASSUME NEW p \in Joins!Pairs, Overlap(p), Finds(w, p)
          PROVE  p \in related' \/ Finds(w, p)'
      BY <1>1, <2>2, <3>2, <3>3, <3>4 DEF Finds
    <3>5. ASSUME NEW p \in related', p \in related => Layers(w, p)
          PROVE  Layers(w, p)'
      <4>1. p \in Joins!Pairs /\ p \subseteq Joins!Eligible
        BY <2>2 DEF JoinTypes, Joins!Eligible
      <4>2. CASE w = Joins!Rebuild
        BY <1>4, <3>2, <4>1, <4>2 DEF Layers
      <4>3. CASE w # Joins!Rebuild
        <5>1. w \in p
          BY <2>2, <3>3, <3>5, <4>3 DEF Layers, Joins!Of
        <5> QED
          BY <3>2, <4>3, <5>1 DEF Layers
      <4> QED
        BY <4>2, <4>3
    <3>6. Found'
      BY <1>2, <2>2, <3>2, <3>4, FoundByOthers
    <3>7. Layered'
      BY <1>3, <2>2, <3>2, <3>5, LayeredByOthers
    <3> QED
      BY <3>6, <3>7
  <2> QED
    BY <1>14, <2>1, <2>2 DEF Joins!Relate
<1>15. ASSUME NEW w \in Joins!Workers, Joins!Look(w)
       PROVE  Found' /\ Layered'
  <2> DEFINE mine == {p \in related : Joins!Of(w) \in p}
             r == [old |-> {p \in mine : approval[p] # "none"}, new |-> {p \in mine : approval[p] = "none"},
                   ents |-> Joins!Lacking(w, mine)]
  <2>1. /\ joinsAt[w] = "look" /\ joinsAt' = [joinsAt EXCEPT ![w] = "layer"] /\ joinsRead' = [joinsRead EXCEPT ![w] = r]
        /\ UNCHANGED <<registry, related, approval, joinEntities, cursor>>
    BY <1>15 DEF Joins!Look, Joins!Goes, Joins!Remembers, Joins!tables
  <2>2. \A p \in related : Joins!Of(w) \in p => p \in r.new \cup r.old /\ p \subseteq joinEntities \cup r.ents
    BY DEF Joins!Lacking
  <2> HIDE DEF mine, r
  <2>3. /\ joinsAt'[w] = "layer" /\ joinsRead'[w] = r
        /\ \A v \in Joins!Workers : v # w => joinsAt'[v] = joinsAt[v] /\ joinsRead'[v] = joinsRead[v]
    BY <2>1 DEF JoinTypes
  <2>4. \A p : ~Finds(w, p)
    BY <2>1 DEF Finds
  <2>5. ASSUME NEW p \in related, Layers(w, p)
        PROVE  Layers(w, p)'
    <3>1. CASE Joins!Of(w) \in p
      BY <2>1, <2>2, <2>3, <3>1 DEF Layers
    <3>2. CASE Joins!Of(w) \notin p
      <4>1. w = Joins!Rebuild /\ \E f \in p : f >= cursor /\ f # cursor
        BY <2>1, <2>5, <3>2 DEF Layers, Joins!Of
      <4>2. p \subseteq Nat /\ cursor \in Nat
        BY <1>0, <2>1, <4>1, WorkedOn, FilesAreNumbered DEF Joins!Of, Joins!Eligible
      <4>3. \E f \in p : f > cursor
        BY <4>1, <4>2
      <4> QED
        BY <2>1, <2>3, <4>1, <4>3 DEF Layers
    <3> QED
      BY <3>1, <3>2
  <2>6. Found'
    BY <1>2, <2>1, <2>3, <2>4, FoundByOthers
  <2>7. Layered'
    BY <1>3, <2>1, <2>3, <2>5, LayeredByOthers
  <2> QED
    BY <2>6, <2>7
<1>16. ASSUME NEW w \in Joins!Workers, Joins!Layer(w)
       PROVE  Found' /\ Layered'
  <2> DEFINE next == IF w = Joins!Rebuild THEN "elect" ELSE "compile"
             mine == joinsRead[w].new \cup joinsRead[w].old
  <2>1. CASE Joins!Refused(w, "look", "look", next)
    BY <1>16, <2>1, RefusedKeeps DEF Joins!Layer
  <2>2. CASE /\ approval' = [p \in Joins!Pairs |-> IF p \in mine THEN Joins!Approval(p) ELSE approval[p]]
             /\ joinEntities' = joinEntities \cup joinsRead[w].ents
             /\ Joins!Then(w, "look", next)
             /\ UNCHANGED <<keyData, registry, related, masters, contract, joinSkipped>>
    <3>1. /\ joinsRead' = [joinsRead EXCEPT ![w] = Joins!Nothing]
          /\ \/ w # Joins!Rebuild /\ joinsAt' = [joinsAt EXCEPT ![w] = next] /\ cursor' = cursor
             \/ /\ w = Joins!Rebuild /\ joinsAt' = [joinsAt EXCEPT ![w] = "look"]
                /\ cursor' \in Joins!Eligible /\ \A f \in Joins!Eligible : f > cursor => f >= cursor'
             \/ /\ w = Joins!Rebuild /\ joinsAt' = [joinsAt EXCEPT ![w] = next]
                /\ cursor' \in Joins!Eligible /\ \A f \in Joins!Eligible : ~(f > cursor) /\ f >= cursor'
      BY <2>2, ThenMoves
    <3>2. /\ \A v \in Joins!Workers : v # w => joinsAt'[v] = joinsAt[v] /\ joinsRead'[v] = joinsRead[v]
          /\ w # Joins!Rebuild => cursor' = cursor
          /\ w = Joins!Rebuild => \/ joinsAt'[w] = "look" /\ \A f \in Joins!Eligible : f > cursor => f >= cursor'
                                  \/ \A f \in Joins!Eligible : ~(f > cursor)
      BY <3>1 DEF JoinTypes
    <3>3. joinsAt[w] = "layer"
      BY <1>16 DEF Joins!Layer
    <3>4. \A p : ~Finds(w, p)
      BY <3>3 DEF Finds
    <3>5. \A p \in related : InLayer(p) => InLayer(p)'
      BY <1>0, <2>2 DEF InLayer, Joins!Approval
    <3>6. ASSUME NEW p \in related, Layers(w, p)
          PROVE  InLayer(p)' \/ Layers(w, p)'
      <4>1. CASE p \in mine /\ p \subseteq joinEntities \cup joinsRead[w].ents
        BY <1>0, <2>2, <4>1 DEF InLayer, Joins!Approval
      <4>2. CASE w = Joins!Rebuild /\ \E f \in p : f > cursor
        <5>1. p \subseteq Joins!Eligible
          BY DEF JoinTypes
        <5> QED
          BY <3>2, <4>2, <5>1 DEF Layers
      <4> QED
        BY <3>3, <3>6, <4>1, <4>2 DEF Layers
    <3>7. Found'
      BY <1>2, <2>2, <3>2, <3>4, FoundByOthers
    <3>8. Layered'
      BY <2>2, <3>2, <3>5, <3>6, LayeredByOthers
    <3> QED
      BY <3>7, <3>8
  <2> QED
    BY <1>16, <2>1, <2>2 DEF Joins!Layer
<1> QED
  BY <1>6, <1>7, <1>8, <1>9, <1>10, <1>11, <1>12, <1>13, <1>14, <1>15, <1>16 DEF Joins!Next

LEMMA JoinedInit == ASSUME Joins!ConstantsOK, Joins!Init PROVE Joined
<1>1. /\ Joins!Rebuild \in Joins!Workers /\ Joins!Rebuild \notin ChainFiles /\ JoinFiles \ ChainFiles \subseteq Joins!Eligible
      /\ \A p \in Joins!Pairs : p \subseteq JoinFiles /\ p # {}
  BY FilesAreNumbered DEF Joins!Init, Joins!Workers, Joins!Eligible
<1>2. related \subseteq {p \in Joins!Pairs : p \subseteq Joins!Eligible}
  BY <1>1 DEF Joins!Init, Joins!Eligible, Joins!ConstantsOK
<1>3. Joins!Nothing \in Read
  BY DEF Joins!Nothing, Read
<1>4. JoinTypes
  BY <1>1, <1>2, <1>3 DEF Joins!Init, JoinTypes, Joins!Eligible, Joins!Registered, FileSteps, RebuildSteps, ChainSteps, Joins!Workers
<1>5. joinsAt[Joins!Rebuild] = "start"
  BY <1>1 DEF Joins!Init
<1>6. \A p : Finds(Joins!Rebuild, p) /\ Layers(Joins!Rebuild, p)
  BY <1>5 DEF Finds, Layers
<1> QED
  BY <1>1, <1>4, <1>6 DEF Joined, Found, Layered

LEMMA JoinsHold == ASSUME Joins!ConstantsOK PROVE Joins!Spec => []Joins!MatchesAreRelated
<1>1. Joins!Init => Joined
  BY JoinedInit
<1>2. Joined /\ [Joins!Next]_(Joins!vars) => Joined'
  <2>1. ASSUME Joined, Joins!Next, ~joinSkipped'
        PROVE  ~joinSkipped
    BY <2>1, RefusedMoves
       DEF Joined, Joins!Next, Joins!Analyze, Joins!Compile, Joins!Store, Joins!ClearIndexes, Joins!ClearRelationships, Joins!Elect, Joins!ReadMetadata, Joins!Register,
           Joins!Find, Joins!Relate, Joins!Look, Joins!Layer
  <2>2. ASSUME Joined, Joins!Next
        PROVE  Joined'
    BY <2>1, <2>2, JoinTypesStep, JoinedStep DEF Joined
  <2>3. ASSUME Joined, UNCHANGED Joins!vars
        PROVE  Joined'
    <3>1. JoinTypes'
      BY <2>3, JoinTypesStep DEF Joined
    <3> QED
      BY <2>3, <3>1 DEF Joins!vars, Joined, Found, Layered, Finds, Layers, Overlap, InLayer
  <2> QED
    BY <2>2, <2>3
<1>3. Joined => Joins!MatchesAreRelated
  <2>1. ASSUME Joined, Joins!Settled, NEW p
        PROVE  \A w \in Joins!Workers : ~Finds(w, p) /\ ~Layers(w, p)
    BY <2>1 DEF Joins!Settled, Finds, Layers
  <2>2. \A p \in Joins!Pairs : Overlap(p) <=> \A f, g \in p : registry[f] # None /\ registry[f] = registry[g]
    BY DEF Overlap
  <2> QED
    BY <2>1, <2>2 DEF Joins!MatchesAreRelated, Joined, Found, Layered, InLayer
<1> QED
  BY <1>1, <1>2, <1>3, PTL DEF Joins!Spec
-----------------------------------------------------------------------------
(* Two files whose roles contradict each other are never both let through once both are judged by     *)
(* their present roles, and a class the contract may act on agrees with the labels it was found under *)
(* or was marked down, however chains and rebuilds overlap (trust_state.py, erp/classifier.py). When  *)
(* chains and a rebuild have ended and no stage was given up, files whose fingerprints overlap are    *)
(* joined (relationship_detector.py, semantic_rebuild.py).                                         *)
THEOREM FilesUnderstood ==
    ASSUME Meaning!ConstantsOK, Joins!ConstantsOK PROVE Spec => []FilesAreUnderstood
<1>1. Init => /\ focus = "meaning" => Meaning!Init
              /\ focus = "joins" => Joins!Init
  BY DEF Init, Begins
<1>2. [Next]_vars => /\ (focus = "meaning") <=> (focus = "meaning")'
                     /\ focus = "meaning" => [Meaning!Next]_(Meaning!vars)
  BY DEF Next, Moves, vars, meaningVars, Meaning!vars
<1>3. [Next]_vars => /\ (focus = "joins") <=> (focus = "joins")'
                     /\ focus = "joins" => [Joins!Next]_(Joins!vars)
  BY DEF Next, Moves, vars, joinsVars, Joins!vars
<1> QED
  BY <1>1, <1>2, <1>3, MeaningHolds, JoinsHold, PTL DEF Spec, Meaning!Spec, Joins!Spec, FilesAreUnderstood
===============================================================================
