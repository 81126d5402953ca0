---------------------------- MODULE Services_proofs ----------------------------
(* Proofs about the services: of each component, for any constants that its ConstantsOK admits.    *)
EXTENDS Services, FiniteSets, FiniteSetTheorems, Sequences, TLAPS

-----------------------------------------------------------------------------
(* ChatConversation.                                                         *)

LEMMA TalkCardinality == \A S : Talk!Cardinality(S) = Cardinality(S)
BY Zenon DEF Talk!Cardinality, Cardinality

(* A request only ever reads and writes conversations that exist, which only grow: *)
(* what it has read of one never exceeds what is there.                       *)
RequestTypes ==
    /\ at \in [Requests -> {"new", "loaded", "scope", "queued", "streaming", "answering", "save",
                            "error", "background", "summarising", "end"}]
    /\ stored \in [Requests -> {"nothing", "question", "answer", "error"}]
    /\ told \in [Requests -> {"nothing", "gone", "refused", "busy", "answer", "error", "left"}]
    /\ counted \in [Requests -> Nat] /\ loaded \in [Requests -> Nat]
    /\ conv \in [Requests -> opened]

ConversationTypes ==
    /\ messages \in [Convs -> Nat] /\ tokens \in [Convs -> Nat]
    /\ opened \subseteq Convs
    /\ \E k \in Nat : opened = 1..k

Told(r) ==
    /\ at[r] \in {"background", "summarising"} => told[r] # "nothing"
    /\ at[r] = "end" /\ stored[r] # "nothing" => told[r] # "nothing"

ReadRightly(r) ==
    /\ loaded[r] =< messages[conv[r]]
    /\ at[r] = "summarising" => counted[r] =< messages[conv[r]]

Kept ==
    /\ RequestTypes /\ ConversationTypes
    /\ \A r \in Requests : Told(r) /\ ReadRightly(r)
    /\ Talk!TokensAreMessages

LEMMA InitKept == ASSUME Talk!ConstantsOK, Talk!Init PROVE Kept
<1>1. PICK n \in Nat \ {0} : Convs = 1..n
  BY DEF Talk!ConstantsOK
<1>2. opened = 1..1 /\ 1 \in Convs /\ opened \subseteq Convs
  BY <1>1 DEF Talk!Init, Talk!First
<1>3. ConversationTypes
  BY <1>2 DEF Talk!Init, ConversationTypes, Talk!ConstantsOK
<1>4. RequestTypes
  BY <1>2 DEF Talk!Init, RequestTypes, Talk!First
<1> QED
  BY <1>3, <1>4 DEF Talk!Init, Kept, Told, ReadRightly, Talk!TokensAreMessages, ConversationTypes

(* Steps in which no row of a conversation changes.                          *)
LEMMA LocalStepKept ==
    ASSUME Kept, NEW r \in Requests,
           Talk!Load(r) \/ Talk!Admit(r) \/ Talk!TakesPlace(r) \/ Talk!Answered(r) \/ Talk!Raises(r)
           \/ Talk!ClientLeaves(r) \/ Talk!Background(r)
    PROVE  Kept'
<1> USE DEF Talk!Goes, Talk!Tells, Talk!local, Talk!rows
<1> USE DEF Talk!Load, Talk!Admit, Talk!TakesPlace, Talk!Answered, Talk!Raises, Talk!ClientLeaves,
            Talk!Background
<1>0. UNCHANGED <<messages, tokens, opened, conv, stored>>
  OBVIOUS
<1>1. ConversationTypes' /\ Talk!TokensAreMessages'
  BY <1>0 DEF Kept, ConversationTypes, Talk!TokensAreMessages
<1>2. \A q \in Requests \ {r} :
          at'[q] = at[q] /\ told'[q] = told[q] /\ counted'[q] = counted[q] /\ loaded'[q] = loaded[q]
  BY DEF Kept, RequestTypes
<1>3. RequestTypes'
  <2> USE DEF Kept, RequestTypes
  <2>1. at' \in [Requests -> {"new", "loaded", "scope", "queued", "streaming", "answering", "save",
                             "error", "background", "summarising", "end"}]
    OBVIOUS
  <2>2. told' \in [Requests -> {"nothing", "gone", "refused", "busy", "answer", "error", "left"}]
    OBVIOUS
  <2>3. counted' \in [Requests -> Nat] /\ loaded' \in [Requests -> Nat]
    <3>1. messages[conv[r]] \in Nat /\ tokens[conv[r]] \in Nat
      BY DEF ConversationTypes
    <3>2. /\ counted' = counted \/ counted' = [counted EXCEPT ![r] = messages[conv[r]]]
          /\ loaded' = loaded \/ loaded' = [loaded EXCEPT ![r] = tokens[conv[r]]]
      OBVIOUS
    <3>3. counted \in [Requests -> Nat] /\ loaded \in [Requests -> Nat]
      OBVIOUS
    <3> QED
      BY <3>1, <3>2, <3>3, Zenon
  <2> QED
    BY <1>0, <2>1, <2>2, <2>3
<1>4. Told(r)' /\ ReadRightly(r)'
  BY <1>0 DEF Kept, RequestTypes, ConversationTypes, Told, ReadRightly, Talk!TokensAreMessages
<1> QED
  BY <1>0, <1>1, <1>2, <1>3, <1>4 DEF Kept, Told, ReadRightly

(* A step of one request that adds messages to its conversation, and may set the  *)
(* tokens of its row to what it has read and added.                           *)
LEMMA RowStepKept ==
    ASSUME Kept, NEW r \in Requests, UNCHANGED <<opened, conv>>,
           NEW c \in Convs, c = conv[r], NEW m \in Nat, messages[c] =< m,
           messages' = [messages EXCEPT ![c] = m],
           NEW n \in Nat, n =< m, tokens' = tokens \/ tokens' = [tokens EXCEPT ![c] = n],
           RequestTypes', Told(r)', loaded'[r] =< m, at'[r] = "summarising" => counted'[r] =< m,
           \A q \in Requests \ {r} :
               at'[q] = at[q] /\ told'[q] = told[q] /\ stored'[q] = stored[q] /\ counted'[q] = counted[q]
               /\ loaded'[q] = loaded[q]
    PROVE  Kept'
<1>1. messages'[c] = m /\ \A d \in Convs \ {c} : messages'[d] = messages[d]
  BY DEF Kept, ConversationTypes
<1>2. \A d \in Convs : messages[d] \in Nat /\ tokens[d] \in Nat /\ messages[d] =< messages'[d]
  BY <1>1 DEF Kept, ConversationTypes
<1>3. \A d \in Convs : tokens'[d] \in Nat /\ tokens'[d] =< messages'[d]
  <2>1. ASSUME NEW d \in Convs
        PROVE  tokens'[d] = tokens[d] \/ (d = c /\ tokens'[d] = n)
    BY DEF Kept, ConversationTypes
  <2> QED
    BY <1>1, <1>2, <2>1 DEF Kept, Talk!TokensAreMessages
<1>4. ConversationTypes' /\ Talk!TokensAreMessages'
  BY <1>3 DEF Kept, ConversationTypes, Talk!TokensAreMessages
<1>5. ASSUME NEW q \in Requests
      PROVE  Told(q)' /\ ReadRightly(q)'
  <2>1. conv[q] \in Convs /\ loaded[q] \in Nat /\ counted[q] \in Nat
    BY DEF Kept, RequestTypes, ConversationTypes
  <2>2. CASE q = r
    BY <1>1, <2>2 DEF ReadRightly
  <2>3. CASE q # r
    BY <1>2, <2>1, <2>3 DEF Kept, Told, ReadRightly
  <2> QED
    BY <2>2, <2>3
<1> QED
  BY <1>4, <1>5 DEF Kept

LEMMA AddingKept ==
    ASSUME Kept, NEW r \in Requests,
           Talk!CommitQuestion(r) \/ Talk!Save(r) \/ Talk!Fails(r) \/ Talk!Summarised(r)
    PROVE  Kept'
<1> USE DEF Talk!Goes, Talk!Tells, Talk!Stores, Talk!Adds, Talk!local
<1>1. PICK c \in Convs : c = conv[r]
  BY DEF Kept, RequestTypes, ConversationTypes
<1>2. /\ messages[c] \in Nat /\ loaded[r] \in Nat /\ counted[r] \in Nat /\ tokens[c] \in Nat
      /\ loaded[r] =< messages[c] /\ tokens[c] =< messages[c]
      /\ at[r] = "summarising" => counted[r] =< messages[c]
  BY <1>1 DEF Kept, RequestTypes, ConversationTypes, ReadRightly, Talk!TokensAreMessages
<1>3. messages = [messages EXCEPT ![c] = messages[c]]
  BY DEF Kept, ConversationTypes
<1>p. /\ messages[c] + 1 \in Nat /\ messages[c] =< messages[c] + 1 /\ loaded[r] =< messages[c] + 1
      /\ tokens[c] + 1 \in Nat /\ tokens[c] + 1 =< messages[c] + 1
      /\ loaded[r] + 1 \in Nat /\ loaded[r] + 1 =< messages[c] + 1
  BY <1>2
<1>4. UNCHANGED <<opened, conv>>
  BY DEF Talk!CommitQuestion, Talk!Save, Talk!Fails, Talk!Summarised
<1>5. CASE Talk!CommitQuestion(r)
  <2>1. /\ messages' = [messages EXCEPT ![c] = messages[c] + 1] /\ loaded'[r] = loaded[r] + 1
        /\ tokens' = [tokens EXCEPT ![c] = loaded[r] + 1] /\ at'[r] = "scope"
    BY <1>1, <1>5 DEF Talk!CommitQuestion, Kept, RequestTypes
  <2>2. RequestTypes' /\ Told(r)'
    BY <1>5, <2>1 DEF Talk!CommitQuestion, Kept, RequestTypes, Told
  <2>3. \A q \in Requests \ {r} :
           at'[q] = at[q] /\ told'[q] = told[q] /\ stored'[q] = stored[q] /\ counted'[q] = counted[q]
           /\ loaded'[q] = loaded[q]
    BY <1>5 DEF Talk!CommitQuestion, Kept, RequestTypes
  <2> QED
    BY <1>1, <1>4, <1>p, <2>1, <2>2, <2>3, RowStepKept
<1>6. CASE Talk!Save(r)
  <2>1. RequestTypes' /\ Told(r)' /\ loaded' = loaded /\ at'[r] # "summarising"
    BY <1>6 DEF Talk!Save, Kept, RequestTypes, Told
  <2>2. \A q \in Requests \ {r} :
           at'[q] = at[q] /\ told'[q] = told[q] /\ stored'[q] = stored[q] /\ counted'[q] = counted[q]
           /\ loaded'[q] = loaded[q]
    BY <1>6 DEF Talk!Save, Kept, RequestTypes
  <2>3. CASE messages' = messages /\ tokens' = tokens
    BY <1>1, <1>2, <1>3, <1>4, <2>1, <2>2, <2>3, RowStepKept
  <2>4. CASE /\ messages' = [messages EXCEPT ![c] = messages[c] + 1]
             /\ tokens' = [tokens EXCEPT ![c] = tokens[c] + 1]
    BY <1>1, <1>4, <1>p, <2>1, <2>2, <2>4, RowStepKept
  <2>5. CASE /\ messages' = [messages EXCEPT ![c] = messages[c] + 1]
             /\ tokens' = [tokens EXCEPT ![c] = loaded[r] + 1]
    BY <1>1, <1>4, <1>p, <2>1, <2>2, <2>5, RowStepKept
  <2> QED
    BY <1>1, <1>6, <2>3, <2>4, <2>5 DEF Talk!Save
<1>7. CASE Talk!Fails(r)
  <2>1. RequestTypes' /\ Told(r)' /\ loaded' = loaded /\ at'[r] # "summarising" /\ tokens' = tokens
    BY <1>7 DEF Talk!Fails, Talk!TellsFailure, Kept, RequestTypes, Told
  <2>2. \A q \in Requests \ {r} :
           at'[q] = at[q] /\ told'[q] = told[q] /\ stored'[q] = stored[q] /\ counted'[q] = counted[q]
           /\ loaded'[q] = loaded[q]
    BY <1>7 DEF Talk!Fails, Talk!TellsFailure, Kept, RequestTypes
  <2>3. CASE messages' = messages
    BY <1>1, <1>2, <1>3, <1>4, <2>1, <2>2, <2>3, RowStepKept
  <2>4. CASE messages' = [messages EXCEPT ![c] = messages[c] + 1]
    BY <1>1, <1>4, <1>p, <2>1, <2>2, <2>4, RowStepKept
  <2> QED
    BY <1>1, <1>7, <2>3, <2>4 DEF Talk!Fails
<1>8. CASE Talk!Summarised(r)
  <2>1. RequestTypes' /\ Told(r)' /\ loaded' = loaded /\ at'[r] # "summarising" /\ messages' = messages
    BY <1>8 DEF Talk!Summarised, Kept, RequestTypes, Told
  <2>2. \A q \in Requests \ {r} :
           at'[q] = at[q] /\ told'[q] = told[q] /\ stored'[q] = stored[q] /\ counted'[q] = counted[q]
           /\ loaded'[q] = loaded[q]
    BY <1>8 DEF Talk!Summarised, Kept, RequestTypes
  <2>3. /\ tokens' = tokens \/ tokens' = [tokens EXCEPT ![c] = counted[r]]
        /\ counted[r] =< messages[c]
    BY <1>1, <1>2, <1>8 DEF Talk!Summarised
  <2> QED
    BY <1>1, <1>2, <1>3, <1>4, <2>1, <2>2, <2>3, RowStepKept
<1> QED
  BY <1>5, <1>6, <1>7, <1>8

LEMMA ContinuationKept ==
    ASSUME Talk!ConstantsOK, Kept, NEW r \in Requests, Talk!CommitInContinuation(r)
    PROVE  Kept'
<1>1. PICK k \in Nat : opened = 1..k
  BY DEF Kept, ConversationTypes
<1>2. PICK n \in Nat : Convs = 1..n
  BY DEF Talk!ConstantsOK
<1>3. Talk!Cardinality(opened) = k /\ Talk!Cardinality(Convs) = n
  <2>1. \A b \in Nat : Cardinality(1..b) = b
    BY FS_Interval
  <2> QED
    BY <1>1, <1>2, <2>1, TalkCardinality
<1>4. PICK c \in Convs : c = k + 1
  <2>1. k < n
    BY <1>3 DEF Talk!CommitInContinuation
  <2> QED
    BY <1>2, <2>1
<1>5. /\ opened' = opened \cup {c} /\ conv' = [conv EXCEPT ![r] = c]
      /\ tokens' = [tokens EXCEPT ![c] = 1] /\ loaded' = [loaded EXCEPT ![r] = 1]
      /\ messages' = [messages EXCEPT ![c] = IF covered[conv[r]] > 0 THEN 2 ELSE 1]
      /\ stored' = [stored EXCEPT ![r] = "question"] /\ at' = [at EXCEPT ![r] = "scope"]
      /\ UNCHANGED <<counted, told>>
  BY <1>3, <1>4 DEF Talk!CommitInContinuation, Talk!ContinuedTokens, Talk!Stores, Talk!Goes
<1>6. opened' = 1..(k + 1) /\ c \notin opened
  BY <1>1, <1>4, <1>5
<1>7. PICK m \in {1, 2} : messages' = [messages EXCEPT ![c] = m]
  BY <1>5
<1>8. ConversationTypes' /\ Talk!TokensAreMessages'
  <2>1. \A d \in Convs : /\ messages'[d] = IF d = c THEN m ELSE messages[d]
                         /\ tokens'[d] = IF d = c THEN 1 ELSE tokens[d]
    BY <1>5, <1>7 DEF Kept, ConversationTypes
  <2>2. messages' \in [Convs -> Nat] /\ tokens' \in [Convs -> Nat] /\ opened' \subseteq Convs
    BY <1>4, <1>5, <1>7 DEF Kept, ConversationTypes
  <2>3. Talk!TokensAreMessages'
    BY <2>1 DEF Kept, Talk!TokensAreMessages
  <2>4. ConversationTypes'
    <3>1. k + 1 \in Nat
      OBVIOUS
    <3> QED
      BY <1>6, <2>2, <3>1 DEF ConversationTypes
  <2> QED
    BY <2>3, <2>4
<1>9. RequestTypes'
  BY <1>5 DEF Kept, RequestTypes
<1>10. ASSUME NEW q \in Requests
       PROVE  Told(q)' /\ ReadRightly(q)'
  <2>1. CASE q = r
    BY <1>5, <1>7, <2>1 DEF Kept, RequestTypes, ConversationTypes, Told, ReadRightly
  <2>2. CASE q # r
    <3>1. /\ at'[q] = at[q] /\ told'[q] = told[q] /\ stored'[q] = stored[q]
          /\ loaded'[q] = loaded[q] /\ counted'[q] = counted[q] /\ conv'[q] = conv[q]
      BY <1>5, <2>2 DEF Kept, RequestTypes
    <3>2. messages'[conv[q]] = messages[conv[q]]
      BY <1>6, <1>7 DEF Kept, RequestTypes, ConversationTypes
    <3> QED
      BY <3>1, <3>2 DEF Kept, Told, ReadRightly
  <2> QED
    BY <2>1, <2>2
<1> QED
  BY <1>8, <1>9, <1>10 DEF Kept

(* No question is dropped, and the token count of a conversation never exceeds      *)
(* the tokens of its messages: for any number of overlapping requests, of either      *)
(* kind, summaries, continuations, failures and deletions.                        *)
LEMMA TalkKept ==
    ASSUME Talk!ConstantsOK
    PROVE  Talk!Spec => []Talk!ConversationsAreKept
<1>1. Kept /\ [Talk!Next]_(Talk!vars) => Kept'
  <2>1. ASSUME Kept, UNCHANGED <<messages, tokens, opened, at, conv, counted, loaded, stored, told>>
        PROVE  Kept'
    BY <2>1 DEF Kept, RequestTypes, ConversationTypes, Told, ReadRightly, Talk!TokensAreMessages
  <2>2. ASSUME NEW c \in Convs, Talk!Delete(c)
        PROVE  UNCHANGED <<messages, tokens, opened, at, conv, counted, loaded, stored, told>>
    BY <2>2 DEF Talk!Delete, Talk!local
  <2>3. UNCHANGED Talk!vars =>
            UNCHANGED <<messages, tokens, opened, at, conv, counted, loaded, stored, told>>
    BY DEF Talk!vars
  <2> QED
    BY <2>1, <2>2, <2>3, LocalStepKept, AddingKept, ContinuationKept DEF Talk!Next
<1>2. Kept => Talk!ConversationsAreKept
  BY DEF Kept, Told, Talk!ConversationsAreKept, Talk!NoQuestionIsDropped
<1> QED
  BY <1>1, <1>2, InitKept, PTL DEF Talk!Spec
-----------------------------------------------------------------------------
(* ChatTurn.                                                                 *)

(* What the loop has spent of the budget: a round of tools is two steps and at     *)
(* least one call of a budget not used up, the nudge and the answer before it two. *)
Spent == IF count < MaxToolCalls THEN count ELSE MaxToolCalls

StepsAreSpent ==
    /\ count \in Nat /\ steps \in Nat /\ nudges \in {0, 1}
    /\ steps =< 2 * Spent + 2 * nudges + 1
    /\ node \in {"context", "context_ready"} => steps = 0
    /\ node = "agent" => steps =< 2 * Spent + 2 * nudges
    /\ node = "tools" => steps + 1 =< 2 * Spent + 2 * nudges
    /\ node = "nudge" => nudges = 0

(* While queries do not run side by side, the one that has stored its rows will     *)
(* store their number; and nothing is left half done when the tools have ended.  *)
Open(s) == call[s].at \in {"running", "rows_stored"}

CallTypes ==
    call \in [Slots -> [tool : {"none", "run_sql", "search_catalog", "other"},
                      plan : Plans \cup {Turn!NoPlan},
                      at : {"start", "running", "rows_stored", "done"}]]

OneByOne ==
    /\ \A s, o \in Slots : Open(s) /\ call[o].tool = "run_sql" /\ o # s => call[o].at = "done"
    /\ \A s \in Slots : call[s].at = "rows_stored" => rows = call[s].plan
    /\ \/ rows = total
       \/ node = "end" /\ reply = "disconnected"
       \/ node = "tools" /\ \E s \in Slots : call[s].at = "rows_stored"

QueriesStoreBoth ==
    /\ CallTypes /\ raced \in BOOLEAN
    /\ node \notin {"tools", "end"} => \A s \in Slots : call[s].at = "done"
    /\ \A s \in Slots : Open(s) => call[s].tool = "run_sql" /\ node \in {"tools", "end"}
    /\ rows # Turn!NoPlan =>
           succeeded \/ node = "end" \/ \E s \in Slots : call[s].at = "rows_stored"
    /\ ~raced => OneByOne

EndsOnce ==
    /\ tried \in BOOLEAN /\ succeeded \in BOOLEAN
    /\ node # "end" => reply = "none"
    /\ Turn!FailedSqlIsNotAnswered

Well == StepsAreSpent /\ QueriesStoreBoth /\ EndsOnce

LEMMA InitWell == ASSUME Turn!ConstantsOK, Turn!Init PROVE Well
<1>1. StepsAreSpent
  BY DEF Turn!Init, StepsAreSpent, Spent, Turn!ConstantsOK
<1>2. QueriesStoreBoth
  BY DEF Turn!Init, QueriesStoreBoth, CallTypes, OneByOne, Open, Turn!NoCall, Turn!NoPlan
<1>3. EndsOnce
  BY DEF Turn!Init, EndsOnce, Turn!FailedSqlIsNotAnswered
<1> QED
  BY <1>1, <1>2, <1>3 DEF Well

LEMMA CallsCount ==
    ASSUME Turn!ConstantsOK, NEW S \in (SUBSET Slots) \ {{}}
    PROVE  Turn!Cardinality(S) \in Nat \ {0}
<1>1. Turn!Cardinality(S) = Cardinality(S)
  BY Zenon DEF Turn!Cardinality, Cardinality
<1>2. IsFiniteSet(Slots)
  BY Zenon DEF Turn!ConstantsOK, Turn!IsFiniteSet, IsFiniteSet
<1>3. IsFiniteSet(S) /\ S # {}
  BY <1>2, FS_Subset
<1> QED
  BY <1>1, <1>3, FS_CardinalityType, FS_EmptySet

(* The steps that end the request or leave the budget alone.                   *)
LEMMA OutsideTheBudget ==
    ASSUME Turn!Next
    PROVE  \/ /\ UNCHANGED <<count, steps, nudges>>
              /\ node' \in {"agent", "tools", "nudge"} => node' = node
              /\ node' \in {"context", "context_ready"} => node = "context"
           \/ Turn!EnterLoop \/ Turn!AgentTurn \/ Turn!Route \/ Turn!BroadenNudge \/ Turn!ToolsDone
<1> USE DEF Turn!Reply, Turn!LoopError, Turn!loopVars
<1>1. CASE Turn!BuildContext \/ Turn!ShortCircuit \/ Turn!LoopRaises \/ Turn!Finish \/ Turn!ClientLeaves
  BY <1>1 DEF Turn!BuildContext, Turn!ShortCircuit, Turn!LoopRaises, Turn!Finish, Turn!ClientLeaves
<1>2. ASSUME NEW s \in Slots, Turn!OtherTool(s) \/ Turn!RunSql(s)
      PROVE  UNCHANGED <<count, steps, nudges, node>> /\ node = "tools"
  BY <1>2 DEF Turn!Live, Turn!OtherTool, Turn!RunSql, Turn!Rejected, Turn!ToolRaises, Turn!Admitted, Turn!EngineError,
              Turn!StoresRows, Turn!StoresTotal
<1> QED
  BY <1>1, <1>2 DEF Turn!Next

LEMMA StepsStaySpent ==
    ASSUME Turn!ConstantsOK, StepsAreSpent, Turn!Next
    PROVE  StepsAreSpent'
<1>0. MaxToolCalls \in Nat /\ Spent \in Nat
  BY DEF Turn!ConstantsOK, Spent, StepsAreSpent
<1>1. CASE /\ UNCHANGED <<count, steps, nudges>>
           /\ node' \in {"agent", "tools", "nudge"} => node' = node
           /\ node' \in {"context", "context_ready"} => node = "context"
  BY <1>1 DEF StepsAreSpent, Spent
<1>2. CASE Turn!EnterLoop
  BY <1>0, <1>2 DEF Turn!EnterLoop, StepsAreSpent, Spent
<1>3. CASE Turn!AgentTurn
  <2>1. steps' = steps + 1 /\ nudges' = nudges /\ node = "agent"
    BY <1>3 DEF Turn!AgentTurn
  <2>2. CASE \E k \in {"text", "nothing", "canned"} : Turn!Answers(k)
    BY <1>0, <2>1, <2>2 DEF Turn!Answers, StepsAreSpent, Spent
  <2>3. CASE count < MaxToolCalls /\ Turn!CallsTools
    <3>1. PICK n \in Nat \ {0} : count' = count + n /\ node' = "tools"
      BY <2>3, CallsCount DEF Turn!CallsTools, Turn!next_tool_call_count
    <3>2. Spent' >= Spent + 1
      BY <1>0, <2>3, <3>1 DEF Spent, StepsAreSpent
    <3>3. Spent' \in Nat
      BY <1>0, <3>1 DEF Spent, StepsAreSpent
    <3>4. \A a, b \in Nat, c \in {0, 1}, i \in Nat :
              b >= a + 1 /\ i =< 2 * a + 2 * c => (i + 1) + 1 =< 2 * b + 2 * c /\ i + 1 =< 2 * b + 2 * c + 1
      OBVIOUS
    <3>5. (steps + 1) + 1 =< 2 * Spent' + 2 * nudges /\ steps + 1 =< 2 * Spent' + 2 * nudges + 1
      BY <1>0, <2>1, <3>2, <3>3, <3>4 DEF StepsAreSpent
    <3>6. steps' =< 2 * Spent' + 2 * nudges' + 1 /\ steps' + 1 =< 2 * Spent' + 2 * nudges'
      BY <2>1, <3>5
    <3> QED
      BY <2>1, <3>1, <3>6 DEF StepsAreSpent
  <2> QED
    BY <1>0, <1>3, <2>2, <2>3 DEF Turn!AgentTurn, StepsAreSpent
<1>4. CASE Turn!Route
  BY <1>0, <1>4 DEF Turn!Route, Turn!ShouldForceBroaden, StepsAreSpent, Spent
<1>5. CASE Turn!BroadenNudge
  BY <1>0, <1>5 DEF Turn!BroadenNudge, StepsAreSpent, Spent
<1>6. CASE Turn!ToolsDone
  BY <1>0, <1>6 DEF Turn!ToolsDone, StepsAreSpent, Spent
<1> QED
  BY <1>1, <1>2, <1>3, <1>4, <1>5, <1>6, OutsideTheBudget

LEMMA LimitIsNotReached == ASSUME Turn!ConstantsOK, StepsAreSpent PROVE steps < Turn!RecursionLimit
<1>1. MaxToolCalls \in Nat /\ Spent \in Nat /\ Spent =< MaxToolCalls
  BY DEF Turn!ConstantsOK, Spent, StepsAreSpent
<1>2. \A m, s, i \in Nat, c \in {0, 1} : s =< m /\ i =< 2 * s + 2 * c + 1 => i < m * 2 + 10
  OBVIOUS
<1> QED
  BY <1>1, <1>2 DEF StepsAreSpent, Turn!RecursionLimit

(* Steps between queries, of which none is open.                              *)
LEMMA NoQueryOpen ==
    ASSUME QueriesStoreBoth, node \notin {"tools", "end"}, UNCHANGED <<call, rows, total, succeeded, raced>>,
           node' # "tools"
    PROVE  QueriesStoreBoth'
<1>1. \A s \in Slots : ~Open(s) /\ call[s].at = "done"
  BY DEF QueriesStoreBoth, CallTypes, OneByOne, Open
<1> QED
  BY <1>1 DEF QueriesStoreBoth, CallTypes, OneByOne, Open

LEMMA LoopStoresBoth ==
    ASSUME Turn!ConstantsOK, StepsAreSpent, QueriesStoreBoth, Turn!Next
    PROVE  QueriesStoreBoth' \/ \E s \in Slots : Turn!OtherTool(s) \/ Turn!RunSql(s)
<1> USE DEF Turn!Reply, Turn!storeVars
<1>1. CASE Turn!BuildContext \/ Turn!ShortCircuit \/ Turn!EnterLoop \/ Turn!Route \/ Turn!BroadenNudge \/ Turn!Finish
  BY <1>1, NoQueryOpen DEF Turn!BuildContext, Turn!ShortCircuit, Turn!EnterLoop, Turn!Route, Turn!BroadenNudge,
                           Turn!Finish
<1>2. CASE Turn!LoopRaises
  <2>1. node \in {"agent", "nudge"}
    BY <1>2, LimitIsNotReached DEF Turn!LoopRaises, StepsAreSpent, Turn!RecursionLimit, Turn!ConstantsOK
  <2> QED
    BY <1>2, <2>1, NoQueryOpen DEF Turn!LoopRaises, Turn!LoopError
<1>3. CASE Turn!AgentTurn
  <2>1. node = "agent" /\ UNCHANGED <<rows, total, succeeded, raced>>
    BY <1>3 DEF Turn!AgentTurn
  <2>2. CASE \E k \in {"text", "nothing", "canned"} : Turn!Answers(k)
    BY <2>1, <2>2, NoQueryOpen DEF Turn!Answers
  <2>3. CASE Turn!CallsTools
    <3>0. PICK S \in (SUBSET Slots) \ {{}} : \E c \in [S -> Turn!NewCalls] :
              call' = [s \in Slots |-> IF s \in S THEN c[s] ELSE Turn!NoCall] /\ node' = "tools"
      BY <2>3 DEF Turn!CallsTools
    <3>1. PICK c \in [S -> Turn!NewCalls] :
              call' = [s \in Slots |-> IF s \in S THEN c[s] ELSE Turn!NoCall] /\ node' = "tools"
      BY <3>0
    <3>2. \A s \in Slots : ~Open(s)' /\ call'[s] \in Turn!NewCalls \cup {Turn!NoCall}
      BY <3>1 DEF Open, Turn!NewCalls, Turn!NoCall
    <3>3. \A s \in Slots : ~Open(s) /\ call[s].at = "done"
      BY <2>1 DEF QueriesStoreBoth, CallTypes, OneByOne, Open
    <3>4. CallTypes'
      BY <3>1, <3>2 DEF Turn!NewCalls, Turn!NoCall, CallTypes
    <3>5. ~raced' => OneByOne'
      BY <2>1, <3>2, <3>3, <3>4 DEF QueriesStoreBoth, OneByOne, Open, Turn!NewCalls, Turn!NoCall
    <3> QED
      BY <2>1, <3>1, <3>2, <3>3, <3>4, <3>5 DEF QueriesStoreBoth
  <2> QED
    BY <1>3, <2>2, <2>3 DEF Turn!AgentTurn
<1>4. CASE Turn!ToolsDone
  <2>1. node = "tools" /\ node' = "agent" /\ UNCHANGED <<rows, total, succeeded, raced>>
    BY <1>4 DEF Turn!ToolsDone
  <2>2. \A s \in Slots : ~Open(s) /\ ~Open(s)' /\ call'[s].at = "done"
    BY <1>4 DEF Turn!ToolsDone, Turn!NoCall, Open
  <2>3. CallTypes'
    BY <1>4 DEF Turn!ToolsDone, Turn!NoCall, CallTypes
  <2> QED
    BY <2>1, <2>2, <2>3 DEF QueriesStoreBoth, CallTypes, OneByOne, Open
<1>5. CASE Turn!ClientLeaves
  <2>1. node' = "end" /\ reply' = "disconnected" /\ UNCHANGED <<call, rows, total, succeeded, raced>>
    BY <1>5 DEF Turn!ClientLeaves
  <2> QED
    BY <2>1 DEF QueriesStoreBoth, CallTypes, OneByOne, Open
<1> QED
  BY <1>1, <1>2, <1>3, <1>4, <1>5 DEF Turn!Next

LEMMA QueryStoresBoth ==
    ASSUME QueriesStoreBoth, NEW s \in Slots, Turn!OtherTool(s) \/ Turn!RunSql(s)
    PROVE  QueriesStoreBoth'
<1> USE DEF Turn!Moves, Turn!Ends, Turn!loopVars, Turn!storeVars, Turn!Live
<1>0. node = "tools" /\ UNCHANGED <<node, reply>>
  BY DEF Turn!OtherTool, Turn!RunSql, Turn!Rejected, Turn!ToolRaises, Turn!Admitted, Turn!EngineError,
         Turn!StoresRows, Turn!StoresTotal
<1>t. call[s].plan \in Plans \cup {Turn!NoPlan} /\ call[s].tool \in {"none", "run_sql", "search_catalog", "other"}
  BY DEF QueriesStoreBoth, CallTypes, OneByOne
<1>1. CASE call' = [call EXCEPT ![s].at = "done"] /\ ~Open(s) /\ UNCHANGED <<rows, total, succeeded, raced>>
  <2>1. \A o \in Slots \ {s} : call'[o] = call[o]
    BY <1>1 DEF QueriesStoreBoth, CallTypes, OneByOne
  <2>2. call'[s] = [call[s] EXCEPT !.at = "done"]
    BY <1>1 DEF QueriesStoreBoth, CallTypes, OneByOne
  <2>3. call'[s].at = "done" /\ call'[s].tool = call[s].tool
    BY <2>2 DEF QueriesStoreBoth, CallTypes, OneByOne
  <2> QED
    BY <1>0, <1>1, <2>1, <2>3 DEF QueriesStoreBoth, CallTypes, OneByOne, Open
<1>g. \A a \in {"start", "running", "rows_stored", "done"} :
          call' = [call EXCEPT ![s].at = a] =>
              /\ call'[s].at = a /\ call'[s].plan = call[s].plan /\ call'[s].tool = call[s].tool
              /\ \A o \in Slots \ {s} : call'[o] = call[o]
              /\ CallTypes'
  BY DEF QueriesStoreBoth, CallTypes, OneByOne
<1>2. CASE Turn!Admitted(s) /\ call' = [call EXCEPT ![s].at = "running"]
  <2>1. /\ call[s].at = "start" /\ call[s].tool = "run_sql" /\ UNCHANGED <<rows, total, succeeded>>
        /\ raced' = (raced \/ \E o \in Slots \ {s} : call[o].tool = "run_sql" /\ call[o].at # "done")
    BY <1>2, <1>g DEF Turn!Admitted
  <2>2. /\ call'[s].at = "running" /\ call'[s].tool = call[s].tool
        /\ \A o \in Slots \ {s} : call'[o] = call[o]
        /\ CallTypes'
    BY <1>2, <1>g
  <2>3. ASSUME ~raced'
        PROVE  OneByOne'
    <3>1. ~raced /\ \A o \in Slots \ {s} : call[o].tool = "run_sql" => call[o].at = "done"
      BY <2>1, <2>3 DEF QueriesStoreBoth
    <3>2. \A o \in Slots : ~Open(o)
      BY <2>1, <3>1 DEF QueriesStoreBoth, Open
    <3>3. rows' = total'
      BY <1>0, <2>1, <3>1, <3>2 DEF QueriesStoreBoth, OneByOne, Open
    <3>4. \A o \in Slots : o # s => ~Open(o)' /\ (call'[o].tool = "run_sql" => call'[o].at = "done")
      BY <2>2, <3>1, <3>2 DEF Open
    <3> QED
      BY <2>2, <3>3, <3>4 DEF OneByOne, Open
  <2> QED
    BY <1>0, <2>1, <2>2, <2>3 DEF QueriesStoreBoth, Open
<1>3. CASE Turn!EngineError(s)
  <2>1. call[s].at = "running" /\ UNCHANGED <<rows, total, succeeded, raced>> /\ call' = [call EXCEPT ![s].at = "done"]
    BY <1>3 DEF Turn!EngineError
  <2>2. /\ call'[s].at = "done" /\ call'[s].tool = call[s].tool
        /\ \A o \in Slots \ {s} : call'[o] = call[o]
        /\ CallTypes'
    BY <1>g, <2>1
  <2>3. ~raced' => OneByOne'
    BY <1>0, <2>1, <2>2 DEF QueriesStoreBoth, OneByOne, Open
  <2> QED
    BY <1>0, <2>1, <2>2, <2>3 DEF QueriesStoreBoth, Open
<1>4. CASE Turn!StoresRows(s)
  <2>1. PICK p \in Plans : /\ call[s].at = "running" /\ rows' = p /\ UNCHANGED <<total, succeeded, raced>>
                           /\ call' = [call EXCEPT ![s].at = "rows_stored", ![s].plan = p]
    BY <1>4 DEF Turn!StoresRows
  <2>2. call' = [call EXCEPT ![s] = [@ EXCEPT !.at = "rows_stored", !.plan = p]]
    BY <2>1 DEF QueriesStoreBoth, CallTypes
  <2>3. /\ call'[s].at = "rows_stored" /\ call'[s].plan = p /\ call'[s].tool = call[s].tool
        /\ \A o \in Slots \ {s} : call'[o] = call[o]
        /\ CallTypes'
    BY <2>2 DEF QueriesStoreBoth, CallTypes
  <2>4. ~raced' => OneByOne'
    <3>1. ~raced => \A o \in Slots \ {s} : ~Open(o) /\ (call[o].tool = "run_sql" => call[o].at = "done")
      BY <2>1 DEF QueriesStoreBoth, OneByOne, Open
    <3>2. ~raced => \A o \in Slots : o # s => ~Open(o)' /\ (call'[o].tool = "run_sql" => call'[o].at = "done")
      BY <2>3, <3>1 DEF Open
    <3>3. node' = "tools" /\ rows' = call'[s].plan /\ call'[s].at = "rows_stored" /\ raced' = raced
      BY <1>0, <2>1, <2>3
    <3> QED
      BY <3>2, <3>3 DEF OneByOne, Open
  <2> QED
    BY <1>0, <2>1, <2>3, <2>4 DEF QueriesStoreBoth, Open
<1>5. CASE Turn!StoresTotal(s)
  <2>1. /\ call[s].at = "rows_stored" /\ total' = call[s].plan /\ succeeded' = TRUE /\ UNCHANGED <<rows, raced>>
        /\ call' = [call EXCEPT ![s].at = "done"]
    BY <1>5 DEF Turn!StoresTotal
  <2>2. /\ call'[s].at = "done" /\ call'[s].tool = call[s].tool
        /\ \A o \in Slots \ {s} : call'[o] = call[o]
        /\ CallTypes'
    BY <1>g, <2>1
  <2>3. ~raced => rows = total'
    BY <2>1 DEF QueriesStoreBoth, CallTypes, OneByOne
  <2>4. ~raced => \A o \in Slots : call'[o].at # "rows_stored"
    BY <2>1, <2>2 DEF QueriesStoreBoth, CallTypes, OneByOne, Open
  <2> QED
    BY <1>0, <2>1, <2>2, <2>3, <2>4 DEF QueriesStoreBoth, CallTypes, OneByOne, Open
<1> QED
  BY <1>1, <1>2, <1>3, <1>4, <1>5 DEF Turn!OtherTool, Turn!RunSql, Turn!Rejected, Turn!ToolRaises, Turn!Admitted, Open

Texts == {"text", "canned", "honest_rewrite", "here_are_the_results", "fallback"}

LEMMA TurnEndsOnce ==
    ASSUME QueriesStoreBoth, EndsOnce, Turn!Next
    PROVE  EndsOnce'
<1> USE DEF Turn!storeVars, Turn!loopVars, Turn!Reply, Turn!Live
<1>1. ASSUME UNCHANGED <<tried, succeeded>>, node # "end",
             reply' = reply \/ (node' = "end" /\ reply' \notin Texts)
      PROVE  EndsOnce'
  BY <1>1 DEF EndsOnce, Turn!FailedSqlIsNotAnswered, Texts
<1>2. CASE \/ Turn!BuildContext \/ Turn!ShortCircuit \/ Turn!EnterLoop \/ Turn!LoopRaises \/ Turn!AgentTurn
           \/ Turn!Route \/ Turn!BroadenNudge \/ Turn!ToolsDone \/ Turn!ClientLeaves
  BY <1>1, <1>2 DEF Turn!BuildContext, Turn!ShortCircuit, Turn!EnterLoop, Turn!LoopRaises, Turn!LoopError,
         Turn!AgentTurn, Turn!Route, Turn!BroadenNudge, Turn!ToolsDone, Turn!ClientLeaves, Texts
<1>3. ASSUME NEW s \in Slots, Turn!OtherTool(s) \/ Turn!RunSql(s)
      PROVE  EndsOnce'
  <2>1. node = "tools" /\ UNCHANGED <<node, reply>>
    BY <1>3 DEF Turn!OtherTool, Turn!RunSql, Turn!Rejected, Turn!ToolRaises, Turn!Admitted, Turn!EngineError,
                Turn!StoresRows, Turn!StoresTotal
  <2>2. tried' \in BOOLEAN /\ succeeded' \in BOOLEAN
    BY <1>3 DEF EndsOnce, Turn!OtherTool, Turn!RunSql, Turn!Rejected, Turn!ToolRaises, Turn!Admitted,
                Turn!EngineError, Turn!StoresRows, Turn!StoresTotal
  <2> QED
    BY <2>1, <2>2 DEF EndsOnce, Turn!FailedSqlIsNotAnswered
<1>4. CASE Turn!Finish
  <2>1. node = "finish" /\ node' = "end" /\ UNCHANGED <<tried, succeeded>>
    BY <1>4 DEF Turn!Finish
  <2>2. rows # Turn!NoPlan => succeeded
    BY <2>1 DEF QueriesStoreBoth
  <2>3. CASE Turn!ExecutionFailed
    BY <1>1, <1>4, <2>1, <2>3 DEF Turn!Finish, Texts
  <2>4. CASE ~Turn!ExecutionFailed
    BY <2>1, <2>2, <2>4 DEF Turn!ExecutionFailed, EndsOnce, Turn!FailedSqlIsNotAnswered
  <2> QED
    BY <2>3, <2>4
<1> QED
  BY <1>2, <1>3, <1>4 DEF Turn!Next

(* The budget of tool calls ends every loop before the limit of the graph does; a      *)
(* question whose queries all failed is answered with that failure; and rows and row    *)
(* count of an answer are of one query: for any budget, any number of calls in one      *)
(* response, in any order of their steps.                                        *)
LEMMA TurnEnds ==
    ASSUME Turn!ConstantsOK
    PROVE  Turn!Spec => []Turn!TurnsEndWell
<1>1. Well /\ [Turn!Next]_(Turn!vars) => Well'
  <2>1. ASSUME Well, UNCHANGED Turn!vars
        PROVE  Well'
    BY <2>1 DEF Well, Turn!vars, StepsAreSpent, Spent, QueriesStoreBoth, CallTypes, OneByOne, Open, EndsOnce,
                Turn!FailedSqlIsNotAnswered
  <2>2. ASSUME Well, Turn!Next
        PROVE  Well'
    BY <2>2, StepsStaySpent, LoopStoresBoth, QueryStoresBoth, TurnEndsOnce DEF Well
  <2> QED
    BY <2>1, <2>2
<1>2. Well => Turn!TurnsEndWell
  <2>1. ASSUME Well
        PROVE  Turn!BudgetEndsTheLoopFirst /\ Turn!FailedSqlIsNotAnswered
    BY <2>1, LimitIsNotReached DEF Well, EndsOnce, Turn!BudgetEndsTheLoopFirst
  <2>2. ASSUME Well
        PROVE  Turn!ResultIsOfOneQuery
    BY <2>2 DEF Well, QueriesStoreBoth, OneByOne, Turn!ResultIsOfOneQuery
  <2> QED
    BY <2>1, <2>2 DEF Turn!TurnsEndWell
<1> QED
  BY <1>1, <1>2, InitWell, PTL DEF Turn!Spec
-----------------------------------------------------------------------------
(* PdfSynthesis.                                                             *)

LEMMA SynthesisCardinality == \A S : Synthesis!Cardinality(S) = Cardinality(S)
BY Zenon DEF Synthesis!Cardinality, Cardinality

(* An entry of the pool is a chunk that was read, or has no text.             *)
LEMMA PoolIsRead ==
    \A e \in Synthesis!_quotable_chunks :
        \/ /\ e.derived = FALSE /\ e.hit \in Synthesis!Hits /\ ~Synthesis!Hit(e.hit).card
           /\ e.words = Synthesis!Hit(e.hit).words /\ e.page = Synthesis!Hit(e.hit).page
        \/ e.derived = TRUE /\ e.words = {}
BY DEF Synthesis!_quotable_chunks, Synthesis!Entry, Synthesis!Real

LEMMA ContextIsOfPool ==
    \A c \in Synthesis!_assemble_context(Synthesis!_quotable_chunks) : c.entry \in Synthesis!_quotable_chunks
BY DEF Synthesis!_assemble_context

(* There are finitely many hits, so finitely many entries in a prompt.         *)
LEMMA PromptIsFinite ==
    ASSUME accessible \in Seq(DOMAIN Element) PROVE IsFiniteSet(Synthesis!_quotable_chunks)
<1>1. PICK n \in Nat : Synthesis!Hits = 1..n
  BY DEF Synthesis!Hits
<1>2. IsFiniteSet(Synthesis!Hits) /\ IsFiniteSet(1..3)
  <2>1. \A b \in Nat : IsFiniteSet(1..b)
    BY FS_Interval
  <2> QED
    BY <1>1, <2>1
<1>3. IsFiniteSet(Synthesis!Hits \X (1..3))
  BY <1>2, FS_Product
<1>4. IsFiniteSet(Synthesis!Real) /\ IsFiniteSet(Synthesis!Demoted)
  <2>1. Synthesis!Real \subseteq Synthesis!Hits
    BY DEF Synthesis!Real
  <2>2. Synthesis!Demoted \subseteq Synthesis!Hits \X (1..3)
    BY DEF Synthesis!Demoted
  <2> QED
    BY <1>2, <1>3, <2>1, <2>2, FS_Subset
<1> DEFINE
    chunk[i \in Synthesis!Real] ==
        Synthesis!Entry(i, <<0, i, 0>>, Synthesis!Hit(i).id, Synthesis!Hit(i).words,
                        Synthesis!Hit(i).tokens, Synthesis!Hit(i).date, FALSE)
    source[d \in Synthesis!Demoted] ==
        Synthesis!Entry(d[1], <<1, d[1], d[2]>>, Synthesis!_src_chunk_ids(Synthesis!Hit(d[1]))[d[2]],
                        {}, 1, None, TRUE)
    A == {chunk[i] : i \in Synthesis!Real}
    B == {source[d] : d \in Synthesis!Demoted}
<1>5. chunk \in Surjection(Synthesis!Real, A) /\ source \in Surjection(Synthesis!Demoted, B)
  BY DEF Surjection
<1>6. IsFiniteSet(A) /\ IsFiniteSet(B)
  <2> HIDE DEF chunk, source, A, B
  <2> QED
    BY <1>4, <1>5, FS_Surjection, Zenon
<1>7. Synthesis!_quotable_chunks = A \cup B
  BY DEF Synthesis!_quotable_chunks
<1> HIDE DEF A, B
<1> QED
  BY <1>6, <1>7, FS_Union

(* A prompt never has more entries than the pool.                             *)
LEMMA ContextIsFinite ==
    ASSUME accessible \in Seq(DOMAIN Element) PROVE IsFiniteSet(Synthesis!_assemble_context(Synthesis!_quotable_chunks))
<1> DEFINE
    pool == Synthesis!_quotable_chunks
    admitted == {x \in pool : \A d \in Synthesis!UpTo(x, pool) :
                   Synthesis!Number(d, pool) > 1
                       => Synthesis!MapThenSumSet(Synthesis!Size, Synthesis!UpTo(d, pool)) <= TokenBudget}
    numbered[e \in admitted] == [n |-> Synthesis!Number(e, pool), entry |-> e]
    C == {numbered[e] : e \in admitted}
<1>1. IsFiniteSet(pool) /\ admitted \subseteq pool
  BY PromptIsFinite
<1>2. IsFiniteSet(admitted)
  <2> HIDE DEF pool, admitted
  <2> QED
    BY <1>1, FS_Subset
<1>3. numbered \in Surjection(admitted, C)
  <2> HIDE DEF admitted, pool
  <2> QED
    BY DEF Surjection
<1>4. IsFiniteSet(C)
  <2> HIDE DEF numbered, admitted, C
  <2> QED
    BY <1>2, <1>3, FS_Surjection, Zenon
<1>5. Synthesis!_assemble_context(pool) = C
  BY DEF Synthesis!_assemble_context
<1> QED
  BY <1>4, <1>5

LEMMA PoolIsTheHits ==
    ASSUME accessible' = accessible PROVE Synthesis!_quotable_chunks' = Synthesis!_quotable_chunks
<1>1. Synthesis!Hits' = Synthesis!Hits /\ \A i : Synthesis!Hit(i)' = Synthesis!Hit(i)
  BY DEF Synthesis!Hits, Synthesis!Hit
<1>2. Synthesis!Real' = Synthesis!Real
  BY <1>1 DEF Synthesis!Real
<1>3. Synthesis!Demoted' = Synthesis!Demoted
  BY <1>1, <1>2 DEF Synthesis!Demoted, Synthesis!_src_chunk_ids
<1> QED
  BY <1>1, <1>2, <1>3 DEF Synthesis!_quotable_chunks, Synthesis!Entry, Synthesis!_src_chunk_ids

(* Where a request is, what it has said, and the verdict it has noted down: that of  *)
(* the evidence, on words of the model.                                         *)
Spoken == answer.kind \in {"claim", "absence"}

MemoIsOfEvidence ==
    \A v \in memo :
        /\ v.conflicts = Synthesis!_detect_conflicts
        /\ v.negative \in BOOLEAN /\ v.proven \in BOOLEAN
        /\ v.negative => (v.proven <=> Synthesis!_coverage_complete /\ Synthesis!_diagnosed)
        /\ v.for.kind \in {"claim", "absence"} /\ (v.negative <=> v.for.kind = "absence")

CitedFromContext ==
    /\ Synthesis!Cardinality(citations) >= MinCitations
    /\ \A c \in citations : c \in context /\ c.n \in answer.cites

Stage ==
    /\ synthesisAt \in {"synthesize", "generate", "judge", "negative_claim", "end"}
    /\ synthesisAt \in {"synthesize", "generate", "judge"} => memo = {} /\ conflicts = {} /\ provenance = <<>>
    /\ synthesisAt = "judge" => Spoken /\ answer.noted = {}
    /\ synthesisAt = "negative_claim" =>
          /\ conflicts \in {{}, Synthesis!_detect_conflicts}
          /\ Spoken => CitedFromContext /\ \E v \in memo : v.for = answer
          /\ ~Spoken => answer.kind \in {"refusal", "uncited"} /\ answer.noted = {} /\ citations = {}

PromptIsOfPool ==
    /\ accessible \in Seq(DOMAIN Element) /\ IsFiniteSet(context)
    /\ \A c \in context : c.entry \in Synthesis!_quotable_chunks

Grounding == Stage /\ MemoIsOfEvidence /\ PromptIsOfPool /\ Synthesis!PdfAnswersAreHonest

LEMMA InitGrounding == ASSUME Synthesis!ConstantsOK, Synthesis!Init PROVE Grounding
<1> USE DEF Synthesis!Init, Synthesis!ConstantsOK
<1>1. Stage /\ MemoIsOfEvidence /\ PromptIsOfPool
  BY FS_EmptySet DEF Stage, MemoIsOfEvidence, PromptIsOfPool, Synthesis!Message, Synthesis!Said, Spoken
<1>2. DOMAIN provenance = {}
  OBVIOUS
<1> QED
  BY <1>1, <1>2 DEF Grounding, Synthesis!PdfAnswersAreHonest, Synthesis!ConflictsAreShown, Synthesis!StatedIsQuoted,
     Synthesis!AnswersAreCited, Synthesis!AbsenceIsJudged, Synthesis!TagsAreInChunks
(* A request that is refused has said nothing of a source.                     *)
LEMMA RefusedGrounding ==
    ASSUME Grounding, Synthesis!Insufficient \/ Synthesis!ModelFails PROVE Grounding'
<1> USE DEF Grounding, Synthesis!Insufficient, Synthesis!ModelFails, Synthesis!Refuse
<1>1. Stage'
  BY DEF Stage, Spoken, Synthesis!Message, Synthesis!Said
<1>2. MemoIsOfEvidence' /\ PromptIsOfPool'
  BY PoolIsTheHits DEF Stage, MemoIsOfEvidence, PromptIsOfPool
<1>3. synthesisAt' = "negative_claim" /\ DOMAIN provenance' = {} /\ UNCHANGED <<admitted_tags, accessible>>
  OBVIOUS
<1>4. Synthesis!TagsAreInChunks'
  BY <1>3 DEF Synthesis!PdfAnswersAreHonest, Synthesis!TagsAreInChunks, Synthesis!Hits, Synthesis!Hit
<1> QED
  BY <1>1, <1>2, <1>3, <1>4 DEF Synthesis!PdfAnswersAreHonest, Synthesis!ConflictsAreShown, Synthesis!StatedIsQuoted,
     Synthesis!AnswersAreCited, Synthesis!AbsenceIsJudged

(* The prompt is made of the pool, and a tag goes with it for a chunk's word.    *)
LEMMA GatherGrounding == ASSUME Grounding, Synthesis!Gather PROVE Grounding'
<1> USE DEF Grounding, Synthesis!Gather
<1>1. Stage'
  BY DEF Stage
<1>2. MemoIsOfEvidence'
  BY DEF Stage, MemoIsOfEvidence
<1>3. Synthesis!_quotable_chunks' = Synthesis!_quotable_chunks
  BY PoolIsTheHits
<1>4. PromptIsOfPool'
  BY <1>3, ContextIsOfPool, ContextIsFinite DEF PromptIsOfPool
<1>5. synthesisAt' = "generate" /\ DOMAIN provenance' = {}
  BY DEF Stage
<1>6. Synthesis!TagsAreInChunks'
  <2> SUFFICES ASSUME NEW t \in Synthesis!_gate_tags(Synthesis!_quotable_chunks)
               PROVE  \E i \in Synthesis!Hits : ~Synthesis!Hit(i).card /\ t \in Synthesis!Hit(i).words
    BY DEF Synthesis!TagsAreInChunks, Synthesis!Hits, Synthesis!Hit
  <2>1. PICK e \in Synthesis!_quotable_chunks : t \in e.words
    BY DEF Synthesis!_gate_tags, Synthesis!tag_as_answer
  <2> QED
    BY <2>1, PoolIsRead
<1> QED
  BY <1>1, <1>2, <1>4, <1>5, <1>6 DEF Synthesis!PdfAnswersAreHonest, Synthesis!ConflictsAreShown, Synthesis!StatedIsQuoted,
     Synthesis!AnswersAreCited, Synthesis!AbsenceIsJudged

LEMMA GenerateGrounding == ASSUME Grounding, Synthesis!Generate PROVE Grounding'
<1> USE DEF Grounding, Synthesis!Generate
<1>1. Stage'
  BY DEF Stage, Spoken, Synthesis!Said
<1>2. MemoIsOfEvidence' /\ PromptIsOfPool'
  BY PoolIsTheHits DEF Stage, MemoIsOfEvidence, PromptIsOfPool
<1>3. synthesisAt' = "judge" /\ DOMAIN provenance' = {} /\ UNCHANGED <<admitted_tags, accessible>>
  BY DEF Stage
<1>4. Synthesis!TagsAreInChunks'
  BY <1>3 DEF Synthesis!PdfAnswersAreHonest, Synthesis!TagsAreInChunks, Synthesis!Hits, Synthesis!Hit
<1> QED
  BY <1>1, <1>2, <1>3, <1>4 DEF Synthesis!PdfAnswersAreHonest, Synthesis!ConflictsAreShown, Synthesis!StatedIsQuoted,
     Synthesis!AnswersAreCited, Synthesis!AbsenceIsJudged
(* The verdict on words of the model is that of the evidence.                   *)
LEMMA VerdictIsOfEvidence ==
    ASSUME NEW a, a.noted = {}
    PROVE  LET v == Synthesis!evaluate_pdf_negative_claim(a)
           IN  /\ v.conflicts = Synthesis!_detect_conflicts
               /\ v.negative \in BOOLEAN /\ v.proven \in BOOLEAN
               /\ v.negative => (v.proven <=> Synthesis!_coverage_complete /\ Synthesis!_diagnosed)
               /\ v.for = a /\ (v.negative <=> a.kind = "absence")
BY DEF Synthesis!evaluate_pdf_negative_claim, Synthesis!_is_negative

LEMMA EvidenceIsTheHits ==
    ASSUME accessible' = accessible
    PROVE  /\ Synthesis!_detect_conflicts' = Synthesis!_detect_conflicts
           /\ Synthesis!_coverage_complete' = Synthesis!_coverage_complete
           /\ Synthesis!_diagnosed' = Synthesis!_diagnosed
<1>1. Synthesis!Hits' = Synthesis!Hits /\ \A i : Synthesis!Hit(i)' = Synthesis!Hit(i)
  BY DEF Synthesis!Hits, Synthesis!Hit
<1> QED
  BY <1>1 DEF Synthesis!_detect_conflicts, Synthesis!_coverage_complete, Synthesis!_diagnosed

(* A page with a contradicted hit on it makes no source of it "stated".          *)
LEMMA LabelStated ==
    ASSUME PromptIsOfPool, NEW n,
           Synthesis!Label(n, {c.page : c \in Synthesis!_detect_conflicts}) = "stated"
    PROVE  \E c \in context :
               /\ c.n = n /\ c.entry.hit \in Synthesis!Hits
               /\ ~Synthesis!Hit(c.entry.hit).card /\ c.entry.words = Synthesis!Hit(c.entry.hit).words
               /\ \A j \in Synthesis!Hits : ~Synthesis!Contradict(Synthesis!Hit(c.entry.hit), Synthesis!Hit(j))
<1> DEFINE pages == {c.page : c \in Synthesis!_detect_conflicts}
<1>1. /\ ~(\A c \in context : c.n # n)
      /\ ~(\E c \in context : c.n = n /\ c.entry.page \in pages)
      /\ ~(\E c \in context : c.n = n /\ c.entry.derived)
  BY DEF Synthesis!Label
<1>2. PICK c \in context : c.n = n
  BY <1>1
<1>3. c.entry \in Synthesis!_quotable_chunks /\ c.entry.page \notin pages /\ ~c.entry.derived
  BY <1>1, <1>2 DEF PromptIsOfPool
<1>4. /\ c.entry.hit \in Synthesis!Hits /\ ~Synthesis!Hit(c.entry.hit).card
      /\ c.entry.words = Synthesis!Hit(c.entry.hit).words /\ c.entry.page = Synthesis!Hit(c.entry.hit).page
  BY <1>3, PoolIsRead
<1>5. ASSUME NEW j \in Synthesis!Hits, Synthesis!Contradict(Synthesis!Hit(c.entry.hit), Synthesis!Hit(j))
      PROVE  FALSE
  <2>1. Synthesis!_chunk_provenance(Synthesis!Hit(c.entry.hit)) \in Synthesis!_detect_conflicts
    BY <1>4, <1>5 DEF Synthesis!_detect_conflicts
  <2>2. Synthesis!_chunk_provenance(Synthesis!Hit(c.entry.hit)).page = c.entry.page
    BY <1>4 DEF Synthesis!_chunk_provenance
  <2> QED
    BY <2>1, <2>2, <1>3
<1> QED
  BY <1>2, <1>4, <1>5
LEMMA JudgeGrounding ==
    ASSUME Synthesis!ConstantsOK, Grounding, Synthesis!Judge PROVE Grounding'
<1> DEFINE
    verdict == Synthesis!evaluate_pdf_negative_claim(answer)
    pages == {c.page : c \in verdict.conflicts}
    final == Synthesis!Said(answer.kind, answer.cites, Synthesis!Lacking,
                            Synthesis!_latest_mention_date(Synthesis!Grounded))
<1>1. /\ synthesisAt = "judge" /\ synthesisAt' = "negative_claim" /\ Spoken /\ answer.noted = {} /\ memo = {} /\ conflicts = {}
      /\ UNCHANGED <<accessible, parts, context, admitted_tags>>
      /\ provenance' = [n \in answer.cites |-> Synthesis!Label(n, pages)]
      /\ conflicts' = IF verdict.conflicts = {} THEN conflicts ELSE verdict.conflicts
      /\ \/ /\ Synthesis!Cardinality(Synthesis!Grounded) < MinCitations
            /\ answer' = Synthesis!Message("uncited") /\ citations' = {} /\ memo' = {verdict}
         \/ /\ ~(Synthesis!Cardinality(Synthesis!Grounded) < MinCitations)
            /\ answer' = final /\ citations' = Synthesis!Grounded /\ memo' = {[verdict EXCEPT !.for = final]}
  BY DEF Grounding, Stage, Synthesis!Judge
<1>2. /\ verdict.conflicts = Synthesis!_detect_conflicts
      /\ verdict.negative \in BOOLEAN /\ verdict.proven \in BOOLEAN
      /\ verdict.negative => (verdict.proven <=> Synthesis!_coverage_complete /\ Synthesis!_diagnosed)
      /\ verdict.for = answer /\ (verdict.negative <=> answer.kind = "absence")
  BY <1>1, VerdictIsOfEvidence
<1>3. /\ [verdict EXCEPT !.for = final].conflicts = verdict.conflicts
      /\ [verdict EXCEPT !.for = final].negative = verdict.negative
      /\ [verdict EXCEPT !.for = final].proven = verdict.proven
      /\ [verdict EXCEPT !.for = final].for = final
  BY DEF Synthesis!evaluate_pdf_negative_claim
<1>4. final.kind = answer.kind /\ final.cites = answer.cites
  BY DEF Synthesis!Said
<1> HIDE DEF verdict, final
<1>5. Synthesis!_detect_conflicts' = Synthesis!_detect_conflicts
      /\ (Synthesis!_coverage_complete /\ Synthesis!_diagnosed)' = (Synthesis!_coverage_complete /\ Synthesis!_diagnosed)
  BY <1>1, EvidenceIsTheHits
<1>6. MemoIsOfEvidence'
  <2> SUFFICES ASSUME NEW v \in memo'
               PROVE  /\ v.conflicts = Synthesis!_detect_conflicts
                      /\ v.negative \in BOOLEAN /\ v.proven \in BOOLEAN
                      /\ v.negative => (v.proven <=> Synthesis!_coverage_complete /\ Synthesis!_diagnosed)
                      /\ v.for.kind \in {"claim", "absence"} /\ (v.negative <=> v.for.kind = "absence")
    BY <1>5 DEF MemoIsOfEvidence
  <2>1. CASE v = verdict
    BY <2>1, <1>1, <1>2 DEF Spoken
  <2>2. CASE v = [verdict EXCEPT !.for = final]
    BY <2>2, <1>1, <1>2, <1>3, <1>4 DEF Spoken
  <2> QED
    BY <2>1, <2>2, <1>1
<1>7. Synthesis!Cardinality(Synthesis!Grounded) \in Nat
  <2>1. Synthesis!Grounded \subseteq context /\ IsFiniteSet(context)
    BY DEF Synthesis!Grounded, Grounding, PromptIsOfPool
  <2> QED
    BY <2>1, FS_Subset, FS_CardinalityType, SynthesisCardinality, Zenon
<1>8. Stage'
  <2>1. conflicts' \in {{}, Synthesis!_detect_conflicts'}
    BY <1>1, <1>2, <1>5
  <2>2. Spoken' => CitedFromContext' /\ \E v \in memo' : v.for = answer'
    <3> SUFFICES ASSUME answer' = final, citations' = Synthesis!Grounded, memo' = {[verdict EXCEPT !.for = final]},
                        ~(Synthesis!Cardinality(Synthesis!Grounded) < MinCitations)
                 PROVE  CitedFromContext' /\ \E v \in memo' : v.for = answer'
      BY <1>1 DEF Spoken, Synthesis!Message, Synthesis!Said
    <3>1. Synthesis!Cardinality(Synthesis!Grounded) >= MinCitations
      BY <1>7 DEF Synthesis!ConstantsOK
    <3>2. \A c \in Synthesis!Grounded : c \in context /\ c.n \in answer.cites
      BY DEF Synthesis!Grounded
    <3> QED
      BY <3>1, <3>2, <1>1, <1>3, <1>4 DEF CitedFromContext
  <2>3. ~Spoken' => answer'.kind \in {"refusal", "uncited"} /\ answer'.noted = {} /\ citations' = {}
    BY <1>1, <1>4 DEF Spoken, Synthesis!Message, Synthesis!Said
  <2> QED
    BY <2>1, <2>2, <2>3, <1>1 DEF Stage
<1>9. PromptIsOfPool'
  BY <1>1, PoolIsTheHits DEF Grounding, PromptIsOfPool
<1>10. Synthesis!StatedIsQuoted'
  <2> SUFFICES ASSUME NEW n \in answer.cites, Synthesis!Label(n, pages) = "stated"
               PROVE  \E c \in context :
                          /\ c.n = n /\ c.entry.hit \in Synthesis!Hits
                          /\ ~Synthesis!Hit(c.entry.hit).card /\ c.entry.words = Synthesis!Hit(c.entry.hit).words
                          /\ \A j \in Synthesis!Hits :
                                 ~Synthesis!Contradict(Synthesis!Hit(c.entry.hit), Synthesis!Hit(j))
    BY <1>1 DEF Synthesis!StatedIsQuoted, Synthesis!Hits, Synthesis!Hit
  <2>1. Synthesis!Label(n, {c.page : c \in Synthesis!_detect_conflicts}) = "stated"
    BY <1>2
  <2> QED
    BY <2>1, LabelStated DEF Grounding
<1>11. Synthesis!TagsAreInChunks'
  BY <1>1 DEF Grounding, Synthesis!PdfAnswersAreHonest, Synthesis!TagsAreInChunks, Synthesis!Hits, Synthesis!Hit
<1> QED
  BY <1>1, <1>6, <1>8, <1>9, <1>10, <1>11 DEF Grounding, Synthesis!PdfAnswersAreHonest,
     Synthesis!ConflictsAreShown, Synthesis!AnswersAreCited, Synthesis!AbsenceIsJudged

LEMMA NegativeClaimGrounding == ASSUME Grounding, Synthesis!NegativeClaim PROVE Grounding'
<1>1. /\ synthesisAt = "negative_claim" /\ synthesisAt' = "end"
      /\ UNCHANGED <<accessible, parts, context, admitted_tags, provenance, memo>>
      /\ conflicts' = IF Synthesis!Verdict.conflicts = {} THEN conflicts ELSE Synthesis!Verdict.conflicts
      /\ \/ /\ Synthesis!Verdict.negative /\ ~Synthesis!Verdict.proven
            /\ answer' = Synthesis!Message("rewrite") /\ citations' = {}
         \/ /\ ~(Synthesis!Verdict.negative /\ ~Synthesis!Verdict.proven) /\ UNCHANGED <<answer, citations>>
  BY DEF Synthesis!NegativeClaim
<1>2. \/ Spoken /\ Synthesis!Verdict \in Synthesis!Memoised
      \/ ~Spoken /\ answer.noted = {} /\ Synthesis!Verdict = Synthesis!evaluate_pdf_negative_claim(answer)
  <2>1. CASE Spoken
    <3>1. Synthesis!Memoised # {}
      BY <1>1, <2>1 DEF Grounding, Stage, Synthesis!Memoised
    <3> QED
      BY <2>1, <3>1 DEF Synthesis!Verdict
  <2>2. CASE ~Spoken
    <3>1. Synthesis!Memoised = {}
      BY <2>2 DEF Grounding, MemoIsOfEvidence, Spoken, Synthesis!Memoised
    <3> QED
      BY <1>1, <2>2, <3>1 DEF Grounding, Stage, Synthesis!Verdict
  <2> QED
    BY <2>1, <2>2
<1>3. /\ Synthesis!Verdict.conflicts = Synthesis!_detect_conflicts
      /\ Synthesis!Verdict.negative \in BOOLEAN /\ Synthesis!Verdict.proven \in BOOLEAN
      /\ Synthesis!Verdict.negative =>
            (Synthesis!Verdict.proven <=> Synthesis!_coverage_complete /\ Synthesis!_diagnosed)
      /\ Synthesis!Verdict.negative <=> answer.kind = "absence"
  BY <1>2, VerdictIsOfEvidence DEF Grounding, MemoIsOfEvidence, Synthesis!Memoised
<1>4. Synthesis!_detect_conflicts' = Synthesis!_detect_conflicts
      /\ Synthesis!_coverage_complete' = Synthesis!_coverage_complete
      /\ Synthesis!_diagnosed' = Synthesis!_diagnosed
  BY <1>1, EvidenceIsTheHits
<1>5. Stage' /\ PromptIsOfPool' /\ MemoIsOfEvidence'
  BY <1>1, <1>4, PoolIsTheHits DEF Grounding, Stage, PromptIsOfPool, MemoIsOfEvidence
<1>6. Synthesis!ConflictsAreShown'
  <2>1. conflicts' = Synthesis!_detect_conflicts
    BY <1>1, <1>3 DEF Grounding, Stage
  <2>2. \A i, j \in Synthesis!Hits : Synthesis!Contradict(Synthesis!Hit(i), Synthesis!Hit(j))
            => Synthesis!_chunk_provenance(Synthesis!Hit(i)) \in Synthesis!_detect_conflicts
    BY DEF Synthesis!_detect_conflicts
  <2> QED
    BY <1>1, <2>1, <2>2 DEF Synthesis!ConflictsAreShown, Synthesis!Hits, Synthesis!Hit
<1>7. Synthesis!AnswersAreCited'
  <2>1. CASE answer' = Synthesis!Message("rewrite") /\ citations' = {}
    BY <2>1 DEF Synthesis!AnswersAreCited, Synthesis!Message, Synthesis!Said
  <2>2. CASE UNCHANGED <<answer, citations>>
    BY <2>2, <1>1 DEF Grounding, Stage, Spoken, CitedFromContext, Synthesis!AnswersAreCited
  <2> QED
    BY <1>1, <2>1, <2>2
<1>8. Synthesis!AbsenceIsJudged'
  <2>1. answer'.kind = "absence" => Synthesis!_coverage_complete /\ Synthesis!_diagnosed
    BY <1>1, <1>3 DEF Synthesis!Message, Synthesis!Said
  <2>2. answer'.kind = "rewrite" => Synthesis!Verdict \in memo /\ Synthesis!Verdict.negative /\ ~Synthesis!Verdict.proven
    BY <1>1, <1>2, <1>3 DEF Grounding, Stage, Spoken, Synthesis!Memoised
  <2> QED
    BY <1>1, <1>4, <2>1, <2>2 DEF Synthesis!AbsenceIsJudged, Synthesis!_coverage_complete, Synthesis!_diagnosed,
       Synthesis!Hits, Synthesis!Hit
<1>9. Synthesis!StatedIsQuoted' /\ Synthesis!TagsAreInChunks'
  BY <1>1 DEF Grounding, Synthesis!PdfAnswersAreHonest, Synthesis!StatedIsQuoted, Synthesis!TagsAreInChunks,
     Synthesis!Hits, Synthesis!Hit
<1> QED
  BY <1>5, <1>6, <1>7, <1>8, <1>9 DEF Grounding, Synthesis!PdfAnswersAreHonest

(* Once an answer is asked for, nothing of what goes out with it is made up, and  *)
(* no contradiction in the evidence is left out, whatever the evidence.         *)
LEMMA SynthesisIsHonest ==
    ASSUME Synthesis!ConstantsOK PROVE Synthesis!Spec => []Synthesis!PdfAnswersAreHonest
<1>1. ASSUME Grounding, [Synthesis!Next]_(Synthesis!vars) PROVE Grounding'
  <2>1. CASE UNCHANGED Synthesis!vars
    <3>1. UNCHANGED <<accessible, parts, synthesisAt, context, admitted_tags, answer, citations, provenance, memo, conflicts>>
      BY <2>1 DEF Synthesis!vars
    <3>2. Stage' /\ PromptIsOfPool' /\ MemoIsOfEvidence'
      BY <1>1, <3>1, PoolIsTheHits, EvidenceIsTheHits DEF Grounding, Stage, Spoken, CitedFromContext, PromptIsOfPool,
         MemoIsOfEvidence
    <3>3. Synthesis!PdfAnswersAreHonest'
      BY <1>1, <3>1 DEF Grounding, Synthesis!PdfAnswersAreHonest, Synthesis!ConflictsAreShown,
         Synthesis!StatedIsQuoted, Synthesis!AnswersAreCited, Synthesis!AbsenceIsJudged, Synthesis!TagsAreInChunks,
         Synthesis!Hits, Synthesis!Hit
    <3> QED
      BY <3>2, <3>3 DEF Grounding
  <2>2. CASE Synthesis!Next
    BY <1>1, <2>2, RefusedGrounding, GatherGrounding, GenerateGrounding, JudgeGrounding, NegativeClaimGrounding
       DEF Synthesis!Next
  <2> QED
    BY <1>1, <2>1, <2>2
<1>2. Grounding => Synthesis!PdfAnswersAreHonest
  BY DEF Grounding
<1> QED
  BY <1>1, <1>2, InitGrounding, PTL DEF Synthesis!Spec
-----------------------------------------------------------------------------
(* PdfAgent.                                                                 *)

LEMMA AgentCardinality == \A S : Pdf!Cardinality(S) = Cardinality(S)
BY Zenon DEF Pdf!Cardinality, Cardinality

(* What the loop has seen, and what it leaves to the synthesis, are chunks.      *)
LoopReads == seen \subseteq PdfChunks /\ hits \subseteq PdfChunks /\ pdfAccessible \subseteq PdfChunks

Answered == pdfNode \in {"negative_claim", "cache_write", "audit", "end"}

PartsAreNamed ==
    Answered /\ ~fromCache /\ pdfAnswer.kind \in {"text", "absence"}
        => \A p \in pdfParts : p \in pdfAnswer.noted \/ (pdfAccessible \ Cards) \cap Mentions[p] # {}

Honest == LoopReads /\ PartsAreNamed /\ Pdf!CachedHadEvidence

LEMMA HonestStep ==
    ASSUME Pdf!ConstantsOK, Honest, [Pdf!Next]_(Pdf!vars) PROVE Honest'
<1> USE DEF Honest, Pdf!loopVars, Pdf!planVars
<1>1. CASE UNCHANGED Pdf!vars
  BY <1>1 DEF Pdf!vars, LoopReads, PartsAreNamed, Answered, Pdf!CachedHadEvidence
<1>2. CASE Pdf!Ask \/ Pdf!EmbedQuery \/ Pdf!CacheCheck \/ Pdf!Decompose \/ Pdf!LinkEntities
  BY <1>2 DEF Pdf!Ask, Pdf!EmbedQuery, Pdf!CacheCheck, Pdf!Decompose, Pdf!LinkEntities,
     LoopReads, PartsAreNamed, Answered, Pdf!CachedHadEvidence
<1>3. CASE Pdf!Plan \/ Pdf!CacheExpires \/ Pdf!Audit
  BY <1>3 DEF Pdf!Plan, Pdf!CacheExpires, Pdf!Audit, LoopReads, PartsAreNamed, Answered, Pdf!CachedHadEvidence
<1>4. CASE Pdf!RoundBegins \/ Pdf!RunTool \/ Pdf!SkipTool
  BY <1>4 DEF Pdf!RoundBegins, Pdf!RunTool, Pdf!SkipTool, LoopReads, PartsAreNamed, Answered, Pdf!CachedHadEvidence
<1>5. CASE Pdf!RoundEnds \/ Pdf!BudgetSpent
  <2>1. seen' \subseteq PdfChunks /\ UNCHANGED <<hits, pdfAnswer, fromCache, cache>>
    BY <1>5 DEF Pdf!RoundEnds, Pdf!BudgetSpent, LoopReads
  <2>2. /\ pdfNode' \in {"loop", "synthesize"}
        /\ pdfAccessible' = pdfAccessible \/ pdfAccessible' \subseteq seen'
    BY <1>5 DEF Pdf!RoundEnds, Pdf!BudgetSpent, Pdf!LoopEnds, Pdf!Kept
  <2> QED
    BY <2>1, <2>2 DEF LoopReads, PartsAreNamed, Answered, Pdf!CachedHadEvidence
<1>6. CASE Pdf!Synthesize
  <2>1. /\ UNCHANGED <<pdfParts, seen, hits, pdfAccessible, fromCache, cache>>
        /\ \/ pdfAnswer' = Pdf!Said("refusal", 0, {}) \/ pdfAnswer' = Pdf!Said("uncited", 0, {})
           \/ \E n, kind : pdfAnswer' = Pdf!Said(kind, n, pdfParts \ Pdf!_component_grounding)
    BY <1>6 DEF Pdf!Synthesize
  <2>2. pdfAnswer'.kind \in {"text", "absence"} => pdfAnswer'.noted = pdfParts \ Pdf!_component_grounding
    BY <2>1 DEF Pdf!Said
  <2> QED
    BY <2>1, <2>2 DEF LoopReads, PartsAreNamed, Pdf!_component_grounding, Pdf!CachedHadEvidence
<1>7. CASE Pdf!NegativeClaim
  BY <1>7 DEF Pdf!NegativeClaim, Pdf!Said, LoopReads, PartsAreNamed, Answered, Pdf!CachedHadEvidence
<1>8. CASE Pdf!CacheWrite
  <2>1. LoopReads' /\ PartsAreNamed'
    BY <1>8 DEF Pdf!CacheWrite, LoopReads, PartsAreNamed, Answered
  <2>2. Pdf!Cardinality(pdfAccessible) \in Nat
    <3>1. IsFiniteSet(PdfChunks)
      BY DEF Pdf!ConstantsOK, Pdf!IsFiniteSet, IsFiniteSet
    <3>2. pdfAccessible \in SUBSET PdfChunks
      BY DEF LoopReads
    <3>3. IsFiniteSet(pdfAccessible)
      BY <3>1, <3>2, FS_Subset, Zenon
    <3>4. Cardinality(pdfAccessible) \in Nat
      BY <3>3, FS_CardinalityType, Zenon
    <3> QED
      BY <3>4, AgentCardinality
  <2>3. cache' = cache \/ (cache'.chunks_used = Pdf!Cardinality(pdfAccessible)
                            /\ ~(Pdf!Cardinality(pdfAccessible) < MinChunks))
    BY <1>8 DEF Pdf!CacheWrite, Pdf!Cacheable, Pdf!insufficient_context
  <2>4. Pdf!CachedHadEvidence'
    BY <2>2, <2>3 DEF Pdf!CachedHadEvidence, Pdf!ConstantsOK
  <2> QED
    BY <2>1, <2>4
<1> QED
  BY <1>1, <1>2, <1>3, <1>4, <1>5, <1>6, <1>7, <1>8 DEF Pdf!Next

LEMMA AgentIsHonest == ASSUME Pdf!ConstantsOK PROVE Pdf!Spec => []Pdf!PdfAnswersAreHonest
<1>1. Pdf!Init => Honest
  BY DEF Pdf!Init, Honest, LoopReads, PartsAreNamed, Answered, Pdf!CachedHadEvidence
<1>2. Honest => Pdf!PdfAnswersAreHonest
  BY DEF Honest, PartsAreNamed, Answered, Pdf!PdfAnswersAreHonest, Pdf!LackingPartsAreNamed
<1> QED
  BY <1>1, <1>2, HonestStep, PTL DEF Pdf!Spec

(* An answer of the PDF agent names the parts it leaves out, cites its sources,   *)
(* shows every contradiction among them and claims absence only over evidence,   *)
(* and a cached one was given over evidence: for every index and every question.  *)
LEMMA AnswersHonest ==
    ASSUME Pdf!ConstantsOK, Synthesis!ConstantsOK
    PROVE  /\ Pdf!Spec => []Pdf!PdfAnswersAreHonest
           /\ Synthesis!Spec => []Synthesis!PdfAnswersAreHonest
BY AgentIsHonest, SynthesisIsHonest
-----------------------------------------------------------------------------
(* UserAdmin.                                                                *)

Account ==
    [role : {"nobody", "owner", "admin", "platform_admin", "org_owner", "org_admin", "manager", "user"},
     admin : BOOLEAN, platform : BOOLEAN, google : BOOLEAN, org : Orgs \cup {None}, allowed : SUBSET Tags]

AccountTypes ==
    /\ user \in [People -> Account]
    /\ owner \in [Orgs -> People \cup {"nobody", "absent", "deleted"}]
    /\ assigned \in [People -> SUBSET (Orgs \X Tags)]

(* Nobody belongs to an organisation that is gone, or has a grant for it.        *)
GoneIsEmpty ==
    \A o \in Orgs : ~Users!Exists(o) => \A p \in People : user[p].org # o /\ <<p, o>> \notin granted

OwnersHaveGoogle == \A p \in People : user[p].role = "org_owner" => user[p].google

Governed == AccountTypes /\ GoneIsEmpty /\ OwnersHaveGoogle

(* One account changes, into an account, within organisations that exist.        *)
LEMMA OneAccountChanges ==
    ASSUME Governed, NEW p \in People, NEW u \in Account, user' = [user EXCEPT ![p] = u],
           UNCHANGED <<owner, granted>>, assigned' \in [People -> SUBSET (Orgs \X Tags)],
           u.role = "org_owner" => u.google,
           u.org # None /\ u.org # user[p].org => Users!Exists(u.org),
           None \notin Orgs
    PROVE  Governed'
<1>1. AccountTypes'
  BY DEF Governed, AccountTypes
<1>2. \A q \in People : user'[q] = IF q = p THEN u ELSE user[q]
  BY DEF Governed, AccountTypes
<1>3. \A o : Users!Exists(o)' = Users!Exists(o)
  BY DEF Users!Exists
<1>4. GoneIsEmpty'
  BY <1>2, <1>3 DEF Governed, GoneIsEmpty
<1>5. OwnersHaveGoogle'
  BY <1>2 DEF Governed, OwnersHaveGoogle
<1> QED
  BY <1>1, <1>4, <1>5 DEF Governed

LEMMA GovernedStep ==
    ASSUME Users!ConstantsOK, Governed, [Users!Next]_(Users!vars) PROVE Governed'
<1> USE DEF Users!Sets
<1>1. CASE UNCHANGED Users!vars
  BY <1>1 DEF Users!vars, Governed, AccountTypes, GoneIsEmpty, Users!Exists, OwnersHaveGoogle
<1>2. ASSUME NEW p \in People, Users!GoogleCallback(p) PROVE Governed'
  <2> DEFINE u == IF Users!Known(p) THEN [user[p] EXCEPT !.google = TRUE]
                  ELSE IF \A q \in People : ~Users!Known(q)
                  THEN [Users!Nobody EXCEPT !.role = "platform_admin", !.admin = TRUE, !.platform = TRUE,
                                            !.google = TRUE]
                  ELSE [Users!Nobody EXCEPT !.role = "owner", !.google = TRUE]
  <2>0. user' = [user EXCEPT ![p] = u]
    BY <1>2 DEF Users!GoogleCallback
  <2>1. u \in Account /\ u.google /\ u.org \in {user[p].org, None}
    BY DEF Users!Nobody, Governed, AccountTypes, Account
  <2> HIDE DEF u
  <2> QED
    BY <2>0, <2>1, <1>2, OneAccountChanges DEF Users!GoogleCallback, Users!ConstantsOK, Governed, AccountTypes
<1>3. ASSUME NEW p \in People, Users!SubmitAccessRequest(p) \/ Users!DeclineRequest(p) PROVE Governed'
  BY <1>3 DEF Users!SubmitAccessRequest, Users!DeclineRequest, Governed, AccountTypes, GoneIsEmpty, Users!Exists,
     OwnersHaveGoogle
<1>4. ASSUME NEW p \in People, NEW as, Users!GrantUser(p, as) PROVE Governed'
  <2>1. CASE as = "owner"
    <3>1. PICK o \in Users!OwnOrg(p) :
            /\ owner' = [owner EXCEPT ![o] = p]
            /\ user' = [user EXCEPT ![p] = [user[p] EXCEPT !.role = "org_owner", !.admin = TRUE,
                                              !.google = TRUE, !.org = o, !.allowed = {}]]
      BY <1>4, <2>1 DEF Users!GrantUser
    <3> DEFINE u == [user[p] EXCEPT !.role = "org_owner", !.admin = TRUE, !.google = TRUE, !.org = o, !.allowed = {}]
    <3>2. o \in Orgs /\ UNCHANGED <<assigned, granted>>
      BY <1>4 DEF Users!OwnOrg, Users!GrantUser
    <3>3. u \in Account /\ u.org = o /\ u.google = TRUE
      BY <3>2 DEF Governed, AccountTypes, Account
    <3> HIDE DEF u
    <3>a. AccountTypes'
      BY <3>1, <3>2, <3>3 DEF u, Governed, AccountTypes
    <3>4. \A q \in People : user'[q] = IF q = p THEN u ELSE user[q]
      BY <3>1 DEF u, Governed, AccountTypes
    <3>5. \A x \in Orgs : Users!Exists(x)' <=> (x = o \/ Users!Exists(x))
      BY <3>1, <3>2 DEF Users!Exists, Users!ConstantsOK, Governed, AccountTypes
    <3>6. GoneIsEmpty' /\ OwnersHaveGoogle'
      BY <3>2, <3>3, <3>4, <3>5 DEF Governed, GoneIsEmpty, OwnersHaveGoogle
    <3> QED
      BY <3>a, <3>6 DEF Governed
  <2>2. CASE as = "admin"
    <3> DEFINE u == [user[p] EXCEPT !.role = "admin", !.admin = TRUE, !.platform = TRUE, !.allowed = {}]
    <3>0. user' = [user EXCEPT ![p] = u]
      BY <1>4, <2>2 DEF Users!GrantUser
    <3>1. u \in Account /\ u.role = "admin" /\ u.org = user[p].org
      BY DEF Governed, AccountTypes, Account
    <3> HIDE DEF u
    <3> QED
      BY <3>0, <1>4, <2>2, <3>1, OneAccountChanges DEF Users!GrantUser, Users!ConstantsOK, Governed, AccountTypes
  <2> QED
    BY <1>4, <2>1, <2>2 DEF Users!GrantUser
<1>5. ASSUME NEW p \in People,
             NEW role \in {"platform_admin", "org_owner", "org_admin", "manager", "user"}, Users!SetUserRole(p, role)
      PROVE  Governed'
  <2> DEFINE u == [user[p] EXCEPT !.role = role, !.platform = (role = "platform_admin"),
                                  !.admin = role \in {"platform_admin", "org_owner", "org_admin"}]
  <2>0. user' = [user EXCEPT ![p] = u]
    BY <1>5 DEF Users!SetUserRole
  <2>1. u \in Account /\ u.role = role /\ u.org = user[p].org /\ u.google = user[p].google
    <3>1. \A a, b \in BOOLEAN :
              LET v == [user[p] EXCEPT !.role = role, !.platform = a, !.admin = b]
              IN  v \in Account /\ v.role = role /\ v.org = user[p].org /\ v.google = user[p].google
      BY DEF Governed, AccountTypes, Account
    <3>2. /\ (role = "platform_admin") \in BOOLEAN
          /\ (role \in {"platform_admin", "org_owner", "org_admin"}) \in BOOLEAN
      OBVIOUS
    <3> QED
      BY Zenon, <3>1, <3>2
  <2> HIDE DEF u
  <2> QED
    BY <2>0, <1>5, <2>1, OneAccountChanges DEF Users!SetUserRole, Users!MayOwn, Users!ConstantsOK, Governed, AccountTypes
<1>6. ASSUME NEW p \in People, Users!ToggleAdmin(p) PROVE Governed'
  <2> DEFINE u == [user[p] EXCEPT !.admin = ~@]
  <2>0. user' = [user EXCEPT ![p] = u]
    BY <1>6 DEF Users!ToggleAdmin
  <2>1. u \in Account /\ u.role = user[p].role /\ u.org = user[p].org /\ u.google = user[p].google
    BY DEF Governed, AccountTypes, Account
  <2> HIDE DEF u
  <2> QED
    BY <2>0, <1>6, <2>1, OneAccountChanges DEF Users!ToggleAdmin, Users!ConstantsOK, Governed, AccountTypes, OwnersHaveGoogle
<1>7. ASSUME NEW p \in People, NEW o \in Orgs \cup {None}, Users!AssignToOrganization(p, o) PROVE Governed'
  <2> DEFINE u == [user[p] EXCEPT !.org = o]
  <2>0. user' = [user EXCEPT ![p] = u]
    BY <1>7 DEF Users!AssignToOrganization
  <2>1. u \in Account /\ u.role = user[p].role /\ u.org = o /\ u.google = user[p].google
    BY DEF Governed, AccountTypes, Account
  <2> HIDE DEF u
  <2> QED
    BY <2>0, <1>7, <2>1, OneAccountChanges DEF Users!AssignToOrganization, Users!ConstantsOK, Governed, AccountTypes,
       OwnersHaveGoogle
<1>8. ASSUME NEW p \in People, Users!DeleteUser(p) PROVE Governed'
  <2>1. AccountTypes'
    BY <1>8 DEF Users!DeleteUser, Users!Nobody, Governed, AccountTypes, Account
  <2>2. \A q \in People : user'[q] = IF q = p THEN Users!Nobody ELSE user[q]
    BY <1>8 DEF Users!DeleteUser, Governed, AccountTypes
  <2>3. \A x \in Orgs : Users!Exists(x)' <=> Users!Exists(x)
    BY <1>8 DEF Users!DeleteUser, Users!Exists, Users!ConstantsOK, Governed, AccountTypes
  <2>4. granted' \subseteq granted
    BY <1>8 DEF Users!DeleteUser
  <2>5. GoneIsEmpty' /\ OwnersHaveGoogle'
    BY <2>2, <2>3, <2>4 DEF Users!Nobody, Users!ConstantsOK, Governed, GoneIsEmpty, OwnersHaveGoogle
  <2> QED
    BY <2>1, <2>5 DEF Governed
<1>9. ASSUME NEW o \in Orgs, NEW whose \in People \cup {"nobody"}, Users!CreateOrganization(o, whose) PROVE Governed'
  <2>1. \A x \in Orgs : Users!Exists(x) => Users!Exists(x)'
    BY <1>9 DEF Users!CreateOrganization, Users!Exists, Users!ConstantsOK, Governed, AccountTypes
  <2> QED
    BY <1>9, <2>1 DEF Users!CreateOrganization, Governed, AccountTypes, GoneIsEmpty, OwnersHaveGoogle
<1>10. ASSUME NEW o \in Orgs, Users!DeleteOrganization(o) PROVE Governed'
  <2>1. \A q \in People : user'[q] = IF user[q].org = o THEN [user[q] EXCEPT !.org = None] ELSE user[q]
    BY <1>10 DEF Users!DeleteOrganization
  <2>2. AccountTypes'
    <3>1. user' \in [People -> Account]
      BY <1>10 DEF Users!DeleteOrganization, Governed, AccountTypes, Account
    <3> QED
      BY <1>10, <3>1 DEF Users!DeleteOrganization, Governed, AccountTypes
  <2>3. \A q \in People : /\ user'[q].role = user[q].role /\ user'[q].google = user[q].google
                          /\ user'[q].org \in {user[q].org, None} /\ user'[q].org # o
    <3> TAKE q \in People
    <3>1. user[q] \in Account /\ o # None
      BY DEF Users!ConstantsOK, Governed, AccountTypes
    <3>2. CASE user[q].org = o
      BY <2>1, <3>1, <3>2 DEF Account
    <3>3. CASE user[q].org # o
      BY <2>1, <3>3
    <3> QED
      BY <3>2, <3>3
  <2>4. \A x \in Orgs : Users!Exists(x)' <=> (Users!Exists(x) /\ x # o)
    BY <1>10 DEF Users!DeleteOrganization, Users!Exists, Governed, AccountTypes
  <2>5. granted' = {g \in granted : g[2] # o}
    BY <1>10 DEF Users!DeleteOrganization
  <2>6. GoneIsEmpty' /\ OwnersHaveGoogle'
    BY <2>3, <2>4, <2>5 DEF Users!ConstantsOK, Governed, GoneIsEmpty, OwnersHaveGoogle
  <2> QED
    BY <2>2, <2>6 DEF Governed
<1>11. ASSUME NEW p \in People, NEW o \in Orgs, NEW role \in {"org_admin", "manager", "user"},
              NEW tags \in SUBSET Tags, Users!AddUser(p, o, role, tags)
       PROVE  Governed'
  <2>1. assigned' \in [People -> SUBSET (Orgs \X Tags)]
    BY <1>11 DEF Users!AddUser, Governed, AccountTypes
  <2>2. {pair[2] : pair \in assigned'[p]} \subseteq Tags
    BY <2>1
  <2> DEFINE u == [user[p] EXCEPT !.role = role, !.admin = (role = "org_admin"), !.org = o,
                                  !.allowed = {pair[2] : pair \in assigned'[p]}]
  <2>0. user' = [user EXCEPT ![p] = u]
    BY <1>11 DEF Users!AddUser
  <2>3. u \in Account /\ u.role = role /\ u.org = o
    BY <2>2 DEF Governed, AccountTypes, Account
  <2> HIDE DEF u
  <2>4. Users!Exists(o) /\ UNCHANGED <<owner, granted>>
    BY <1>11 DEF Users!AddUser, Users!Runs
  <2> QED
    BY <2>0, <2>1, <2>3, <2>4, OneAccountChanges DEF Users!ConstantsOK
<1>12. ASSUME NEW p \in People, NEW tags \in SUBSET Tags, Users!SetMyDomains(p, tags) PROVE Governed'
  <2> DEFINE u == [user[p] EXCEPT !.allowed = tags]
  <2>0. user' = [user EXCEPT ![p] = u]
    BY <1>12 DEF Users!SetMyDomains
  <2>1. u \in Account /\ u.role = user[p].role /\ u.org = user[p].org /\ u.google = user[p].google
    BY DEF Governed, AccountTypes, Account
  <2> HIDE DEF u
  <2> QED
    BY <2>0, <1>12, <2>1, OneAccountChanges DEF Users!SetMyDomains, Users!ConstantsOK, Governed, AccountTypes, OwnersHaveGoogle
<1>13. ASSUME NEW p \in People, NEW o \in Orgs, NEW on, Users!PlatformAdminGrant(p, o, on) PROVE Governed'
  <2>1. Users!Exists(o) /\ granted' \subseteq granted \cup {<<p, o>>} /\ UNCHANGED <<user, owner, assigned>>
    BY <1>13 DEF Users!PlatformAdminGrant, Users!Runs
  <2> QED
    BY <2>1 DEF Governed, AccountTypes, GoneIsEmpty, Users!Exists, OwnersHaveGoogle
<1> QED
  BY <1>1, <1>2, <1>3, <1>4, <1>5, <1>6, <1>7, <1>8, <1>9, <1>10, <1>11, <1>12, <1>13 DEF Users!Next

(* Owners can always sign in, and of an organisation that is gone nobody sees a   *)
(* domain: however accounts are granted, moved, deleted and organisations made.   *)
LEMMA UsersSignIn == ASSUME Users!ConstantsOK PROVE Users!Spec => []Users!OwnersCanSignIn
<1>1. Users!Init => Governed
  BY DEF Users!ConstantsOK, Users!Init, Users!Nobody, Governed, AccountTypes, Account, GoneIsEmpty, OwnersHaveGoogle
<1>2. Governed => Users!OwnersCanSignIn
  BY DEF Governed, GoneIsEmpty, OwnersHaveGoogle, Users!OwnersCanSignIn, Users!EffectiveDomains
<1> QED
  BY <1>1, <1>2, GovernedStep, PTL DEF Users!Spec
-----------------------------------------------------------------------------
(* Dashboards.                                                               *)

Prompts == SUBSET (DashRequests \X Nat)

Widget ==
    [id : DashRequests \X Nat, shown : {"rows", "error", "missing", "empty"}, warned : BOOLEAN,
     filter : {"applied", "not_affected"}]
Board ==
    [folder : {"folder", None}, widgets : SUBSET Widget, history : Seq(Prompts), sources : SUBSET DashFiles,
     status : {"draft", "ready"}]
Outcome == [kind : {"waiting", "running", "rows", "none", "error"}, files : SUBSET DashFiles]

(* Every widget of a board is in its history.                                  *)
NamesItsWidgets(board) == \A w \in board.widgets : \E h \in DOMAIN board.history : w.id \in board.history[h]
Sound(board) == board # None => board \in Board /\ NamesItsWidgets(board)

(* So it is of the rows, and of what a running request has read of one.       *)
Prompted ==
    /\ DOMAIN dashRows = Dash!Ids /\ \A d \in Dash!Ids : Sound(dashRows[d])
    /\ \A d \in Dash!Ids : dashRows[d] # None => dashRows[d].folder \in dashFolders \cup {None}
    /\ dashFolders \subseteq {"folder"}
    /\ DOMAIN dashAt = DashRequests /\ DOMAIN dashSeen = DashRequests
    /\ \A r \in DashRequests : dashAt[r] = "running" => dashSeen[r] # None /\ Sound(dashSeen[r])
    /\ queries \in [DashRequests -> Seq(Outcome)]

(* What a request stores names what it kept of the board it read, and its own.    *)
LEMMA WrittenIsSound ==
    ASSUME Prompted, NEW r \in DashRequests, dashAt[r] = "running", dashRows[1] # None
    PROVE  Sound(Dash!Written(r)) /\ Dash!Written(r).folder = dashRows[1].folder
<1> DEFINE own == {<<r, i>> : i \in DOMAIN queries[r]}
           board == dashSeen[r]
<1>1. board \in Board /\ NamesItsWidgets(board) /\ dashRows[1] \in Board
  BY DEF Prompted, Sound, Dash!Ids
<1>2. queries[r] \in Seq(Outcome)
  BY DEF Prompted
<1>3. \A i \in DOMAIN queries[r] : i \in Nat /\ queries[r][i].files \subseteq DashFiles
  <2>1. \A i \in DOMAIN queries[r] : i \in Nat /\ queries[r][i] \in Outcome
    BY <1>2
  <2> QED
    BY <2>1 DEF Outcome
<1>4. own \in Prompts
  BY <1>3 DEF Prompts
<1>5. board.history \in Seq(Prompts) /\ Dash!History(r) = Append(board.history, own)
  BY <1>1 DEF Dash!History, Board
<1>6. /\ Dash!History(r) \in Seq(Prompts)
      /\ \A h \in DOMAIN board.history : h \in DOMAIN Dash!History(r) /\ Dash!History(r)[h] = board.history[h]
      /\ \E h \in DOMAIN Dash!History(r) : Dash!History(r)[h] = own
  <2> HIDE DEF own, board
  <2>1. Len(board.history) + 1 \in DOMAIN Append(board.history, own)
        /\ Append(board.history, own)[Len(board.history) + 1] = own
    BY <1>4, <1>5
  <2>2. Append(board.history, own) \in Seq(Prompts)
    BY <1>4, <1>5
  <2>3. \A h \in DOMAIN board.history :
            h \in DOMAIN Append(board.history, own) /\ Append(board.history, own)[h] = board.history[h]
    BY <1>4, <1>5
  <2> QED
    BY <1>5, <2>1, <2>2, <2>3
<1>7. \A w \in Dash!Assemble(r) :
          w.id \in own /\ w \in Widget
  <2> SUFFICES ASSUME NEW i \in DOMAIN queries[r]
               PROVE  /\ Dash!Payload(r, i).id \in own
                      /\ Dash!Payload(r, i) \in Widget
    BY DEF Dash!Assemble
  <2>1. (~Dash!JoinSafe(queries[r][i].files)) \in BOOLEAN
    BY DEF Dash!JoinSafe
  <2>2. Dash!FilterStatus(queries[r][i].files) \in {"applied", "not_affected"}
    BY DEF Dash!FilterStatus
  <2>3. (IF queries[r][i].kind = "rows" THEN "rows" ELSE Dash!ClassifyEmpty(queries[r][i]))
            \in {"rows", "error", "missing", "empty"}
    BY DEF Dash!ClassifyEmpty
  <2> QED
    BY <1>3, <2>1, <2>2, <2>3 DEF Dash!Payload, Widget
<1>8. \A w \in Dash!Config(r) :
          /\ w \in board.widgets \/ w.id \in own
          /\ w \in Widget
  BY <1>1, <1>7 DEF Dash!Config, Board
<1>9. NamesItsWidgets(Dash!Written(r))
  <2> HIDE DEF own, board
  <2>1. \A w \in Dash!Config(r) : \E h \in DOMAIN Dash!History(r) : w.id \in Dash!History(r)[h]
    BY <1>1, <1>6, <1>8 DEF NamesItsWidgets
  <2> QED
    BY <2>1 DEF NamesItsWidgets, Dash!Written
<1>10. Dash!Written(r) \in Board
  <2>1. Dash!Used(r) \subseteq DashFiles
    BY <1>3 DEF Dash!Used
  <2>2. Dash!Sources(r) \subseteq DashFiles
    BY <1>1, <2>1 DEF Dash!Sources, Board
  <2> HIDE DEF own, board
  <2> QED
    BY <1>1, <1>6, <1>8, <2>2 DEF Dash!Written, Board
<1> QED
  BY <1>9, <1>10 DEF Sound, Dash!Written

LEMMA PromptedStep ==
    ASSUME Dash!ConstantsOK, Prompted, [Dash!Next]_(Dash!vars) PROVE Prompted'
<1> USE DEF Prompted
<1>1. CASE UNCHANGED Dash!vars
  BY <1>1 DEF Dash!vars
<1>2. CASE Dash!CreateDashboard
  <2>1. <<>> \in Seq(Prompts)
    OBVIOUS
  <2>2. Sound(Dash!NewRow) /\ Dash!NewRow.folder = None
    BY <2>1 DEF Sound, Dash!NewRow, Board, NamesItsWidgets
  <2> QED
    BY <1>2, <2>2 DEF Dash!CreateDashboard, Dash!Ids
<1>3. CASE Dash!DuplicateDashboard \/ Dash!CreateFolder
  BY <1>3 DEF Dash!DuplicateDashboard, Dash!CreateFolder, Dash!Ids
<1>4. ASSUME NEW d \in Dash!Ids, Dash!DeleteDashboard(d) PROVE Prompted'
  BY <1>4 DEF Dash!DeleteDashboard, Dash!Ids, Sound
<1>5. ASSUME NEW d \in Dash!Ids, NEW f \in {"folder", None}, Dash!UpdateDashboard(d, f) PROVE Prompted'
  <2> DEFINE board == [dashRows[d] EXCEPT !.folder = f]
  <2>1. dashRows[d] \in Board /\ NamesItsWidgets(dashRows[d])
    BY <1>5 DEF Dash!UpdateDashboard, Sound
  <2>2. board \in Board /\ board.widgets = dashRows[d].widgets /\ board.history = dashRows[d].history /\ board.folder = f
    BY <2>1 DEF Board
  <2> HIDE DEF board
  <2>3. Sound(board)
    BY <2>1, <2>2 DEF Sound, NamesItsWidgets
  <2>4. dashRows' = [dashRows EXCEPT ![d] = board] /\ f \in dashFolders \cup {None}
        /\ UNCHANGED <<dashFolders, parallel, dashAt, dashSeen, queries>>
    BY <1>5 DEF Dash!UpdateDashboard, board
  <2> QED
    BY <2>2, <2>3, <2>4
<1>6. ASSUME NEW f \in dashFolders, Dash!DeleteFolder(f) PROVE Prompted'
  <2>1. /\ DOMAIN dashRows' = Dash!Ids /\ dashFolders' = dashFolders \ {f} /\ UNCHANGED <<parallel, dashAt, dashSeen, queries>>
        /\ \A d \in Dash!Ids : dashRows'[d] = IF dashRows[d] # None /\ dashRows[d].folder = f
                                          THEN [dashRows[d] EXCEPT !.folder = None] ELSE dashRows[d]
    BY <1>6 DEF Dash!DeleteFolder
  <2>2. ASSUME NEW d \in Dash!Ids, dashRows'[d] # None
        PROVE  Sound(dashRows'[d]) /\ dashRows'[d].folder \in dashFolders' \cup {None}
    <3>1. CASE dashRows[d] # None /\ dashRows[d].folder = f
      <4> DEFINE board == [dashRows[d] EXCEPT !.folder = None]
      <4>1. dashRows[d] \in Board /\ NamesItsWidgets(dashRows[d])
        BY <3>1 DEF Sound
      <4>2. board \in Board /\ board.widgets = dashRows[d].widgets /\ board.history = dashRows[d].history
            /\ board.folder = None
        BY <4>1 DEF Board
      <4>3. dashRows'[d] = board
        BY <2>1, <3>1
      <4> HIDE DEF board
      <4> QED
        BY <4>1, <4>2, <4>3 DEF Sound, NamesItsWidgets
    <3>2. CASE ~(dashRows[d] # None /\ dashRows[d].folder = f)
      BY <2>1, <2>2, <3>2 DEF Sound
    <3> QED
      BY <3>1, <3>2
  <2>3. \A d \in Dash!Ids : Sound(dashRows'[d])
    BY <2>2 DEF Sound
  <2> QED
    BY <2>1, <2>2, <2>3
<1>7. ASSUME NEW r \in DashRequests, Dash!Generate(r) PROVE Prompted'
  <2>1. \A n \in DashPlanned[r] : [i \in 1..n |-> Dash!Query("waiting")]
            \in Seq(Outcome)
    <3> SUFFICES ASSUME NEW n \in DashPlanned[r]
                 PROVE  [i \in 1..n |-> Dash!Query("waiting")]
                          \in Seq(Outcome)
      OBVIOUS
    <3>1. n \in Nat
      BY DEF Dash!ConstantsOK
    <3>2. Dash!Query("waiting") \in Outcome
      BY DEF Dash!Query, Outcome
    <3> QED
      BY <3>1, <3>2
  <2> QED
    BY <1>7, <2>1 DEF Dash!Generate, Dash!Ids
<1>8. ASSUME NEW r \in DashRequests, Dash!RunWidget(r) \/ Dash!WidgetDone(r) \/ Dash!WidgetRaises(r) PROVE Prompted'
  <2>1. PICK i \in DOMAIN queries[r], q \in Outcome : queries' = [queries EXCEPT ![r][i] = q]
    BY <1>8 DEF Dash!RunWidget, Dash!WidgetDone, Dash!WidgetRaises, Dash!Running, Dash!Query, Outcome
  <2>2. queries' \in [DashRequests -> Seq(Outcome)]
    <3>1. queries[r] \in Seq(Outcome)
      OBVIOUS
    <3>2. [queries[r] EXCEPT ![i] = q] \in Seq(Outcome)
      BY <2>1, <3>1
    <3> QED
      BY <2>1, <3>2
  <2>3. /\ UNCHANGED <<dashRows, dashFolders, parallel, dashSeen>> /\ DOMAIN dashAt' = DashRequests
        /\ \A x \in DashRequests : dashAt'[x] = "running" => dashAt[x] = "running"
    BY <1>8 DEF Dash!RunWidget, Dash!WidgetDone, Dash!WidgetRaises
  <2> QED
    BY <2>2, <2>3
<1>9. ASSUME NEW r \in DashRequests, Dash!Store(r) PROVE Prompted'
  <2>1. /\ dashRows' = IF dashRows[1] = None THEN dashRows ELSE [dashRows EXCEPT ![1] = Dash!Written(r)]
        /\ dashAt[r] = "running" /\ UNCHANGED <<dashFolders, parallel, queries>>
        /\ DOMAIN dashAt' = DashRequests /\ DOMAIN dashSeen' = DashRequests
        /\ dashAt'[r] # "running"
        /\ \A x \in DashRequests \ {r} : dashAt'[x] = dashAt[x] /\ dashSeen'[x] = dashSeen[x]
    BY <1>9 DEF Dash!Store
  <2>2. dashRows[1] # None => Sound(Dash!Written(r)) /\ Dash!Written(r).folder = dashRows[1].folder
    BY <2>1, WrittenIsSound
  <2> QED
    BY <2>1, <2>2 DEF Dash!Ids
<1> QED
  BY <1>1, <1>2, <1>3, <1>4, <1>5, <1>6, <1>7, <1>8, <1>9 DEF Dash!Next

(* However requests overlap with each other, with copies and with deletions, a     *)
(* board's history names every widget on it, and its folder is there.            *)
LEMMA BoardsKeepPrompts == ASSUME Dash!ConstantsOK PROVE Dash!Spec => []Dash!WidgetsHaveTheirPrompt
<1>1. Dash!Init => Prompted
  BY DEF Dash!Init, Prompted, Sound, Dash!Ids
<1>2. Prompted => Dash!WidgetsHaveTheirPrompt
  BY DEF Prompted, Sound, NamesItsWidgets, Dash!WidgetsHaveTheirPrompt
<1> QED
  BY <1>1, <1>2, PromptedStep, PTL DEF Dash!Spec
-----------------------------------------------------------------------------
(* SqlGates.                                                                 *)

(* What a query keeps of another: its files, and what is found first of its      *)
(* aggregates and of its grouping.                                            *)
Keeps(q, r) ==
    /\ Sql!Reads(r) \subseteq Sql!Reads(q)
    /\ r.first.aggs = q.first.aggs /\ q.first.groups \subseteq r.first.groups
    /\ r.star => q.star

LEMMA KeepsIsTransitive == ASSUME NEW q, NEW r, NEW s, Keeps(q, r), Keeps(r, s) PROVE Keeps(q, s)
BY DEF Keeps

(* Both tiers keep the question, the first because it only groups by more.       *)
LEMMA TiersKeep ==
    ASSUME Sql!ConstantsOK, NEW q \in Queries, NEW r \in Sql!Tier1(q) \cup Sql!Tier2(q)
    PROVE  r \in Queries /\ Keeps(q, r)
<1>1. CASE r \in Sql!Tier1(q)
  <2>1. CASE r = q
    BY <2>1 DEF Keeps
  <2>2. CASE r # q
    <3>1. r \in Queries /\ \E g, shape : r = Sql!GroupedBy(q, g, shape)
      BY <1>1, <2>2 DEF Sql!Tier1
    <3>2. PICK g, shape : r = Sql!GroupedBy(q, g, shape)
      BY <3>1
    <3>3. {"tables", "raw", "groups", "aggs", "star", "nested", "first"} \subseteq DOMAIN q
      BY DEF Sql!ConstantsOK
    <3>4. /\ r.tables = q.tables /\ r.raw = q.raw /\ r.star = q.star
          /\ r.first = IF shape THEN [aggs |-> q.first.aggs, groups |-> q.first.groups \cup {g}] ELSE q.first
      BY <3>2, <3>3 DEF Sql!GroupedBy
    <3>5. r.first.aggs = q.first.aggs /\ q.first.groups \subseteq r.first.groups
      BY <3>4
    <3> QED
      BY <3>1, <3>4, <3>5 DEF Keeps, Sql!Reads
  <2> QED
    BY <2>1, <2>2
<1>2. CASE r \in Sql!Tier2(q)
  BY <1>2 DEF Sql!Tier2, Sql!IntentKept, Keeps
<1> QED
  BY <1>1, <1>2

Asked ==
    /\ place \in {"idle", "screen", "engine", "repair"}
    /\ place # "idle" => query \in Queries /\ current \in Queries /\ Keeps(query, current)
    /\ \A r \in ran : query \in Queries /\ r \in Queries /\ Keeps(query, r)

LEMMA AskedStep == ASSUME Sql!ConstantsOK, Asked, [Sql!Next]_(Sql!vars) PROVE Asked'
<1> USE DEF Asked, Sql!call
<1>1. CASE UNCHANGED Sql!vars
  BY <1>1 DEF Sql!vars, Keeps
<1>2. ASSUME NEW t, Sql!GetFileSchema(t) PROVE Asked'
  BY <1>2 DEF Sql!GetFileSchema, Keeps
<1>3. ASSUME NEW q \in Queries, Sql!RunSql(q) PROVE Asked'
  BY <1>3 DEF Sql!RunSql, Keeps
<1>4. CASE Sql!Screen \/ Sql!RepairFails
  BY <1>4 DEF Sql!Screen, Sql!RepairFails, Sql!Answers, Keeps
<1>5. CASE Sql!Succeeds \/ Sql!EngineFails
  BY <1>5 DEF Sql!Succeeds, Sql!EngineFails, Sql!Answers, Keeps
<1>6. CASE Sql!Repair
  <2>1. PICK r \in Sql!Tier1(current) \cup Sql!Tier2(current) : current' = r
    BY <1>6 DEF Sql!Repair, Sql!Repairs
  <2>2. r \in Queries /\ Keeps(query, r)
    BY <1>6, <2>1, TiersKeep, KeepsIsTransitive DEF Sql!Repair, Sql!Repairs
  <2> QED
    BY <1>6, <2>1, <2>2 DEF Sql!Repair, Keeps
<1> QED
  BY <1>1, <1>2, <1>3, <1>4, <1>5, <1>6 DEF Sql!Next

(* Any number of repairs, of whatever the engine says, keeps the question.       *)
LEMMA RepairsKeep == ASSUME Sql!ConstantsOK PROVE Sql!Spec => []Sql!RepairKeepsTheQuestion
<1>1. Sql!Init => Asked
  BY DEF Sql!Init, Asked
<1>2. Asked => Sql!RepairKeepsTheQuestion
  <2> SUFFICES ASSUME Asked, NEW r \in ran
               PROVE  /\ Sql!Reads(r) \subseteq Sql!Reads(query) /\ (r.star => query.star)
                      /\ ~query.nested /\ ~r.nested => r.aggs = query.aggs /\ query.groups \subseteq r.groups
    BY DEF Sql!RepairKeepsTheQuestion
  <2>1. query \in Queries /\ r \in Queries /\ Keeps(query, r)
    BY DEF Asked
  <2>2. ASSUME ~query.nested, ~r.nested PROVE r.aggs = query.aggs /\ query.groups \subseteq r.groups
    BY <2>1, <2>2 DEF Keeps, Sql!ConstantsOK
  <2> QED
    BY <2>1, <2>2 DEF Keeps
<1> QED
  BY <1>1, <1>2, AskedStep, PTL DEF Sql!Spec
-----------------------------------------------------------------------------
(* PdfModelCalls.                                                            *)

LEMMA AskersAreCounted ==
    ASSUME ModelCalls!ConstantsOK PROVE IsFiniteSet(Askers) /\ ModelCalls!Cardinality(Askers) = Cardinality(Askers)
<1>1. ModelCalls!Cardinality(Askers) = Cardinality(Askers)
  BY Zenon DEF ModelCalls!Cardinality, Cardinality
<1>2. ModelCalls!IsFiniteSet(Askers) => IsFiniteSet(Askers)
  BY Zenon DEF ModelCalls!IsFiniteSet, IsFiniteSet
<1> QED
  BY <1>1, <1>2 DEF ModelCalls!ConstantsOK

Checked == {a \in Askers : callsAt[a] = "checked"}

(* The counter leaves room for the reservations that are still to come.        *)
SpendInv ==
    /\ callsAt \in [Askers -> {"idle", "checked"}]
    /\ callsUsed \in Nat /\ strong = callsUsed
    /\ callsUsed + Cardinality(Checked) <= ModelCalls!cap - 1 + Cardinality(Askers)

LEMMA CapIsPositive == ASSUME ModelCalls!ConstantsOK PROVE ModelCalls!cap \in Nat /\ ModelCalls!cap >= 1
<1>1. Fraction * Window \in Nat
  BY DEF ModelCalls!ConstantsOK
<1>2. \A n \in Nat : n \div 100 \in Nat
  OBVIOUS
<1> QED
  BY <1>1, <1>2 DEF ModelCalls!cap, ModelCalls!Max2

LEMMA CountsAreFinite ==
    ASSUME ModelCalls!ConstantsOK
    PROVE  /\ Cardinality(Askers) \in Nat
           /\ IsFiniteSet(Checked) /\ Cardinality(Checked) \in Nat
           /\ Cardinality(Checked) <= Cardinality(Askers)
<1> Checked \subseteq Askers
  BY DEF Checked
<1> QED
  BY FS_Subset, FS_CardinalityType, AskersAreCounted

LEMMA SpendInit == ASSUME ModelCalls!ConstantsOK, ModelCalls!Init PROVE SpendInv
<1>1. Checked = {}
  BY DEF ModelCalls!Init, Checked
<1>2. Cardinality(Checked) = 0
  BY <1>1, FS_EmptySet
<1> QED
  BY <1>2, CapIsPositive, CountsAreFinite DEF ModelCalls!Init, SpendInv

LEMMA SpendStep ==
    ASSUME ModelCalls!ConstantsOK, SpendInv, [ModelCalls!Next]_(ModelCalls!vars)
    PROVE  SpendInv'
<1> USE DEF SpendInv
<1>0. ModelCalls!cap \in Nat /\ ModelCalls!cap >= 1 /\ Cardinality(Askers) \in Nat /\ Cardinality(Checked) \in Nat
      /\ IsFiniteSet(Checked) /\ Cardinality(Checked) <= Cardinality(Askers)
  BY CapIsPositive, CountsAreFinite
<1>1. CASE UNCHANGED ModelCalls!routerVars
  <2>1. Checked' = Checked
    BY <1>1 DEF ModelCalls!routerVars, Checked
  <2> QED
    BY <1>1, <2>1 DEF ModelCalls!routerVars
<1>2. ASSUME NEW a \in Askers, ModelCalls!SelectBulk(a)
      PROVE  SpendInv'
  <2>1. Checked' = Checked
    BY <1>2 DEF ModelCalls!SelectBulk, Checked
  <2> QED
    BY <1>2, <2>1 DEF ModelCalls!SelectBulk
<1>3. ASSUME NEW a \in Askers, ModelCalls!CheckBudget(a)
      PROVE  SpendInv'
  <2>1. callsAt' \in [Askers -> {"idle", "checked"}] /\ callsUsed' = callsUsed /\ strong' = strong
    BY <1>3 DEF ModelCalls!CheckBudget
  <2>2. callsUsed <= ModelCalls!cap - 1
    BY <1>0, <1>3 DEF ModelCalls!CheckBudget, ModelCalls!BudgetLeft
  <2>3. Checked' \subseteq Askers
    BY DEF Checked
  <2>4. Cardinality(Checked') \in Nat /\ Cardinality(Checked') <= Cardinality(Askers)
    BY <2>3, FS_Subset, FS_CardinalityType, AskersAreCounted
  <2> QED
    BY <1>0, <2>1, <2>2, <2>4
<1>4. ASSUME NEW a \in Askers, ModelCalls!Reserve(a)
      PROVE  SpendInv'
  <2>1. callsAt' \in [Askers -> {"idle", "checked"}] /\ a \in Checked
    BY <1>4 DEF ModelCalls!Reserve, Checked
  <2>2. Checked' = Checked \ {a}
    BY <1>4 DEF ModelCalls!Reserve, Checked
  <2>3. Cardinality(Checked') = Cardinality(Checked) - 1
    BY <1>0, <2>1, <2>2, FS_RemoveElement
  <2>4. \/ callsUsed' = callsUsed + 1 /\ strong' = strong + 1
        \/ callsUsed' = callsUsed /\ strong' = strong
    BY <1>4 DEF ModelCalls!Reserve
  <2> QED
    BY <1>0, <2>1, <2>3, <2>4
<1> QED
  BY <1>1, <1>2, <1>3, <1>4
     DEF ModelCalls!Next, ModelCalls!vars, ModelCalls!Enter, ModelCalls!Wake, ModelCalls!RateLimited, ModelCalls!CallFails, ModelCalls!CallSucceeds, ModelCalls!routerVars

(* The strong model is chosen past the cap of a container's budget at most once *)
(* for each question but one, however many processes test the counter between   *)
(* the test and the increment of another.                                      *)
THEOREM SpendingIsBounded == ASSUME ModelCalls!ConstantsOK PROVE ModelCalls!Spec => []ModelCalls!SpendIsBounded
<1>1. ModelCalls!Init => SpendInv
  BY SpendInit
<1>2. SpendInv /\ [ModelCalls!Next]_(ModelCalls!vars) => SpendInv'
  BY SpendStep
<1>3. SpendInv => ModelCalls!SpendIsBounded
  BY CapIsPositive, CountsAreFinite, AskersAreCounted DEF SpendInv, ModelCalls!SpendIsBounded
<1> QED
  BY <1>1, <1>2, <1>3, PTL DEF ModelCalls!Spec

-----------------------------------------------------------------------------
(* A batch that is called has made one call more than it was refused.          *)
CallInv ==
    /\ batch \in [Batches -> {"waiting", "calling", "sleeping", "ok", "failed"}]
    /\ callsAttempt \in [Batches -> Nat] /\ calls \in [Batches -> Nat]
    /\ \A b \in Batches :
          /\ batch[b] \in {"waiting", "sleeping"} => calls[b] = callsAttempt[b] /\ callsAttempt[b] < MaxAttempts
          /\ batch[b] = "calling" => calls[b] = callsAttempt[b] + 1 /\ callsAttempt[b] < MaxAttempts
          /\ calls[b] <= MaxAttempts

LEMMA CallStep ==
    ASSUME ModelCalls!ConstantsOK, CallInv, [ModelCalls!Next]_(ModelCalls!vars)
    PROVE  CallInv'
<1> USE DEF CallInv, ModelCalls!ConstantsOK
<1>1. CASE UNCHANGED ModelCalls!gatherVars
  BY <1>1 DEF ModelCalls!gatherVars
<1>2. ASSUME NEW b \in Batches, ModelCalls!Enter(b) \/ ModelCalls!Wake(b)
      PROVE  CallInv'
  BY <1>2 DEF ModelCalls!Enter, ModelCalls!Wake
<1>3. ASSUME NEW b \in Batches, ModelCalls!RateLimited(b)
      PROVE  CallInv'
  BY <1>3 DEF ModelCalls!RateLimited, ModelCalls!LastAttempt
<1>4. ASSUME NEW b \in Batches, ModelCalls!CallFails(b) \/ ModelCalls!CallSucceeds(b)
      PROVE  CallInv'
  BY <1>4 DEF ModelCalls!CallFails, ModelCalls!CallSucceeds
<1> QED
  BY <1>1, <1>2, <1>3, <1>4
     DEF ModelCalls!Next, ModelCalls!vars, ModelCalls!gatherVars, ModelCalls!SelectBulk, ModelCalls!CheckBudget, ModelCalls!Reserve

(* gather_bounded calls the provider for a batch at most max_attempts times,         *)
(* also for batches that go on after another has raised.                      *)
THEOREM CallingIsBounded == ASSUME ModelCalls!ConstantsOK PROVE ModelCalls!Spec => []ModelCalls!CallsAreBounded
<1>1. ModelCalls!Init => CallInv
  BY DEF ModelCalls!Init, CallInv, ModelCalls!ConstantsOK
<1>2. CallInv /\ [ModelCalls!Next]_(ModelCalls!vars) => CallInv'
  BY CallStep
<1>3. CallInv => ModelCalls!CallsAreBounded
  BY DEF CallInv, ModelCalls!CallsAreBounded
<1> QED
  BY <1>1, <1>2, <1>3, PTL DEF ModelCalls!Spec

(* Both promises of the services about calls of models: the budget of the strong *)
(* model and the attempts of the provider.                                     *)
LEMMA CallsBounded == ASSUME ModelCalls!ConstantsOK PROVE ModelCalls!Spec => []ModelCalls!ModelCallsAreBounded
BY SpendingIsBounded, CallingIsBounded, PTL DEF ModelCalls!ModelCallsAreBounded
-----------------------------------------------------------------------------
(* Onboarding. *)
LEMMA Indices ==
    /\ \A i \in 1..6 : Onboard!Index(Onboard!States[i]) = i
    /\ \A s \in Onboard!Steps : Onboard!Index(s) \in 2..6 /\ Onboard!States[Onboard!Index(s)] = s
<1>1. Len(Onboard!States) = 6 /\ DOMAIN Onboard!States = 1..6
  BY DEF Onboard!States
<1>2. ASSUME NEW i \in 1..6, NEW j \in 1..6, Onboard!States[i] = Onboard!States[j]
      PROVE  i = j
  BY <1>2 DEF Onboard!States
<1>3. ASSUME NEW i \in 1..6
      PROVE  Onboard!Index(Onboard!States[i]) = i
  BY <1>1, <1>2 DEF Onboard!Index
<1> QED
  BY <1>1, <1>3 DEF Onboard!Steps

-----------------------------------------------------------------------------
OnboardTypeOK ==
    /\ state \in 1..6 /\ onboardSeen \in [OnboardRequests -> 1..6]
    /\ step \in [OnboardRequests -> Onboard!Steps]
    /\ onboardAt \in [OnboardRequests -> {"new", "check", "write", "advance", "end"}]

(* An organisation of state n has had the writes of the steps up to n.         *)
Provided(n) == \A i \in 2..n : Onboard!States[i] # "completed" => Onboard!States[i] \in stepsDone

(* What a request knows of the organisation stays true, however old, and what it  *)
(* advances to it has written itself.                                        *)
Knows(r) ==
    /\ Provided(onboardSeen[r])
    /\ onboardAt[r] = "advance" /\ step[r] # "completed" => step[r] \in stepsDone

(* Folders lie in containers that are there, and so do the roots they are put under. *)
OnboardInv ==
    /\ OnboardTypeOK /\ Provided(state)
    /\ \A r \in OnboardRequests : Knows(r)
    /\ roots \subseteq containers
    /\ \A f \in folders : f[2] \in containers

LEMMA OnboardInit == Onboard!Init => OnboardInv
<1> SUFFICES ASSUME Onboard!Init PROVE OnboardInv
  OBVIOUS
<1>1. OnboardTypeOK
  BY DEF Onboard!Init, OnboardTypeOK
<1>2. \A r \in OnboardRequests : onboardSeen[r] = 1 /\ onboardAt[r] = "new"
  BY DEF Onboard!Init
<1>3. Provided(1)
  BY DEF Provided
<1>4. state = 1 /\ roots = {} /\ folders = {}
  BY DEF Onboard!Init
<1> QED
  BY <1>1, <1>2, <1>3, <1>4 DEF OnboardInv, Knows

(* What a step keeps true of a request: of the one that takes it, and of the others. *)
LEMMA StillKnows ==
    ASSUME OnboardTypeOK, NEW o \in OnboardRequests, Knows(o), stepsDone \subseteq stepsDone',
           onboardAt'[o] = onboardAt[o], step'[o] = step[o], onboardSeen'[o] = onboardSeen[o]
    PROVE  Knows(o)'
BY DEF Knows, Provided, OnboardTypeOK

LEMMA OnboardTypeStep ==
    ASSUME OnboardTypeOK, [Onboard!Next]_(Onboard!vars)
    PROVE  OnboardTypeOK'
<1> USE DEF OnboardTypeOK, Onboard!organisation, Onboard!Goes, Onboard!Knowing, Onboard!Ends,
            Onboard!Commits, Onboard!Refreshed
<1>1. ASSUME NEW r \in OnboardRequests, Onboard!LoadOwnedOrg(r)
      PROVE  OnboardTypeOK'
  BY <1>1 DEF Onboard!LoadOwnedOrg
<1>2. ASSUME NEW r \in OnboardRequests, Onboard!Check(r)
      PROVE  OnboardTypeOK'
  BY <1>2 DEF Onboard!Check
<1>3. ASSUME NEW r \in OnboardRequests, Onboard!UpsertAiSettings(r) \/ Onboard!ConnectStorage(r)
      PROVE  OnboardTypeOK'
  BY <1>3 DEF Onboard!UpsertAiSettings, Onboard!ConnectStorage
<1>4. ASSUME NEW r \in OnboardRequests, Onboard!CreateDomains(r) \/ Onboard!AddUsers(r)
      PROVE  OnboardTypeOK'
  BY <1>4 DEF Onboard!CreateDomains, Onboard!AddUsers
<1>5. ASSUME NEW r \in OnboardRequests, Onboard!AdvanceState(r)
      PROVE  OnboardTypeOK'
  <2>1. state' \in 1..6
    BY <1>5, Indices DEF Onboard!AdvanceState
  <2> QED
    BY <1>5, <2>1 DEF Onboard!AdvanceState
<1>6. ASSUME NEW r \in OnboardRequests, Onboard!Again(r)
      PROVE  OnboardTypeOK'
  BY <1>6 DEF Onboard!Again
<1>7. CASE \/ Onboard!UpdateOrganization \/ Onboard!DeleteFolder
           \/ Onboard!DeleteContainer \/ Onboard!SyncContainer
  BY <1>7 DEF Onboard!UpdateOrganization, Onboard!DeleteFolder, Onboard!DeleteContainer, Onboard!SyncContainer
<1>8. CASE UNCHANGED Onboard!vars
  BY <1>8 DEF Onboard!vars
<1> QED
  BY <1>1, <1>2, <1>3, <1>4, <1>5, <1>6, <1>7, <1>8 DEF Onboard!Next

LEMMA OnboardStep ==
    ASSUME OnboardInv, [Onboard!Next]_(Onboard!vars)
    PROVE  OnboardInv'
<1> USE DEF OnboardInv
<1>0. OnboardTypeOK' /\ state \in 1..6
  BY OnboardTypeStep DEF OnboardTypeOK
<1> DEFINE Places == roots' \subseteq containers' /\ \A f \in folders' : f[2] \in containers'
<1>1. ASSUME NEW r \in OnboardRequests, Onboard!LoadOwnedOrg(r) \/ Onboard!Check(r) \/ Onboard!Again(r)
      PROVE  OnboardInv'
  <2>1. UNCHANGED <<state, Onboard!organisation>>
    BY <1>1 DEF Onboard!LoadOwnedOrg, Onboard!Check, Onboard!Again
  <2>2. \A o \in OnboardRequests \ {r} :
            onboardAt'[o] = onboardAt[o] /\ step'[o] = step[o] /\ onboardSeen'[o] = onboardSeen[o]
    BY <1>1 DEF Onboard!LoadOwnedOrg, Onboard!Check, Onboard!Again, Onboard!Goes, Onboard!Knowing, Onboard!Ends,
                OnboardTypeOK
  <2>3. \A o \in OnboardRequests \ {r} : Knows(o)'
    BY <2>1, <2>2, StillKnows DEF Onboard!organisation
  <2>4. Provided(state) /\ Provided(1) /\ Provided(onboardSeen[r])
    BY DEF Provided, Knows
  <2>5. onboardSeen'[r] \in {1, state, onboardSeen[r]}
    BY <1>1 DEF Onboard!LoadOwnedOrg, Onboard!Check, Onboard!Again, Onboard!Goes, Onboard!Knowing, Onboard!Ends,
                OnboardTypeOK
  <2>6. onboardAt'[r] = "advance" => step'[r] = "completed"
    BY <1>1 DEF Onboard!LoadOwnedOrg, Onboard!Check, Onboard!Again, Onboard!Goes, Onboard!Ends, OnboardTypeOK
  <2>7. Knows(r)'
    BY <2>1, <2>4, <2>5, <2>6 DEF Knows, Provided, Onboard!organisation
  <2> QED
    BY <1>0, <2>1, <2>3, <2>7 DEF Onboard!organisation, Provided
<1>2. ASSUME NEW r \in OnboardRequests,
             \/ Onboard!UpsertAiSettings(r) \/ Onboard!ConnectStorage(r)
             \/ Onboard!CreateDomains(r) \/ Onboard!AddUsers(r)
      PROVE  OnboardInv'
  <2>1. stepsDone \subseteq stepsDone' /\ state' = state /\ step' = step
    BY <1>2 DEF Onboard!UpsertAiSettings, Onboard!ConnectStorage, Onboard!CreateDomains, Onboard!AddUsers, Onboard!Commits
  <2>2. \A o \in OnboardRequests \ {r} :
            onboardAt'[o] = onboardAt[o] /\ step'[o] = step[o] /\ onboardSeen'[o] = onboardSeen[o]
    BY <1>2 DEF Onboard!UpsertAiSettings, Onboard!ConnectStorage, Onboard!CreateDomains, Onboard!AddUsers,
                Onboard!Commits, Onboard!Refreshed, Onboard!Goes, Onboard!Knowing, Onboard!Ends, OnboardTypeOK
  <2>3. \A o \in OnboardRequests \ {r} : Knows(o)'
    BY <2>1, <2>2, StillKnows
  <2>4. onboardSeen'[r] \in {1, state, onboardSeen[r]}
    BY <1>2 DEF Onboard!UpsertAiSettings, Onboard!ConnectStorage, Onboard!CreateDomains, Onboard!AddUsers,
                Onboard!Commits, Onboard!Refreshed, Onboard!Goes, Onboard!Knowing, Onboard!Ends, OnboardTypeOK
  <2>5. onboardAt'[r] = "advance" => step[r] \in stepsDone'
    BY <1>2 DEF Onboard!UpsertAiSettings, Onboard!ConnectStorage, Onboard!CreateDomains, Onboard!AddUsers,
                Onboard!Commits, Onboard!Goes, Onboard!Ends, OnboardTypeOK
  <2>6. Provided(state) /\ Provided(1) /\ Provided(onboardSeen[r])
    BY DEF Provided, Knows
  <2>7. Knows(r)'
    BY <2>1, <2>4, <2>5, <2>6 DEF Knows, Provided
  <2>8. Places
    BY <1>2 DEF Onboard!UpsertAiSettings, Onboard!ConnectStorage, Onboard!RootAfter, Onboard!CreateDomains, Onboard!AddUsers
  <2> QED
    BY <1>0, <2>1, <2>3, <2>7, <2>8 DEF Provided
<1>3. ASSUME NEW r \in OnboardRequests, Onboard!AdvanceState(r)
      PROVE  OnboardInv'
  <2>1. Provided(state')
    <3>1. CASE state' = state
      BY <3>1
    <3>2. CASE state' # state
      <4>1. state' = Onboard!Index(step[r]) /\ Onboard!Index(step[r]) <= onboardSeen[r] + 1 /\ onboardAt[r] = "advance"
        BY <1>3, <3>2 DEF Onboard!AdvanceState, Onboard!StepAllowed
      <4>2. step[r] \in Onboard!Steps /\ onboardSeen[r] \in 1..6 /\ Knows(r)
        BY DEF OnboardTypeOK
      <4>3. state' \in 2..6 /\ Onboard!States[state'] = step[r]
        BY <4>1, <4>2, Indices
      <4>4. ASSUME NEW i \in 2..state', Onboard!States[i] # "completed"
            PROVE  Onboard!States[i] \in stepsDone
        <5>1. i = state' \/ i \in 2..onboardSeen[r]
          BY <4>1, <4>2, <4>3
        <5> QED
          BY <4>1, <4>2, <4>3, <4>4, <5>1 DEF Knows, Provided
      <4> QED
        BY <4>4 DEF Provided
    <3> QED
      BY <3>1, <3>2
  <2>2. UNCHANGED <<Onboard!organisation, step>> /\ onboardAt'[r] = "end" /\ onboardSeen'[r] = 1
    BY <1>3 DEF Onboard!AdvanceState, Onboard!Ends, Onboard!Goes, Onboard!Knowing, OnboardTypeOK
  <2>3. Knows(r)'
    BY <2>2 DEF Knows, Provided
  <2>4. \A o \in OnboardRequests \ {r} :
            onboardAt'[o] = onboardAt[o] /\ step'[o] = step[o] /\ onboardSeen'[o] = onboardSeen[o]
    BY <1>3 DEF Onboard!AdvanceState, Onboard!Ends, Onboard!Goes, Onboard!Knowing, OnboardTypeOK
  <2>5. \A o \in OnboardRequests \ {r} : Knows(o)'
    BY <2>2, <2>4, StillKnows DEF Onboard!organisation
  <2> QED
    BY <1>0, <2>1, <2>2, <2>3, <2>5 DEF Onboard!organisation, Provided
<1>4. CASE \/ Onboard!UpdateOrganization \/ Onboard!DeleteFolder
           \/ Onboard!DeleteContainer \/ Onboard!SyncContainer
  <2>1. UNCHANGED <<state, stepsDone, step, onboardAt, onboardSeen>>
    BY <1>4 DEF Onboard!UpdateOrganization, Onboard!DeleteFolder, Onboard!DeleteContainer, Onboard!SyncContainer
  <2>2. Places
    BY <1>4 DEF Onboard!UpdateOrganization, Onboard!DeleteFolder, Onboard!DeleteContainer, Onboard!SyncContainer
  <2> QED
    BY <1>0, <2>1, <2>2 DEF Knows, Provided
<1>5. CASE UNCHANGED Onboard!vars
  BY <1>0, <1>5 DEF Onboard!vars, Knows, Provided
<1> QED
  BY <1>1, <1>2, <1>3, <1>4, <1>5 DEF Onboard!Next

(* However the requests of an owner and his admins overlap, whatever folders and    *)
(* containers are deleted beside them, and although a late request may set the state *)
(* back: no step is skipped, and no folder outlives its container.               *)
LEMMA OnboardingTells == Onboard!Spec => []Onboard!StateTellsWhatIsThere
<1>1. OnboardInv => Onboard!StateTellsWhatIsThere
  BY DEF OnboardInv, Provided, Onboard!StateTellsWhatIsThere
<1> QED
  BY <1>1, OnboardInit, OnboardStep, PTL DEF Onboard!Spec
-----------------------------------------------------------------------------
(* ModelPool. *)

LEMMA PoolSelects ==
    ASSUME NEW s, NEW kind, NEW tier
    PROVE  LET cands == Pool!Candidates(kind, tier) picked == Pool!Selected(s, kind, tier) IN
           /\ cands \subseteq Lanes /\ \A l \in cands : LaneKind[l] = kind
           /\ picked \subseteq cands
           /\ Pool!Healthy(s, cands) # {} => picked \subseteq Pool!Healthy(s, cands) /\ picked # {}
BY DEF Pool!Candidates, Pool!Selected, Pool!Healthy

(* Calls wait for lanes of their kind, and a lane in service has not failed since it last cooled.  *)
PoolTypes ==
    /\ now \in Nat /\ cooling \in [Pool!Styles -> [Lanes -> Nat]]
    /\ pc = [c \in Calls |-> pc[c]] /\ lane = [c \in Calls |-> lane[c]]
    /\ poolTried = [c \in Calls |-> poolTried[c]]
    /\ attempts \in [Calls -> Nat] /\ started \in [Calls -> Nat]

(* A lane a call of the pool has tried and left cools for a whole cool-down after the call began.  *)
TriedCools ==
    \A c \in Calls :
        /\ started[c] =< now
        /\ pc[c] = "idle" => poolTried[c] = {}
        /\ pc[c] = "waiting" =>
              lane[c] \in Lanes /\ LaneKind[lane[c]] = (IF CallStyle[c] = "pool" THEN "embedding" ELSE "chat")
        /\ poolTried[c] \subseteq Lanes
        /\ CallStyle[c] = "pool" =>
              \A l \in poolTried[c] :
                  pc[c] = "select" \/ (pc[c] = "waiting" /\ l # lane[c]) => cooling["pool"][l] >= started[c] + Cooldown

Cooled == PoolTypes /\ TriedCools /\ Pool!OnlyFailedLanesCool

(* What a failure does to the lanes: the one that failed cools, and no other.                     *)
LEMMA PoolCools ==
    ASSUME Pool!ConstantsOK, PoolTypes, NEW c \in Calls, lane[c] \in Lanes, Pool!CoolDown(c),
           LaneKind[lane[c]] = (IF CallStyle[c] = "pool" THEN "embedding" ELSE "chat")
    PROVE  /\ cooling' \in [Pool!Styles -> [Lanes -> Nat]]
           /\ \A s \in Pool!Styles, l \in Lanes :
                 \/ cooling'[s][l] = cooling[s][l]
                 \/ s = CallStyle[c] /\ l = lane[c] /\ cooling'[s][l] = now + Cooldown
           /\ CallStyle[c] = "pool" => cooling'["pool"][lane[c]] = now + Cooldown
<1> DEFINE style == CallStyle[c]
<1>1. style \in Pool!Styles /\ now + Cooldown \in Nat
  BY DEF Pool!ConstantsOK, PoolTypes
<1>2. CASE style = "pool"
  <2>1. cooling' = [cooling EXCEPT !["pool"] = [cooling["pool"] EXCEPT ![lane[c]] = now + Cooldown]]
    BY <1>2 DEF Pool!CoolDown, Pool!Tripped
  <2> QED  BY <1>1, <1>2, <2>1 DEF PoolTypes, Pool!Styles
<1>3. CASE style = "sync"
  <2> DEFINE named == {k \in Pool!ChatLanes : LaneDeployment[k] = LaneDeployment[lane[c]]}
             first == CHOOSE k \in named : \A j \in named : LaneRank[k] =< LaneRank[j]
  <2>1. named = {lane[c]}
    BY <1>3 DEF Pool!ChatLanes, Pool!ConstantsOK
  <2>2. LaneRank[lane[c]] =< LaneRank[lane[c]]
    BY DEF Pool!ConstantsOK
  <2>3. first = lane[c]
    BY <2>1, <2>2
  <2>4. \/ cooling' = [cooling EXCEPT !["sync"] = cooling["sync"]]
        \/ cooling' = [cooling EXCEPT !["sync"] = [cooling["sync"] EXCEPT ![first] = now + Cooldown]]
    BY <1>3 DEF Pool!CoolDown, Pool!Reported
  <2> HIDE DEF first
  <2> QED  BY <1>1, <1>3, <2>3, <2>4 DEF PoolTypes, Pool!Styles
<1> QED  BY <1>1, <1>2, <1>3 DEF Pool!Styles

LEMMA CooledStep == ASSUME Pool!ConstantsOK, Cooled, [Pool!Next]_(Pool!vars) PROVE Cooled'
<1> USE DEF Cooled, PoolTypes
<1>1. CASE UNCHANGED Pool!vars
  BY <1>1 DEF Pool!vars, TriedCools, Pool!OnlyFailedLanesCool
<1>2. ASSUME NEW c \in Calls, Pool!Start(c) PROVE Cooled'
  BY <1>2 DEF Pool!Start, TriedCools, Pool!OnlyFailedLanesCool
<1>3. ASSUME NEW c \in Calls, Pool!Select(c) PROVE Cooled'
  <2> DEFINE picked == Pool!Selected(CallStyle[c], Pool!CallKind(c), CallTier[c])
  <2>1. PICK l \in picked :
           IF Pool!GivesUp(c, l)
           THEN pc' = [pc EXCEPT ![c] = "failed"] /\ UNCHANGED <<lane, poolTried, attempts>>
           ELSE /\ pc' = [pc EXCEPT ![c] = "waiting"] /\ lane' = [lane EXCEPT ![c] = l]
                /\ poolTried' = [poolTried EXCEPT ![c] = poolTried[c] \cup {l}]
                /\ attempts' = [attempts EXCEPT ![c] = attempts[c] + 1]
    BY <1>3 DEF Pool!Select
  <2>2. l \in Lanes /\ LaneKind[l] = Pool!CallKind(c)
    BY PoolSelects
  <2>3. pc[c] = "select" /\ UNCHANGED <<now, cooling, started, failedOn>>
    BY <1>3 DEF Pool!Select
  <2>4. CASE Pool!GivesUp(c, l)
    BY <2>1, <2>3, <2>4 DEF TriedCools, Pool!OnlyFailedLanesCool
  <2>5. CASE ~Pool!GivesUp(c, l)
    <3>1. PoolTypes' /\ Pool!OnlyFailedLanesCool'
      BY <2>1, <2>3, <2>5 DEF Pool!OnlyFailedLanesCool
    <3>2. TriedCools'
      BY <2>1, <2>2, <2>3, <2>5 DEF TriedCools, Pool!CallKind
    <3> QED  BY <3>1, <3>2
  <2> QED  BY <2>4, <2>5
<1>4. ASSUME NEW c \in Calls, Pool!Exhausted(c) PROVE Cooled'
  BY <1>4 DEF Pool!Exhausted, TriedCools, Pool!OnlyFailedLanesCool
<1>5. ASSUME NEW c \in Calls, Pool!Answered(c) PROVE Cooled'
  BY <1>5 DEF Pool!Answered, TriedCools, Pool!OnlyFailedLanesCool
<1>6. ASSUME NEW c \in Calls, Pool!RateLimitedOrTimedOut(c) PROVE Cooled'
  <2>1. /\ pc[c] = "waiting" /\ pc' = [pc EXCEPT ![c] = "select"]
        /\ failedOn' = failedOn \cup {<<CallStyle[c], lane[c]>>}
        /\ UNCHANGED <<now, lane, poolTried, attempts, started>>
    BY <1>6 DEF Pool!RateLimitedOrTimedOut
  <2>2. /\ cooling' \in [Pool!Styles -> [Lanes -> Nat]]
        /\ \A s \in Pool!Styles, l \in Lanes :
              \/ cooling'[s][l] = cooling[s][l]
              \/ s = CallStyle[c] /\ l = lane[c] /\ cooling'[s][l] = now + Cooldown
        /\ CallStyle[c] = "pool" => cooling'["pool"][lane[c]] = now + Cooldown
    BY <1>6, <2>1, PoolCools DEF Pool!RateLimitedOrTimedOut, TriedCools
  <2>3. PoolTypes'
    BY <2>1, <2>2
  <2>4. TriedCools'
    BY <2>1, <2>2 DEF TriedCools, Pool!ConstantsOK, Pool!Styles
  <2>5. Pool!OnlyFailedLanesCool'
    BY <2>1, <2>2 DEF Pool!OnlyFailedLanesCool
  <2> QED  BY <2>3, <2>4, <2>5
<1>7. CASE Pool!Tick
  BY <1>7 DEF Pool!Tick, TriedCools, Pool!OnlyFailedLanesCool
<1> QED
  BY <1>1, <1>2, <1>3, <1>4, <1>5, <1>6, <1>7 DEF Pool!Next

(* A call of the pool that has attempts and time left gives up only when every lane cools.        *)
LEMMA PoolGivesUpRightly ==
    ASSUME Pool!ConstantsOK, Cooled, [Pool!Next]_(Pool!vars) PROVE Pool!GivesUpRightly
<1> SUFFICES ASSUME NEW c \in Calls, pc[c] = "select", pc'[c] = "failed", CallStyle[c] = "pool",
                    attempts[c] < PoolMaxAttempts, now < started[c] + Cooldown
             PROVE  Pool!Healthy("pool", Pool!Candidates("embedding", CallTier[c])) = {}
  BY DEF Pool!GivesUpRightly
<1> DEFINE healthy == Pool!Healthy("pool", Pool!Candidates("embedding", CallTier[c]))
           picked == Pool!Selected("pool", "embedding", CallTier[c])
<1>1. Pool!Select(c) \/ Pool!Exhausted(c)
  BY DEF Cooled, PoolTypes, Pool!Next, Pool!vars, Pool!Start, Pool!Select, Pool!Exhausted, Pool!Answered,
         Pool!RateLimitedOrTimedOut, Pool!Tick
<1>2. Pool!CallKind(c) = "embedding"
  BY DEF Pool!CallKind
<1>3. CASE Pool!Select(c)
  <2>1. PICK l \in picked : l \in poolTried[c]
    <3>1. \E l \in picked : IF Pool!GivesUp(c, l) THEN TRUE ELSE pc' = [pc EXCEPT ![c] = "waiting"]
      BY <1>2, <1>3 DEF Pool!Select
    <3> QED  BY <3>1 DEF Pool!GivesUp, Cooled, PoolTypes
  <2>2. l \in Lanes /\ cooling["pool"][l] >= started[c] + Cooldown
    BY <2>1 DEF Cooled, TriedCools
  <2>3. l \notin healthy
    BY <2>2 DEF Pool!Healthy, Cooled, PoolTypes, Pool!ConstantsOK, Pool!Styles
  <2> QED  BY <2>1, <2>3, PoolSelects
<1>4. CASE Pool!Exhausted(c)
  <2>1. picked = {}
    BY <1>2, <1>4 DEF Pool!Exhausted, Pool!AttemptLimit, Pool!ConstantsOK, Cooled, PoolTypes
  <2> QED  BY <2>1, PoolSelects
<1> QED  BY <1>1, <1>3, <1>4

LEMMA CooledInit == ASSUME Pool!ConstantsOK PROVE Pool!Init => Cooled
BY DEF Pool!Init, Pool!ConstantsOK, Pool!Styles, Cooled, PoolTypes, TriedCools, Pool!OnlyFailedLanesCool

(* Calls fail over to every healthy lane before they give up, and only lanes that failed are out    *)
(* of service, for any lanes, calls and interleaving of failures.                                *)
LEMMA PoolIsUsedWell ==
    ASSUME Pool!ConstantsOK
    PROVE  Pool!Spec => [][Pool!GivesUpRightly /\ Pool!OnlyFailedLanesCool]_(Pool!vars)
<1>1. Cooled /\ [Pool!Next]_(Pool!vars) => Pool!GivesUpRightly /\ Pool!OnlyFailedLanesCool
  BY PoolGivesUpRightly DEF Cooled
<1> QED  BY <1>1, CooledInit, CooledStep, PTL DEF Pool!Spec

-----------------------------------------------------------------------------
(* IngestCapacity. *)

(* The helpers: the least and the greatest of two numbers, and division.                         *)
LEMMA LeastOfSome ==
    ASSUME NEW S, \E m \in S : \A y \in S : m =< y
    PROVE  Capacity!Min(S) \in S /\ \A y \in S : Capacity!Min(S) =< y
BY DEF Capacity!Min

LEMMA LeastOfTwo ==
    \A a, b \in Int : Capacity!Min({a, b}) = (IF a =< b THEN a ELSE b)
<1> SUFFICES ASSUME NEW a \in Int, NEW b \in Int PROVE Capacity!Min({a, b}) = (IF a =< b THEN a ELSE b)
  OBVIOUS
<1>1. \E m \in {a, b} : \A y \in {a, b} : m =< y
  OBVIOUS
<1>2. Capacity!Min({a, b}) \in {a, b} /\ \A y \in {a, b} : Capacity!Min({a, b}) =< y
  BY <1>1, LeastOfSome
<1> QED  BY <1>2

LEMMA AtleastIsMax ==
    \A a, b \in Int : Capacity!Atleast(a, b) = (IF a >= b THEN a ELSE b)
<1> SUFFICES ASSUME NEW a \in Int, NEW b \in Int PROVE Capacity!Max({a, b}) = (IF a >= b THEN a ELSE b)
  BY DEF Capacity!Atleast
<1>1. \E m \in {a, b} : \A y \in {a, b} : m >= y
  OBVIOUS
<1>2. Capacity!Max({a, b}) \in {a, b} /\ \A y \in {a, b} : Capacity!Max({a, b}) >= y
  BY <1>1 DEF Capacity!Max
<1> QED  BY <1>2

LEMMA Quotients ==
    \A a \in Nat, b \in Nat \ {0} : a \div b \in Nat /\ b * (a \div b) =< a
OBVIOUS

LEMMA TimesGrows ==
    \A a, b, n \in Nat : a =< b => n * a =< n * b
OBVIOUS

(* Work for k rounds of n workers is done in k rounds.                                           *)
LEMMA CeilFits ==
    \A w \in Nat, n \in Nat \ {0} : w =< 600 * n => Capacity!Ceil(w, n) \in Nat /\ Capacity!Ceil(w, n) =< 600
<1> SUFFICES ASSUME NEW w \in Nat, NEW n \in Nat \ {0}, w =< 600 * n
             PROVE  (w + n - 1) \div n \in Nat /\ (w + n - 1) \div n =< 600
  BY DEF Capacity!Ceil
<1> DEFINE q == (w + n - 1) \div n
<1>1. q \in Nat /\ n * q =< w + n - 1
  BY Quotients
<1> HIDE DEF q
<1>2. ASSUME q >= 601 PROVE FALSE
  <2>1. n * 601 =< n * q
    BY <1>1, <1>2, TimesGrows
  <2> QED  BY <1>1, <2>1
<1> QED  BY <1>1, <1>2 DEF q

LEMMA CeilCovers ==
    \A w \in Nat : Capacity!Ceil(w, 600) \in Nat /\ w =< 600 * Capacity!Ceil(w, 600)
BY DEF Capacity!Ceil

(* What is measured: at least one core, and memory that is a number.                             *)
LEMMA CoresAreFound ==
    ASSUME Capacity!ConstantsOK, NEW m \in Machines
    PROVE  Capacity!DetectCpu(m).cpu \in Nat \ {0}
<1> DEFINE S == Capacity!Given({m.quota, m.affinity}) \cup {m.logical}
<1>1. m.quota \in Nat \cup {None} /\ m.affinity \in Nat \cup {None} /\ m.logical \in Nat
  BY DEF Capacity!ConstantsOK
<1>2. S \subseteq Nat /\ \E x \in S : \A y \in S : x =< y
  <2>1. S \subseteq {m.quota, m.affinity, m.logical} /\ None \notin S \ {m.logical} /\ m.logical \in S
    BY DEF Capacity!Given
  <2>2. S \subseteq Nat
    BY <1>1, <2>1
  <2>3. CASE m.quota \in Nat /\ m.affinity \in Nat
    <3>1. S = {m.quota, m.affinity, m.logical}
      BY <2>3 DEF Capacity!Given, Capacity!ConstantsOK
    <3> QED  BY <1>1, <2>2, <2>3, <3>1
  <2>4. CASE m.quota = None /\ m.affinity \in Nat
    <3>1. S = {m.affinity, m.logical}
      BY <2>4 DEF Capacity!Given, Capacity!ConstantsOK
    <3> QED  BY <1>1, <2>2, <2>4, <3>1
  <2>5. CASE m.quota \in Nat /\ m.affinity = None
    <3>1. S = {m.quota, m.logical}
      BY <2>5 DEF Capacity!Given, Capacity!ConstantsOK
    <3> QED  BY <1>1, <2>2, <2>5, <3>1
  <2>6. CASE m.quota = None /\ m.affinity = None
    <3>1. S = {m.logical}
      BY <2>6 DEF Capacity!Given
    <3> QED  BY <1>1, <2>2, <3>1
  <2> QED  BY <1>1, <2>3, <2>4, <2>5, <2>6
<1> HIDE DEF S
<1>3. Capacity!Min(S) \in Nat
  BY <1>2, LeastOfSome
<1>4. Capacity!Atleast(1, Capacity!Min(S)) \in Nat \ {0}
  BY <1>3, AtleastIsMax
<1> QED  BY <1>4 DEF Capacity!DetectCpu, S

LEMMA MemoryIsFound ==
    ASSUME Capacity!ConstantsOK, NEW m \in Machines
    PROVE  Capacity!DetectRam(m).avail \in Nat
<1> DEFINE limits == Capacity!Given({m.limit, m.host})
           whole == IF limits = {} THEN 1 ELSE Capacity!Min(limits)
           boxed == m.limit # None /\ m.limit = whole
           avail == CASE boxed /\ m.usage # None -> IF m.usage > whole THEN 0 ELSE whole - m.usage
                      [] ~(boxed /\ m.usage # None) /\ m.avail # None -> m.avail
                      [] OTHER -> (85 * whole) \div 100
<1>1. /\ m.limit \in Nat \cup {None} /\ m.host \in Nat \cup {None} /\ None \notin Nat
      /\ m.usage \in Nat \cup {None} /\ m.avail \in Nat \cup {None}
  BY DEF Capacity!ConstantsOK
<1>2. whole \in Nat
  <2>1. CASE m.limit \in Nat /\ m.host \in Nat
    <3>1. limits = {m.limit, m.host}
      BY <1>1, <2>1 DEF Capacity!Given
    <3> QED  BY <2>1, <3>1, LeastOfTwo
  <2>2. CASE m.limit = None /\ m.host \in Nat
    <3>1. limits = {m.host, m.host}
      BY <1>1, <2>2 DEF Capacity!Given
    <3> QED  BY <2>2, <3>1, LeastOfTwo
  <2>3. CASE m.limit \in Nat /\ m.host = None
    <3>1. limits = {m.limit, m.limit}
      BY <1>1, <2>3 DEF Capacity!Given
    <3> QED  BY <2>3, <3>1, LeastOfTwo
  <2>4. CASE m.limit = None /\ m.host = None
    <3>1. limits = {}
      BY <2>4 DEF Capacity!Given
    <3> QED  BY <3>1
  <2> QED  BY <1>1, <2>1, <2>2, <2>3, <2>4
<1> HIDE DEF whole
<1>3. avail \in Nat
  BY <1>1, <1>2
<1> HIDE DEF avail
<1>4. Capacity!Min({avail, whole}) \in Nat
  BY <1>2, <1>3, LeastOfTwo
<1> QED  BY <1>4 DEF Capacity!DetectRam, avail, whole

(* A process's measure, the count of workers and the idle ticks stay in their ranges.             *)
Measured ==
    /\ machine \in Machines /\ quota \in Quotas /\ depth \in Nat
    /\ profile # None => profile.cpu \in Nat \ {0} /\ profile.avail \in Nat
    /\ instances \in Nat /\ instances >= MinInstances
    /\ idle \in 0..IdleTicks
    /\ Capacity!DrainsInTime

LEMMA QuotasAreNumbers ==
    ASSUME Capacity!ConstantsOK, NEW u \in Quotas
    PROVE  Capacity!QuotaInstances(u) = None \/ (Capacity!QuotaInstances(u) \in Nat /\ Capacity!QuotaInstances(u) >= MinInstances)
<1> DEFINE chat == IF u.chat > 0 THEN (u.chat * PerFile) \div (60 * Capacity!ChatTokens) ELSE None
           embed == IF u.embed > 0 THEN (u.embed * PerFile) \div (60 * Capacity!EmbedTokens) ELSE None
           lanes == Capacity!Given({chat, embed})
<1>1. u.chat \in Nat /\ u.embed \in Nat /\ u.rpm \in Nat /\ PerFile \in Nat /\ MinInstances \in Nat /\ None \notin Nat
  BY DEF Capacity!ConstantsOK
<1>2. u.chat * PerFile \in Nat /\ u.embed * PerFile \in Nat /\ u.rpm * PerFile \in Nat
  BY <1>1
<1>3. chat \in Nat \cup {None} /\ embed \in Nat \cup {None}
  BY <1>1, <1>2 DEF Capacity!ChatTokens, Capacity!EmbedTokens
<1> HIDE DEF chat, embed
<1>4. lanes = {} \/ Capacity!Min(lanes) \in Nat
  <2>1. CASE chat \in Nat /\ embed \in Nat
    <3>1. lanes = {chat, embed}
      BY <1>1, <2>1 DEF Capacity!Given
    <3> QED  BY <2>1, <3>1, LeastOfTwo
  <2>2. CASE chat = None /\ embed \in Nat
    <3>1. lanes = {embed, embed}
      BY <1>1, <2>2 DEF Capacity!Given
    <3> QED  BY <2>2, <3>1, LeastOfTwo
  <2>3. CASE chat \in Nat /\ embed = None
    <3>1. lanes = {chat, chat}
      BY <1>1, <2>3 DEF Capacity!Given
    <3> QED  BY <2>3, <3>1, LeastOfTwo
  <2>4. CASE chat = None /\ embed = None
    BY <2>4 DEF Capacity!Given
  <2> QED  BY <1>3, <2>1, <2>2, <2>3, <2>4
<1> HIDE DEF lanes
<1>5. Capacity!PoolQuotaCeiling(u) = None \/ Capacity!PoolQuotaCeiling(u) \in Nat
  <2>1. Capacity!PoolQuotaCeiling(u) = IF lanes = {} THEN None ELSE Capacity!Atleast(1, Capacity!Min(lanes))
    BY DEF Capacity!PoolQuotaCeiling, lanes, chat, embed
  <2> QED  BY <1>4, <2>1, AtleastIsMax
<1>6. Capacity!QuotaConcurrencyCeiling(u) = None \/ Capacity!QuotaConcurrencyCeiling(u) \in Nat
  BY <1>1, <1>2, AtleastIsMax DEF Capacity!QuotaConcurrencyCeiling
<1> DEFINE ceiling == IF Capacity!PoolQuotaCeiling(u) = None THEN Capacity!QuotaConcurrencyCeiling(u)
                      ELSE Capacity!PoolQuotaCeiling(u)
<1>7. ceiling = None \/ ceiling \in Nat
  BY <1>5, <1>6
<1>8. Capacity!QuotaInstances(u) = IF ceiling = None THEN None ELSE Capacity!Atleast(MinInstances, ceiling \div 1)
  BY DEF Capacity!QuotaInstances, Capacity!PerInstance
<1> HIDE DEF ceiling
<1> QED  BY <1>1, <1>7, <1>8, AtleastIsMax

(* The pools that are derived from what was measured fit into it.                                *)
LEMMA KnobsFit ==
    ASSUME NEW p, NEW rpm \in Nat, p.cpu \in Nat \ {0}, p.avail \in Nat
    PROVE  LET k == Capacity!Knobs(p, rpm) safe == p.avail * 60 IN
           /\ k.preprocess > 1 => 100 * k.preprocess * Capacity!CleanJob =< safe
           /\ k.celery =< k.preprocess
           /\ k.parquet > 1 => 200 * k.parquet * Capacity!ParquetJob =< safe /\ 200 * k.parquet * k.duckdb_memory =< safe
           /\ k.parquet * k.duckdb_threads =< k.ingestion_cores
<1> DEFINE k == Capacity!Knobs(p, rpm)
           safe == p.avail * 60
           spare == p.cpu - (IF p.cpu > 2 THEN 2 ELSE 1)
           cores == Capacity!Atleast(1, spare)
           pre == Capacity!Atleast(1, Capacity!Min({cores, safe \div (100 * 890)}))
           par == Capacity!Atleast(1, Capacity!Min({cores, safe \div (200 * 378)}))
           memory == Capacity!Atleast(256, safe \div (200 * par))
           threads == Capacity!Atleast(1, cores \div par)
<1>1. safe \in Nat /\ spare \in Int
  OBVIOUS
<1>2. cores \in Nat \ {0}
  BY <1>1, AtleastIsMax
<1>3. /\ k.ingestion_cores = cores /\ k.preprocess = pre /\ k.parquet = par
      /\ k.celery = Capacity!Min({pre, 32}) /\ k.duckdb_memory = memory /\ k.duckdb_threads = threads
  BY DEF Capacity!Knobs, Capacity!Conversions, Capacity!Safety, Capacity!CleanJob, Capacity!ParquetJob,
         Capacity!Overhead, Capacity!DuckFloor
<1> HIDE DEF k, safe, cores
<1>4. safe \div (100 * 890) \in Nat /\ (100 * 890) * (safe \div (100 * 890)) =< safe
      /\ safe \div (200 * 378) \in Nat /\ (200 * 378) * (safe \div (200 * 378)) =< safe
  BY <1>1
<1>5. pre \in Nat \ {0} /\ (pre > 1 => (100 * 890) * pre =< safe)
  <2> DEFINE q == safe \div (100 * 890)
             least == Capacity!Min({cores, q})
  <2>1. q \in Nat /\ (100 * 890) * q =< safe
    BY <1>4
  <2> HIDE DEF q
  <2>2. least = (IF cores =< q THEN cores ELSE q)
    BY <1>2, <2>1, LeastOfTwo
  <2> HIDE DEF least
  <2>3. pre = (IF 1 >= least THEN 1 ELSE least)
    BY <1>2, <2>1, <2>2, AtleastIsMax DEF least, q
  <2> QED  BY <1>1, <1>2, <2>1, <2>2, <2>3
<1>6. par \in Nat \ {0} /\ par =< cores /\ (par > 1 => (200 * 378) * par =< safe)
  <2> DEFINE q == safe \div (200 * 378)
             least == Capacity!Min({cores, q})
  <2>1. q \in Nat /\ (200 * 378) * q =< safe
    BY <1>4
  <2> HIDE DEF q
  <2>2. least = (IF cores =< q THEN cores ELSE q)
    BY <1>2, <2>1, LeastOfTwo
  <2> HIDE DEF least
  <2>3. par = (IF 1 >= least THEN 1 ELSE least)
    BY <1>2, <2>1, <2>2, AtleastIsMax DEF least, q
  <2> QED  BY <1>1, <1>2, <2>1, <2>2, <2>3
<1> HIDE DEF pre, par
<1>7. Capacity!Min({pre, 32}) =< pre
  BY <1>5, LeastOfTwo
<1>8. memory \in Nat /\ (par > 1 => (200 * par) * memory =< safe)
  <2> DEFINE q == safe \div (200 * par)
  <2>1. 200 * par \in Nat \ {0}
    BY <1>6
  <2>2. q \in Nat /\ (200 * par) * q =< safe
    BY <1>1, <2>1, Quotients
  <2> HIDE DEF q
  <2>3. memory = (IF 256 >= q THEN 256 ELSE q)
    BY <2>2, AtleastIsMax DEF q
  <2>4. par > 1 => (200 * par) * 256 =< safe
    BY <1>1, <1>6
  <2> QED  BY <2>2, <2>3, <2>4
<1>9. threads \in Nat /\ par * threads =< cores
  <2> DEFINE q == cores \div par
  <2>1. q \in Nat /\ par * q =< cores
    BY <1>2, <1>6, Quotients
  <2> HIDE DEF q
  <2>2. threads = (IF 1 >= q THEN 1 ELSE q)
    BY <2>1, AtleastIsMax DEF q
  <2> QED  BY <1>2, <1>6, <2>1, <2>2
<1> HIDE DEF memory, threads
<1>10. Capacity!CleanJob = 890 /\ Capacity!ParquetJob = 378
  BY DEF Capacity!CleanJob, Capacity!ParquetJob, Capacity!Overhead
<1>11. pre > 1 => 100 * pre * 890 =< safe
  BY <1>1, <1>5
<1>12. par > 1 => 200 * par * 378 =< safe
  BY <1>1, <1>6
<1> QED  BY <1>3, <1>7, <1>8, <1>9, <1>10, <1>11, <1>12 DEF k, safe

LEMMA MeasuredFits == ASSUME Capacity!ConstantsOK, Measured PROVE Capacity!PoolsFit
<1> SUFFICES ASSUME profile # None,
                    \A name \in Capacity!Names : capacityPolicy.env[name] = None /\ capacityPolicy.file[name] = None
             PROVE  LET safe == profile.avail * Capacity!Safety
                        jobs == Capacity!LegacyValue("parquet") IN
                    /\ Capacity!LegacyValue("preprocess") > 1
                          => 100 * Capacity!LegacyValue("preprocess") * Capacity!CleanJob =< safe
                    /\ Capacity!LegacyValue("celery") =< Capacity!LegacyValue("preprocess")
                    /\ jobs > 1 => /\ 200 * jobs * Capacity!ParquetJob =< safe
                                   /\ 200 * jobs * Capacity!LegacyValue("duckdb_memory") =< safe
                    /\ jobs * Capacity!LegacyValue("duckdb_threads") =< Capacity!LegacyValue("ingestion_cores")
  BY DEF Capacity!PoolsFit
<1> DEFINE k == Capacity!Knobs(profile, quota.rpm)
<1>1. \A name \in Capacity!Names : Capacity!LegacyValue(name) = k[name]
  BY DEF Capacity!LegacyValue
<1>2. /\ Capacity!LegacyValue("parquet") = k.parquet /\ Capacity!LegacyValue("preprocess") = k.preprocess
      /\ Capacity!LegacyValue("celery") = k.celery /\ Capacity!LegacyValue("duckdb_memory") = k.duckdb_memory
      /\ Capacity!LegacyValue("duckdb_threads") = k.duckdb_threads
      /\ Capacity!LegacyValue("ingestion_cores") = k.ingestion_cores
  BY <1>1 DEF Capacity!Names
<1>3. quota.rpm \in Nat /\ profile.cpu \in Nat \ {0} /\ profile.avail \in Nat
  BY DEF Measured, Capacity!ConstantsOK
<1>4. Capacity!Safety = 60
  BY DEF Capacity!Safety
<1> QED  BY <1>2, <1>3, <1>4, KnobsFit

(* A decision is within the bounds, drains in time unless something clamps it, and takes workers  *)
(* away only when the queue has been empty for long enough.                                    *)
LEMMA DecisionIsSafe ==
    ASSUME Capacity!ConstantsOK, NEW d \in Nat, NEW u \in Quotas, instances \in Nat, instances >= MinInstances,
           idle \in 0..IdleTicks
    PROVE  LET c == Capacity!ComputeDesiredCapacity(d, u) IN
           /\ c.desired \in Nat /\ c.desired >= MinInstances
           /\ c.limited \/ c.raw > MaxInstances \/ c.eta =< Capacity!Sla
           /\ c.desired > instances =>
                 /\ c.desired =< MaxInstances
                 /\ Capacity!QuotaInstances(u) = None \/ c.desired =< Capacity!QuotaInstances(u)
           /\ c.desired < instances => idle = IdleTicks
<1> DEFINE c == Capacity!ComputeDesiredCapacity(d, u)
           work == d * PerFile
           raw == Capacity!Ceil(work, 600)
           bounded == Capacity!Atleast(MinInstances, Capacity!Min({MaxInstances, raw}))
           ceiling == Capacity!QuotaInstances(u)
           limited == ceiling # None /\ ceiling < bounded
           wanted == IF limited THEN ceiling ELSE bounded
           desired == IF Capacity!Held(wanted) THEN Capacity!Atleast(MinInstances, instances) ELSE wanted
<1>1. /\ MinInstances \in Nat /\ MaxInstances \in Nat /\ MinInstances =< MaxInstances /\ IdleTicks \in Nat
      /\ None \notin Nat /\ work \in Nat
  BY DEF Capacity!ConstantsOK
<1>2. /\ c.desired = desired /\ c.limited = limited /\ c.raw = raw /\ c.eta = Capacity!Drain(d, desired)
  BY DEF Capacity!ComputeDesiredCapacity, Capacity!Sla, Capacity!PerInstance
<1> HIDE DEF c, work
<1>3. raw \in Nat /\ work =< 600 * raw
  BY <1>1, CeilCovers
<1> HIDE DEF raw
<1>4. bounded = (IF MinInstances >= (IF MaxInstances =< raw THEN MaxInstances ELSE raw) THEN MinInstances
                 ELSE (IF MaxInstances =< raw THEN MaxInstances ELSE raw))
  BY <1>1, <1>3, AtleastIsMax, LeastOfTwo
<1>5. bounded \in Nat /\ bounded >= MinInstances /\ bounded =< MaxInstances /\ (raw =< MaxInstances => raw =< bounded)
  BY <1>1, <1>3, <1>4
<1> HIDE DEF bounded
<1>6. ceiling = None \/ (ceiling \in Nat /\ ceiling >= MinInstances)
  BY QuotasAreNumbers
<1> HIDE DEF ceiling
<1>7. wanted \in Nat /\ wanted >= MinInstances /\ wanted =< MaxInstances /\ (ceiling = None \/ wanted =< ceiling)
  BY <1>1, <1>5, <1>6
<1>8. ~limited => wanted = bounded
  OBVIOUS
<1> HIDE DEF limited, wanted
<1>9. Capacity!Atleast(MinInstances, instances) = instances
  BY <1>1, AtleastIsMax
<1>10. /\ desired \in Nat /\ desired >= MinInstances /\ desired >= wanted
       /\ desired > instances => desired = wanted
       /\ desired < instances => idle = IdleTicks
  BY <1>1, <1>7, <1>9 DEF Capacity!Held
<1> HIDE DEF desired
<1>11. limited \/ raw > MaxInstances \/ Capacity!Drain(d, desired) =< 600
  <2> SUFFICES ASSUME ~limited, raw =< MaxInstances PROVE Capacity!Drain(d, desired) =< 600
    BY <1>1, <1>3
  <2> DEFINE n == Capacity!Atleast(1, desired * 1)
  <2>1. n \in Nat \ {0} /\ n >= desired
    BY <1>10, AtleastIsMax
  <2> HIDE DEF n
  <2>2. work =< 600 * n
    BY <1>1, <1>3, <1>5, <1>7, <1>8, <1>10, <2>1
  <2>3. Capacity!Drain(d, desired) = Capacity!Ceil(work, n)
    BY DEF Capacity!Drain, Capacity!PerInstance, work, n
  <2> QED  BY <1>1, <2>1, <2>2, <2>3, CeilFits
<1>12. Capacity!Sla = 600
  BY DEF Capacity!Sla
<1> QED  BY <1>2, <1>7, <1>10, <1>11, <1>12 DEF c, ceiling

LEMMA MeasuredInit == ASSUME Capacity!ConstantsOK PROVE Capacity!Init => Measured
BY DEF Capacity!Init, Capacity!ConstantsOK, Measured, Capacity!DrainsInTime

LEMMA MeasuredStep ==
    ASSUME Capacity!ConstantsOK, Measured, [Capacity!Next]_(Capacity!vars)
    PROVE  Measured' /\ Capacity!ScalesSafely
<1> USE DEF Measured
<1>0. MinInstances \in Nat /\ MaxInstances \in Nat /\ IdleTicks \in Nat
  BY DEF Capacity!ConstantsOK
<1>1. CASE UNCHANGED Capacity!vars
  BY <1>0, <1>1 DEF Capacity!vars, Capacity!DrainsInTime, Capacity!ScalesSafely
<1>2. CASE Capacity!GetResourceProfile
  <2>1. profile' = Capacity!ResourceProfile(machine)
        /\ UNCHANGED <<machine, capacityPolicy, quota, depth, capacitySeen, idle, instances, decision>>
    BY <1>2 DEF Capacity!GetResourceProfile
  <2>2. /\ profile'.cpu = Capacity!DetectCpu(machine).cpu
        /\ profile'.avail = Capacity!DetectRam(machine).avail
    BY <2>1 DEF Capacity!ResourceProfile
  <2>3. profile'.cpu \in Nat \ {0} /\ profile'.avail \in Nat
    BY <2>2, CoresAreFound, MemoryIsFound
  <2> QED  BY <1>0, <2>1, <2>3 DEF Capacity!DrainsInTime, Capacity!ScalesSafely
<1>3. CASE Capacity!MemoryChanges
  BY <1>0, <1>3 DEF Capacity!MemoryChanges, Capacity!DrainsInTime, Capacity!ScalesSafely
<1>4. CASE Capacity!PolicyChanges
  BY <1>0, <1>4 DEF Capacity!PolicyChanges, Capacity!DrainsInTime, Capacity!ScalesSafely
<1>5. CASE Capacity!QueueChanges
  BY <1>0, <1>5 DEF Capacity!QueueChanges, Capacity!DrainsInTime, Capacity!ScalesSafely, Capacity!ConstantsOK
<1>6. CASE Capacity!RedisChanges
  BY <1>0, <1>6 DEF Capacity!RedisChanges, Capacity!DrainsInTime, Capacity!ScalesSafely
<1>7. CASE Capacity!ScalerTick
  <2> DEFINE d == Capacity!ReadQueueDepth
             c == Capacity!ComputeDesiredCapacity(d, quota)
  <2>1. d \in Nat
    BY DEF Capacity!ReadQueueDepth
  <2>2. /\ decision' = c /\ instances' = c.desired
        /\ idle' = (IF d = 0 THEN Capacity!Min({idle + 1, IdleTicks}) ELSE 0)
        /\ UNCHANGED <<machine, capacityPolicy, profile, quota, depth, capacitySeen>>
    BY <1>7 DEF Capacity!ScalerTick
  <2> HIDE DEF d
  <2>3. /\ c.desired \in Nat /\ c.desired >= MinInstances
        /\ c.limited \/ c.raw > MaxInstances \/ c.eta =< Capacity!Sla
        /\ c.desired > instances =>
              /\ c.desired =< MaxInstances
              /\ Capacity!QuotaInstances(quota) = None \/ c.desired =< Capacity!QuotaInstances(quota)
        /\ c.desired < instances => idle = IdleTicks
    BY <2>1, DecisionIsSafe
  <2> HIDE DEF c
  <2>4. idle' \in 0..IdleTicks
    BY <1>0, <2>2, LeastOfTwo
  <2>5. Capacity!DrainsInTime'
    BY <2>2, <2>3 DEF Capacity!DrainsInTime
  <2>6. Capacity!ScalesSafely
    BY <2>2, <2>3 DEF Capacity!ScalesSafely
  <2> QED  BY <1>0, <2>2, <2>3, <2>4, <2>5, <2>6
<1> QED
  BY <1>1, <1>2, <1>3, <1>4, <1>5, <1>6, <1>7 DEF Capacity!Next

(* Pools fit the machine, and the scaler drains, grows and shrinks as it may: for any machines,     *)
(* quotas, bounds and lengths of queues, and whatever changes between two ticks.                 *)
LEMMA CapacityIsSafe ==
    ASSUME Capacity!ConstantsOK
    PROVE  /\ Capacity!Spec => [](Capacity!PoolsFit /\ Capacity!DrainsInTime)
           /\ Capacity!Spec => [][Capacity!ScalesSafely]_(Capacity!vars)
<1>1. Measured => Capacity!PoolsFit /\ Capacity!DrainsInTime
  BY MeasuredFits DEF Measured
<1> QED  BY <1>1, MeasuredInit, MeasuredStep, PTL DEF Capacity!Spec

-----------------------------------------------------------------------------
(* ParquetStream, whose proofs are in a module of their own: what it defines is the same there.    *)

StreamP == INSTANCE ParquetStream_proofs WITH
    Attempts <- StreamAttempts, Batches <- Versions, Columns <- Header, Exact <- ExactNames,
    Within <- NameParts, Tokens <- RoleTokens, source <- csvVersion, blob <- parquetBlob,
    staged <- stagedBlocks, at <- streamAt, of <- streamOf, batch <- streamBatch,
    open <- writerOpen, buf <- writerBuf, blocks <- writerBlocks, closed <- writerClosed,
    progress <- streamProgress, result <- streamResult, tangled <- streamTangled

LEMMA SameStreamMin == \A S : Stream!Min(S) = StreamP!Min(S)
BY DEF Stream!Min, StreamP!Min

LEMMA SameStreamSemantic == \A c : Stream!Semantic(c) = StreamP!Semantic(c)
BY DEF Stream!Semantic, StreamP!Semantic

LEMMA SameStreamProfile == \A n : Stream!_profile_from_batch(n) = StreamP!_profile_from_batch(n)
BY SameStreamSemantic
DEF Stream!_profile_from_batch, StreamP!_profile_from_batch

LEMMA SameStreamPick == \A p, t, e : Stream!_pick(p, t, e) = StreamP!_pick(p, t, e)
BY SameStreamMin
DEF Stream!_pick, StreamP!_pick

LEMMA SameStreamDictionary == \A p : Stream!detect_schema_dictionary(p) = StreamP!detect_schema_dictionary(p)
BY SameStreamPick
DEF Stream!detect_schema_dictionary, StreamP!detect_schema_dictionary

LEMMA SameStreamStarts == Stream!Init => StreamP!Init
BY DEF Stream!Init, StreamP!Init

LEMMA SameStreamBegin == ASSUME NEW a PROVE Stream!Begin(a) => StreamP!Begin(a)
BY DEF Stream!Begin, StreamP!Begin, Stream!Running, StreamP!Running, Stream!Lingers,
    StreamP!Lingers

LEMMA SameStreamWriteBatch == ASSUME NEW a PROVE Stream!WriteBatch(a) => StreamP!WriteBatch(a)
BY SameStreamMin
DEF Stream!WriteBatch, StreamP!WriteBatch, Stream!Write, StreamP!Write, Stream!Rows,
    StreamP!Rows, Stream!Put, StreamP!Put

LEMMA SameStreamWriteFooter == ASSUME NEW a PROVE Stream!WriteFooter(a) => StreamP!WriteFooter(a)
BY DEF Stream!WriteFooter, StreamP!WriteFooter, Stream!Write, StreamP!Write, Stream!Footer,
    StreamP!Footer, Stream!Put, StreamP!Put

LEMMA SameStreamFlush == ASSUME NEW a PROVE Stream!Flush(a) => StreamP!Flush(a)
BY DEF Stream!Flush, StreamP!Flush, Stream!Put, StreamP!Put

LEMMA SameStreamPublish == ASSUME NEW a PROVE Stream!Publish(a) => StreamP!Publish(a)
BY DEF Stream!Publish, StreamP!Publish, Stream!commit_block_list, StreamP!commit_block_list,
    Stream!HasBlock, StreamP!HasBlock

LEMMA SameStreamFail == ASSUME NEW a PROVE Stream!Fail(a) => StreamP!Fail(a)
BY DEF Stream!Fail, StreamP!Fail, Stream!Running, StreamP!Running, Stream!Footer, StreamP!Footer

LEMMA SameStreamCollect == ASSUME NEW a PROVE Stream!Collect(a) => StreamP!Collect(a)
BY DEF Stream!Collect, StreamP!Collect, Stream!Put, StreamP!Put, Stream!commit_block_list,
    StreamP!commit_block_list, Stream!HasBlock, StreamP!HasBlock

LEMMA SameStreamReturn == ASSUME NEW a PROVE Stream!Return(a) => StreamP!Return(a)
BY SameStreamProfile, SameStreamDictionary
DEF Stream!Return, StreamP!Return

LEMMA SameStreamDie == ASSUME NEW a PROVE Stream!Die(a) => StreamP!Die(a)
BY DEF Stream!Die, StreamP!Die, Stream!Running, StreamP!Running

LEMMA SameStreamSteps == [Stream!Next]_(Stream!vars) => [StreamP!Next]_(StreamP!vars)
BY SameStreamBegin, SameStreamWriteBatch, SameStreamWriteFooter, SameStreamFlush, SameStreamPublish,
   SameStreamFail, SameStreamCollect, SameStreamReturn, SameStreamDie
DEF Stream!Next, StreamP!Next, Stream!Upload, StreamP!Upload, Stream!vars, StreamP!vars,
    Stream!attemptVars, StreamP!attemptVars

LEMMA SameStreamPromises == StreamP!CopiesAreWhole => Stream!CopiesAreWhole
BY DEF Stream!CopiesAreWhole, StreamP!CopiesAreWhole, Stream!NothingHalfPublished,
    StreamP!NothingHalfPublished, Stream!PublishedBeforeReported,
    StreamP!PublishedBeforeReported, Stream!DictionaryIsOfTheFile, StreamP!DictionaryIsOfTheFile,
    Stream!Content, StreamP!Content, Stream!FlattenSeq, StreamP!FlattenSeq, Stream!Whole,
    StreamP!Whole, Stream!Rows, StreamP!Rows, Stream!Footer, StreamP!Footer
-----------------------------------------------------------------------------
(* What the composition promises of each of them, which the runs check on small instances.     *)

(* For any requests and conversations, in any order of their commits and summaries: a question     *)
(* that was stored is answered, or its failure is, unless its client left, and no conversation      *)
(* counts more tokens than its messages have (chat_message.py, chat_stream.py, context_service.py). *)
THEOREM ConversationsKept == ASSUME Talk!ConstantsOK PROVE Spec => []ConversationsAreKept
<1>1. Init => (focus = "conversation" => Talk!Init)
  BY DEF Init, Begins
<1>2. [Next]_vars => /\ (focus = "conversation") <=> (focus = "conversation")'
                     /\ focus = "conversation" => [Talk!Next]_(Talk!vars)
  BY DEF Next, Moves, vars, talkVars, Talk!vars
<1> QED
  BY <1>1, <1>2, TalkKept, PTL DEF Spec, Talk!Spec, ConversationsAreKept

(* A turn of the chat agent ends by its own budget before the graph's limit, passes no failed query *)
(* for an answer, and keeps rows and count of one query together unless two ran side by side:        *)
(* whatever the model plans and says (graph.py, graph_builder.py, tools/sql.py).                    *)
THEOREM TurnsWell == ASSUME Turn!ConstantsOK PROVE Spec => []TurnsEndWell
<1>1. Init => (focus = "turn" => Turn!Init)
  BY DEF Init, Begins
<1>2. [Next]_vars => /\ (focus = "turn") <=> (focus = "turn")'
                     /\ focus = "turn" => [Turn!Next]_(Turn!vars)
  BY DEF Next, Moves, vars, turnVars, Turn!vars
<1> QED
  BY <1>1, <1>2, TurnEnds, PTL DEF Spec, Turn!Spec, TurnsEndWell

(* An answer of the PDF agent is cached only if there was evidence, names the parts for which there *)
(* is none, quotes what it states, shows conflicts and says that something is absent only after a     *)
(* judgement: for any evidence and any replies (agent/graph.py, synthesis.py, negative_claim.py).   *)
THEOREM PdfAnswersHonest ==
    ASSUME Synthesis!ConstantsOK, Pdf!ConstantsOK PROVE Spec => []PdfAnswersAreHonest
<1>1. Init => (focus = "synthesis" => Synthesis!Init)
  BY DEF Init, Begins
<1>2. [Next]_vars => /\ (focus = "synthesis") <=> (focus = "synthesis")'
                     /\ focus = "synthesis" => [Synthesis!Next]_(Synthesis!vars)
  BY DEF Next, Moves, vars, synthesisVars, Synthesis!vars
<1>3. Init => (focus = "pdf" => Pdf!Init)
  BY DEF Init, Begins
<1>4. [Next]_vars => /\ (focus = "pdf") <=> (focus = "pdf")'
                     /\ focus = "pdf" => [Pdf!Next]_(Pdf!vars)
  BY DEF Next, Moves, vars, pdfVars, Pdf!vars
<1> QED
  BY <1>1, <1>2, AnswersHonest, <1>3, <1>4, PTL DEF Spec, Synthesis!Spec, Pdf!Spec, PdfAnswersAreHonest

(* The strong model is chosen past the cap of its budget at most once for each other question that    *)
(* tests the counter meanwhile, and no batch is sent more often than attempts are allowed            *)
(* (model_router.py, rate_limiter.py).                                                              *)
THEOREM ModelCallsBounded == ASSUME ModelCalls!ConstantsOK PROVE Spec => []ModelCallsAreBounded
<1>1. Init => (focus = "calls" => ModelCalls!Init)
  BY DEF Init, Begins
<1>2. [Next]_vars => /\ (focus = "calls") <=> (focus = "calls")'
                     /\ focus = "calls" => [ModelCalls!Next]_(ModelCalls!vars)
  BY DEF Next, Moves, vars, modelCallsVars, ModelCalls!vars
<1> QED
  BY <1>1, <1>2, CallsBounded, PTL DEF Spec, ModelCalls!Spec, ModelCallsAreBounded

(* However the requests of the onboarding overlap with each other, with changes of the container and   *)
(* with the deletion of folders and containers: an organisation in a state has had the writes of that  *)
(* step and of every step before it committed, and its domain folders lie in containers that are       *)
(* there. That the root folder or the container of a step is still there is not claimed: deletions     *)
(* leave the state as it is (api/v1/onboarding.py, folders.py, containers.py).                      *)
THEOREM StateIsTrue == Spec => []StateTellsWhatIsThere
<1>1. Init => (focus = "onboarding" => Onboard!Init)
  BY DEF Init, Begins
<1>2. [Next]_vars => /\ (focus = "onboarding") <=> (focus = "onboarding")'
                     /\ focus = "onboarding" => [Onboard!Next]_(Onboard!vars)
  BY DEF Next, Moves, vars, onboardVars, Onboard!vars
<1> QED
  BY <1>1, <1>2, OnboardingTells, PTL DEF Spec, Onboard!Spec, StateTellsWhatIsThere

(* Every owner can sign in and nobody sees a domain of an organisation that is gone, whatever        *)
(* grants, moves, requests and removals come between (users.py, organizations.py, access.py).       *)
THEOREM OwnersSignIn == ASSUME Users!ConstantsOK PROVE Spec => []OwnersCanSignIn
<1>1. Init => (focus = "users" => Users!Init)
  BY DEF Init, Begins
<1>2. [Next]_vars => /\ (focus = "users") <=> (focus = "users")'
                     /\ focus = "users" => [Users!Next]_(Users!vars)
  BY DEF Next, Moves, vars, usersVars, Users!vars
<1> QED
  BY <1>1, <1>2, UsersSignIn, PTL DEF Spec, Users!Spec, OwnersCanSignIn

(* Every widget on a board is named by the board's own history of prompts and the folder of a         *)
(* dashboard exists, whatever overlaps: generation, additions, copies and deletions                 *)
(* (services/dashboard, api/v1/dashboards.py).                                                      *)
THEOREM WidgetsKeepTheirPrompt == ASSUME Dash!ConstantsOK PROVE Spec => []WidgetsHaveTheirPrompt
<1>1. Init => (focus = "dashboards" => Dash!Init)
  BY DEF Init, Begins
<1>2. [Next]_vars => /\ (focus = "dashboards") <=> (focus = "dashboards")'
                     /\ focus = "dashboards" => [Dash!Next]_(Dash!vars)
  BY DEF Next, Moves, vars, dashVars, Dash!vars
<1> QED
  BY <1>1, <1>2, BoardsKeepPrompts, PTL DEF Spec, Dash!Spec, WidgetsHaveTheirPrompt

(* What runs after any number of repairs reads no file that the agent's query does not and has no    *)
(* new SELECT *; and when both are one SELECT, it computes as many aggregates and groups by what the  *)
(* query grouped by. Nothing more is claimed of queries with CTEs or subqueries (sql_repair.py,        *)
(* tools/sql.py).                                                                                *)
THEOREM RepairsKeepTheQuestion == ASSUME Sql!ConstantsOK PROVE Spec => []RepairKeepsTheQuestion
<1>1. Init => (focus = "sql" => Sql!Init)
  BY DEF Init, Begins
<1>2. [Next]_vars => /\ (focus = "sql") <=> (focus = "sql")'
                     /\ focus = "sql" => [Sql!Next]_(Sql!vars)
  BY DEF Next, Moves, vars, sqlVars, Sql!vars
<1> QED
  BY <1>1, <1>2, RepairsKeep, PTL DEF Spec, Sql!Spec, RepairKeepsTheQuestion

(* The pools that an ingestion process sets up fit the memory and the cores it measured, and what    *)
(* the scaler decides drains the queue in ten minutes, unless a setting, the quota or the most        *)
(* workers says otherwise (resource_profile.py, ingestion_policy.py, ingestion_autoscale.py).       *)
THEOREM PoolsAndWorkersFit == ASSUME Capacity!ConstantsOK PROVE Spec => []CapacityFits
<1>1. Init => (focus = "capacity" => Capacity!Init)
  BY DEF Init, Begins
<1>2. [Next]_vars => /\ (focus = "capacity") <=> (focus = "capacity")'
                     /\ focus = "capacity" => [Capacity!Next]_(Capacity!vars)
  BY DEF Next, Moves, vars, capacityVars, Capacity!vars
<1> QED
  BY <1>1, <1>2, CapacityIsSafe, PTL DEF Spec, Capacity!Spec, CapacityFits

(* A copy beside a CSV is whole, or the footer that a failure left, unless attempts met that can      *)
(* spoil each other; an attempt that comes to report finds every row it counts, and a dictionary        *)
(* has two columns of the file: for any number of attempts, versions, batches and columns, and blocks   *)
(* of any size (parquet_service.py).                                                               *)
THEOREM CopiesWhole == ASSUME Stream!ConstantsOK PROVE Spec => []CopiesAreWhole
<1>1. Init => (focus = "stream" => StreamP!Init)
  BY SameStreamStarts DEF Init, Begins
<1>2. [Next]_vars => /\ (focus = "stream") <=> (focus = "stream")'
                     /\ focus = "stream" => [StreamP!Next]_(StreamP!vars)
  <2>1. [Next]_vars => /\ (focus = "stream") <=> (focus = "stream")'
                       /\ focus = "stream" => [Stream!Next]_(Stream!vars)
    BY DEF Next, Moves, vars, streamVars, Stream!vars, Stream!attemptVars
  <2> QED
    BY <2>1, SameStreamSteps
<1>3. StreamP!Spec => []StreamP!CopiesAreWhole
  <2>1. StreamP!ConstantsOK
    BY DEF Stream!ConstantsOK, StreamP!ConstantsOK
  <2> QED
    BY <2>1, StreamP!ConversionsPublishWholeCopies
<1> QED
  BY <1>1, <1>2, <1>3, SameStreamPromises, PTL DEF Spec, CopiesAreWhole, StreamP!Spec

(* A call gives up on the pool of models, with attempts and time left, only when every lane cools,    *)
(* and only lanes that failed cool; workers come only within the operator's bounds and the quota       *)
(* and go only after enough empty ticks (model_pool.py, openai_client.py, ingestion_autoscale.py).  *)
THEOREM ResourcesUsedWell ==
    ASSUME Pool!ConstantsOK, Capacity!ConstantsOK PROVE Spec => ResourcesAreUsedWell
<1> DEFINE Ready == (focus = "pool" => Cooled) /\ (focus = "capacity" => Measured)
           Rightly == /\ focus = "pool" => Pool!GivesUpRightly /\ Pool!OnlyFailedLanesCool
                      /\ focus = "capacity" => Capacity!ScalesSafely
<1>1. Init => Ready
  BY CooledInit, MeasuredInit DEF Init, Begins
<1>2. ASSUME Ready, [Next]_vars PROVE Ready' /\ Rightly
  <2>1. /\ focus' = focus
        /\ focus = "pool" => [Pool!Next]_(Pool!vars)
        /\ focus = "capacity" => [Capacity!Next]_(Capacity!vars)
    BY <1>2 DEF Next, Moves, vars, poolVars, Pool!vars, capacityVars, Capacity!vars
  <2>2. focus = "pool" => Cooled' /\ Pool!GivesUpRightly /\ Pool!OnlyFailedLanesCool
    BY <1>2, <2>1, CooledStep, PoolGivesUpRightly DEF Cooled
  <2>3. focus = "capacity" => Measured' /\ Capacity!ScalesSafely
    BY <1>2, <2>1, MeasuredStep
  <2> QED  BY <2>1, <2>2, <2>3
<1> HIDE DEF Ready
<1> QED
  BY <1>1, <1>2, PTL DEF Spec, ResourcesAreUsedWell
===============================================================================
