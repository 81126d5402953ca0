--------------------------- MODULE ChatConversation ---------------------------
(***************************************************************************)
(* Questions of one user in a conversation: the question is stored first, then *)
(* scoped, admitted and answered, by the plain endpoint or the streaming one;  *)
(* a full conversation is continued in a new one, a background task renews the  *)
(* summary, and the user may delete the conversation meanwhile.               *)
(*                                                                          *)
(* Source: server/app/api/v1/{chat_message,chat_stream,chat_common,           *)
(* conversations}.py, server/app/services/context_service.py.                 *)
(* Bounds: Convs bounds the continued conversations.                          *)
(***************************************************************************)
EXTENDS Naturals, FiniteSets

CONSTANTS
    Requests,
    Convs,            \* 1..n, used in order
    StartCount,       \* messages of the first conversation
    MaxMessages,      \* MAX_MESSAGES_PER_CONVERSATION
    RegenInterval,    \* SUMMARY_REGEN_INTERVAL
    RecentCount,      \* RECENT_MESSAGE_COUNT
    LlmSlots          \* places of _LLM_SEMAPHORE

VARIABLES
    messages,  \* by conversation: its messages, each of which weighs one token
    tokens,    \* token_count of its row
    covered,   \* messages its summary stands for, 0 without one
    archived,
    opened,    \* conversations that exist
    stream,    \* by request: the streaming endpoint
    at,        \* by request: where it is
    conv, counted, loaded,  \* by request: conversation, msg_count and token_count it read
    stored,    \* by request: "nothing", "question", "answer" or "error"
    told       \* by request: what the client was told, "nothing" so far

(* The limits of the settings; a conversation can be continued as often as Convs  *)
(* has numbers.                                                              *)
ConstantsOK ==
    /\ \E n \in Convs : Convs = 1..n
    /\ StartCount \in Nat /\ MaxMessages \in Nat /\ RecentCount \in Nat /\ LlmSlots \in Nat
    /\ RegenInterval \in Nat \ {0}

vars == <<messages, tokens, covered, archived, opened, stream, at, conv, counted, loaded,
          stored, told>>
rows == <<messages, tokens, covered, archived, opened>>
local == <<stream, conv, counted, loaded>>

First == 1

Init ==
    /\ messages = [c \in Convs |-> IF c = First THEN StartCount ELSE 0]
    /\ tokens = messages /\ covered = [c \in Convs |-> 0]
    /\ archived = {} /\ opened = {First}
    /\ stream \in [Requests -> BOOLEAN]
    /\ at = [r \in Requests |-> "new"]
    /\ conv = [r \in Requests |-> First]
    /\ counted = [r \in Requests |-> 0] /\ loaded = [r \in Requests |-> 0]
    /\ stored = [r \in Requests |-> "nothing"] /\ told = [r \in Requests |-> "nothing"]

Goes(r, place) == at' = [at EXCEPT ![r] = place]
Tells(r, what) == told' = [told EXCEPT ![r] = what] /\ Goes(r, "end")
Stores(r, what) == stored' = [stored EXCEPT ![r] = what]
Adds(c) == messages' = [messages EXCEPT ![c] = @ + 1]
-----------------------------------------------------------------------------
(* The conversation is loaded, its messages counted and its context built.    *)
Load(r) ==
    /\ at[r] = "new"
    /\ IF conv[r] \in archived
       THEN Tells(r, "gone") /\ UNCHANGED <<counted, loaded>>
       ELSE /\ Goes(r, "loaded") /\ UNCHANGED told
            /\ counted' = [counted EXCEPT ![r] = messages[conv[r]]]
            /\ loaded' = [loaded EXCEPT ![r] = tokens[conv[r]]]
    /\ UNCHANGED <<rows, stream, conv, stored>>

(* The question is committed with its tokens on top of those that were loaded.  *)
CommitQuestion(r) ==
    /\ at[r] = "loaded" /\ counted[r] < MaxMessages
    /\ Adds(conv[r])
    /\ loaded' = [loaded EXCEPT ![r] = @ + 1]
    /\ tokens' = [tokens EXCEPT ![conv[r]] = loaded'[r]]
    /\ Stores(r, "question") /\ Goes(r, "scope")
    /\ UNCHANGED <<covered, archived, opened, stream, conv, counted, told>>

(* A full conversation is archived; the new one begins with its summary, whose  *)
(* tokens its row does not count.                                            *)
ContinuedTokens_CarriedOver(r) == loaded[r] + 1
ContinuedTokens(r) == 1

CommitInContinuation(r) ==
    /\ at[r] = "loaded" /\ counted[r] >= MaxMessages
    /\ Cardinality(opened) < Cardinality(Convs)
    /\ LET c == Cardinality(opened) + 1 IN
       /\ opened' = opened \cup {c}
       /\ archived' = archived \cup {conv[r]}
       /\ covered' = [covered EXCEPT ![c] = covered[conv[r]]]
       /\ messages' = [messages EXCEPT ![c] = IF covered[conv[r]] > 0 THEN 2 ELSE 1]
       /\ tokens' = [tokens EXCEPT ![c] = ContinuedTokens(r)]
       /\ conv' = [conv EXCEPT ![r] = c]
       /\ loaded' = [loaded EXCEPT ![r] = ContinuedTokens(r)]
    /\ Stores(r, "question") /\ Goes(r, "scope")
    /\ UNCHANGED <<stream, counted, told>>

Running == {r \in Requests : at[r] = "streaming"}

(* Scope, folder and audit may fail the request.  A stream is turned away when   *)
(* every place is taken; it takes one only when its body is consumed.          *)
Admit(r) ==
    /\ at[r] = "scope"
    /\ \/ Tells(r, "refused")
       \/ stream[r] /\ Cardinality(Running) >= LlmSlots /\ Tells(r, "busy")
       \/ /\ stream[r] => Cardinality(Running) < LlmSlots
          /\ Goes(r, IF stream[r] THEN "queued" ELSE "answering")
          /\ UNCHANGED told
    /\ UNCHANGED <<rows, local, stored>>

TakesPlace(r) ==
    /\ at[r] = "queued" /\ Cardinality(Running) < LlmSlots
    /\ Goes(r, "streaming")
    /\ UNCHANGED <<rows, local, stored, told>>

Answered(r) ==
    /\ at[r] \in {"streaming", "answering"}
    /\ Goes(r, "save")
    /\ UNCHANGED <<rows, local, stored, told>>

(* The agent raises; the time for queue and answer together is up.            *)
Raises(r) ==
    /\ at[r] \in {"streaming", "answering", "queued"}
    /\ Goes(r, "error")
    /\ UNCHANGED <<rows, local, stored, told>>

(* The stream saves in a session of its own; the plain endpoint adds to the row  *)
(* it loaded at the start.                                                   *)
Save(r) ==
    /\ at[r] = "save"
    /\ \/ /\ Adds(conv[r]) /\ Stores(r, "answer")
          /\ tokens' = [tokens EXCEPT ![conv[r]] = (IF stream[r] THEN @ ELSE loaded[r]) + 1]
          /\ told' = [told EXCEPT ![r] = "answer"] /\ Goes(r, "background")
       \/ Goes(r, "error") /\ UNCHANGED <<messages, tokens, stored, told>>
    /\ UNCHANGED <<covered, archived, opened, local>>

(* The failure is stored, if that works, and told.                            *)
TellsFailure_IfStored(r, saved) == IF saved THEN Tells(r, "error") ELSE Goes(r, "end") /\ UNCHANGED told
TellsFailure(r, saved) == Tells(r, "error")

Fails(r) ==
    /\ at[r] = "error"
    /\ \E saved \in BOOLEAN :
          /\ IF saved THEN Adds(conv[r]) /\ Stores(r, "error") ELSE UNCHANGED <<messages, stored>>
          /\ TellsFailure(r, saved)
    /\ UNCHANGED <<tokens, covered, archived, opened, local>>

(* A client that leaves cancels its stream wherever it waits.                  *)
ClientLeaves(r) ==
    /\ stream[r] /\ at[r] \in {"queued", "streaming", "save", "error"}
    /\ Tells(r, "left")
    /\ UNCHANGED <<rows, local, stored>>
-----------------------------------------------------------------------------
(* bg_title_and_summary: at every tenth message the older ones are summed up;   *)
(* the row gets the tokens of the messages that were read before the model     *)
(* was asked.                                                                *)
Background(r) ==
    /\ at[r] = "background"
    /\ LET total == messages[conv[r]]
           due == total >= RegenInterval /\ total % RegenInterval = 0 /\ total > RecentCount
       IN  IF due THEN Goes(r, "summarising") /\ counted' = [counted EXCEPT ![r] = total]
           ELSE Goes(r, "end") /\ UNCHANGED counted
    /\ UNCHANGED <<rows, stream, conv, loaded, stored, told>>

Summarised(r) ==
    /\ at[r] = "summarising"
    /\ \/ /\ covered' = [covered EXCEPT ![conv[r]] = counted[r] - RecentCount]
          /\ tokens' = [tokens EXCEPT ![conv[r]] = counted[r]]
       \/ UNCHANGED <<covered, tokens>>
    /\ Goes(r, "end")
    /\ UNCHANGED <<messages, archived, opened, local, stored, told>>

(* The user deletes a conversation, whatever goes on in it.                   *)
Delete(c) ==
    /\ c \in opened /\ c \notin archived
    /\ archived' = archived \cup {c}
    /\ UNCHANGED <<messages, tokens, covered, opened, local, at, stored, told>>

Next ==
    \/ \E r \in Requests :
          \/ Load(r) \/ CommitQuestion(r) \/ CommitInContinuation(r) \/ Admit(r) \/ TakesPlace(r)
          \/ Answered(r) \/ Raises(r) \/ Save(r) \/ Fails(r) \/ ClientLeaves(r)
          \/ Background(r) \/ Summarised(r)
    \/ \E c \in Convs : Delete(c)

Spec == Init /\ [][Next]_vars
-----------------------------------------------------------------------------
(* A stored question has an answer or an error beside it, or its client was     *)
(* told that there is none: only a client that left finds it unanswered.       *)
NoQuestionIsDropped ==
    \A r \in Requests : at[r] = "end" /\ stored[r] # "nothing" => told[r] # "nothing"

(* However requests, their stale rows and the summary overwrite each other, the *)
(* token count of a conversation never exceeds the tokens of its messages.     *)
TokensAreMessages == \A c \in Convs : tokens[c] <= messages[c]

ConversationsAreKept == NoQuestionIsDropped /\ TokensAreMessages
===============================================================================
