------------------------------ MODULE ChatClient ------------------------------
(***************************************************************************)
(* The chat page of the client (_hooks/useChat.ts): one thread is shown,      *)
(* while the stream of an answer, loads of conversations and deletions that    *)
(* were begun under another thread are still under way.  React state and the   *)
(* ref that mirrors it change in one step; a closure keeps the state it was     *)
(* made with.  Only one question is asked at a time (isLoading).              *)
(***************************************************************************)
EXTENDS Naturals, FiniteSets

CONSTANTS
    Stored,      \* conversations that exist, numbers
    Created,     \* ids the server gives to new ones, used in order
    Questions,   \* 1..n, used in order
    MaxOpens,    \* bound on the conversations opened
    None

VARIABLES
    active,   \* activeConvId: None for a new chat
    thread,   \* messages: [by, of, kind]; by a question's number or 0 for a load, of its conversation
    asked,    \* questions so far
    stream,   \* [at, sent, owner, conv, shown], of the question under way; at "idle" without
    loads,    \* conversations whose messages are requested
    deletes,  \* deletions requested: [conv, seen], seen the activeConvId of the closure
    sidebar,  \* conversations listed
    existing, \* conversations of the server
    opens,    \* conversations opened so far
    astray    \* history: what no guard covers has happened, see ThreadIsOfActive

vars == <<active, thread, asked, stream, loads, deletes, sidebar, existing, opens, astray>>

(* An id is that of a conversation.                                             *)
ConstantsOK == None \notin Stored \cup Created

Idle == [at |-> "idle", sent |-> None, owner |-> None, conv |-> None, shown |-> FALSE]

Init ==
    /\ active = None /\ thread = {} /\ asked = 0 /\ stream = Idle
    /\ loads = {} /\ deletes = {} /\ sidebar = Stored /\ existing = Stored
    /\ opens = 0 /\ astray = FALSE

(* A debounced search, or the refresh after a new conversation.                *)
FetchConversations ==
    /\ sidebar # existing
    /\ sidebar' = existing
    /\ UNCHANGED <<active, thread, asked, stream, loads, deletes, existing, opens, astray>>

LoadConversation(c) ==
    /\ c \in sidebar /\ opens < MaxOpens
    /\ opens' = opens + 1
    /\ active' = c /\ thread' = {} /\ loads' = loads \cup {c}
    /\ UNCHANGED <<asked, stream, deletes, sidebar, existing, astray>>

(* The answer replaces the thread, whatever is shown by now.                   *)
Loaded(c) ==
    /\ c \in loads
    /\ loads' = loads \ {c}
    /\ IF c \in existing
       THEN /\ thread' = {[by |-> 0, of |-> c, kind |-> "stored"]}
            /\ astray' = (astray \/ c # active)
       ELSE UNCHANGED <<thread, astray>>
    /\ UNCHANGED <<active, asked, stream, deletes, sidebar, existing, opens>>

(* The owner of a stream that has not started is None, like that of every new  *)
(* chat.                                                                     *)
Unadopted == stream.at # "idle" /\ stream.owner = None

StartNewChat ==
    /\ active # None \/ thread # {}
    /\ active' = None /\ thread' = {}
    /\ astray' = (astray \/ Unadopted)
    /\ UNCHANGED <<asked, stream, loads, deletes, sidebar, existing, opens>>

DeleteConversation(c) ==
    /\ c \in sidebar /\ deletes = {}
    /\ deletes' = {[conv |-> c, seen |-> active]}
    /\ UNCHANGED <<active, thread, asked, stream, loads, sidebar, existing, opens, astray>>

(* What was active at the click decides, not what is.                          *)
Deleted(d) ==
    /\ d \in deletes
    /\ deletes' = deletes \ {d}
    /\ sidebar' = sidebar \ {d.conv} /\ existing' = existing \ {d.conv}
    /\ IF d.seen = d.conv
       THEN /\ active' = None /\ thread' = {}
            /\ astray' = (astray \/ Unadopted)
       ELSE UNCHANGED <<active, thread, astray>>
    /\ UNCHANGED <<asked, stream, loads, opens>>

-----------------------------------------------------------------------------
IsStale_ByQuestion == active # stream.sent
IsStale == active # stream.owner

Message(kind) ==
    [by |-> asked, of |-> IF stream.conv = None THEN stream.sent ELSE stream.conv, kind |-> kind]

(* prev.map: the message of the stream, if the thread still has it.            *)
Replaced(kind) ==
    {IF m.by = asked /\ m.kind \in {"progress", "token"} THEN Message(kind) ELSE m : m \in thread}

HandleSubmit ==
    /\ stream.at = "idle"
    /\ asked + 1 \in Questions
    /\ asked' = asked + 1
    /\ stream' = [Idle EXCEPT !.at = "posted", !.sent = active, !.owner = active]
    /\ thread' = thread \cup {[by |-> asked + 1, of |-> active, kind |-> "question"]}
    /\ UNCHANGED <<active, loads, deletes, sidebar, existing, opens, astray>>

(* The server continues a full conversation in a new one.                      *)
Started ==
    /\ stream.at = "posted"
    /\ \E c \in (Created \ existing) \cup ({stream.sent} \ {None}) :
          /\ c \in Created => \A d \in Created : d < c => d \in existing
          /\ existing' = existing \cup {c}
          /\ IF IsStale
             THEN /\ stream' = [stream EXCEPT !.at = "streaming", !.conv = c]
                  /\ astray' = (astray \/ stream.sent \notin {c, None})
                  /\ UNCHANGED <<active, thread>>
             ELSE /\ stream' = [stream EXCEPT !.at = "streaming", !.conv = c, !.owner = c]
                  /\ active' = c
                  /\ thread' = {IF m.of = stream.owner THEN [m EXCEPT !.of = c] ELSE m : m \in thread}
                  /\ UNCHANGED astray
    /\ UNCHANGED <<asked, loads, deletes, sidebar, opens>>

(* pipeline_step, thinking and token make the message or rewrite it.           *)
Event(kind) ==
    /\ stream.at = "streaming"
    /\ ~IsStale
    /\ ~stream.shown \/ kind # "progress"
    /\ thread' = IF stream.shown THEN Replaced(kind) ELSE thread \cup {Message(kind)}
    /\ stream' = [stream EXCEPT !.shown = TRUE]
    /\ UNCHANGED <<active, asked, loads, deletes, sidebar, existing, opens, astray>>

Done(warning) ==
    /\ stream.at = "streaming"
    /\ stream' = [stream EXCEPT !.at = "done"]
    /\ thread' = IF IsStale THEN thread
                 ELSE (IF stream.shown THEN Replaced("answer") ELSE thread)
                      \cup {Message("warning") : w \in {x \in {1} : warning}}
    /\ UNCHANGED <<active, asked, loads, deletes, sidebar, existing, opens, astray>>

(* The count of a listed conversation is raised; one that is not is fetched.   *)
Ends ==
    /\ stream.at = "done"
    /\ stream' = Idle
    /\ UNCHANGED <<active, thread, asked, loads, deletes, sidebar, existing, opens, astray>>

(* The server refuses, the connection breaks or an error event arrives.        *)
Fails ==
    /\ stream.at \in {"posted", "streaming"}
    /\ stream' = Idle
    /\ thread' = IF IsStale THEN thread ELSE thread \cup {Message("error")}
    /\ UNCHANGED <<active, asked, loads, deletes, sidebar, existing, opens, astray>>

HandleStop ==
    /\ stream.at \in {"posted", "streaming"}
    /\ stream' = Idle
    /\ UNCHANGED <<active, thread, asked, loads, deletes, sidebar, existing, opens, astray>>

Next ==
    \/ FetchConversations \/ StartNewChat \/ HandleSubmit \/ Started \/ Ends \/ Fails \/ HandleStop
    \/ \E c \in Stored \cup Created : LoadConversation(c) \/ Loaded(c) \/ DeleteConversation(c)
    \/ \E d \in deletes : Deleted(d)
    \/ \E kind \in {"progress", "token"} : Event(kind)
    \/ \E warning \in BOOLEAN : Done(warning)

Spec == Init /\ [][Next]_vars
-----------------------------------------------------------------------------
(* useChat.ts:147-152 ("this stream can't leak into the now-active thread"):    *)
(* every message shown is of the conversation that is active, wherever the      *)
(* user goes while answers and loads are under way.  Three cases are left out,  *)
(* as the code does not hold back what they bring: a load that arrives after    *)
(* another thread was opened; a new chat opened while the first question of      *)
(* another new chat has not been adopted (both owners are null); and a question *)
(* that the server moves to a new conversation while the user looks elsewhere.  *)
ThreadIsOfActive ==
    astray \/ \A m \in thread : m.of = active
===============================================================================
