----------------------------- MODULE Pages_proofs -----------------------------
(* Proofs about what users see: the pages of the chat, of the documents and of the uploads, what was   *)
(* learned of a tenant's documents, and which files a question is answered from.                   *)
EXTENDS Catalog_proofs, Lists

-----------------------------------------------------------------------------
(* ChatClient.                                                               *)

Conversations == Stored \cup Created
Thread == [by : ChatQuestions \cup {0}, of : {None} \cup Conversations,
           kind : {"stored", "question", "progress", "token", "answer", "warning", "error"}]
StreamState == [at : {"idle", "posted", "streaming", "done"}, sent : {None} \cup Conversations,
                owner : {None} \cup Conversations, conv : {None} \cup Conversations, shown : BOOLEAN]

PageTypes ==
    /\ active \in {None} \cup Conversations /\ chatAsked \in ChatQuestions \cup {0}
    /\ chatThread \in SUBSET Thread /\ chatStream \in StreamState
    /\ sidebar \in SUBSET Conversations /\ existing \in SUBSET Conversations /\ astray \in BOOLEAN

(* A stream is owned by the thread it was sent from, then by its conversation; one that was not     *)
(* adopted has another conversation in front of it.                                             *)
Owned ==
    /\ chatStream.at = "posted" => chatStream.owner = chatStream.sent /\ chatStream.conv = None
    /\ chatStream.at \in {"streaming", "done"} /\ ~astray =>
          /\ chatStream.conv # None
          /\ chatStream.owner = chatStream.conv \/ (chatStream.owner = None /\ active # None)

LEMMA PageTypesStep == ASSUME PageTypes, [Chat!Next]_(Chat!vars) PROVE PageTypes'
<1>0. /\ chatStream.at \in {"idle", "posted", "streaming", "done"} /\ chatStream.sent \in {None} \cup Conversations
      /\ chatStream.owner \in {None} \cup Conversations /\ chatStream.conv \in {None} \cup Conversations
      /\ Chat!Idle \in StreamState
  BY DEF PageTypes, StreamState, Chat!Idle
<1>1. ASSUME NEW kind \in {"stored", "question", "progress", "token", "answer", "warning", "error"}
      PROVE  /\ Chat!Message(kind) \in Thread
             /\ Chat!Replaced(kind) \in SUBSET Thread
  <2>1. Chat!Message(kind) \in Thread
    BY <1>0 DEF Chat!Message, Thread, PageTypes
  <2> QED
    BY <2>1 DEF Chat!Replaced, PageTypes
<1>2. CASE Chat!FetchConversations
  BY <1>2 DEF Chat!FetchConversations, PageTypes
<1>3. CASE Chat!StartNewChat
  BY <1>3 DEF Chat!StartNewChat, PageTypes, Chat!Unadopted
<1>4. CASE Chat!HandleSubmit
  <2>1. [by |-> chatAsked + 1, of |-> active, kind |-> "question"] \in Thread
    BY <1>4 DEF Chat!HandleSubmit, PageTypes, Thread
  <2>2. [Chat!Idle EXCEPT !.at = "posted", !.sent = active, !.owner = active] \in StreamState
    BY DEF StreamState, Chat!Idle, PageTypes
  <2> QED
    BY <1>4, <2>1, <2>2 DEF Chat!HandleSubmit, PageTypes
<1>5. CASE Chat!Started
  <2>1. PICK c \in (Created \ existing) \cup ({chatStream.sent} \ {None}) :
          /\ existing' = existing \cup {c}
          /\ \/ /\ chatStream' = [chatStream EXCEPT !.at = "streaming", !.conv = c]
                /\ astray' = (astray \/ chatStream.sent \notin {c, None})
                /\ UNCHANGED <<active, chatThread>>
             \/ /\ chatStream' = [chatStream EXCEPT !.at = "streaming", !.conv = c, !.owner = c]
                /\ active' = c
                /\ chatThread' = {IF m.of = chatStream.owner THEN [m EXCEPT !.of = c] ELSE m : m \in chatThread}
                /\ UNCHANGED astray
    BY <1>5 DEF Chat!Started
  <2>2. c \in Conversations
    BY <1>0, <2>1 DEF Conversations
  <2>3. /\ [chatStream EXCEPT !.at = "streaming", !.conv = c] \in StreamState
        /\ [chatStream EXCEPT !.at = "streaming", !.conv = c, !.owner = c] \in StreamState
    BY <2>2 DEF PageTypes, StreamState
  <2>4. \A m \in chatThread : [m EXCEPT !.of = c] \in Thread
    BY <2>2 DEF PageTypes, Thread
  <2>5. {IF m.of = chatStream.owner THEN [m EXCEPT !.of = c] ELSE m : m \in chatThread} \in SUBSET Thread
    BY <2>4 DEF PageTypes
  <2>6. chatStream' \in StreamState /\ chatThread' \in SUBSET Thread /\ active' \in {None} \cup Conversations
        /\ astray' \in BOOLEAN
    BY <2>1, <2>2, <2>3, <2>5 DEF PageTypes
  <2>7. chatAsked' = chatAsked /\ sidebar' = sidebar
    BY <1>5 DEF Chat!Started
  <2> QED
    BY <2>1, <2>2, <2>6, <2>7 DEF PageTypes
<1>6. CASE Chat!Ends
  BY <1>0, <1>6 DEF Chat!Ends, PageTypes
<1>7. CASE Chat!Fails
  BY <1>0, <1>1, <1>7 DEF Chat!Fails, PageTypes
<1>8. CASE Chat!HandleStop
  BY <1>0, <1>8 DEF Chat!HandleStop, PageTypes
<1>9. ASSUME NEW c \in Stored \cup Created, Chat!LoadConversation(c) \/ Chat!Loaded(c) \/ Chat!DeleteConversation(c)
      PROVE  PageTypes'
  <2>1. c \in Conversations
    BY DEF Conversations
  <2>2. [by |-> 0, of |-> c, kind |-> "stored"] \in Thread
    BY <2>1 DEF Thread
  <2> QED
    BY <1>9, <2>1, <2>2 DEF Chat!LoadConversation, Chat!Loaded, Chat!DeleteConversation, PageTypes
<1>10. ASSUME NEW d \in deletes, Chat!Deleted(d) PROVE PageTypes'
  BY <1>10 DEF Chat!Deleted, PageTypes, Chat!Unadopted
<1>11. ASSUME NEW kind \in {"progress", "token"}, Chat!Event(kind) PROVE PageTypes'
  <2>1. [chatStream EXCEPT !.shown = TRUE] \in StreamState
    BY DEF PageTypes, StreamState
  <2> QED
    BY <1>1, <1>11, <2>1 DEF Chat!Event, PageTypes
<1>12. ASSUME NEW warning \in BOOLEAN, Chat!Done(warning) PROVE PageTypes'
  <2>1. [chatStream EXCEPT !.at = "done"] \in StreamState
    BY DEF PageTypes, StreamState
  <2>2. chatThread' \in SUBSET Thread
    BY <1>1, <1>12 DEF Chat!Done, PageTypes
  <2> QED
    BY <1>12, <2>1, <2>2 DEF Chat!Done, PageTypes
<1>13. CASE UNCHANGED Chat!vars
  BY <1>13 DEF Chat!vars, PageTypes
<1> QED
  BY <1>2, <1>3, <1>4, <1>5, <1>6, <1>7, <1>8, <1>9, <1>10, <1>11, <1>12, <1>13 DEF Chat!Next

LEMMA ThreadStep ==
    ASSUME Chat!ConstantsOK, PageTypes, Owned, Chat!ThreadIsOfActive, [Chat!Next]_(Chat!vars) PROVE Owned' /\ Chat!ThreadIsOfActive'
<1>0. /\ chatStream.at \in {"idle", "posted", "streaming", "done"} /\ chatStream.sent \in {None} \cup Conversations
      /\ chatStream \in StreamState /\ chatThread \in SUBSET Thread /\ astray \in BOOLEAN /\ None \notin Conversations
      /\ Chat!Idle.at = "idle"
  BY DEF PageTypes, StreamState, Chat!Idle, Chat!ConstantsOK, Conversations
<1>1. ASSUME ~astray, ~Chat!IsStale, chatStream.at \in {"posted", "streaming", "done"}, NEW kind
      PROVE  /\ Chat!Message(kind).of = active
             /\ \A m \in Chat!Replaced(kind) : m.of = active
  <2>1. Chat!Message(kind).of = active
    BY <1>1 DEF Chat!Message, Owned, Chat!IsStale
  <2> QED
    BY <1>1, <2>1 DEF Chat!Replaced, Chat!ThreadIsOfActive
<1>2. CASE Chat!FetchConversations
  BY <1>2 DEF Chat!FetchConversations, Owned, Chat!ThreadIsOfActive
<1>3. CASE Chat!StartNewChat
  BY <1>0, <1>3 DEF Chat!StartNewChat, Owned, Chat!ThreadIsOfActive, Chat!Unadopted
<1>4. CASE Chat!HandleSubmit
  <2>1. /\ chatStream'.at = "posted" /\ chatStream'.owner = active /\ chatStream'.sent = active /\ chatStream'.conv = None
        /\ active' = active /\ astray' = astray
    BY <1>4 DEF Chat!HandleSubmit, Chat!Idle
  <2>2. chatThread' = chatThread \cup {[by |-> chatAsked + 1, of |-> active, kind |-> "question"]}
    BY <1>4 DEF Chat!HandleSubmit
  <2> QED
    BY <2>1, <2>2 DEF Owned, Chat!ThreadIsOfActive
<1>5. CASE Chat!Started
  <2>1. PICK c \in (Created \ existing) \cup ({chatStream.sent} \ {None}) :
          IF Chat!IsStale
          THEN /\ chatStream' = [chatStream EXCEPT !.at = "streaming", !.conv = c]
               /\ astray' = (astray \/ chatStream.sent \notin {c, None})
               /\ UNCHANGED <<active, chatThread>>
          ELSE /\ chatStream' = [chatStream EXCEPT !.at = "streaming", !.conv = c, !.owner = c]
               /\ active' = c
               /\ chatThread' = {IF m.of = chatStream.owner THEN [m EXCEPT !.of = c] ELSE m : m \in chatThread}
               /\ UNCHANGED astray
    BY <1>5 DEF Chat!Started
  <2>2. c \in Conversations /\ c # None
    BY <1>0, <2>1 DEF Conversations
  <2>3. chatStream.at = "posted" /\ chatStream.owner = chatStream.sent
    BY <1>5 DEF Chat!Started, Owned
  <2>4. CASE Chat!IsStale
    <3>1. chatStream'.at = "streaming" /\ chatStream'.conv = c /\ chatStream'.owner = chatStream.owner
      BY <1>0, <2>1, <2>4 DEF StreamState
    <3> QED
      BY <1>0, <2>1, <2>2, <2>3, <2>4, <3>1 DEF Owned, Chat!ThreadIsOfActive, Chat!IsStale
  <2>5. CASE ~Chat!IsStale
    <3>1. chatStream'.at = "streaming" /\ chatStream'.conv = c /\ chatStream'.owner = c
      BY <1>0, <2>1, <2>5 DEF StreamState
    <3>2. \A m \in chatThread : [m EXCEPT !.of = c].of = c
      <4>1. \A m \in Thread : [m EXCEPT !.of = c].of = c
        BY DEF Thread
      <4> QED
        BY <1>0, <4>1
    <3>3. ~astray => \A m \in chatThread : m.of = chatStream.owner
      BY <2>5 DEF Chat!ThreadIsOfActive, Chat!IsStale
    <3>4. ~astray => \A m \in chatThread' : m.of = c
      <4>1. chatThread' = {IF m.of = chatStream.owner THEN [m EXCEPT !.of = c] ELSE m : m \in chatThread}
        BY <2>1, <2>5
      <4> QED
        BY <3>2, <3>3, <4>1
    <3> QED
      BY <2>1, <2>2, <2>5, <3>1, <3>4 DEF Owned, Chat!ThreadIsOfActive
  <2> QED
    BY <2>4, <2>5
<1>6. CASE Chat!Ends
  BY <1>0, <1>6 DEF Chat!Ends, Owned, Chat!ThreadIsOfActive
<1>7. CASE Chat!Fails
  BY <1>0, <1>1, <1>7 DEF Chat!Fails, Owned, Chat!ThreadIsOfActive
<1>8. CASE Chat!HandleStop
  BY <1>0, <1>8 DEF Chat!HandleStop, Owned, Chat!ThreadIsOfActive
<1>9. ASSUME NEW c \in Stored \cup Created, Chat!LoadConversation(c) \/ Chat!Loaded(c) \/ Chat!DeleteConversation(c)
      PROVE  Owned' /\ Chat!ThreadIsOfActive'
  <2>1. c # None
    BY <1>0 DEF Conversations
  <2>2. CASE Chat!LoadConversation(c)
    BY <2>1, <2>2 DEF Chat!LoadConversation, Owned, Chat!ThreadIsOfActive
  <2>3. CASE Chat!Loaded(c)
    <3>1. active' = active /\ chatStream' = chatStream
      BY <2>3 DEF Chat!Loaded
    <3>2. CASE c \in existing
      <4>1. chatThread' = {[by |-> 0, of |-> c, kind |-> "stored"]} /\ astray' = (astray \/ c # active)
        BY <2>3, <3>2 DEF Chat!Loaded
      <4> QED
        <5>1. \A m \in chatThread' : m.of = c
          BY <4>1
        <5> QED
          BY <1>0, <3>1, <4>1, <5>1 DEF Owned, Chat!ThreadIsOfActive
    <3>3. CASE c \notin existing
      <4>1. UNCHANGED <<chatThread, astray>>
        BY <2>3, <3>3 DEF Chat!Loaded
      <4> QED
        BY <3>1, <4>1 DEF Owned, Chat!ThreadIsOfActive
    <3> QED
      BY <3>2, <3>3
  <2>4. CASE Chat!DeleteConversation(c)
    BY <2>4 DEF Chat!DeleteConversation, Owned, Chat!ThreadIsOfActive
  <2> QED
    BY <1>9, <2>2, <2>3, <2>4
<1>10. ASSUME NEW d \in deletes, Chat!Deleted(d) PROVE Owned' /\ Chat!ThreadIsOfActive'
  BY <1>0, <1>10 DEF Chat!Deleted, Owned, Chat!ThreadIsOfActive, Chat!Unadopted
<1>11. ASSUME NEW kind \in {"progress", "token"}, Chat!Event(kind) PROVE Owned' /\ Chat!ThreadIsOfActive'
  <2>1. /\ chatStream.at = "streaming" /\ ~Chat!IsStale /\ active' = active /\ astray' = astray
        /\ chatStream' = [chatStream EXCEPT !.shown = TRUE]
        /\ chatThread' = IF chatStream.shown THEN Chat!Replaced(kind) ELSE chatThread \cup {Chat!Message(kind)}
    BY <1>11 DEF Chat!Event
  <2>2. /\ chatStream'.at = chatStream.at /\ chatStream'.conv = chatStream.conv /\ chatStream'.owner = chatStream.owner
        /\ chatStream'.sent = chatStream.sent
    BY <1>0, <2>1 DEF StreamState
  <2> QED
    BY <1>1, <2>1, <2>2 DEF Owned, Chat!ThreadIsOfActive
<1>12. ASSUME NEW warning \in BOOLEAN, Chat!Done(warning) PROVE Owned' /\ Chat!ThreadIsOfActive'
  <2>1. /\ chatStream.at = "streaming" /\ active' = active /\ astray' = astray
        /\ chatStream' = [chatStream EXCEPT !.at = "done"]
        /\ chatThread' = IF Chat!IsStale THEN chatThread
                     ELSE (IF chatStream.shown THEN Chat!Replaced("answer") ELSE chatThread)
                          \cup {Chat!Message("warning") : w \in {x \in {1} : warning}}
    BY <1>12 DEF Chat!Done
  <2>2. chatStream'.at = "done" /\ chatStream'.conv = chatStream.conv /\ chatStream'.owner = chatStream.owner
    BY <1>0, <2>1 DEF StreamState
  <2>3. ~astray => \A m \in chatThread' : m.of = active
    BY <1>1, <2>1 DEF Chat!ThreadIsOfActive
  <2> QED
    BY <2>1, <2>2, <2>3 DEF Owned, Chat!ThreadIsOfActive
<1>13. CASE UNCHANGED Chat!vars
  BY <1>13 DEF Chat!vars, Owned, Chat!ThreadIsOfActive
<1> QED
  BY <1>2, <1>3, <1>4, <1>5, <1>6, <1>7, <1>8, <1>9, <1>10, <1>11, <1>12, <1>13 DEF Chat!Next

LEMMA ChatHolds == ASSUME Chat!ConstantsOK PROVE Chat!Spec => []Chat!ThreadIsOfActive
<1>1. Chat!Init => PageTypes /\ Owned /\ Chat!ThreadIsOfActive
  <2>1. Chat!Idle \in StreamState /\ Chat!Idle.at = "idle"
    BY DEF Chat!Idle, StreamState
  <2> QED
    BY <2>1 DEF Chat!Init, PageTypes, Owned, Chat!ThreadIsOfActive, Conversations
<1>2. PageTypes /\ Owned /\ Chat!ThreadIsOfActive /\ [Chat!Next]_(Chat!vars) => (PageTypes /\ Owned /\ Chat!ThreadIsOfActive)'
  BY PageTypesStep, ThreadStep
<1> QED
  BY <1>1, <1>2, PTL DEF Chat!Spec
-----------------------------------------------------------------------------
(* PdfClient.                                                                *)

Loops == {"unused", "posting", "sleeping", "fetching", "end"}
Statuses == {"uploading", "processing", "indexed", "partially_indexed", "failed"}

(* A loop that goes on has written nothing since its token was cancelled: what it writes then is    *)
(* its last.                                                                                     *)
Progress ==
    /\ pdfShown # None => pdfShown \in [of : PdfUploads, status : Statuses, done : BOOLEAN]
    /\ loop \in [PdfUploads -> Loops] /\ overwrote \in [PdfUploads -> 0..1]
    /\ \A u \in PdfUploads : /\ loop[u] = "unused" => u \notin pollsCancelled
                             /\ loop[u] # "end" => overwrote[u] = 0
    /\ pdfShown # None /\ ~pdfShown.done => pdfShown.of \in pollsCancelled \/ loop[pdfShown.of] # "end"

(* A step of one loop.                                                          *)
LEMMA LoopStep ==
    ASSUME Progress, NEW u \in PdfUploads, loop[u] # "end", NEW next \in Loops \ {"unused"},
           loop' = [loop EXCEPT ![u] = next],
           pollsCancelled \subseteq pollsCancelled', \A v \in pollsCancelled' \ pollsCancelled : v # u /\ loop[v] # "unused",
           \/ \E status \in Statuses, done \in BOOLEAN :
                 PdfPage!Shows(u, status, done) /\ (done \/ next # "end" \/ u \in pollsCancelled)
           \/ /\ pdfShown' = IF pdfShown = None THEN None ELSE [pdfShown EXCEPT !.done = TRUE]
              /\ overwrote' = [overwrote EXCEPT ![u] = IF u \in pollsCancelled THEN @ + 1 ELSE @]
           \/ UNCHANGED <<pdfShown, overwrote>> /\ (next # "end" \/ u \in pollsCancelled),
           u \in pollsCancelled => next = "end" \/ UNCHANGED overwrote
    PROVE  Progress'
<1>0. /\ loop \in [PdfUploads -> Loops] /\ overwrote \in [PdfUploads -> 0..1] /\ overwrote[u] = 0
      /\ pdfShown # None => pdfShown \in [of : PdfUploads, status : Statuses, done : BOOLEAN]
  BY DEF Progress
<1>1. loop' \in [PdfUploads -> Loops] /\ loop'[u] = next /\ \A v \in PdfUploads \ {u} : loop'[v] = loop[v]
  BY <1>0
<1>2. /\ overwrote' \in [PdfUploads -> 0..1] /\ \A v \in PdfUploads \ {u} : overwrote'[v] = overwrote[v]
      /\ next # "end" => overwrote'[u] = 0
  <2>1. overwrote' = overwrote \/ overwrote' = [overwrote EXCEPT ![u] = IF u \in pollsCancelled THEN @ + 1 ELSE @]
    BY DEF PdfPage!Shows
  <2> QED
    BY <1>0, <2>1
<1>3. \A v \in PdfUploads : loop'[v] = "unused" => v \notin pollsCancelled'
  BY <1>1 DEF Progress
<1>4. pdfShown' # None => pdfShown' \in [of : PdfUploads, status : Statuses, done : BOOLEAN]
  <2>1. \A status \in Statuses, done \in BOOLEAN :
          [of |-> u, status |-> status, done |-> done] \in [of : PdfUploads, status : Statuses, done : BOOLEAN]
    OBVIOUS
  <2>2. pdfShown # None => [pdfShown EXCEPT !.done = TRUE] \in [of : PdfUploads, status : Statuses, done : BOOLEAN]
    BY <1>0
  <2>3. \/ \E status \in Statuses, done \in BOOLEAN : pdfShown' = [of |-> u, status |-> status, done |-> done]
        \/ pdfShown' = IF pdfShown = None THEN None ELSE [pdfShown EXCEPT !.done = TRUE]
        \/ pdfShown' = pdfShown
    BY DEF PdfPage!Shows
  <2> QED
    <3>1. CASE pdfShown' = pdfShown
      BY <1>0, <3>1
    <3>2. CASE pdfShown' = IF pdfShown = None THEN None ELSE [pdfShown EXCEPT !.done = TRUE]
      BY <2>2, <3>2
    <3>3. ASSUME NEW status \in Statuses, NEW done \in BOOLEAN,
                 pdfShown' = [of |-> u, status |-> status, done |-> done]
          PROVE  pdfShown' \in [of : PdfUploads, status : Statuses, done : BOOLEAN]
      BY <2>1, <3>3
    <3> QED
      BY <2>3, <3>1, <3>2, <3>3
<1>5. pdfShown' # None /\ ~pdfShown'.done => pdfShown'.of \in pollsCancelled' \/ loop'[pdfShown'.of] # "end"
  <2>1. ASSUME NEW status \in Statuses, NEW done \in BOOLEAN, PdfPage!Shows(u, status, done),
               done \/ next # "end" \/ u \in pollsCancelled
        PROVE  ~pdfShown'.done => pdfShown'.of \in pollsCancelled' \/ loop'[pdfShown'.of] # "end"
    BY <1>1, <2>1 DEF PdfPage!Shows
  <2>2. ASSUME pdfShown' = IF pdfShown = None THEN None ELSE [pdfShown EXCEPT !.done = TRUE]
        PROVE  pdfShown' # None => pdfShown'.done
    BY <1>0, <2>2
  <2>3. ASSUME pdfShown' = pdfShown, next # "end" \/ u \in pollsCancelled
        PROVE  pdfShown' # None /\ ~pdfShown'.done => pdfShown'.of \in pollsCancelled' \/ loop'[pdfShown'.of] # "end"
    BY <1>0, <1>1, <2>3 DEF Progress
  <2> QED
    BY <2>1, <2>2, <2>3
<1> QED
  BY <1>1, <1>2, <1>3, <1>4, <1>5 DEF Progress

LEMMA ProgressStep == ASSUME Progress, [PdfPage!Next]_(PdfPage!vars) PROVE Progress'
<1>1. ASSUME NEW u \in PdfUploads, PdfPage!UploadPdf(u) PROVE Progress'
  <2>1. PdfPage!Shows(u, "uploading", FALSE)
    BY <1>1 DEF PdfPage!UploadPdf
  <2>2. u \notin pollsCancelled /\ "posting" \in Loops \ {"unused"} /\ loop[u] # "end"
    BY <1>1 DEF PdfPage!UploadPdf, Progress, Loops
  <2>3. loop' = [loop EXCEPT ![u] = "posting"]
    BY <1>1 DEF PdfPage!UploadPdf
  <2>4. pollsCancelled \subseteq pollsCancelled' /\ \A v \in pollsCancelled' \ pollsCancelled : v # u /\ loop[v] # "unused"
    BY <1>1 DEF PdfPage!UploadPdf
  <2> QED
    BY <2>1, <2>2, <2>3, <2>4, LoopStep DEF Statuses
<1>2. ASSUME NEW u \in PdfUploads, PdfPage!Posted(u) \/ PdfPage!PostFails(u) PROVE Progress'
  <2>1. /\ loop[u] # "end" /\ pollsCancelled' = pollsCancelled
        /\ \E status \in Statuses, done \in BOOLEAN, next \in Loops \ {"unused"} :
              /\ PdfPage!Shows(u, status, done) /\ (done \/ next # "end" \/ u \in pollsCancelled)
              /\ loop' = [loop EXCEPT ![u] = next] /\ (u \in pollsCancelled => next = "end")
    BY <1>2 DEF PdfPage!Posted, PdfPage!PostFails, PdfPage!Continues, PdfPage!Live, Statuses, Loops
  <2> QED
    BY <2>1, LoopStep
<1>3. ASSUME NEW u \in PdfUploads, PdfPage!Awakes(u) PROVE Progress'
  <2>1. /\ loop[u] # "end" /\ pollsCancelled' = pollsCancelled /\ UNCHANGED <<pdfShown, overwrote>>
        /\ \E next \in Loops \ {"unused"} :
              loop' = [loop EXCEPT ![u] = next] /\ (next # "end" \/ u \in pollsCancelled)
    <3>1. (IF PdfPage!Live(u) THEN "fetching" ELSE "end") \in Loops \ {"unused"}
      BY DEF Loops
    <3>2. (IF PdfPage!Live(u) THEN "fetching" ELSE "end") # "end" \/ u \in pollsCancelled
      BY DEF PdfPage!Live
    <3> QED
      BY <1>3, <3>1, <3>2 DEF PdfPage!Awakes
  <2> QED
    BY <2>1, LoopStep
<1>4. ASSUME NEW u \in PdfUploads, PdfPage!Polled(u) PROVE Progress'
  <2>1. /\ loop[u] # "end" /\ pollsCancelled' = pollsCancelled
        /\ \E status \in Statuses, done \in BOOLEAN, next \in Loops \ {"unused"} :
              /\ PdfPage!Shows(u, status, done) /\ (done \/ next # "end" \/ u \in pollsCancelled)
              /\ loop' = [loop EXCEPT ![u] = next] /\ (u \in pollsCancelled => next = "end")
    BY <1>4 DEF PdfPage!Polled, PdfPage!Continues, PdfPage!Live, Statuses, Loops, PdfPage!Terminal
  <2> QED
    BY <2>1, LoopStep
<1>5. ASSUME NEW u \in PdfUploads, PdfPage!PollFails(u) PROVE Progress'
  <2>1. loop[u] # "end" /\ pollsCancelled' = pollsCancelled
    BY <1>5 DEF PdfPage!PollFails
  <2>2. CASE polls'[u] = MaxPolls
    BY <1>5, <2>1, <2>2, LoopStep DEF PdfPage!PollFails, Loops
  <2>3. CASE polls'[u] # MaxPolls
    <3>1. /\ UNCHANGED <<pdfShown, overwrote>>
          /\ \E next \in Loops \ {"unused"} :
                loop' = [loop EXCEPT ![u] = next] /\ (next # "end" \/ u \in pollsCancelled)
      BY <1>5, <2>3 DEF PdfPage!PollFails, PdfPage!Continues, PdfPage!Live, Loops
    <3> QED
      BY <2>1, <3>1, LoopStep
  <2> QED
    BY <2>2, <2>3
<1>6. CASE PdfPage!ClearUpload
  BY <1>6 DEF PdfPage!ClearUpload, Progress
<1>7. ASSUME UNCHANGED PdfPage!uploadVars PROVE Progress'
  BY <1>7 DEF PdfPage!uploadVars, Progress
<1>8. ASSUME NEW m, PdfPage!HandleModeChange(m) PROVE Progress'
  BY <1>7, <1>8 DEF PdfPage!HandleModeChange
<1>9. ASSUME NEW d, PdfPage!ToggleDocument(d) PROVE Progress'
  BY <1>7, <1>9 DEF PdfPage!ToggleDocument
<1>10. ASSUME NEW q, PdfPage!Send(q) PROVE Progress'
  BY <1>7, <1>10 DEF PdfPage!Send
<1>11. ASSUME NEW result, PdfPage!Lands(result) PROVE Progress'
  BY <1>7, <1>11 DEF PdfPage!Lands
<1>12. CASE PdfPage!LoadDocuments \/ PdfPage!DocumentsLoaded \/ PdfPage!SelectAllDocuments \/ PdfPage!HandleStop
  BY <1>7, <1>12 DEF PdfPage!LoadDocuments, PdfPage!DocumentsLoaded, PdfPage!SelectAllDocuments, PdfPage!HandleStop
<1>13. CASE UNCHANGED PdfPage!vars
  BY <1>7, <1>13 DEF PdfPage!vars, PdfPage!uploadVars
<1> QED
  BY <1>1, <1>2, <1>3, <1>4, <1>5, <1>6, <1>8, <1>9, <1>10, <1>11, <1>12, <1>13 DEF PdfPage!Next

LEMMA QuestionsStep == ASSUME PdfPage!ConstantsOK, PdfPage!QuestionsEnd, [PdfPage!Next]_(PdfPage!vars) PROVE PdfPage!QuestionsEnd'
<1>1. ASSUME NEW q \in PdfQuestions, PdfPage!Send(q) PROVE PdfPage!QuestionsEnd'
  <2>1. /\ asking = None /\ asking' = [of |-> q, mode |-> pageMode] /\ pdfThread' = pdfThread \cup {<<q, "asked">>}
        /\ silenced' = silenced
    BY <1>1 DEF PdfPage!Send
  <2>2. ASSUME NEW t \in pdfThread
        PROVE  t[1] \in silenced \/ \E s \in pdfThread : s[1] = t[1] /\ s[2] # "asked"
    BY <2>1 DEF PdfPage!QuestionsEnd
  <2>3. asking' # None /\ asking'.of = q
    <3>1. pageMode = "pdf"
      BY <1>1 DEF PdfPage!Send
    <3> QED
      BY <2>1, <3>1 DEF PdfPage!ConstantsOK
  <2>4. ASSUME NEW t \in pdfThread'
        PROVE  t[1] = q \/ t[1] \in silenced' \/ \E s \in pdfThread' : s[1] = t[1] /\ s[2] # "asked"
    BY <2>1, <2>2
  <2> QED
    BY <2>3, <2>4 DEF PdfPage!QuestionsEnd
<1>2. ASSUME NEW result \in {"answered", "error"}, PdfPage!Lands(result) PROVE PdfPage!QuestionsEnd'
  <2>1. asking # None /\ asking' = None
    BY <1>2 DEF PdfPage!Lands
  <2>2. CASE PdfPage!IsStale
    BY <1>2, <2>1, <2>2 DEF PdfPage!Lands, PdfPage!QuestionsEnd
  <2>3. CASE ~PdfPage!IsStale
    <3>1. pdfThread' = pdfThread \cup {<<asking.of, result>>} /\ silenced' = silenced
      BY <1>2, <2>3 DEF PdfPage!Lands
    <3>2. <<asking.of, result>>[1] = asking.of /\ <<asking.of, result>>[2] # "asked"
      OBVIOUS
    <3> QED
      BY <2>1, <3>1, <3>2 DEF PdfPage!QuestionsEnd
  <2> QED
    BY <2>2, <2>3
<1>3. CASE PdfPage!HandleStop
  BY <1>3 DEF PdfPage!HandleStop, PdfPage!QuestionsEnd
<1>4. ASSUME UNCHANGED PdfPage!chatVars PROVE PdfPage!QuestionsEnd'
  BY <1>4 DEF PdfPage!chatVars, PdfPage!QuestionsEnd
<1>5. ASSUME NEW u, PdfPage!UploadPdf(u) \/ PdfPage!Posted(u) \/ PdfPage!PostFails(u) \/ PdfPage!Awakes(u) \/ PdfPage!Polled(u) \/ PdfPage!PollFails(u)
      PROVE  PdfPage!QuestionsEnd'
  BY <1>4, <1>5 DEF PdfPage!UploadPdf, PdfPage!Posted, PdfPage!PostFails, PdfPage!Awakes, PdfPage!Polled, PdfPage!PollFails
<1>6. ASSUME NEW m, PdfPage!HandleModeChange(m) PROVE PdfPage!QuestionsEnd'
  BY <1>4, <1>6 DEF PdfPage!HandleModeChange
<1>7. ASSUME NEW d, PdfPage!ToggleDocument(d) PROVE PdfPage!QuestionsEnd'
  BY <1>4, <1>7 DEF PdfPage!ToggleDocument
<1>8. CASE PdfPage!LoadDocuments \/ PdfPage!DocumentsLoaded \/ PdfPage!SelectAllDocuments \/ PdfPage!ClearUpload
  BY <1>4, <1>8 DEF PdfPage!LoadDocuments, PdfPage!DocumentsLoaded, PdfPage!SelectAllDocuments, PdfPage!ClearUpload
<1>9. CASE UNCHANGED PdfPage!vars
  BY <1>4, <1>9 DEF PdfPage!vars, PdfPage!chatVars
<1> QED
  BY <1>1, <1>2, <1>3, <1>5, <1>6, <1>7, <1>8, <1>9 DEF PdfPage!Next

LEMMA PageHolds == ASSUME PdfPage!ConstantsOK PROVE PdfPage!Spec => [](PdfPage!ProgressHasItsLoop /\ PdfPage!QuestionsEnd)
<1>1. PdfPage!Init => Progress /\ PdfPage!QuestionsEnd
  BY DEF PdfPage!Init, Progress, PdfPage!QuestionsEnd, Loops
<1>2. Progress /\ PdfPage!QuestionsEnd /\ [PdfPage!Next]_(PdfPage!vars) => (Progress /\ PdfPage!QuestionsEnd)'
  BY ProgressStep, QuestionsStep
<1>3. Progress => PdfPage!ProgressHasItsLoop
  BY DEF Progress, PdfPage!ProgressHasItsLoop
<1> QED
  BY <1>1, <1>2, <1>3, PTL DEF PdfPage!Spec
-----------------------------------------------------------------------------
(* FileUploads.                                                              *)

(* What a client is told, the server has done.                                     *)
TellsTrue ==
    /\ DOMAIN uploadAt = Loading!Files /\ DOMAIN confirmAt = Loading!Files
    /\ \A f \in Loading!Files : /\ confirmAt[f] = "published" => f \in ingestStarted
                                /\ uploadAt[f] = "done" => f \in ingestStarted

LEMMA ToldStep == ASSUME TellsTrue, [Loading!Next]_(Loading!vars) PROVE TellsTrue'
<1>1. ASSUME ingestStarted \subseteq ingestStarted', UNCHANGED <<uploadAt, confirmAt>> PROVE TellsTrue'
  BY <1>1 DEF TellsTrue
<1>2. ASSUME NEW f \in Loading!Files, NEW phase, Loading!Goes(f, phase), phase # "done" \/ f \in ingestStarted,
             UNCHANGED <<confirmAt, ingestStarted>>
      PROVE  TellsTrue'
  BY <1>2 DEF TellsTrue, Loading!Goes
<1>3. ASSUME NEW f \in Loading!Files, NEW phase, confirmAt' = [confirmAt EXCEPT ![f] = phase], UNCHANGED uploadAt,
             phase = "published" => f \in ingestStarted', ingestStarted \subseteq ingestStarted'
      PROVE  TellsTrue'
  BY <1>3 DEF TellsTrue
<1>4. CASE Loading!HandleUpload
  BY <1>4 DEF Loading!HandleUpload, TellsTrue, Loading!serverVars
<1>5. CASE Loading!CancelAll
  BY <1>1, <1>5 DEF Loading!CancelAll, Loading!serverVars
<1>6. ASSUME NEW b \in DOMAIN UploadBatches, Loading!Finish(b) \/ Loading!ClearPanel(b) PROVE TellsTrue'
  BY <1>1, <1>6 DEF Loading!Finish, Loading!ClearPanel, Loading!serverVars
<1>7. ASSUME NEW f \in Loading!Files, Loading!StartOne(f) PROVE TellsTrue'
  <2>1. CASE f \in uploadsCancelled
    BY <1>2, <1>7, <2>1 DEF Loading!StartOne, Loading!serverVars
  <2>2. CASE f \notin uploadsCancelled
    BY <1>7, <2>2 DEF Loading!StartOne, Loading!serverVars, TellsTrue
  <2> QED
    BY <2>1, <2>2
<1>8. ASSUME NEW f \in Loading!Files, Loading!GotUrl(f) \/ Loading!Aborted(f) \/ Loading!Breaks(f) PROVE TellsTrue'
  BY <1>2, <1>8 DEF Loading!GotUrl, Loading!Aborted, Loading!Breaks, Loading!serverVars
<1>9. ASSUME NEW f \in Loading!Files, Loading!Uploaded(f) PROVE TellsTrue'
  BY <1>9 DEF Loading!Uploaded, Loading!Goes, TellsTrue
<1>10. ASSUME NEW f \in Loading!Files, Loading!Confirmed(f) PROVE TellsTrue'
  <2>1. Loading!Told(f) # "done" \/ f \in ingestStarted
    BY <1>10 DEF Loading!Confirmed, Loading!Told, TellsTrue
  <2> QED
    BY <1>2, <1>10, <2>1 DEF Loading!Confirmed, Loading!serverVars
<1>11. ASSUME NEW f \in Loading!Files, Loading!Cancel(f) PROVE TellsTrue'
  BY <1>1, <1>11 DEF Loading!Cancel, Loading!serverVars
<1>12. ASSUME NEW f \in Loading!Files, Loading!Resolve(f) PROVE TellsTrue'
  BY <1>3, <1>12 DEF Loading!Resolve, Loading!clientVars
<1>13. ASSUME NEW f \in Loading!Files, Loading!Commit(f) PROVE TellsTrue'
  BY <1>3, <1>13 DEF Loading!Commit, Loading!clientVars
<1>14. ASSUME NEW f \in Loading!Files, Loading!Publish(f) PROVE TellsTrue'
  BY <1>3, <1>14 DEF Loading!Publish, Loading!clientVars
<1>15. ASSUME NEW s \in Syncs, Loading!SyncLists(s) \/ Loading!SyncReads(s) \/ Loading!SyncCommits(s) PROVE TellsTrue'
  BY <1>1, <1>15 DEF Loading!SyncLists, Loading!SyncReads, Loading!SyncCommits, Loading!clientVars, Loading!serverVars
<1>16. ASSUME NEW r \in uploadRows, Loading!DeleteFile(r) \/ \E d \in uploadFolders \cup {RootFolder} : Loading!MoveFile(r, d) PROVE TellsTrue'
  BY <1>1, <1>16 DEF Loading!DeleteFile, Loading!MoveFile, Loading!clientVars
<1>17. ASSUME NEW d \in uploadFolders, Loading!DeleteFolder(d) PROVE TellsTrue'
  BY <1>1, <1>17 DEF Loading!DeleteFolder, Loading!clientVars
<1>18. CASE UNCHANGED Loading!vars
  BY <1>1, <1>18 DEF Loading!vars, Loading!clientVars, Loading!serverVars
<1> QED
  BY <1>4, <1>5, <1>6, <1>7, <1>8, <1>9, <1>10, <1>11, <1>12, <1>13, <1>14, <1>15, <1>16, <1>17, <1>18 DEF Loading!Next

LEMMA UploadsHold == Loading!Spec => []Loading!DoneIsStarted
<1>1. Loading!Init => TellsTrue
  BY DEF Loading!Init, TellsTrue
<1>2. TellsTrue /\ [Loading!Next]_(Loading!vars) => TellsTrue'
  BY ToldStep
<1>3. TellsTrue => Loading!DoneIsStarted
  BY DEF TellsTrue, Loading!DoneIsStarted
<1> QED
  BY <1>1, <1>2, <1>3, PTL DEF Loading!Spec
-----------------------------------------------------------------------------
(* Comprehension.                                                            *)

LEMMA LearnedSets == \A S : (Learned!IsFiniteSet(S) <=> IsFiniteSet(S)) /\ Learned!Cardinality(S) = Cardinality(S)
BY Zenon DEF Learned!IsFiniteSet, IsFiniteSet, Learned!Cardinality, Cardinality

(* A bounded set of numbers, and so a finite one, has a greatest.                             *)
LEMMA GreatestBounded ==
    ASSUME NEW S \in SUBSET Nat, S # {}, NEW b \in Nat, \A m \in S : m <= b PROVE \E n \in S : \A m \in S : m <= n
<1> DEFINE T == {b - m : m \in S}
<1>1. T \in SUBSET Nat /\ T # {}
  <2>1. \A m \in S : b - m \in Nat
    OBVIOUS
  <2> QED
    BY <2>1
<1>2. PICK t \in T : \A u \in T : t <= u
  BY <1>1, LeastNumber
<1>3. PICK n \in S : t = b - n
  BY <1>2
<1>4. ASSUME NEW m \in S PROVE m <= n
  <2>1. b - m \in T
    OBVIOUS
  <2> HIDE DEF T
  <2> QED
    BY <1>2, <1>3, <2>1
<1> QED
  BY <1>4

Sized(n) == \E S \in SUBSET Nat : IsFiniteSet(S) /\ Cardinality(S) = n /\ S # {} /\ ~\E b \in S : \A m \in S : m <= b

LEMMA GreatestFinite ==
    ASSUME NEW S \in SUBSET Nat, IsFiniteSet(S), S # {} PROVE \E n \in S : \A m \in S : m <= n
<1> DEFINE Bad == {n \in Nat : Sized(n)}
<1>1. SUFFICES ASSUME ~\E n \in S : \A m \in S : m <= n PROVE FALSE
  OBVIOUS
<1>2. Cardinality(S) \in Bad
  BY <1>1, FS_CardinalityType DEF Sized
<1>3. PICK n \in Bad : \A m \in Bad : n <= m
  <2> HIDE DEF Bad
  <2>1. Bad \in SUBSET Nat /\ Bad # {}
    BY <1>2 DEF Bad
  <2> QED
    BY <2>1, LeastNumber
<1>4. PICK U \in SUBSET Nat : IsFiniteSet(U) /\ Cardinality(U) = n /\ U # {} /\ ~\E b \in U : \A m \in U : m <= b
  BY <1>3 DEF Sized
<1>5. PICK x \in U : TRUE
  BY <1>4
<1>6. IsFiniteSet(U \ {x}) /\ Cardinality(U \ {x}) = n - 1 /\ n - 1 \in Nat /\ n \in Nat
  <2>1. IsFiniteSet(U \ {x}) /\ Cardinality(U \ {x}) = n - 1
    BY <1>4, <1>5, FS_RemoveElement
  <2> QED
    BY <1>3, <2>1, FS_CardinalityType
<1>7. U \ {x} # {}
  BY <1>4, <1>5
<1>8. \E b \in U \ {x} : \A m \in U \ {x} : m <= b
  <2>1. n - 1 \notin Bad
    BY <1>3, <1>6
  <2> QED
    BY <1>4, <1>6, <1>7, <2>1 DEF Sized
<1>9. PICK b \in U \ {x} : \A m \in U \ {x} : m <= b
  BY <1>8
<1>10. CASE x <= b
  BY <1>4, <1>9, <1>10
<1>11. CASE b <= x
  <2>1. \A m \in U : m <= x
    BY <1>4, <1>9, <1>11
  <2> QED
    BY <1>4, <1>5, <2>1
<1> QED
  BY <1>4, <1>5, <1>9, <1>10, <1>11
-----------------------------------------------------------------------------
(* Comprehension.                                                            *)

(* What makes an entry one.                                                   *)
WellFounded(e) ==
    /\ e.spans # {} /\ e.provenance \in {"stated", "conflicting", "inferred"} /\ MinConfidence <= e.confidence
    /\ e.provenance \in {"stated", "conflicting"} =>
          /\ \A s \in e.spans : \E d \in LearnedChunks[s.chunk].defines : d.term = e.term
          /\ e.expansion \in {s.expansion : s \in e.spans}
    /\ e.provenance = "conflicting" => Cardinality(e.variants) > 1 /\ e.variants = {s.expansion : s \in e.spans} \ {None}
    /\ e.provenance = "inferred" => \A s \in e.spans : e.term \in Learned!ToSet(LearnedChunks[s.chunk].tokens)

(* The entries of one version.                                                *)
Mined(E, v) ==
    /\ \A e \in E : e.version = v /\ WellFounded(e)
    /\ \A e, f \in E : e.term = f.term => e = f

Sound(e, v, t) == e.version = v /\ e.term = t /\ WellFounded(e)

LEMMA ProposalsSay ==
    ASSUME NEW S \in SUBSET DOMAIN LearnedChunks, NEW p \in Learned!ProposeExplicit(S)
    PROVE  p.chunk \in S /\ \E d \in LearnedChunks[p.chunk].defines : d.term = p.term
BY DEF Learned!ProposeExplicit

LEMMA ProposalsAreFinite ==
    ASSUME Learned!ConstantsOK, NEW S \in SUBSET DOMAIN LearnedChunks PROVE IsFiniteSet(Learned!ProposeExplicit(S))
<1> DEFINE all == {LearnedChunks[c].defines : c \in S}
           made == {x \in S \X UNION all : x[2] \in LearnedChunks[x[1]].defines}
           of == [x \in made |-> [chunk |-> x[1], term |-> x[2].term, long |-> x[2].long,
                                 expansion |-> Learned!Align(x[2].long, x[2].term), form |-> x[2].form]]
           def == [c \in S |-> LearnedChunks[c].defines]
<1>1. IsFiniteSet(S)
  <2>1. IsFiniteSet(DOMAIN LearnedChunks)
    BY LearnedSets DEF Learned!ConstantsOK
  <2> QED
    BY <2>1, FS_Subset
<1>2. IsFiniteSet(all)
  <2>1. def \in Surjection(S, all)
    BY DEF Surjection
  <2> QED
    BY <1>1, <2>1, FS_Surjection
<1>3. IsFiniteSet(UNION all)
  <2>1. \A T \in all : IsFiniteSet(T)
    BY LearnedSets DEF Learned!ConstantsOK
  <2> HIDE DEF all
  <2> QED
    BY <1>2, <2>1, FS_UNION
<1>4. IsFiniteSet(made)
  <2>1. IsFiniteSet(S \X UNION all)
    BY <1>1, <1>3, FS_Product
  <2>2. made \in SUBSET (S \X UNION all)
    OBVIOUS
  <2> HIDE DEF made, all
  <2> QED
    BY <2>1, <2>2, FS_Subset
<1>5. Learned!ProposeExplicit(S) = {of[x] : x \in made}
  BY DEF Learned!ProposeExplicit
<1>6. of \in Surjection(made, Learned!ProposeExplicit(S))
  BY <1>5 DEF Surjection
<1> HIDE DEF made, of
<1> QED
  BY <1>4, <1>6, FS_Surjection

(* Confirmed definitions: finitely many, of chunks that define the term.        *)
Definitions(cands, S) == IsFiniteSet(cands) /\ \A p \in cands :
    p.chunk \in S /\ \E d \in LearnedChunks[p.chunk].defines : d.term = p.term

LEMMA ConfirmedAreDefinitions ==
    ASSUME Learned!ConstantsOK, NEW S \in SUBSET DOMAIN LearnedChunks, NEW ruling, NEW P \in SUBSET Learned!ProposeExplicit(S),
           NEW cands \in SUBSET {Learned!Confirmed(p, ruling[p]) : p \in P}
    PROVE  Definitions(cands, S)
<1> DEFINE all == {Learned!Confirmed(p, ruling[p]) : p \in P}
           of == [p \in P |-> Learned!Confirmed(p, ruling[p])]
<1>1. IsFiniteSet(P)
  BY ProposalsAreFinite, FS_Subset
<1>2. of \in Surjection(P, all)
  BY DEF Surjection
<1>3. \A q \in all : q.chunk \in S /\ \E d \in LearnedChunks[q.chunk].defines : d.term = q.term
  <2> TAKE q \in all
  <2>1. PICK p \in P : q = Learned!Confirmed(p, ruling[p])
    OBVIOUS
  <2>2. q.chunk = p.chunk /\ q.term = p.term
    BY <2>1 DEF Learned!Confirmed
  <2> QED
    BY <2>2, ProposalsSay
<1> HIDE DEF of, all
<1>4. IsFiniteSet(all)
  BY <1>1, <1>2, FS_Surjection
<1>5. cands \in SUBSET all
  BY DEF all
<1>6. IsFiniteSet(cands)
  BY <1>4, <1>5, FS_Subset
<1> QED
  BY <1>3, <1>5, <1>6 DEF Definitions

(* Of some definitions of one term there is a surest and a latest.              *)
LEMMA LatestIsOne == ASSUME Learned!ConstantsOK, NEW S \in SUBSET DOMAIN LearnedChunks,
                            NEW cands, Definitions(cands, S), cands # {}
                     PROVE  Learned!Latest(cands) \in cands
<1> DEFINE dated == {p \in cands : LearnedChunks[p.chunk].date # None}
           dates == {LearnedChunks[p.chunk].date : p \in dated}
<1>1. CASE dated = {}
  BY <1>1 DEF Learned!Latest
<1>2. CASE dated # {}
  <2>1. \A p \in dated : LearnedChunks[p.chunk].date \in Nat
    BY DEF Learned!ConstantsOK, Definitions
  <2>2. IsFiniteSet(dates)
    <3> DEFINE date == [p \in dated |-> LearnedChunks[p.chunk].date]
    <3>1. IsFiniteSet(dated)
      <4>1. dated \in SUBSET cands
        OBVIOUS
      <4> HIDE DEF dated
      <4> QED
        BY <4>1, FS_Subset DEF Definitions
    <3>2. date \in Surjection(dated, dates)
      BY DEF Surjection
    <3> HIDE DEF date, dated, dates
    <3> QED
      BY <3>1, <3>2, FS_Surjection
  <2>3. dates \in SUBSET Nat /\ dates # {}
    BY <1>2, <2>1
  <2>4. PICK n \in dates : \A m \in dates : m <= n
    <3> HIDE DEF dates
    <3> QED
      BY <2>2, <2>3, GreatestFinite
  <2>5. \E p \in dated : \A o \in dated : LearnedChunks[o.chunk].date <= LearnedChunks[p.chunk].date
    <3>1. PICK p \in dated : n = LearnedChunks[p.chunk].date
      BY <2>4, Zenon
    <3>2. \A o \in dated : LearnedChunks[o.chunk].date \in dates
      BY Zenon
    <3> HIDE DEF dated, dates
    <3> QED
      BY <2>4, <3>1, <3>2, Zenon
  <2>6. Learned!Latest(cands) = CHOOSE p \in dated : \A o \in dated : LearnedChunks[o.chunk].date <= LearnedChunks[p.chunk].date
    BY <1>2 DEF Learned!Latest
  <2>7. Learned!Latest(cands) \in dated
    <3> HIDE DEF dated
    <3> QED
      BY <2>5, <2>6
  <2> QED
    BY <2>7
<1> QED
  BY <1>1, <1>2

LEMMA TermIsReconciled ==
    ASSUME Learned!ConstantsOK, NEW S \in SUBSET DOMAIN LearnedChunks, NEW v, NEW t, NEW same \in BOOLEAN,
           NEW cands, Definitions(cands, S), cands # {},
           \A p \in cands : p.term = t /\ p.confidence = MinConfidence
    PROVE  Sound(Learned!ReconcileTerm(v, t, cands, same), v, t)
<1> DEFINE worded == {p.expansion : p \in cands}
           expansions == worded \ {None}
           spans == {Learned!SpanOf(p) : p \in cands}
           e == Learned!ReconcileTerm(v, t, cands, same)
<1>0. MinConfidence \in Nat
  BY DEF Learned!ConstantsOK
<1>1. \A s \in spans : \E d \in LearnedChunks[s.chunk].defines : d.term = t
  BY DEF Learned!SpanOf, Definitions
<1>2. spans # {} /\ worded = {s.expansion : s \in spans}
  <2>1. \A p \in cands : Learned!SpanOf(p).expansion = p.expansion
    BY DEF Learned!SpanOf
  <2>2. spans # {}
    OBVIOUS
  <2>3. \A x : x \in worded <=> x \in {s.expansion : s \in spans}
    BY <2>1
  <2> HIDE DEF spans, worded
  <2> QED
    BY <2>2, <2>3
<1>3. CASE Cardinality(expansions) <= 1 \/ same
  <2> DEFINE best == CHOOSE p \in cands : \A o \in cands : o.confidence <= p.confidence
  <2>1. best \in cands
    <3>1. \E p \in cands : \A o \in cands : o.confidence <= p.confidence
      BY <1>0
    <3> QED
      BY <3>1
  <2>2. e = Learned!StatedEntry(v, t, cands)
    BY <1>3, LearnedSets DEF Learned!ReconcileTerm
  <2>3. /\ e.version = v /\ e.term = t /\ e.provenance = "stated" /\ e.expansion = best.expansion
        /\ e.spans = spans /\ e.confidence = best.confidence
    BY <2>2 DEF Learned!StatedEntry, Learned!Entry
  <2>4. e.expansion \in worded /\ e.confidence = MinConfidence
    BY <2>1, <2>3
  <2>5. Sound(e, v, t)
    <3> HIDE DEF e, spans, worded, best
    <3> QED
      BY <1>0, <1>1, <1>2, <2>3, <2>4 DEF WellFounded, Sound
  <2> QED
    BY <2>5
<1>4. CASE ~(Cardinality(expansions) <= 1 \/ same)
  <2>1. e = Learned!Entry(v, t, "conflicting", Learned!Latest(cands).expansion, expansions, spans, Learned!Max({p.confidence : p \in cands}))
    BY <1>4, LearnedSets DEF Learned!ReconcileTerm
  <2>2. /\ e.version = v /\ e.term = t /\ e.provenance = "conflicting" /\ e.expansion = Learned!Latest(cands).expansion
        /\ e.variants = expansions /\ e.spans = spans /\ e.confidence = Learned!Max({p.confidence : p \in cands})
    BY <2>1 DEF Learned!Entry
  <2>3. e.expansion \in worded
    BY <2>2, LatestIsOne
  <2>4. e.confidence = MinConfidence
    <3>1. {p.confidence : p \in cands} = {MinConfidence}
      OBVIOUS
    <3>2. Learned!Max({MinConfidence}) = MinConfidence
      BY <1>0 DEF Learned!Max
    <3> QED
      BY <2>2, <3>1, <3>2
  <2>5. Cardinality(expansions) \in Nat
    <3> DEFINE expansion == [p \in cands |-> p.expansion]
    <3>1. IsFiniteSet(cands)
      BY DEF Definitions
    <3>2. expansion \in Surjection(cands, worded)
      BY DEF Surjection
    <3> HIDE DEF expansion, worded
    <3>3. IsFiniteSet(worded) /\ worded \ {None} \in SUBSET worded
      BY <3>1, <3>2, FS_Surjection
    <3>4. IsFiniteSet(worded \ {None})
      BY <3>3, FS_Subset
    <3> QED
      BY <3>4, FS_CardinalityType
  <2>6. Cardinality(expansions) > 1
    BY <1>4, <2>5
  <2>7. Sound(e, v, t)
    <3> HIDE DEF e, spans, worded
    <3> QED
      BY <1>0, <1>1, <1>2, <2>2, <2>3, <2>4, <2>6 DEF WellFounded, Sound
  <2> QED
    BY <2>7
<1> QED
  BY <1>3, <1>4

LEMMA InferredIsFound ==
    ASSUME Learned!ConstantsOK, NEW S \in SUBSET DOMAIN LearnedChunks, NEW v, NEW t \in Learned!DistributionalCandidates(S), NEW confidence,
           MinConfidence <= confidence
    PROVE  Sound(Learned!Entry(v, t, "inferred", None, {}, [chunk : Learned!Contexts(t, S), expansion : {None}], confidence), v, t)
<1> DEFINE spans == [chunk : Learned!Contexts(t, S), expansion : {None}]
           e == Learned!Entry(v, t, "inferred", None, {}, spans, confidence)
<1>1. PICK c \in S : t \in Learned!ToSet(LearnedChunks[c].tokens)
  BY DEF Learned!DistributionalCandidates
<1>2. [chunk |-> c, expansion |-> None] \in spans
  BY <1>1 DEF Learned!Contexts
<1>3. \A s \in spans : t \in Learned!ToSet(LearnedChunks[s.chunk].tokens)
  BY DEF Learned!Contexts
<1>4. /\ e.version = v /\ e.term = t /\ e.provenance = "inferred" /\ e.spans = spans /\ e.confidence = confidence
  BY DEF Learned!Entry
<1>5. Sound(e, v, t)
  <2> HIDE DEF e, spans
  <2> QED
    BY <1>2, <1>3, <1>4 DEF WellFounded, Sound
<1> QED
  BY <1>5
-----------------------------------------------------------------------------
(* Versions.                                                                  *)

committed == Cardinality(ontologies)

Versioned(S) == \A o \in S : o.version \in 1..committed

(* Some of those of which none is newer than the last have a newest.            *)
LEMMA NewestIsOne ==
    ASSUME committed \in Nat, NEW S, S # {}, Versioned(S)
    PROVE  Learned!Newest(S) \in S /\ \A p \in S : p.version <= Learned!Newest(S).version
<1> DEFINE versions == {o.version : o \in S}
<1>1. versions \in SUBSET Nat /\ versions # {} /\ \A m \in versions : m <= committed
  BY DEF Versioned
<1>2. PICK n \in versions : \A m \in versions : m <= n
  <2> HIDE DEF versions
  <2> QED
    BY <1>1, GreatestBounded
<1>3. \E o \in S : \A p \in S : p.version <= o.version
  BY <1>2
<1> QED
  BY <1>3 DEF Learned!Newest

LEMMA CurrentIsLast ==
    ASSUME IsFiniteSet(ontologies), {o.version : o \in ontologies} = 1..committed
    PROVE  committed \in Nat /\ Versioned(ontologies) /\ Learned!CurrentVersion(ontologies) = committed
<1>1. committed \in Nat
  BY FS_CardinalityType DEF committed
<1>2. Versioned(ontologies)
  BY DEF Versioned
<1>3. CASE ontologies = {}
  BY <1>1, <1>2, <1>3, FS_EmptySet DEF Learned!CurrentVersion, committed
<1>4. CASE ontologies # {}
  <2>1. Learned!Newest(ontologies) \in ontologies /\ \A p \in ontologies : p.version <= Learned!Newest(ontologies).version
    BY <1>1, <1>2, <1>4, NewestIsOne
  <2>2. committed \in 1..committed
    <3>1. PICK o \in ontologies : TRUE
      BY <1>4
    <3>2. o.version \in 1..committed
      BY <1>2 DEF Versioned
    <3> QED
      BY <1>1, <3>2
  <2>3. PICK o \in ontologies : o.version = committed
    BY <2>2
  <2>4. Learned!Newest(ontologies).version \in 1..committed
    BY <1>2, <2>1 DEF Versioned
  <2>5. committed <= Learned!Newest(ontologies).version
    BY <2>1, <2>3
  <2> QED
    BY <1>1, <1>2, <1>4, <2>4, <2>5 DEF Learned!CurrentVersion
<1> QED
  BY <1>3, <1>4

(* Finalizations, the versions they are at, and what is committed.             *)
CallFields == {"at", "read", "version", "built", "entries"}
Inserted(c) == c.at \in {"cluster", "cover", "mine", "commit"}

CallFits(c, n) ==
    /\ DOMAIN c = CallFields /\ c.read \subseteq DOMAIN LearnedChunks
    /\ c.at = "insert" \/ Inserted(c) => "version" \in DOMAIN c.built /\ c.built.version = c.version
    /\ c.at = "insert" => c.version \in 1..n + 1
    /\ Inserted(c) => c.version = n + 1
    /\ c.at = "commit" => Mined(c.entries, c.version)

CallsOK == DOMAIN finalizer = Finalizers /\ \A r \in Finalizers : CallFits(finalizer[r], committed)
OneInserts == \A r, o \in Finalizers : Inserted(finalizer[r]) /\ Inserted(finalizer[o]) => r = o

VersionsOK == IsFiniteSet(ontologies) /\ {o.version : o \in ontologies} = 1..committed

GlossaryOK ==
    /\ \A e \in glossary : WellFounded(e) /\ e.version \in 1..committed
    /\ \A e, f \in glossary : e.version = f.version /\ e.term = f.term => e = f

PageOK ==
    /\ DOMAIN glossaryPage = {"at", "version", "entries"}
    /\ glossaryPage.at \in {"list", "shown"} => glossaryPage.version \in 1..committed
    /\ glossaryPage.at = "shown" => glossaryPage.entries = {e \in glossary : e.version = glossaryPage.version}

Learning == learnedGraph \subseteq DOMAIN LearnedChunks /\ CallsOK /\ OneInserts /\ VersionsOK /\ GlossaryOK /\ PageOK

LEMMA LookupFinds ==
    ASSUME VersionsOK, GlossaryOK, NEW e \in glossary
    PROVE  /\ Learned!LookupGlossary(e.term) \in glossary /\ Learned!LookupGlossary(e.term).term = e.term
           /\ e.version <= Learned!LookupGlossary(e.term).version
<1> DEFINE entriesOfTerm == {f \in glossary : f.term = e.term}
<1>1. committed \in Nat
  BY CurrentIsLast DEF VersionsOK
<1>2. Versioned(entriesOfTerm) /\ e \in entriesOfTerm
  BY DEF Versioned, GlossaryOK
<1>3. Learned!LookupGlossary(e.term) = Learned!Newest(entriesOfTerm)
  BY <1>2 DEF Learned!LookupGlossary
<1>4. Learned!Newest(entriesOfTerm) \in entriesOfTerm /\ \A p \in entriesOfTerm : p.version <= Learned!Newest(entriesOfTerm).version
  <2> HIDE DEF entriesOfTerm
  <2> QED
    BY <1>1, <1>2, NewestIsOne
<1> QED
  BY <1>2, <1>3, <1>4

LEMMA LearningIsSound == ASSUME Learned!ConstantsOK, Learning PROVE Learned!EntriesAreGrounded /\ Learned!VersionsAreWhole
<1> USE DEF Learning
<1>1. committed \in Nat /\ Learned!CurrentVersion(ontologies) = committed
  BY CurrentIsLast DEF VersionsOK
<1>2. MinConfidence \in Nat
  BY DEF Learned!ConstantsOK
<1>3. ASSUME NEW e \in glossary
      PROVE  /\ e.spans # {} /\ Learned!LookupGlossary(e.term).spans # {}
             /\ Learned!LookupGlossary(e.term).provenance # "not_found" /\ Learned!LookupGlossary(e.term).confidence >= MinConfidence
             /\ e.version = Learned!CurrentVersion(ontologies) => Learned!LookupGlossary(e.term) = e
  <2> DEFINE f == Learned!LookupGlossary(e.term)
  <2>1. f \in glossary /\ f.term = e.term /\ e.version <= f.version
    BY LookupFinds
  <2> HIDE DEF f
  <2>2. WellFounded(e) /\ WellFounded(f) /\ f.version \in 1..committed /\ e.version \in 1..committed
    BY <2>1 DEF GlossaryOK
  <2>3. e.spans # {} /\ f.spans # {} /\ f.provenance # "not_found" /\ f.confidence >= MinConfidence
    BY <2>2 DEF WellFounded
  <2>4. e.version = committed => f = e
    BY <1>1, <2>1, <2>2 DEF GlossaryOK
  <2> QED
    BY <1>1, <2>3, <2>4 DEF f
<1>4. Learned!EntriesAreGrounded
  <2>1. LET terms == {e.term : e \in glossary} IN Learned!ExpandQuery(terms) = terms
    BY <1>3 DEF Learned!ExpandQuery
  <2>2. \A e, f \in glossary : e.version = f.version /\ e.term = f.term => e = f
    BY DEF GlossaryOK
  <2>3. \A e \in glossary : WellFounded(e)
    BY DEF GlossaryOK
  <2>4. \A e \in glossary : Learned!Cardinality(e.variants) = Cardinality(e.variants)
    BY LearnedSets
  <2> QED
    BY <1>3, <2>1, <2>2, <2>3, <2>4 DEF Learned!EntriesAreGrounded, WellFounded
<1>5. Learned!VersionsAreWhole
  <2>1. \A e \in glossary : e.version <= committed
    BY <1>1 DEF GlossaryOK
  <2>2. glossaryPage.at = "shown" => glossaryPage.entries = {e \in glossary : e.version = glossaryPage.version}
    BY DEF PageOK
  <2>3. Learned!Cardinality(ontologies) = committed
    BY LearnedSets DEF committed
  <2>4. {o.version : o \in ontologies} = 1..committed
    BY DEF VersionsOK
  <2> QED
    BY <1>3, <2>1, <2>2, <2>3, <2>4 DEF Learned!VersionsAreWhole
<1> QED
  BY <1>4, <1>5

(* What a step leaves of the finalization it is of, and of the others.          *)
LEMMA MinesTheGlossary ==
    ASSUME Learned!ConstantsOK, Learning, NEW r \in Finalizers, Learned!MineGlossary(r)
    PROVE  \E entries : Mined(entries, finalizer[r].version)
                        /\ finalizer' = [finalizer EXCEPT ![r].at = "commit", ![r].entries = entries]
<1> DEFINE read == finalizer[r].read
           v == finalizer[r].version
           proposed == Learned!ProposeExplicit(read)
           unusual == Learned!DistributionalCandidates(read)
<1>1. PICK ruling \in Learned!Verdicts(proposed), meant \in [unusual -> {MinConfidence - 1, MinConfidence}], same \in BOOLEAN :
          LET confirmed == {Learned!Confirmed(p, ruling[p]) : p \in {o \in proposed : ruling[o].confidence >= MinConfidence}}
              terms == {p.term : p \in confirmed}
              inferred == {t \in unusual : t \notin terms /\ meant[t] >= MinConfidence}
          IN finalizer' = [finalizer EXCEPT ![r].at = "commit", ![r].entries =
                        {Learned!ReconcileTerm(v, t, {p \in confirmed : p.term = t}, same) : t \in terms}
                        \cup {Learned!Entry(v, t, "inferred", None, {}, [chunk : Learned!Contexts(t, read), expansion : {None}],
                                    meant[t]) : t \in inferred}]
  BY DEF Learned!MineGlossary
<1> DEFINE sure == {o \in proposed : ruling[o].confidence >= MinConfidence}
           confirmed == {Learned!Confirmed(p, ruling[p]) : p \in sure}
           terms == {p.term : p \in confirmed}
           inferred == {t \in unusual : t \notin terms /\ meant[t] >= MinConfidence}
           defined(t) == Learned!ReconcileTerm(v, t, {p \in confirmed : p.term = t}, same)
           met(t) == Learned!Entry(v, t, "inferred", None, {}, [chunk : Learned!Contexts(t, read), expansion : {None}], meant[t])
           entries == {defined(t) : t \in terms} \cup {met(t) : t \in inferred}
<1>2. read \in SUBSET DOMAIN LearnedChunks /\ MinConfidence \in Nat \ {0}
  BY DEF Learning, CallsOK, CallFits, Learned!ConstantsOK
<1>3. ASSUME NEW t \in terms PROVE Sound(defined(t), v, t)
  <2> DEFINE cands == {p \in confirmed : p.term = t}
  <2>1. sure \in SUBSET Learned!ProposeExplicit(read) /\ cands \in SUBSET {Learned!Confirmed(p, ruling[p]) : p \in sure} /\ cands # {}
    OBVIOUS
  <2>2. \A o \in sure : ruling[o].confidence = MinConfidence
    BY <1>2 DEF Learned!Verdicts
  <2>3. \A p \in cands : p.term = t /\ p.confidence = MinConfidence
    BY <2>2 DEF Learned!Confirmed
  <2> HIDE DEF cands, read, v, sure
  <2>4. Definitions(cands, read)
    BY <1>2, <2>1, ConfirmedAreDefinitions
  <2> QED
    BY <1>2, <2>1, <2>3, <2>4, TermIsReconciled DEF cands
<1>4. ASSUME NEW t \in inferred PROVE Sound(met(t), v, t)
  <2>1. t \in Learned!DistributionalCandidates(read) /\ MinConfidence <= meant[t]
    BY <1>2
  <2> HIDE DEF read, v, inferred
  <2> QED
    BY <1>2, <2>1, InferredIsFound
<1>5. Mined(entries, v)
  <2> HIDE DEF defined, met, v, read, proposed, unusual
  <2>1. \A e \in entries : e.version = v /\ WellFounded(e)
    BY <1>3, <1>4 DEF Sound
  <2>2. \A e \in entries : \/ e.term \in terms /\ e = defined(e.term)
                           \/ e.term \in inferred /\ e.term \notin terms /\ e = met(e.term)
    BY <1>3, <1>4 DEF Sound
  <2> HIDE DEF entries, inferred, terms
  <2> QED
    BY <2>1, <2>2 DEF Mined
<1>6. finalizer' = [finalizer EXCEPT ![r].at = "commit", ![r].entries = entries]
  BY <1>1
<1> HIDE DEF entries, v
<1> QED
  BY <1>5, <1>6 DEF v

(* A finalization moves on: it still fits, and inserts alone.                   *)
LEMMA OneMovesOn ==
    ASSUME Learning, NEW r \in Finalizers, UNCHANGED <<ontologies, glossary, glossaryPage>>, learnedGraph' \subseteq DOMAIN LearnedChunks,
           DOMAIN finalizer' = Finalizers, \A o \in Finalizers \ {r} : finalizer'[o] = finalizer[o],
           CallFits(finalizer'[r], committed),
           Inserted(finalizer'[r]) => Inserted(finalizer[r]) \/ \A o \in Finalizers \ {r} : ~Inserted(finalizer[o])
    PROVE  Learning'
<1>1. committed' = committed
  BY DEF committed
<1>2. CallsOK'
  BY <1>1 DEF Learning, CallsOK
<1>3. OneInserts'
  <2>1. \A o \in Finalizers \ {r} : ~(Inserted(finalizer'[r]) /\ Inserted(finalizer'[o]))
    BY DEF Learning, OneInserts
  <2>2. \A o, p \in Finalizers : Inserted(finalizer'[o]) /\ Inserted(finalizer'[p]) => o = p
    BY <2>1 DEF Learning, OneInserts
  <2> QED
    BY <2>2 DEF OneInserts, Inserted
<1>4. VersionsOK'
  BY <1>1 DEF Learning, VersionsOK
<1>5. GlossaryOK' /\ PageOK'
  BY <1>1 DEF Learning, GlossaryOK, PageOK, WellFounded
<1> QED
  BY <1>2, <1>3, <1>4, <1>5 DEF Learning

LEMMA CommitAddsAVersion ==
    ASSUME Learned!ConstantsOK, Learning, NEW r \in Finalizers, Learned!Commit(r)
    PROVE  Learning'
<1> DEFINE c == finalizer[r]
<1>1. committed \in Nat /\ IsFiniteSet(ontologies) /\ {o.version : o \in ontologies} = 1..committed
  BY CurrentIsLast DEF Learning, VersionsOK
<1>2. /\ DOMAIN c = CallFields /\ c.read \subseteq DOMAIN LearnedChunks /\ c.built.version = committed + 1
      /\ Mined(c.entries, committed + 1) /\ c.version = committed + 1 /\ Inserted(c)
  BY DEF Learning, CallsOK, CallFits, Learned!Commit, Inserted
<1>3. c.built \notin ontologies
  <2>1. committed + 1 \notin 1..committed
    BY <1>1
  <2> QED
    BY <1>1, <1>2, <2>1
<1>4. IsFiniteSet(ontologies') /\ committed' = committed + 1
  <2>1. ontologies' = ontologies \cup {c.built}
    BY DEF Learned!Commit
  <2> HIDE DEF c
  <2> QED
    BY <1>1, <1>3, <2>1, FS_AddElement DEF committed
<1>5. VersionsOK'
  <2>1. {o.version : o \in ontologies'} = {o.version : o \in ontologies} \cup {committed + 1}
    BY <1>2 DEF Learned!Commit
  <2>2. 1..committed + 1 = (1..committed) \cup {committed + 1}
    BY <1>1
  <2> HIDE DEF c
  <2> QED
    BY <1>1, <1>4, <2>1, <2>2 DEF VersionsOK
<1>6. /\ DOMAIN finalizer' = Finalizers /\ \A o \in Finalizers \ {r} : finalizer'[o] = finalizer[o]
      /\ finalizer'[r].at = "done" /\ DOMAIN finalizer'[r] = CallFields /\ finalizer'[r].read = {}
  BY DEF Learned!Commit, Learning, CallsOK, Learned!Idle, CallFields
<1>7. \A o \in Finalizers \ {r} : ~Inserted(finalizer[o])
  BY <1>2 DEF Learning, OneInserts
<1>8. CallsOK'
  <2>1. \A o \in Finalizers \ {r} : CallFits(finalizer'[o], committed + 1)
    <3> TAKE o \in Finalizers \ {r}
    <3>1. CallFits(finalizer[o], committed)
      BY DEF Learning, CallsOK
    <3>2. 1..committed + 1 \subseteq 1..(committed + 1) + 1
      BY <1>1
    <3> QED
      BY <1>6, <1>7, <3>1, <3>2 DEF CallFits, Inserted
  <2>2. CallFits(finalizer'[r], committed + 1)
    BY <1>6 DEF CallFits, Inserted
  <2> QED
    BY <1>4, <1>6, <2>1, <2>2 DEF CallsOK
<1>9. OneInserts'
  <2>1. \A o \in Finalizers : ~Inserted(finalizer'[o])
    BY <1>6, <1>7 DEF Inserted
  <2> QED
    BY <2>1 DEF OneInserts, Inserted
<1>10. glossary' = glossary \cup c.entries /\ glossaryPage' = glossaryPage /\ learnedGraph' = learnedGraph
  BY DEF Learned!Commit
<1>11. \A e \in glossary : e.version \in 1..committed /\ WellFounded(e)
  BY DEF Learning, GlossaryOK
<1>12. \A e \in c.entries : e.version = committed + 1 /\ WellFounded(e)
  BY <1>2 DEF Mined
<1>13. GlossaryOK'
  <2>1. \A e \in glossary' : WellFounded(e) /\ e.version \in 1..committed + 1
    BY <1>1, <1>10, <1>11, <1>12
  <2>2. committed + 1 \notin 1..committed
    BY <1>1
  <2>3. \A e, f \in glossary' : e.version = f.version /\ e.term = f.term => e = f
    <3> HIDE DEF c
    <3> QED
      BY <1>2, <1>10, <1>11, <1>12, <2>2 DEF Mined, Learning, GlossaryOK
  <2> QED
    BY <1>4, <2>1, <2>3 DEF GlossaryOK, WellFounded
<1>14. PageOK'
  <2>1. DOMAIN glossaryPage = {"at", "version", "entries"}
    BY DEF Learning, PageOK
  <2>2. glossaryPage.at \in {"list", "shown"} => glossaryPage.version \in 1..committed + 1 /\ glossaryPage.version # committed + 1
    BY <1>1 DEF Learning, PageOK
  <2>3. glossaryPage.at = "shown" => glossaryPage.entries = {e \in glossary' : e.version = glossaryPage.version}
    <3> HIDE DEF c
    <3>1. glossaryPage.at = "shown" => glossaryPage.entries = {e \in glossary : e.version = glossaryPage.version}
      BY DEF Learning, PageOK
    <3> QED
      BY <1>10, <1>12, <2>2, <3>1
  <2> QED
    BY <1>4, <1>10, <2>1, <2>2, <2>3 DEF PageOK
<1> QED
  BY <1>5, <1>8, <1>9, <1>10, <1>13, <1>14 DEF Learning

LEMMA LearningSteps == ASSUME Learned!ConstantsOK, Learning, [Learned!Next]_(Learned!vars) PROVE Learning'
<1>0. learnedGraph \subseteq DOMAIN LearnedChunks /\ committed \in Nat
  BY CurrentIsLast DEF Learning, VersionsOK
<1>1. ASSUME UNCHANGED <<finalizer, ontologies, glossary>>, PageOK', learnedGraph' \subseteq DOMAIN LearnedChunks
      PROVE  Learning'
  BY <1>1 DEF Learning, CallsOK, OneInserts, VersionsOK, GlossaryOK, committed, CallFits, Inserted, Mined, WellFounded
<1>2. ASSUME glossaryPage' = glossaryPage, UNCHANGED <<ontologies, glossary>> PROVE PageOK'
  BY <1>2 DEF Learning, PageOK, committed
<1>3. ASSUME NEW c \in DOMAIN LearnedChunks, Learned!Write(c) \/ Learned!Delete(c) PROVE Learning'
  BY <1>0, <1>1, <1>2, <1>3 DEF Learned!Write, Learned!Delete
<1>4. ASSUME NEW r \in Finalizers, Learned!Step(r) PROVE Learning'
  <2>1. DOMAIN finalizer = Finalizers /\ CallFits(finalizer[r], committed) /\ DOMAIN finalizer[r] = CallFields
    BY DEF Learning, CallsOK, CallFits
  <2>2. CASE Learned!Drain(r)
    <3>1. /\ DOMAIN finalizer' = Finalizers /\ \A o \in Finalizers \ {r} : finalizer'[o] = finalizer[o]
          /\ DOMAIN finalizer'[r] = CallFields /\ finalizer'[r].at = "compare" /\ finalizer'[r].read = learnedGraph
      BY <2>1, <2>2 DEF Learned!Drain, CallFields
    <3> QED
      BY <1>0, <2>2, <3>1, OneMovesOn DEF Learned!Drain, CallFits, Inserted
  <2>3. CASE Learned!Compare(r)
    <3>1. /\ DOMAIN finalizer' = Finalizers /\ \A o \in Finalizers \ {r} : finalizer'[o] = finalizer[o]
          /\ DOMAIN finalizer'[r] = CallFields /\ finalizer'[r].at \in {"same", "build"} /\ finalizer'[r].read = finalizer[r].read
      BY <2>1, <2>3 DEF Learned!Compare, CallFields
    <3>2. CallFits(finalizer'[r], committed) /\ ~Inserted(finalizer'[r])
      BY <2>1, <3>1 DEF CallFits, Inserted
    <3> QED
      BY <1>0, <2>3, <3>1, <3>2, OneMovesOn DEF Learned!Compare
  <2>4. CASE Learned!Project(r)
    <3>1. /\ DOMAIN finalizer' = Finalizers /\ \A o \in Finalizers \ {r} : finalizer'[o] = finalizer[o]
          /\ DOMAIN finalizer'[r] = CallFields /\ finalizer'[r].at = "insert" /\ finalizer'[r].read = finalizer[r].read
          /\ finalizer'[r].version = Learned!CurrentVersion(ontologies) + 1 /\ "version" \in DOMAIN finalizer'[r].built
          /\ finalizer'[r].built.version = finalizer'[r].version
      BY <2>1, <2>4 DEF Learned!Project, CallFields
    <3>2. finalizer'[r].version \in 1..committed + 1
      BY <1>0, <3>1, CurrentIsLast DEF Learning, VersionsOK
    <3>3. CallFits(finalizer'[r], committed) /\ ~Inserted(finalizer'[r])
      BY <2>1, <3>1, <3>2 DEF CallFits, Inserted
    <3> QED
      BY <1>0, <2>4, <3>1, <3>3, OneMovesOn DEF Learned!Project
  <2>5. CASE Learned!Insert(r)
    <3> DEFINE taken == \E o \in ontologies : o.version = finalizer[r].version
    <3>1. DOMAIN finalizer' = Finalizers /\ \A o \in Finalizers \ {r} : finalizer'[o] = finalizer[o]
      BY <2>1, <2>5 DEF Learned!Insert
    <3>2. CASE taken
      <4>1. DOMAIN finalizer'[r] = CallFields /\ finalizer'[r].at = "raised" /\ finalizer'[r].read = {}
        BY <2>1, <2>5, <3>2 DEF Learned!Insert, Learned!Idle, CallFields
      <4>2. CallFits(finalizer'[r], committed) /\ ~Inserted(finalizer'[r])
        BY <4>1 DEF CallFits, Inserted
      <4> QED
        BY <1>0, <2>5, <3>1, <4>2, OneMovesOn DEF Learned!Insert
    <3>3. CASE ~taken
      <4>1. finalizer'[r] = [finalizer[r] EXCEPT !.at = "cluster"]
        BY <2>1, <2>5, <3>3 DEF Learned!Insert
      <4>2. /\ DOMAIN finalizer'[r] = CallFields /\ finalizer'[r].at = "cluster" /\ finalizer'[r].read = finalizer[r].read
            /\ finalizer'[r].version = finalizer[r].version /\ finalizer'[r].built = finalizer[r].built
        BY <2>1, <4>1 DEF CallFields
      <4>3. finalizer[r].version = committed + 1
        <5>1. finalizer[r].version \in 1..committed + 1
          BY <2>1, <2>5 DEF Learned!Insert, CallFits
        <5>2. finalizer[r].version \notin {o.version : o \in ontologies}
          BY <3>3
        <5>3. finalizer[r].version \notin 1..committed
          BY <5>2 DEF Learning, VersionsOK
        <5> QED
          BY <1>0, <5>1, <5>3
      <4>4. \A o \in Finalizers \ {r} : ~Inserted(finalizer[o])
        <5>1. \A o \in Finalizers \ {r} : ~Learned!Holds(o, finalizer[r].version)
          BY <2>5 DEF Learned!Insert
        <5>2. \A o \in Finalizers : Inserted(finalizer[o]) => finalizer[o].version = committed + 1
          BY DEF Learning, CallsOK, CallFits
        <5> QED
          BY <4>3, <5>1, <5>2 DEF Learned!Holds, Inserted
      <4>5. finalizer[r].at = "insert"
        BY <2>5 DEF Learned!Insert
      <4>6. CallFits(finalizer'[r], committed)
        BY <2>1, <4>2, <4>3, <4>5 DEF CallFits, Inserted
      <4> QED
        BY <1>0, <2>5, <3>1, <4>4, <4>6, OneMovesOn DEF Learned!Insert
    <3> QED
      BY <3>2, <3>3
  <2>6. CASE Learned!PersistDocTaxonomy(r)
    <3>1. PICK classes : finalizer' = [finalizer EXCEPT ![r].at = "cover",
                                  ![r].built.classes = {c \in classes : c.confidence >= TaxonomyFloor}]
      BY <2>6 DEF Learned!PersistDocTaxonomy
    <3>2. /\ DOMAIN finalizer' = Finalizers /\ \A o \in Finalizers \ {r} : finalizer'[o] = finalizer[o]
          /\ DOMAIN finalizer'[r] = CallFields /\ finalizer'[r].at = "cover" /\ finalizer'[r].read = finalizer[r].read
          /\ finalizer'[r].version = finalizer[r].version
      BY <2>1, <3>1 DEF CallFields
    <3>3. Inserted(finalizer[r]) /\ "version" \in DOMAIN finalizer[r].built
      BY <2>1, <2>6 DEF Learned!PersistDocTaxonomy, Inserted, CallFits
    <3>4. "version" \in DOMAIN finalizer'[r].built /\ finalizer'[r].built.version = finalizer[r].built.version
      BY <2>1, <3>1, <3>3 DEF CallFields
    <3>5. CallFits(finalizer'[r], committed)
      BY <2>1, <3>2, <3>3, <3>4 DEF CallFits, Inserted
    <3> QED
      BY <1>0, <2>6, <3>2, <3>3, <3>5, OneMovesOn DEF Learned!PersistDocTaxonomy
  <2>7. CASE Learned!Cover(r)
    <3>1. finalizer' = [finalizer EXCEPT ![r].at = "mine", ![r].built.coverage = Learned!ComputeTemporalCoverage(learnedGraph)]
      BY <2>7 DEF Learned!Cover
    <3>2. /\ DOMAIN finalizer' = Finalizers /\ \A o \in Finalizers \ {r} : finalizer'[o] = finalizer[o]
          /\ DOMAIN finalizer'[r] = CallFields /\ finalizer'[r].at = "mine" /\ finalizer'[r].read = finalizer[r].read
          /\ finalizer'[r].version = finalizer[r].version
      BY <2>1, <3>1 DEF CallFields
    <3>3. Inserted(finalizer[r]) /\ "version" \in DOMAIN finalizer[r].built
      BY <2>1, <2>7 DEF Learned!Cover, Inserted, CallFits
    <3>4. "version" \in DOMAIN finalizer'[r].built /\ finalizer'[r].built.version = finalizer[r].built.version
      BY <2>1, <3>1, <3>3 DEF CallFields
    <3>5. CallFits(finalizer'[r], committed)
      BY <2>1, <3>2, <3>3, <3>4 DEF CallFits, Inserted
    <3> QED
      BY <1>0, <2>7, <3>2, <3>3, <3>5, OneMovesOn DEF Learned!Cover
  <2>8. CASE Learned!MineGlossary(r)
    <3>1. PICK entries : Mined(entries, finalizer[r].version)
                         /\ finalizer' = [finalizer EXCEPT ![r].at = "commit", ![r].entries = entries]
      BY <2>8, MinesTheGlossary
    <3>2. /\ DOMAIN finalizer' = Finalizers /\ \A o \in Finalizers \ {r} : finalizer'[o] = finalizer[o]
          /\ DOMAIN finalizer'[r] = CallFields /\ finalizer'[r].at = "commit" /\ finalizer'[r].read = finalizer[r].read
          /\ finalizer'[r].version = finalizer[r].version /\ finalizer'[r].built = finalizer[r].built /\ finalizer'[r].entries = entries
      BY <2>1, <3>1 DEF CallFields
    <3>3. Inserted(finalizer[r])
      BY <2>8 DEF Learned!MineGlossary, Inserted
    <3>4. CallFits(finalizer'[r], committed)
      BY <2>1, <3>1, <3>2, <3>3 DEF CallFits, Inserted
    <3> QED
      BY <1>0, <2>8, <3>2, <3>3, <3>4, OneMovesOn DEF Learned!MineGlossary
  <2>9. CASE Learned!Commit(r)
    BY <2>9, CommitAddsAVersion
  <2>10. CASE Learned!Fail(r)
    <3>1. /\ DOMAIN finalizer' = Finalizers /\ \A o \in Finalizers \ {r} : finalizer'[o] = finalizer[o]
          /\ DOMAIN finalizer'[r] = CallFields /\ finalizer'[r].at = "raised" /\ finalizer'[r].read = {}
      BY <2>1, <2>10 DEF Learned!Fail, Learned!Idle, CallFields
    <3> QED
      BY <1>0, <2>10, <3>1, OneMovesOn DEF Learned!Fail, CallFits, Inserted
  <2> QED
    BY <1>4, <2>2, <2>3, <2>4, <2>5, <2>6, <2>7, <2>8, <2>9, <2>10 DEF Learned!Step
<1>5. CASE Learned!CurrentOntologyVersion
  <2>1. glossaryPage'.version = committed /\ glossaryPage'.at = "list" /\ DOMAIN glossaryPage' = {"at", "version", "entries"}
    BY <1>5, CurrentIsLast DEF Learned!CurrentOntologyVersion, Learning, VersionsOK
  <2>2. committed \in 1..committed
    <3>1. PICK o \in ontologies : o.version \in 1..committed
      BY <1>5 DEF Learned!CurrentOntologyVersion, Learning, VersionsOK
    <3> QED
      BY <1>0, <3>1
  <2>3. PageOK'
    BY <1>5, <2>1, <2>2 DEF Learned!CurrentOntologyVersion, PageOK, committed
  <2> QED
    BY <1>0, <1>1, <1>5, <2>3 DEF Learned!CurrentOntologyVersion
<1>6. CASE Learned!ListGlossary
  <2>1. PageOK'
    BY <1>6 DEF Learned!ListGlossary, PageOK, Learning, committed
  <2> QED
    BY <1>0, <1>1, <1>6, <2>1 DEF Learned!ListGlossary
<1>7. CASE Learned!Leave
  <2>1. PageOK'
    BY <1>7 DEF Learned!Leave, PageOK
  <2> QED
    BY <1>0, <1>1, <1>7, <2>1 DEF Learned!Leave
<1>8. CASE UNCHANGED Learned!vars
  BY <1>0, <1>1, <1>2, <1>8 DEF Learned!vars
<1> QED
  BY <1>3, <1>4, <1>5, <1>6, <1>7, <1>8 DEF Learned!Next

LEMMA LearningHolds == ASSUME Learned!ConstantsOK PROVE Learned!Spec => [](Learned!EntriesAreGrounded /\ Learned!VersionsAreWhole)
<1>1. Learned!Init => Learning
  <2> SUFFICES ASSUME Learned!Init PROVE Learning
    OBVIOUS
  <2>1. committed = 0 /\ IsFiniteSet(ontologies)
    BY FS_EmptySet DEF Learned!Init, committed
  <2>2. learnedGraph \subseteq DOMAIN LearnedChunks /\ VersionsOK /\ GlossaryOK /\ PageOK
    BY <2>1 DEF Learned!Init, VersionsOK, GlossaryOK, PageOK, Learned!ConstantsOK
  <2>3. CallsOK /\ OneInserts
    BY <2>1 DEF Learned!Init, CallsOK, OneInserts, CallFits, Inserted, Learned!Idle, CallFields
  <2> QED
    BY <2>2, <2>3 DEF Learning
<1>2. Learning /\ [Learned!Next]_(Learned!vars) => Learning'
  BY LearningSteps
<1>3. Learning => Learned!EntriesAreGrounded /\ Learned!VersionsAreWhole
  BY LearningIsSound
<1> QED
  BY <1>1, <1>2, <1>3, PTL DEF Learned!Spec
-----------------------------------------------------------------------------
(* Lists.                                                                   *)

Orders(S, order) ==
    /\ \A x \in S : <<x, x>> \notin order
    /\ \A x, y \in S : x # y => <<x, y>> \in order \/ <<y, x>> \in order
    /\ \A x, y, z \in S : <<x, y>> \in order /\ <<y, z>> \in order => <<x, z>> \in order

(* Every member of the set has one place, and who is ahead comes first.                        *)
LEMMA InOrderLists ==
    ASSUME NEW S, IsFiniteSet(S), NEW order, Orders(S, order)
    PROVE  /\ InOrder(S, order) \in [1..Cardinality(S) -> S]
           /\ \A x \in S : \E k \in 1..Cardinality(S) : InOrder(S, order)[k] = x
           /\ \A j, k \in 1..Cardinality(S) : j < k => <<InOrder(S, order)[j], InOrder(S, order)[k]>> \in order
<1> DEFINE Ahead(x) == {y \in S : <<y, x>> \in order}
           rank == [x \in S |-> Cardinality(Ahead(x)) + 1]
           n == Cardinality(S)
<1>0. n \in Nat /\ \A x \in S : IsFiniteSet(Ahead(x)) /\ Cardinality(Ahead(x)) \in Nat
  <2>1. \A x \in S : IsFiniteSet(Ahead(x))
    BY FS_Subset
  <2> QED
    BY <2>1, FS_CardinalityType
<1>1. ASSUME NEW x \in S PROVE Cardinality(Ahead(x)) < n
  <2>1. Ahead(x) \subseteq S \ {x}
    BY DEF Orders
  <2>2. IsFiniteSet(S \ {x}) /\ Cardinality(S \ {x}) = n - 1
    BY FS_RemoveElement
  <2>3. Cardinality(Ahead(x)) <= n - 1
    <3> HIDE DEF Ahead
    <3> QED
      BY <2>1, <2>2, FS_Subset
  <2> HIDE DEF Ahead, n
  <2> QED
    BY <1>0, <2>3
<1>2. ASSUME NEW x \in S, NEW y \in S, <<x, y>> \in order PROVE Cardinality(Ahead(x)) < Cardinality(Ahead(y))
  <2>1. Ahead(x) \subseteq Ahead(y) \ {x} /\ x \in Ahead(y)
    BY <1>2 DEF Orders
  <2>2. IsFiniteSet(Ahead(y) \ {x}) /\ Cardinality(Ahead(y) \ {x}) = Cardinality(Ahead(y)) - 1
    <3> HIDE DEF Ahead
    <3> QED
      BY <1>0, <2>1, FS_RemoveElement
  <2>3. Cardinality(Ahead(x)) <= Cardinality(Ahead(y)) - 1
    <3> HIDE DEF Ahead
    <3> QED
      BY <2>1, <2>2, FS_Subset
  <2> HIDE DEF Ahead
  <2> QED
    BY <1>0, <2>3
<1>3. rank \in Injection(S, 1..n)
  <2>1. \A x \in S : Cardinality(Ahead(x)) + 1 \in 1..n
    <3> HIDE DEF Ahead, n
    <3> QED
      BY <1>0, <1>1
  <2>2. ASSUME NEW x \in S, NEW y \in S, x # y PROVE Cardinality(Ahead(x)) + 1 # Cardinality(Ahead(y)) + 1
    <3>1. Cardinality(Ahead(x)) < Cardinality(Ahead(y)) \/ Cardinality(Ahead(y)) < Cardinality(Ahead(x))
      <4>1. <<x, y>> \in order \/ <<y, x>> \in order
        BY <2>2, Zenon DEF Orders
      <4> HIDE DEF Ahead
      <4> QED
        BY <4>1, <1>2, <2>2, Zenon
    <3> HIDE DEF Ahead
    <3> QED
      BY <1>0, <3>1
  <2>3. rank \in [S -> 1..n]
    BY <2>1
  <2> QED
    BY <2>2, <2>3 DEF Injection, IsInjective
<1>4. rank \in Surjection(S, 1..n)
  <2>1. IsFiniteSet(1..n) /\ Cardinality(1..n) = n
    <3> HIDE DEF n
    <3> QED
      BY <1>0, FS_Interval
  <2> HIDE DEF rank
  <2> QED
    BY <1>3, <2>1, FS_Injection
<1>5. ASSUME NEW k \in 1..n
      PROVE  InOrder(S, order)[k] \in S /\ rank[InOrder(S, order)[k]] = k
  <2>1. PICK x \in S : rank[x] = k
    BY <1>4 DEF Surjection
  <2>2. \E z \in S : Cardinality(Ahead(z)) = k - 1
    <3>1. Cardinality(Ahead(x)) + 1 = k
      BY <2>1
    <3> HIDE DEF Ahead
    <3> QED
      BY <1>0, <3>1
  <2>3. InOrder(S, order)[k] = CHOOSE z \in S : Cardinality(Ahead(z)) = k - 1
    BY DEF InOrder
  <2>4. InOrder(S, order)[k] \in S /\ Cardinality(Ahead(InOrder(S, order)[k])) = k - 1
    <3> HIDE DEF Ahead
    <3> QED
      BY <2>2, <2>3
  <2> DEFINE z == InOrder(S, order)[k]
  <2>5. rank[z] = Cardinality(Ahead(z)) + 1
    BY <2>4
  <2> HIDE DEF Ahead, rank, z, n
  <2>6. z \in S /\ Cardinality(Ahead(z)) = k - 1
    BY <2>4 DEF z
  <2>7. z \in S /\ rank[z] = k
    BY <1>0, <2>5, <2>6
  <2> QED
    BY <2>7 DEF z
<1>6. InOrder(S, order) \in [1..n -> S]
  <2> DEFINE placedAt(k) == CHOOSE x \in S : Cardinality({y \in S : <<y, x>> \in order}) = k - 1
  <2>1. InOrder(S, order) = [k \in 1..n |-> placedAt(k)]
    BY DEF InOrder
  <2> HIDE DEF rank, n, placedAt
  <2>2. \A k \in 1..n : placedAt(k) \in S
    BY <1>5, <2>1
  <2> QED
    BY <2>1, <2>2
<1>7. ASSUME NEW x \in S PROVE \E k \in 1..n : InOrder(S, order)[k] = x
  <2> DEFINE k == rank[x]
  <2>1. k \in 1..n
    <3> HIDE DEF rank
    <3> QED
      BY <1>3 DEF Injection
  <2> HIDE DEF k
  <2>2. InOrder(S, order)[k] \in S /\ rank[InOrder(S, order)[k]] = rank[x]
    BY <1>5, <2>1 DEF k
  <2> HIDE DEF rank
  <2>3. InOrder(S, order)[k] = x
    BY <1>3, <2>2 DEF Injection, IsInjective
  <2> QED
    BY <2>1, <2>3
<1>8. ASSUME NEW j \in 1..n, NEW k \in 1..n, j < k PROVE <<InOrder(S, order)[j], InOrder(S, order)[k]>> \in order
  <2> DEFINE x == InOrder(S, order)[j] y == InOrder(S, order)[k]
  <2>1. x \in S /\ y \in S /\ rank[x] = j /\ rank[y] = k
    BY <1>5
  <2> HIDE DEF x, y
  <2>2. rank[x] = Cardinality(Ahead(x)) + 1 /\ rank[y] = Cardinality(Ahead(y)) + 1
    BY <2>1
  <2>3. x # y
    <3> HIDE DEF rank, n
    <3> QED
      BY <1>8, <2>1, <1>0
  <2>4. CASE <<y, x>> \in order
    <3>1. Cardinality(Ahead(y)) < Cardinality(Ahead(x))
      BY <1>2, <2>1, <2>4
    <3> HIDE DEF rank, n, Ahead
    <3> QED
      BY <1>0, <1>8, <2>1, <2>2, <3>1
  <2>5. CASE <<x, y>> \in order
    BY <2>5 DEF x, y
  <2> QED
    BY <2>1, <2>3, <2>4, <2>5 DEF Orders
<1> QED
  BY <1>6, <1>7, <1>8

(* The places of a list that are taken stay a list, and nothing else is on it.                   *)
LEMMA PlacedLists ==
    ASSUME NEW X, NEW s \in Seq(X), NEW I \in SUBSET DOMAIN s, NEW order, Orders(I, order)
    PROVE  /\ Placed(s, I, order) \in Seq(X)
           /\ \A x : x \in Shortlist!ToSet(Placed(s, I, order)) <=> \E i \in I : s[i] = x
<1> DEFINE places == InOrder(I, order)
           new == Placed(s, I, order)
<1>1. IsFiniteSet(I)
  <2>1. IsFiniteSet(1..Len(s)) /\ I \subseteq 1..Len(s)
    BY FS_Interval
  <2> QED
    BY <2>1, FS_Subset
<1>2. /\ places \in [1..Cardinality(I) -> I]
      /\ \A x \in I : \E k \in 1..Cardinality(I) : places[k] = x
  BY <1>1, InOrderLists
<1>3. Cardinality(I) \in Nat
  BY <1>1, FS_CardinalityType
<1>4. new = [k \in 1..Cardinality(I) |-> s[places[k]]]
  BY <1>2 DEF Placed
<1> HIDE DEF places, new
<1>5. \A k \in 1..Cardinality(I) : s[places[k]] \in X
  BY <1>2
<1>6. new \in [1..Cardinality(I) -> X]
  BY <1>4, <1>5
<1>7. new \in Seq(X)
  BY <1>3, <1>6
<1>8. ASSUME NEW i \in I PROVE \E k \in DOMAIN new : new[k] = s[i]
  <2>1. PICK k \in 1..Cardinality(I) : places[k] = i
    BY <1>2
  <2> QED
    BY <1>4, <2>1
<1>9. \A k \in DOMAIN new : \E i \in I : new[k] = s[i]
  BY <1>2, <1>4
<1> QED
  BY <1>7, <1>8, <1>9 DEF new, Shortlist!ToSet

LEMMA AtPlacesLists ==
    ASSUME NEW X, NEW s \in Seq(X), NEW I \in SUBSET DOMAIN s
    PROVE  AtPlaces(s, I) \in Seq(X) /\ \A x : x \in Shortlist!ToSet(AtPlaces(s, I)) <=> \E i \in I : s[i] = x
<1> DEFINE order == {p \in I \X I : p[1] < p[2]}
<1>1. Orders(I, order)
  <2>1. \A x, y \in I : <<x, y>> \in order <=> x < y
    OBVIOUS
  <2>2. \A x \in I : x \in Int
    OBVIOUS
  <2> HIDE DEF order
  <2> QED
    BY <2>1, <2>2 DEF Orders
<1>2. AtPlaces(s, I) = Placed(s, I, order)
  BY DEF AtPlaces
<1> HIDE DEF order
<1>3. /\ Placed(s, I, order) \in Seq(X)
      /\ \A x : x \in Shortlist!ToSet(Placed(s, I, order)) <=> \E i \in I : s[i] = x
  BY <1>1, PlacedLists
<1> QED
  BY <1>2, <1>3

LEMMA ThoseLists ==
    ASSUME NEW X, NEW s \in Seq(X), NEW T
    PROVE  /\ Those(s, T) \in Seq(X)
           /\ Shortlist!ToSet(Those(s, T)) = Shortlist!ToSet(s) \cap T
<1> DEFINE I == {i \in DOMAIN s : s[i] \in T}
<1>1. Those(s, T) \in Seq(X) /\ \A x : x \in Shortlist!ToSet(Those(s, T)) <=> \E i \in I : s[i] = x
  BY AtPlacesLists DEF Those
<1>2. \A x : x \in Shortlist!ToSet(s) <=> \E i \in DOMAIN s : s[i] = x
  BY DEF Shortlist!ToSet
<1> QED
  BY <1>1, <1>2

LEMMA DescendingLists ==
    ASSUME NEW X, NEW s \in Seq(X), NEW val, \A i \in DOMAIN s : val[s[i]] \in Int
    PROVE  /\ Descending(s, val) \in Seq(X)
           /\ Shortlist!ToSet(Descending(s, val)) = Shortlist!ToSet(s)
<1> DEFINE I == DOMAIN s
           order == {p \in I \X I : val[s[p[1]]] > val[s[p[2]]] \/ (val[s[p[1]]] = val[s[p[2]]] /\ p[1] < p[2])}
<1>1. Orders(I, order)
  <2>1. \A x, y \in I : <<x, y>> \in order <=> val[s[x]] > val[s[y]] \/ (val[s[x]] = val[s[y]] /\ x < y)
    OBVIOUS
  <2>2. \A x \in I : x \in Int /\ val[s[x]] \in Int
    OBVIOUS
  <2> HIDE DEF order, I
  <2>3. \A x \in I : <<x, x>> \notin order
    BY <2>1, <2>2
  <2>4. \A x, y \in I : x # y => <<x, y>> \in order \/ <<y, x>> \in order
    BY <2>1, <2>2
  <2>5. \A x, y, z \in I : <<x, y>> \in order /\ <<y, z>> \in order => <<x, z>> \in order
    BY <2>1, <2>2
  <2> QED
    BY <2>3, <2>4, <2>5 DEF Orders
<1>2. Descending(s, val) = Placed(s, I, order)
  BY DEF Descending
<1>3. I \in SUBSET DOMAIN s
  OBVIOUS
<1> HIDE DEF order
<1>4. /\ Placed(s, I, order) \in Seq(X)
      /\ \A x : x \in Shortlist!ToSet(Placed(s, I, order)) <=> \E i \in I : s[i] = x
  BY <1>1, <1>3, PlacedLists
<1>5. \A x : x \in Shortlist!ToSet(s) <=> \E i \in DOMAIN s : s[i] = x
  BY DEF Shortlist!ToSet
<1> QED
  BY <1>2, <1>4, <1>5

-----------------------------------------------------------------------------
(* ChatShortlist.                                                           *)

LEMMA ShortlistSizes == \A S : Shortlist!Cardinality(S) = Cardinality(S)
BY Zenon DEF Shortlist!IsFiniteSet, IsFiniteSet, Shortlist!Cardinality, Cardinality

(* The lists of the shortlist are those the lemmas are about.                                      *)
LEMMA ShortlistLists ==
    /\ \A s, T : Shortlist!Those(s, T) = Those(s, T)
    /\ \A s, I : Shortlist!AtPlaces(s, I) = AtPlaces(s, I)
    /\ \A s, val : Shortlist!Descending(s, val) = Descending(s, val)
<1>1. \A S, order : Shortlist!InOrder(S, order) = InOrder(S, order)
  BY Zenon DEF Shortlist!InOrder, InOrder, Shortlist!Cardinality, Cardinality, Shortlist!IsFiniteSet, IsFiniteSet
<1>2. \A s, I, order : Shortlist!Placed(s, I, order) = Placed(s, I, order)
  BY <1>1, Zenon DEF Shortlist!Placed, Placed
<1>3. \A s, I : Shortlist!AtPlaces(s, I) = AtPlaces(s, I)
  BY <1>2, Zenon DEF Shortlist!AtPlaces, AtPlaces
<1>4. \A s, T : Shortlist!Those(s, T) = Those(s, T)
  BY <1>3, Zenon DEF Shortlist!Those, Those
<1>5. \A s, val : Shortlist!Descending(s, val) = Descending(s, val)
  BY <1>2, Zenon DEF Shortlist!Descending, Descending
<1> QED
  BY <1>3, <1>4, <1>5

LEMMA PartsAreLists ==
    ASSUME NEW X, NEW s \in Seq(X), NEW T
    PROVE  /\ Shortlist!Those(s, T) \in Seq(X)
           /\ Shortlist!ToSet(Shortlist!Those(s, T)) = Shortlist!ToSet(s) \cap T
BY ThoseLists, ShortlistLists

LEMMA JoinedLists ==
    ASSUME NEW X, NEW s \in Seq(X), NEW t \in Seq(X)
    PROVE  s \o t \in Seq(X) /\ Shortlist!ToSet(s \o t) = Shortlist!ToSet(s) \cup Shortlist!ToSet(t)
<1>1. s \o t \in Seq(X) /\ Len(s \o t) = Len(s) + Len(t)
  OBVIOUS
<1>2. \A i \in 1..Len(s) : (s \o t)[i] = s[i]
  OBVIOUS
<1>3. \A i \in 1..Len(t) : (s \o t)[Len(s) + i] = t[i]
  OBVIOUS
<1>4. ASSUME NEW k \in 1..(Len(s) + Len(t)) PROVE (s \o t)[k] \in Shortlist!ToSet(s) \cup Shortlist!ToSet(t)
  <2>1. CASE k <= Len(s)
    BY <1>2, <2>1 DEF Shortlist!ToSet
  <2>2. CASE k > Len(s)
    <3>1. k - Len(s) \in 1..Len(t) /\ (s \o t)[k] = t[k - Len(s)]
      BY <2>2, <1>3
    <3> QED
      BY <3>1 DEF Shortlist!ToSet
  <2> QED
    BY <2>1, <2>2
<1>5. ASSUME NEW i \in 1..Len(s) PROVE s[i] \in Shortlist!ToSet(s \o t)
  <2>1. i \in 1..Len(s \o t)
    BY <1>1
  <2> QED
    BY <1>2, <2>1 DEF Shortlist!ToSet
<1>6. ASSUME NEW i \in 1..Len(t) PROVE t[i] \in Shortlist!ToSet(s \o t)
  <2>1. Len(s) + i \in 1..Len(s \o t)
    BY <1>1
  <2> QED
    BY <1>3, <2>1 DEF Shortlist!ToSet
<1>7. Shortlist!ToSet(s \o t) \subseteq Shortlist!ToSet(s) \cup Shortlist!ToSet(t)
  BY <1>1, <1>4 DEF Shortlist!ToSet
<1>8. Shortlist!ToSet(s) \subseteq Shortlist!ToSet(s \o t) /\ Shortlist!ToSet(t) \subseteq Shortlist!ToSet(s \o t)
  <2>1. \A x \in Shortlist!ToSet(s) : \E i \in 1..Len(s) : s[i] = x
    BY DEF Shortlist!ToSet
  <2>2. \A x \in Shortlist!ToSet(t) : \E i \in 1..Len(t) : t[i] = x
    BY DEF Shortlist!ToSet
  <2> QED
    BY <1>5, <1>6, <2>1, <2>2
<1> QED
  BY <1>1, <1>7, <1>8

LEMMA TopLists ==
    ASSUME NEW X, NEW s \in Seq(X), NEW n \in Int
    PROVE  Shortlist!Top(s, n) \in Seq(X) /\ Shortlist!ToSet(Shortlist!Top(s, n)) \subseteq Shortlist!ToSet(s)
<1> DEFINE m == IF n < Len(s) THEN n ELSE Len(s)
<1>1. m \in Int /\ m <= Len(s)
  OBVIOUS
<1>2. Shortlist!Top(s, n) = SubSeq(s, 1, m)
  BY DEF Shortlist!Top
<1> HIDE DEF m
<1>3. SubSeq(s, 1, m) \in Seq(X)
  BY <1>1
<1>4. \A k \in 1..Len(SubSeq(s, 1, m)) : k \in 1..Len(s) /\ SubSeq(s, 1, m)[k] = s[k]
  BY <1>1
<1> QED
  BY <1>2, <1>3, <1>4 DEF Shortlist!ToSet

LEMMA ListsAreFinite == ASSUME NEW X, NEW s \in Seq(X) PROVE IsFiniteSet(Shortlist!ToSet(s)) /\ s \in Seq(Shortlist!ToSet(s)) /\ Shortlist!ToSet(s) \subseteq X
<1>1. s \in Surjection(1..Len(s), Shortlist!ToSet(s))
  BY DEF Shortlist!ToSet, Surjection
<1>2. IsFiniteSet(1..Len(s))
  BY FS_Interval
<1>3. IsFiniteSet(Shortlist!ToSet(s))
  BY <1>1, <1>2, FS_Surjection
<1> QED
  BY <1>3 DEF Shortlist!ToSet

LEMMA OrdersAreLists ==
    ASSUME NEW S, IsFiniteSet(S)
    PROVE  \A p \in Shortlist!Permuted(S) : p \in Seq(S)
<1>1. Cardinality(S) \in Nat
  BY FS_CardinalityType
<1> QED
  BY <1>1, ShortlistSizes DEF Shortlist!Permuted

LEMMA NamesAreKept ==
    ASSUME NEW X, NEW s \in Seq(X)
    PROVE  /\ Shortlist!FirstOfName(s) \in Seq(X) /\ Shortlist!ToSet(Shortlist!FirstOfName(s)) \subseteq Shortlist!ToSet(s)
           /\ \A f \in Shortlist!ToSet(s) : \E g \in Shortlist!ToSet(Shortlist!FirstOfName(s)) : NameOf[g] = NameOf[f]
<1> DEFINE I == {i \in DOMAIN s : \A j \in 1..(i - 1) : NameOf[s[j]] # NameOf[s[i]]}
<1>1. Shortlist!FirstOfName(s) \in Seq(X) /\ \A x : x \in Shortlist!ToSet(Shortlist!FirstOfName(s)) <=> \E i \in I : s[i] = x
  <2>1. Shortlist!FirstOfName(s) = AtPlaces(s, I)
    BY ShortlistLists DEF Shortlist!FirstOfName
  <2> HIDE DEF I
  <2>2. I \in SUBSET DOMAIN s
    BY DEF I
  <2>3. AtPlaces(s, I) \in Seq(X) /\ \A x : x \in Shortlist!ToSet(AtPlaces(s, I)) <=> \E i \in I : s[i] = x
    BY <2>2, AtPlacesLists
  <2> QED
    BY <2>1, <2>3
<1>2. ASSUME NEW f \in Shortlist!ToSet(s) PROVE \E g \in Shortlist!ToSet(Shortlist!FirstOfName(s)) : NameOf[g] = NameOf[f]
  <2> DEFINE named == {i \in DOMAIN s : NameOf[s[i]] = NameOf[f]}
  <2>1. named \in SUBSET Nat /\ named # {}
    BY DEF Shortlist!ToSet
  <2>2. PICK n \in named : \A m \in named : n <= m
    <3> HIDE DEF named
    <3> QED
      BY <2>1, LeastNumber
  <2>3. n \in I
    <3>1. n \in DOMAIN s /\ NameOf[s[n]] = NameOf[f]
      OBVIOUS
    <3>2. ASSUME NEW j \in 1..(n - 1) PROVE NameOf[s[j]] # NameOf[s[n]]
      BY <2>2, <3>1
    <3> QED
      BY <3>1, <3>2
  <2>4. s[n] \in Shortlist!ToSet(Shortlist!FirstOfName(s)) /\ NameOf[s[n]] = NameOf[f]
    BY <1>1, <2>3
  <2> QED
    BY <2>4
<1>3. Shortlist!ToSet(Shortlist!FirstOfName(s)) \subseteq Shortlist!ToSet(s)
  BY <1>1 DEF Shortlist!ToSet
<1> QED
  BY <1>1, <1>2, <1>3

(* What is known of the question; the shortlist has files the user may see, and what is forced onto it. *)
Forcing == askStep \in {"named", "workflow", "expand", "prune"}
SemanticDomains == UNION {DomainsOf[f] : f \in Shortlist!ToSet(AllFiles)}
Weighed == \A e \in DOMAIN wordEvidence : \A f \in Shortlist!ToSet(AllFiles) : \A n \in 1..8 : wordEvidence[e][f][n] \in Int
Asked ==
    /\ askStep \in {"ask", "resolve", "score", "search", "shortlist", "named", "workflow", "expand", "prune", "done", "none"}
    /\ visibleFiles \in Seq(Shortlist!ToSet(AllFiles)) /\ Weighed /\ questionWish \in Wishes
    /\ shortFiles \in Seq(Shortlist!ToSet(visibleFiles)) /\ (askStep = "ask" => shortFiles = <<>>)
    /\ requiredDomains \in Seq(SemanticDomains)
    /\ askStep \notin {"ask", "resolve", "score", "none"} =>
          /\ DOMAIN resolvedFiles = DOMAIN wordEvidence
          /\ \A e \in DOMAIN resolvedFiles : Shortlist!ToSet(resolvedFiles[e]) \subseteq Shortlist!ToSet(visibleFiles)
          /\ masterFiles \subseteq Shortlist!ToSet(visibleFiles)
    /\ Forcing => Shortlist!Pinned \subseteq Shortlist!ToSet(shortFiles)
    /\ askStep \in {"workflow", "expand", "prune", "done"} => Shortlist!ToSet(Shortlist!Mentioned) \subseteq Shortlist!ToSet(shortFiles)
    /\ askStep = "done" =>
          /\ \A f \in Shortlist!EntityPins : \E g \in Shortlist!ToSet(shortFiles) : NameOf[g] = NameOf[f]
          /\ Shortlist!Prunable \/ masterFiles \subseteq Shortlist!ToSet(shortFiles)

(* A score is a number, and one that pins has the name of the table or a reference behind it.            *)
LEMMA ScoresAreNumbers ==
    ASSUME NEW o, \A n \in 1..8 : o[n] \in Int
    PROVE  /\ Shortlist!Score(o) \in Int /\ Shortlist!Confidence(o) \in Int /\ Shortlist!ReasonRank(o) \in Int
           /\ Shortlist!Confidence(o) >= 75 => Shortlist!Fires(o, 4) \/ (Shortlist!Fires(o, 2) /\ ~Shortlist!Fires(o, 1))
<1>1. \A n \in 1..8 : Shortlist!SignalWeight[n] \in Int /\ Shortlist!SignalRank[n] \in Int
  BY DEF Shortlist!SignalWeight, Shortlist!SignalRank
<1>2. \A n \in 1..8 : Shortlist!Gain(o, n) \in Int
  BY <1>1 DEF Shortlist!Gain
<1>3. Shortlist!AllGains(o) \in Int
  BY <1>2 DEF Shortlist!AllGains
<1>4. Shortlist!Cap(o) \in {3500, 7400, 9500}
  BY DEF Shortlist!Cap
<1>5. Shortlist!Score(o) \in Int /\ Shortlist!Score(o) <= Shortlist!Cap(o)
  BY <1>3, <1>4 DEF Shortlist!Score, Shortlist!Least
<1>6. Shortlist!Confidence(o) \in Int /\ (Shortlist!Confidence(o) >= 75 => Shortlist!Score(o) >= 7450)
  BY <1>5 DEF Shortlist!Confidence
<1>7. Shortlist!Confidence(o) >= 75 => Shortlist!Cap(o) = 9500
  BY <1>4, <1>5, <1>6
<1>8. Shortlist!Cap(o) = 9500 => Shortlist!Fires(o, 4) \/ (Shortlist!Fires(o, 2) /\ ~Shortlist!Fires(o, 1))
  BY DEF Shortlist!Cap
<1>9. Shortlist!ReasonRank(o) \in Int
  <2> DEFINE first == {n \in 1..8 : Shortlist!Fires(o, n) /\ \A t \in 1..(n - 1) : ~Shortlist!Fires(o, t)}
             fired == {n \in 1..8 : Shortlist!Fires(o, n)}
  <2>1. fired # {} => first # {}
    <3>1. SUFFICES ASSUME fired # {} PROVE first # {}
      OBVIOUS
    <3>2. fired \in SUBSET Nat
      OBVIOUS
    <3>3. PICK n \in fired : \A m \in fired : n <= m
      <4> HIDE DEF fired
      <4> QED
        BY <3>1, <3>2, LeastNumber
    <3>4. \A t \in 1..(n - 1) : ~Shortlist!Fires(o, t)
      BY <3>3
    <3> QED
      BY <3>3, <3>4
  <2>2. ASSUME fired # {} PROVE (CHOOSE n \in 1..8 : Shortlist!Fires(o, n) /\ \A t \in 1..(n - 1) : ~Shortlist!Fires(o, t)) \in 1..8
    BY <2>1, <2>2
  <2>3. (\A n \in 1..8 : ~Shortlist!Fires(o, n)) \/ fired # {}
    OBVIOUS
  <2> HIDE DEF fired, first
  <2> QED
    BY <1>1, <2>2, <2>3 DEF Shortlist!ReasonRank
<1> QED
  BY <1>5, <1>6, <1>7, <1>8, <1>9

LEMMA CandidatesAreSeen ==
    ASSUME Shortlist!ConstantsOK, visibleFiles \in Seq(Shortlist!ToSet(AllFiles)), Weighed, NEW e \in DOMAIN wordEvidence
    PROVE  Shortlist!ToSet(Shortlist!Candidates(e)) \subseteq Shortlist!ToSet(visibleFiles)
<1> DEFINE scored == Shortlist!Those(visibleFiles, {f \in Shortlist!ToSet(visibleFiles) : Shortlist!Score(wordEvidence[e][f]) >= 100 * Emit})
           val == [f \in Shortlist!ToSet(visibleFiles) |-> Shortlist!Standing(e, f)]
           best == Shortlist!Descending(scored, val)
<1>1. visibleFiles \in Seq(Shortlist!ToSet(visibleFiles)) /\ Shortlist!ToSet(visibleFiles) \subseteq Shortlist!ToSet(AllFiles)
  BY ListsAreFinite
<1>2. scored \in Seq(Shortlist!ToSet(visibleFiles)) /\ Shortlist!ToSet(scored) \subseteq Shortlist!ToSet(visibleFiles)
  BY <1>1, PartsAreLists
<1>9. \A f \in Shortlist!ToSet(visibleFiles) : val[f] \in Int
  <2> TAKE f \in Shortlist!ToSet(visibleFiles)
  <2>1. f \in Shortlist!ToSet(AllFiles) /\ \A n \in 1..8 : wordEvidence[e][f][n] \in Int
    BY <1>1 DEF Weighed
  <2>2. Shortlist!Confidence(wordEvidence[e][f]) \in Int /\ Shortlist!ReasonRank(wordEvidence[e][f]) \in Int /\ TableRank[f] \in Int
    BY <2>1, ScoresAreNumbers DEF Shortlist!ConstantsOK
  <2>3. Shortlist!Standing(e, f) \in Int
    BY <2>2 DEF Shortlist!Standing
  <2> QED
    BY <2>3
<1> HIDE DEF scored, val
<1>3. \A i \in DOMAIN scored : val[scored[i]] \in Int
  BY <1>2, <1>9
<1>4. best \in Seq(Shortlist!ToSet(visibleFiles)) /\ Shortlist!ToSet(best) \subseteq Shortlist!ToSet(visibleFiles)
  <2>1. best = Descending(scored, val)
    BY ShortlistLists
  <2> QED
    BY <1>2, <1>3, <2>1, DescendingLists
<1>5. Shortlist!Candidates(e) = Shortlist!Top(Shortlist!FirstOfName(best), MaxCandidates)
  BY DEF Shortlist!Candidates, scored, val
<1> HIDE DEF best
<1>6. Shortlist!FirstOfName(best) \in Seq(Shortlist!ToSet(visibleFiles)) /\ Shortlist!ToSet(Shortlist!FirstOfName(best)) \subseteq Shortlist!ToSet(best)
  BY <1>4, NamesAreKept
<1>7. Shortlist!ToSet(Shortlist!Top(Shortlist!FirstOfName(best), MaxCandidates)) \subseteq Shortlist!ToSet(Shortlist!FirstOfName(best))
  BY <1>6, TopLists DEF Shortlist!ConstantsOK
<1> QED
  BY <1>4, <1>5, <1>6, <1>7

LEMMA PinsAreSeen ==
    ASSUME Shortlist!ConstantsOK, visibleFiles \in Seq(Shortlist!ToSet(AllFiles)), Weighed,
           DOMAIN resolvedFiles = DOMAIN wordEvidence, \A e \in DOMAIN resolvedFiles : Shortlist!ToSet(resolvedFiles[e]) \subseteq Shortlist!ToSet(visibleFiles),
           masterFiles \subseteq Shortlist!ToSet(visibleFiles)
    PROVE  /\ Shortlist!Pinned \subseteq Shortlist!ToSet(visibleFiles) /\ Shortlist!EntityPins \subseteq Shortlist!Scored(KeepLevel)
           /\ \A e \in DOMAIN resolvedFiles : \A f \in Shortlist!PinsOf(e) :
                 Shortlist!Fires(wordEvidence[e][f], 4) \/ (Shortlist!Fires(wordEvidence[e][f], 2) /\ ~Shortlist!Fires(wordEvidence[e][f], 1))
<1>1. Shortlist!ToSet(visibleFiles) \subseteq Shortlist!ToSet(AllFiles)
  BY ListsAreFinite
<1>2. ASSUME NEW e \in DOMAIN resolvedFiles, NEW f \in Shortlist!PinsOf(e)
      PROVE  f \in Shortlist!ToSet(resolvedFiles[e]) /\ Shortlist!Confidence(wordEvidence[e][f]) >= Pin
  <2>1. f \in Shortlist!AboveThreshold(e)
    BY <1>2 DEF Shortlist!PinsOf
  <2> QED
    BY <2>1 DEF Shortlist!AboveThreshold
<1>3. ASSUME NEW e \in DOMAIN resolvedFiles, NEW f \in Shortlist!PinsOf(e)
      PROVE  /\ f \in Shortlist!ToSet(visibleFiles) /\ f \in Shortlist!Scored(KeepLevel)
             /\ Shortlist!Fires(wordEvidence[e][f], 4) \/ (Shortlist!Fires(wordEvidence[e][f], 2) /\ ~Shortlist!Fires(wordEvidence[e][f], 1))
  <2> DEFINE conf == Shortlist!Confidence(wordEvidence[e][f])
  <2>1. f \in Shortlist!ToSet(resolvedFiles[e]) /\ conf >= Pin /\ f \in Shortlist!ToSet(visibleFiles)
    BY <1>2
  <2>2. \A n \in 1..8 : wordEvidence[e][f][n] \in Int
    BY <1>1, <2>1 DEF Weighed
  <2>3. /\ conf \in Int
        /\ conf >= 75 => Shortlist!Fires(wordEvidence[e][f], 4) \/ (Shortlist!Fires(wordEvidence[e][f], 2) /\ ~Shortlist!Fires(wordEvidence[e][f], 1))
    BY <2>2, ScoresAreNumbers
  <2>4. Pin \in Int /\ Pin >= 75 /\ KeepLevel \in Int /\ KeepLevel <= Pin
    BY DEF Shortlist!ConstantsOK
  <2> HIDE DEF conf
  <2>5. conf >= KeepLevel /\ conf >= 75
    BY <2>1, <2>3, <2>4
  <2>6. f \in Shortlist!Scored(KeepLevel)
    BY <2>1, <2>5 DEF Shortlist!Scored, conf
  <2> QED
    BY <2>1, <2>3, <2>5, <2>6
<1> QED
  BY <1>3 DEF Shortlist!Pinned, Shortlist!EntityPins

(* What is forced is on the list, and nothing out of sight comes onto it.                         *)
LEMMA ForcedLists ==
    ASSUME Shortlist!ConstantsOK, Asked, NEW list \in Seq(Shortlist!ToSet(visibleFiles)), NEW medium \in BOOLEAN, askStep = "shortlist"
    PROVE  /\ Shortlist!Forced(list, medium) \in Seq(Shortlist!ToSet(visibleFiles))
           /\ Shortlist!Pinned \subseteq Shortlist!ToSet(Shortlist!Forced(list, medium))
<1> DEFINE V == Shortlist!ToSet(visibleFiles)
           pins == Shortlist!Beside(Shortlist!Those(visibleFiles, Shortlist!Pinned), list)
           more == IF medium THEN Shortlist!Those(visibleFiles, Shortlist!Scored(Seed) \ Shortlist!Pinned) ELSE <<>>
           withMore == pins \o list \o Shortlist!Beside(more, pins \o list)
           prior == Shortlist!Those(questionWish.prior, Shortlist!ToSet(visibleFiles))
<1>1. visibleFiles \in Seq(V) /\ Shortlist!Pinned \subseteq V /\ Shortlist!ToSet(visibleFiles) = V
  BY ListsAreFinite, PinsAreSeen DEF Asked
<1>0. list \in Seq(V)
  OBVIOUS
<1> HIDE DEF V
<1>2. Shortlist!Those(visibleFiles, Shortlist!Pinned) \in Seq(V) /\ Shortlist!ToSet(Shortlist!Those(visibleFiles, Shortlist!Pinned)) = Shortlist!Pinned
  <2>1. Shortlist!Those(visibleFiles, Shortlist!Pinned) \in Seq(V) /\ Shortlist!ToSet(Shortlist!Those(visibleFiles, Shortlist!Pinned)) = Shortlist!ToSet(visibleFiles) \cap Shortlist!Pinned
    BY <1>1, PartsAreLists
  <2> QED
    BY <1>1, <2>1
<1>3. pins \in Seq(V) /\ Shortlist!ToSet(pins) = Shortlist!Pinned \ Shortlist!ToSet(list)
  BY <1>2, PartsAreLists DEF Shortlist!Beside
<1>4. more \in Seq(V)
  BY <1>1, PartsAreLists
<1> HIDE DEF pins, more
<1>5. pins \o list \in Seq(V) /\ Shortlist!Pinned \subseteq Shortlist!ToSet(pins \o list)
  <2>1. pins \o list \in Seq(V) /\ Shortlist!ToSet(pins \o list) = Shortlist!ToSet(pins) \cup Shortlist!ToSet(list)
    BY <1>0, <1>3, JoinedLists
  <2> QED
    BY <1>3, <2>1
<1>6. Shortlist!Beside(more, pins \o list) \in Seq(V)
  BY <1>4, PartsAreLists DEF Shortlist!Beside
<1>7. withMore \in Seq(V) /\ Shortlist!Pinned \subseteq Shortlist!ToSet(withMore)
  <2> DEFINE front == pins \o list
             rest == Shortlist!Beside(more, pins \o list)
  <2>1. front \in Seq(V) /\ rest \in Seq(V) /\ Shortlist!Pinned \subseteq Shortlist!ToSet(front) /\ withMore = front \o rest
    BY <1>5, <1>6
  <2> HIDE DEF front, rest, withMore
  <2>2. front \o rest \in Seq(V) /\ Shortlist!ToSet(front \o rest) = Shortlist!ToSet(front) \cup Shortlist!ToSet(rest)
    BY <2>1, JoinedLists
  <2> QED
    BY <2>1, <2>2
<1> HIDE DEF withMore
<1>8. prior \in Seq(V)
  <2>1. questionWish.prior \in Seq(Shortlist!ToSet(questionWish.prior))
    BY DEF Asked, Shortlist!ConstantsOK
  <2>2. prior \in Seq(Shortlist!ToSet(questionWish.prior)) /\ Shortlist!ToSet(prior) \subseteq V
    BY <2>1, PartsAreLists DEF V
  <2> HIDE DEF prior
  <2>3. prior \in Seq(Shortlist!ToSet(prior))
    BY <2>2, ListsAreFinite
  <2> QED
    BY <2>2, <2>3
<1> HIDE DEF prior
<1>9. Shortlist!Beside(prior, withMore) \in Seq(V)
  BY <1>8, PartsAreLists DEF Shortlist!Beside
<1>10. withMore \o Shortlist!Beside(prior, withMore) \in Seq(V) /\ Shortlist!Pinned \subseteq Shortlist!ToSet(withMore \o Shortlist!Beside(prior, withMore))
  <2> DEFINE rest == Shortlist!Beside(prior, withMore)
  <2> HIDE DEF rest
  <2>1. rest \in Seq(V)
    BY <1>9 DEF rest
  <2>2. withMore \o rest \in Seq(V) /\ Shortlist!ToSet(withMore \o rest) = Shortlist!ToSet(withMore) \cup Shortlist!ToSet(rest)
    BY <1>7, <2>1, JoinedLists
  <2>3. withMore \o rest \in Seq(V) /\ Shortlist!Pinned \subseteq Shortlist!ToSet(withMore \o rest)
    BY <1>7, <2>2
  <2> QED
    BY <2>3 DEF rest
<1>11. Shortlist!Forced(list, medium) = withMore \o Shortlist!Beside(prior, withMore)
  BY DEF Shortlist!Forced, withMore, prior, more, pins
<1> QED
  BY <1>10, <1>11 DEF V

(* The lists a question is answered from hold what the user may see.                               *)
LEMMA RankedLists ==
    ASSUME Shortlist!ConstantsOK, Asked, NEW ranked \in Shortlist!Permuted(Shortlist!ToSet(visibleFiles))
    PROVE  LET primary == Shortlist!Top(ranked, FusedFiles - LookupSlots)
               lookups == Shortlist!Those(Shortlist!Beside(ranked, primary), Lookups)
           IN  primary \o Shortlist!Top(lookups, LookupSlots) \in Seq(Shortlist!ToSet(visibleFiles))
<1> DEFINE V == Shortlist!ToSet(visibleFiles)
           primary == Shortlist!Top(ranked, FusedFiles - LookupSlots)
           rest == Shortlist!Beside(ranked, primary)
           lookups == Shortlist!Those(rest, Lookups)
           some == Shortlist!Top(lookups, LookupSlots)
<1>1. ranked \in Seq(V) /\ FusedFiles - LookupSlots \in Int /\ LookupSlots \in Int
  BY ListsAreFinite, OrdersAreLists DEF Asked, Shortlist!ConstantsOK
<1> HIDE DEF V
<1>2. primary \in Seq(V)
  BY <1>1, TopLists
<1>3. rest \in Seq(V)
  BY <1>1, PartsAreLists DEF Shortlist!Beside
<1> HIDE DEF primary, rest
<1>4. lookups \in Seq(V)
  BY <1>3, PartsAreLists
<1> HIDE DEF lookups
<1>5. some \in Seq(V)
  BY <1>1, <1>4, TopLists
<1> HIDE DEF some
<1>6. primary \o some \in Seq(V)
  BY <1>2, <1>5
<1> QED
  BY <1>6 DEF V, some, lookups, rest, primary

LEMMA RetrievedLists ==
    ASSUME Shortlist!ConstantsOK, Asked, NEW base \in Seq(Shortlist!ToSet(visibleFiles)), Shortlist!Pinned \subseteq Shortlist!ToSet(base), NEW T,
           NEW order \in Shortlist!Permuted(Shortlist!ToSet(Shortlist!Those(visibleFiles, T)))
    PROVE  /\ base \o Shortlist!Top(order, LookupSlots) \in Seq(Shortlist!ToSet(visibleFiles))
           /\ Shortlist!Pinned \subseteq Shortlist!ToSet(base \o Shortlist!Top(order, LookupSlots))
<1> DEFINE V == Shortlist!ToSet(visibleFiles)
           pool == Shortlist!Those(visibleFiles, T)
           some == Shortlist!Top(order, LookupSlots)
<1>1. visibleFiles \in Seq(V) /\ LookupSlots \in Int /\ base \in Seq(V)
  BY ListsAreFinite DEF Asked, Shortlist!ConstantsOK
<1> HIDE DEF V
<1>2. pool \in Seq(V) /\ order \in Shortlist!Permuted(Shortlist!ToSet(pool))
  BY <1>1, PartsAreLists
<1> HIDE DEF pool
<1>3. IsFiniteSet(Shortlist!ToSet(pool)) /\ Shortlist!ToSet(pool) \subseteq V
  BY <1>2, ListsAreFinite
<1>4. order \in Seq(V)
  BY <1>2, <1>3, OrdersAreLists
<1>5. some \in Seq(V)
  BY <1>1, <1>4, TopLists
<1> HIDE DEF some
<1>6. base \o some \in Seq(V) /\ Shortlist!ToSet(base \o some) = Shortlist!ToSet(base) \cup Shortlist!ToSet(some)
  BY <1>1, <1>5, JoinedLists
<1>7. base \o some \in Seq(V) /\ Shortlist!Pinned \subseteq Shortlist!ToSet(base \o some)
  BY <1>6
<1> QED
  BY <1>7 DEF V, some

LEMMA PruningKeepsNames ==
    ASSUME Shortlist!ConstantsOK, Asked, askStep = "prune"
    PROVE  /\ Shortlist!Pruned \in Seq(Shortlist!ToSet(visibleFiles))
           /\ Shortlist!ToSet(Shortlist!Mentioned) \subseteq Shortlist!ToSet(Shortlist!Pruned)
           /\ \A f \in Shortlist!EntityPins : \E g \in Shortlist!ToSet(Shortlist!Pruned) : NameOf[g] = NameOf[f]
           /\ Shortlist!Prunable \/ masterFiles \subseteq Shortlist!ToSet(Shortlist!Pruned)
<1> DEFINE V == Shortlist!ToSet(visibleFiles)
           kept == Shortlist!Those(shortFiles, Shortlist!Kept)
           left == Shortlist!FirstOfName(kept)
<1>1. shortFiles \in Seq(V) /\ Shortlist!Pinned \subseteq Shortlist!ToSet(shortFiles) /\ Shortlist!ToSet(Shortlist!Mentioned) \subseteq Shortlist!ToSet(shortFiles)
  BY DEF Asked, Forcing
<1>8. Shortlist!EntityPins \subseteq Shortlist!Pinned /\ masterFiles \subseteq Shortlist!Pinned
  BY DEF Shortlist!Pinned
<1>2. Shortlist!EntityPins \subseteq Shortlist!Kept
  BY PinsAreSeen DEF Asked, Shortlist!Kept
<1> HIDE DEF V
<1>3. kept \in Seq(V) /\ Shortlist!ToSet(kept) = Shortlist!ToSet(shortFiles) \cap Shortlist!Kept
  BY <1>1, PartsAreLists
<1> HIDE DEF kept
<1>4. left \in Seq(V) /\ \A f \in Shortlist!ToSet(kept) : \E g \in Shortlist!ToSet(left) : NameOf[g] = NameOf[f]
  BY <1>3, NamesAreKept
<1> HIDE DEF left
<1>5. Shortlist!Pruned = IF Shortlist!Prunable /\ Len(left) >= 3 THEN left ELSE shortFiles
  BY DEF Shortlist!Pruned, left, kept
<1>6. CASE Shortlist!Prunable /\ Len(left) >= 3
  <2>1. Shortlist!ToSet(Shortlist!Mentioned) = {}
    BY <1>6 DEF Shortlist!Prunable, Shortlist!ToSet
  <2>2. \A f \in Shortlist!EntityPins : f \in Shortlist!ToSet(kept)
    BY <1>1, <1>2, <1>3, <1>8
  <2> QED
    BY <1>4, <1>5, <1>6, <2>1, <2>2 DEF V
<1>7. CASE ~(Shortlist!Prunable /\ Len(left) >= 3)
  <2>1. Shortlist!Pruned = shortFiles
    BY <1>5, <1>7
  <2> QED
    BY <1>1, <1>8, <2>1 DEF V
<1> QED
  BY <1>6, <1>7

LEMMA MentionsAreSeen ==
    ASSUME Asked PROVE Shortlist!Mentioned \in Seq(Shortlist!ToSet(visibleFiles))
<1> DEFINE V == Shortlist!ToSet(visibleFiles)
<1>1. visibleFiles \in Seq(V)
  BY ListsAreFinite DEF Asked
<1> HIDE DEF V
<1>2. Shortlist!Those(visibleFiles, questionWish.named) \in Seq(V)
  BY <1>1, PartsAreLists
<1> QED
  BY <1>2 DEF V, Shortlist!Mentioned

(* Two joined lists of what is seen hold what each of them holds.                                  *)
LEMMA JoinedSeen ==
    ASSUME NEW V, NEW s \in Seq(V), NEW t \in Seq(V), NEW P, P \subseteq Shortlist!ToSet(s)
    PROVE  s \o t \in Seq(V) /\ P \subseteq Shortlist!ToSet(s \o t)
BY JoinedLists

LEMMA MentionedFirst ==
    ASSUME Asked
    PROVE  LET list == Shortlist!Mentioned \o Shortlist!Beside(shortFiles, Shortlist!Mentioned)
           IN  /\ list \in Seq(Shortlist!ToSet(visibleFiles))
               /\ Shortlist!ToSet(Shortlist!Mentioned) \subseteq Shortlist!ToSet(list) /\ Shortlist!ToSet(shortFiles) \subseteq Shortlist!ToSet(list)
<1> DEFINE V == Shortlist!ToSet(visibleFiles)
           front == Shortlist!Mentioned
           rest == Shortlist!Beside(shortFiles, Shortlist!Mentioned)
<1>1. shortFiles \in Seq(V) /\ front \in Seq(V)
  BY MentionsAreSeen DEF Asked
<1> HIDE DEF V
<1>2. rest \in Seq(V) /\ Shortlist!ToSet(rest) = Shortlist!ToSet(shortFiles) \ Shortlist!ToSet(front)
  <2>1. rest = Shortlist!Those(shortFiles, Shortlist!ToSet(shortFiles) \ Shortlist!ToSet(front))
    BY DEF Shortlist!Beside
  <2>2. rest \in Seq(V) /\ Shortlist!ToSet(rest) = Shortlist!ToSet(shortFiles) \cap (Shortlist!ToSet(shortFiles) \ Shortlist!ToSet(front))
    BY <1>1, <2>1, PartsAreLists
  <2> QED
    BY <2>2
<1> HIDE DEF front, rest
<1>3. front \o rest \in Seq(V) /\ Shortlist!ToSet(front \o rest) = Shortlist!ToSet(front) \cup Shortlist!ToSet(rest)
  BY <1>1, <1>2, JoinedLists
<1>4. front \o rest \in Seq(V) /\ Shortlist!ToSet(front) \subseteq Shortlist!ToSet(front \o rest) /\ Shortlist!ToSet(shortFiles) \subseteq Shortlist!ToSet(front \o rest)
  BY <1>2, <1>3
<1> QED
  BY <1>4 DEF V, front, rest

(* A list with each of its members once; what does not fit into a number of places fills them.             *)
LEMMA EachIsListed ==
    ASSUME NEW X, NEW s \in Seq(X)
    PROVE  Shortlist!FirstOfEach(s) \in Seq(X) /\ Shortlist!ToSet(Shortlist!FirstOfEach(s)) = Shortlist!ToSet(s)
<1> DEFINE I == {i \in DOMAIN s : \A j \in 1..(i - 1) : s[j] # s[i]}
<1>1. Shortlist!FirstOfEach(s) \in Seq(X) /\ \A x : x \in Shortlist!ToSet(Shortlist!FirstOfEach(s)) <=> \E i \in I : s[i] = x
  <2>1. Shortlist!FirstOfEach(s) = AtPlaces(s, I)
    BY ShortlistLists DEF Shortlist!FirstOfEach
  <2> HIDE DEF I
  <2>2. I \in SUBSET DOMAIN s
    BY DEF I
  <2>3. AtPlaces(s, I) \in Seq(X) /\ \A x : x \in Shortlist!ToSet(AtPlaces(s, I)) <=> \E i \in I : s[i] = x
    BY <2>2, AtPlacesLists
  <2> QED
    BY <2>1, <2>3
<1>2. ASSUME NEW x \in Shortlist!ToSet(s) PROVE \E i \in I : s[i] = x
  <2> DEFINE spots == {i \in DOMAIN s : s[i] = x}
  <2>1. spots \in SUBSET Nat /\ spots # {}
    BY DEF Shortlist!ToSet
  <2>2. PICK n \in spots : \A m \in spots : n <= m
    <3> HIDE DEF spots
    <3> QED
      BY <2>1, LeastNumber
  <2>3. n \in DOMAIN s /\ s[n] = x
    OBVIOUS
  <2>4. \A j \in 1..(n - 1) : s[j] # s[n]
    BY <2>2, <2>3
  <2> QED
    BY <2>3, <2>4
<1>3. \A x : (\E i \in I : s[i] = x) => x \in Shortlist!ToSet(s)
  BY DEF Shortlist!ToSet
<1> QED
  BY <1>1, <1>2, <1>3

LEMMA TopFills ==
    ASSUME NEW X, NEW s \in Seq(X), NEW n \in Nat
    PROVE  Shortlist!Top(s, n) = s \/ Len(Shortlist!Top(s, n)) = n
<1>1. CASE n < Len(s)
  BY <1>1 DEF Shortlist!Top
<1>2. CASE ~(n < Len(s))
  <2>1. Shortlist!Top(s, n) = SubSeq(s, 1, Len(s))
    BY <1>2 DEF Shortlist!Top
  <2> QED
    BY <2>1
<1> QED
  BY <1>1, <1>2

(* What a round of the closure makes of a list of domains.                                         *)
LEMMA MoreLists ==
    ASSUME Shortlist!ConstantsOK, NEW start \in Seq(SemanticDomains), NEW S \in SUBSET SemanticDomains, NEW r \in Shortlist!More(start, S)
    PROVE  r \in Seq(SemanticDomains)
<1> DEFINE D == SemanticDomains
           T == S \ Shortlist!ToSet(start)
<1>1. IsFiniteSet(D) /\ S \subseteq D /\ start \in Seq(D)
  <2>1. IsFiniteSet(D)
    BY ShortlistSizes DEF Shortlist!ConstantsOK, Shortlist!IsFiniteSet, IsFiniteSet, SemanticDomains
  <2> QED
    BY <2>1
<1> HIDE DEF D
<1>2. IsFiniteSet(T) /\ T \subseteq D
  BY <1>1, FS_Subset
<1> HIDE DEF T
<1>3. PICK order \in Shortlist!Permuted(T) : r = Shortlist!Top(start \o order, MaxDomains)
  BY DEF Shortlist!More, T
<1>4. order \in Seq(D)
  BY <1>2, OrdersAreLists
<1>5. start \o order \in Seq(D) /\ MaxDomains \in Int
  BY <1>1, <1>4 DEF Shortlist!ConstantsOK
<1> DEFINE both == start \o order
<1> HIDE DEF both
<1>6. Shortlist!Top(both, MaxDomains) \in Seq(D)
  BY <1>5, TopLists DEF both
<1> QED
  BY <1>3, <1>6 DEF D, both

(* What the closure of a question requires are domains of the catalog.                               *)
LEMMA RequiredAreDomains ==
    ASSUME Shortlist!ConstantsOK, Asked, Shortlist!Workflow
    PROVE  requiredDomains' \in Seq(SemanticDomains)
<1> DEFINE D == SemanticDomains
<1>1. /\ Shortlist!ToSet(shortFiles) \subseteq Shortlist!ToSet(AllFiles)
      /\ Shortlist!ToSet(visibleFiles) \subseteq Shortlist!ToSet(AllFiles)
  <2>1. Shortlist!ToSet(visibleFiles) \subseteq Shortlist!ToSet(AllFiles) /\ Shortlist!ToSet(shortFiles) \subseteq Shortlist!ToSet(visibleFiles)
    BY ListsAreFinite DEF Asked
  <2> QED
    BY <2>1
<1>2. Shortlist!ByEntities \in SUBSET D
  BY <1>1 DEF Shortlist!ByEntities, SemanticDomains
<1>3. Shortlist!ByShortlist \in SUBSET D
  BY <1>1 DEF Shortlist!ByShortlist, SemanticDomains
<1>4. ASSUME NEW labels, NEW around PROVE Shortlist!ViaRoles(labels, around) \in SUBSET D
  <2> DEFINE holders == {f \in Shortlist!ToSet(visibleFiles) : Shortlist!Labels(DomainsOf[f]) \cap labels # {}}
             athand == holders \cap (Shortlist!ToSet(shortFiles) \cup foundCandidates \cup around)
             active_files == IF athand = {} THEN holders ELSE athand
  <2>1. active_files \subseteq Shortlist!ToSet(AllFiles)
    BY <1>1
  <2>2. Shortlist!ViaRoles(labels, around) = UNION {{d \in DomainsOf[f] : d.type # "dimension" \/ f \in Shortlist!ToSet(shortFiles)} : f \in active_files}
    BY DEF Shortlist!ViaRoles
  <2> HIDE DEF active_files
  <2>3. ASSUME NEW d \in Shortlist!ViaRoles(labels, around) PROVE d \in D
    <3>1. PICK f \in active_files : d \in DomainsOf[f]
      BY <2>2
    <3> QED
      BY <2>1, <3>1 DEF SemanticDomains
  <2> QED
    BY <2>3
<1>5. ASSUME NEW around PROVE Shortlist!ViaGraph(around) \in SUBSET D /\ {} \in SUBSET D
  BY <1>1 DEF Shortlist!ViaGraph, SemanticDomains
<1>6. PICK around \in Shortlist!Around :
        \E named \in Shortlist!More(<<>>, Shortlist!ByEntities) :
        \E direct \in Shortlist!More(named, Shortlist!ByShortlist) :
        \E byRoles \in Shortlist!More(direct, Shortlist!ViaRoles(Shortlist!Labels(Shortlist!ToSet(direct)), around)) :
        \E linked \in Shortlist!More(byRoles, IF direct = <<>> THEN {} ELSE Shortlist!ViaGraph(around)) :
           requiredDomains' \in Shortlist!More(linked, Shortlist!ViaRoles(Shortlist!Labels(Shortlist!ToSet(byRoles) \ Shortlist!ToSet(direct)), around))
  BY DEF Shortlist!Workflow
<1>7. PICK named \in Shortlist!More(<<>>, Shortlist!ByEntities) :
        \E direct \in Shortlist!More(named, Shortlist!ByShortlist) :
        \E byRoles \in Shortlist!More(direct, Shortlist!ViaRoles(Shortlist!Labels(Shortlist!ToSet(direct)), around)) :
        \E linked \in Shortlist!More(byRoles, IF direct = <<>> THEN {} ELSE Shortlist!ViaGraph(around)) :
           requiredDomains' \in Shortlist!More(linked, Shortlist!ViaRoles(Shortlist!Labels(Shortlist!ToSet(byRoles) \ Shortlist!ToSet(direct)), around))
  BY <1>6
<1>8. PICK direct \in Shortlist!More(named, Shortlist!ByShortlist) :
        \E byRoles \in Shortlist!More(direct, Shortlist!ViaRoles(Shortlist!Labels(Shortlist!ToSet(direct)), around)) :
        \E linked \in Shortlist!More(byRoles, IF direct = <<>> THEN {} ELSE Shortlist!ViaGraph(around)) :
           requiredDomains' \in Shortlist!More(linked, Shortlist!ViaRoles(Shortlist!Labels(Shortlist!ToSet(byRoles) \ Shortlist!ToSet(direct)), around))
  BY <1>7
<1>9. PICK byRoles \in Shortlist!More(direct, Shortlist!ViaRoles(Shortlist!Labels(Shortlist!ToSet(direct)), around)) :
        \E linked \in Shortlist!More(byRoles, IF direct = <<>> THEN {} ELSE Shortlist!ViaGraph(around)) :
           requiredDomains' \in Shortlist!More(linked, Shortlist!ViaRoles(Shortlist!Labels(Shortlist!ToSet(byRoles) \ Shortlist!ToSet(direct)), around))
  BY <1>8
<1>10. PICK linked \in Shortlist!More(byRoles, IF direct = <<>> THEN {} ELSE Shortlist!ViaGraph(around)) :
           requiredDomains' \in Shortlist!More(linked, Shortlist!ViaRoles(Shortlist!Labels(Shortlist!ToSet(byRoles) \ Shortlist!ToSet(direct)), around))
  BY <1>9
<1>15. <<>> \in Seq(D)
  OBVIOUS
<1>11. named \in Seq(D)
  BY <1>2, <1>15, MoreLists
<1>12. direct \in Seq(D)
  BY <1>3, <1>11, MoreLists
<1>13. byRoles \in Seq(D)
  BY <1>4, <1>12, MoreLists
<1>14. linked \in Seq(D)
  <2> DEFINE S == IF direct = <<>> THEN {} ELSE Shortlist!ViaGraph(around)
  <2>1. S \in SUBSET D /\ linked \in Shortlist!More(byRoles, S)
    BY <1>5
  <2> HIDE DEF S
  <2> QED
    BY <1>13, <2>1, MoreLists
<1> QED
  BY <1>4, <1>10, <1>14, MoreLists

(* What the expansion offers are files the user may see.                                            *)
LEMMA LackingAreDomains ==
    ASSUME Asked
    PROVE  /\ Shortlist!Lacking \in Seq(SemanticDomains)
           /\ Shortlist!ToSet(Shortlist!Lacking) = {d \in Shortlist!ToSet(requiredDomains) : Shortlist!Having(d) \cap Shortlist!ToSet(shortFiles) = {}}
<1> DEFINE T == {d \in Shortlist!ToSet(requiredDomains) : Shortlist!Having(d) \cap Shortlist!ToSet(shortFiles) = {}}
           D == SemanticDomains
<1>1. T \subseteq Shortlist!ToSet(requiredDomains) /\ requiredDomains \in Seq(D)
  BY DEF Asked
<1>2. Shortlist!Lacking = Shortlist!Those(requiredDomains, T)
  BY DEF Shortlist!Lacking
<1> HIDE DEF T, D
<1>3. Shortlist!Those(requiredDomains, T) \in Seq(D) /\ Shortlist!ToSet(Shortlist!Those(requiredDomains, T)) = Shortlist!ToSet(requiredDomains) \cap T
  BY <1>1, PartsAreLists
<1>4. Shortlist!ToSet(requiredDomains) \cap T = T
  BY <1>1
<1> QED
  BY <1>2, <1>3, <1>4 DEF T, D

LEMMA OffersAreLists ==
    ASSUME Shortlist!ConstantsOK, Asked, NEW gaps \in Shortlist!GapOffers, NEW withRoles \in Shortlist!RoleOffers, NEW thin \in Shortlist!ThinOffers
    PROVE  /\ gaps \o withRoles \o thin \in Seq(Shortlist!ToSet(visibleFiles))
           /\ Shortlist!ToSet(gaps) \subseteq Shortlist!ToSet(gaps \o withRoles \o thin)
           /\ Shortlist!Needed => \A i \in DOMAIN Shortlist!Lacking : \E f \in Shortlist!ToSet(gaps) : f \in Shortlist!Having(Shortlist!Lacking[i])
<1> DEFINE V == Shortlist!ToSet(visibleFiles)
           L == Shortlist!Lacking
<1>1. L \in Seq(SemanticDomains) /\ IsFiniteSet(V)
  BY LackingAreDomains, ListsAreFinite DEF Asked
<1>2. /\ gaps \in Seq(V)
      /\ Shortlist!Needed => \A i \in DOMAIN L : \E f \in Shortlist!ToSet(gaps) : f \in Shortlist!Having(L[i])
  <2>1. CASE ~Shortlist!Needed
    <3>1. gaps = <<>>
      BY <2>1 DEF Shortlist!GapOffers
    <3> QED
      BY <2>1, <3>1
  <2>2. CASE Shortlist!Needed
    <3>1. \E p \in Shortlist!Ranked \X Shortlist!Ranked : gaps = p[1] \o p[2]
      BY <2>2 DEF Shortlist!GapOffers
    <3>2. PICK first \in Shortlist!Ranked, second \in Shortlist!Ranked : gaps = first \o second
      BY <3>1
    <3>3. /\ first \in [DOMAIN L -> V] /\ second \in [DOMAIN L -> V]
          /\ \A i \in DOMAIN L : first[i] \in Shortlist!Having(L[i])
      BY DEF Shortlist!Ranked
    <3> HIDE DEF L, V
    <3>4. first \in Seq(V) /\ second \in Seq(V) /\ DOMAIN first = DOMAIN L
      BY <1>1, <3>3
    <3>5. gaps \in Seq(V) /\ Shortlist!ToSet(gaps) = Shortlist!ToSet(first) \cup Shortlist!ToSet(second)
      BY <3>2, <3>4, JoinedLists
    <3>6. \A i \in DOMAIN L : first[i] \in Shortlist!ToSet(first)
      BY <3>4 DEF Shortlist!ToSet
    <3> QED
      BY <3>3, <3>5, <3>6
  <2> QED
    BY <2>1, <2>2
<1>3. withRoles \in Seq(V)
  <2> DEFINE S == (HasRoles \cap V) \ Shortlist!ToSet(shortFiles)
  <2>1. IsFiniteSet(S) /\ S \subseteq V
    BY <1>1, FS_Subset
  <2>2. withRoles \in Shortlist!Permuted(S) \/ withRoles = <<>>
    BY DEF Shortlist!RoleOffers
  <2> HIDE DEF S, V
  <2>3. ASSUME withRoles \in Shortlist!Permuted(S) PROVE withRoles \in Seq(V)
    <3>1. withRoles \in Seq(S)
      BY <2>1, <2>3, OrdersAreLists
    <3> QED
      BY <2>1, <3>1
  <2>4. <<>> \in Seq(V)
    OBVIOUS
  <2> QED
    BY <2>2, <2>3, <2>4
<1>4. thin \in Seq(V)
  <2> DEFINE further == UNION {Shortlist!Having(d) : d \in {x \in Shortlist!ToSet(requiredDomains) : x.type = "entity"}} \ Shortlist!ToSet(shortFiles)
  <2>1. further \subseteq V
    BY DEF Shortlist!Having
  <2>2. thin = <<>> \/ \E some \in SUBSET further : thin \in Shortlist!Permuted(some)
    BY DEF Shortlist!ThinOffers
  <2> HIDE DEF further, V
  <2>3. ASSUME NEW some \in SUBSET further, thin \in Shortlist!Permuted(some) PROVE thin \in Seq(V)
    <3>1. IsFiniteSet(some) /\ some \subseteq V
      BY <1>1, <2>1, FS_Subset
    <3> QED
      BY <2>3, <3>1, OrdersAreLists
  <2>4. <<>> \in Seq(V)
    OBVIOUS
  <2> QED
    BY <2>2, <2>3, <2>4
<1> HIDE DEF V, L
<1>5. gaps \o withRoles \in Seq(V) /\ Shortlist!ToSet(gaps \o withRoles) = Shortlist!ToSet(gaps) \cup Shortlist!ToSet(withRoles)
  BY <1>2, <1>3, JoinedLists
<1> DEFINE two == gaps \o withRoles
<1>7. two \in Seq(V)
  BY <1>5
<1> HIDE DEF two
<1>6. two \o thin \in Seq(V) /\ Shortlist!ToSet(two \o thin) = Shortlist!ToSet(two) \cup Shortlist!ToSet(thin)
  BY <1>4, <1>7, JoinedLists
<1> QED
  BY <1>2, <1>5, <1>6 DEF two, V, L

LEMMA OffersAreSeen ==
    ASSUME Shortlist!ConstantsOK, Asked, NEW gaps \in Shortlist!GapOffers, NEW withRoles \in Shortlist!RoleOffers, NEW thin \in Shortlist!ThinOffers
    PROVE  LET listed == Shortlist!FirstOfEach(Shortlist!Beside(gaps \o withRoles \o thin, shortFiles))
           IN  /\ Shortlist!Room \in Nat /\ listed \in Seq(Shortlist!ToSet(visibleFiles))
               /\ Shortlist!ToSet(gaps) \subseteq Shortlist!ToSet(listed) \cup Shortlist!ToSet(shortFiles)
               /\ Shortlist!Top(listed, Shortlist!Room) \in Seq(Shortlist!ToSet(visibleFiles))
<1> DEFINE V == Shortlist!ToSet(visibleFiles)
           offers == gaps \o withRoles \o thin
           rest == Shortlist!Beside(offers, shortFiles)
           listed == Shortlist!FirstOfEach(rest)
<1>1. offers \in Seq(V) /\ Shortlist!ToSet(gaps) \subseteq Shortlist!ToSet(offers) /\ shortFiles \in Seq(V)
  BY OffersAreLists DEF Asked
<1>2. Shortlist!Room \in Nat
  BY <1>1 DEF Shortlist!Room, Shortlist!Least, Shortlist!ConstantsOK
<1> HIDE DEF V, offers
<1>3. rest \in Seq(V) /\ Shortlist!ToSet(rest) = Shortlist!ToSet(offers) \cap (Shortlist!ToSet(offers) \ Shortlist!ToSet(shortFiles))
  BY <1>1, PartsAreLists DEF Shortlist!Beside
<1> HIDE DEF rest
<1>4. listed \in Seq(V) /\ Shortlist!ToSet(listed) = Shortlist!ToSet(rest)
  BY <1>3, EachIsListed
<1> HIDE DEF listed
<1>5. Shortlist!Top(listed, Shortlist!Room) \in Seq(V)
  BY <1>2, <1>4, TopLists
<1>6. Shortlist!ToSet(gaps) \subseteq Shortlist!ToSet(listed) \cup Shortlist!ToSet(shortFiles)
  BY <1>1, <1>3, <1>4
<1> QED
  BY <1>2, <1>4, <1>5, <1>6 DEF V, listed, rest, offers

(* What the entities pin and the question names are of the question alone.                         *)
LEMMA PinsStay == ASSUME UNCHANGED Shortlist!question PROVE /\ Shortlist!Pinned' = Shortlist!Pinned /\ Shortlist!EntityPins' = Shortlist!EntityPins
                                                           /\ Shortlist!Mentioned' = Shortlist!Mentioned /\ Shortlist!Prunable' = Shortlist!Prunable
BY DEF Shortlist!question, Shortlist!EntityPins, Shortlist!Prunable, Shortlist!inputs, Shortlist!Pinned, Shortlist!PinsOf, Shortlist!AboveThreshold, Shortlist!Mentioned

LEMMA AskedInit == ASSUME Shortlist!ConstantsOK, Shortlist!Init PROVE Asked
<1>1. Weighed
  <2>1. wordEvidence \in Resolutions
    BY DEF Shortlist!Init
  <2>2. \A c \in Resolutions : \A e \in DOMAIN c : \A f \in Shortlist!ToSet(AllFiles) : \A s \in 1..8 : c[e][f][s] \in Int
    BY DEF Shortlist!ConstantsOK
  <2> QED
    BY <2>1, <2>2, Zenon DEF Weighed
<1> QED
  BY <1>1 DEF Shortlist!Init, Asked, Forcing

LEMMA AskedStep == ASSUME Shortlist!ConstantsOK, Asked, [Shortlist!Next]_(Shortlist!vars) PROVE Asked'
<1>1. CASE Shortlist!LoadCatalog
  <2>1. PICK allowed \in UserDomains : visibleFiles' = Shortlist!Those(AllFiles, {f \in Shortlist!ToSet(AllFiles) : Shortlist!InDomains(f, allowed)})
    BY <1>1 DEF Shortlist!LoadCatalog
  <2>2. visibleFiles' \in Seq(Shortlist!ToSet(AllFiles))
    <3> DEFINE C == Shortlist!ToSet(AllFiles)
               mine == {f \in Shortlist!ToSet(AllFiles) : Shortlist!InDomains(f, allowed)}
    <3>1. AllFiles \in Seq(C)
      BY DEF Shortlist!ConstantsOK
    <3> HIDE DEF C, mine
    <3>2. Shortlist!Those(AllFiles, mine) \in Seq(C)
      BY <3>1, PartsAreLists
    <3> QED
      BY <2>1, <3>2 DEF C, mine
  <2>3. shortFiles = <<>>
    BY <1>1 DEF Shortlist!LoadCatalog, Asked
  <2> QED
    BY <1>1, <2>2, <2>3 DEF Shortlist!LoadCatalog, Shortlist!inputs, Asked, Forcing, Weighed
<1>10. CASE Shortlist!ReadRoles
  <2>1. wordEvidence' \in {wordEvidence, Shortlist!WithoutRoles} /\ UNCHANGED <<visibleFiles, questionWish, shortFiles, requiredDomains>> /\ askStep' = "score" /\ askStep = "resolve"
    BY <1>10 DEF Shortlist!ReadRoles, Shortlist!inputs
  <2>2. Weighed'
    <3>1. CASE wordEvidence' = wordEvidence
      BY <3>1 DEF Asked, Weighed
    <3>2. CASE wordEvidence' = Shortlist!WithoutRoles
      <4>1. DOMAIN Shortlist!WithoutRoles = DOMAIN wordEvidence
        BY DEF Shortlist!WithoutRoles
      <4>2. ASSUME NEW e \in DOMAIN wordEvidence, NEW f \in Shortlist!ToSet(AllFiles), NEW n \in 1..8 PROVE Shortlist!WithoutRoles[e][f][n] \in Int
        BY DEF Shortlist!WithoutRoles, Asked, Weighed
      <4> QED
        BY <3>2, <4>1, <4>2 DEF Weighed
    <3> QED
      BY <2>1, <3>1, <3>2
  <2> QED
    BY <2>1, <2>2 DEF Asked, Forcing
<1>2. CASE Shortlist!ResolveEntities
  <2>1. resolvedFiles' = [e \in DOMAIN wordEvidence |-> Shortlist!Candidates(e)] /\ UNCHANGED <<visibleFiles, wordEvidence, questionWish, shortFiles, requiredDomains>> /\ askStep' = "search" /\ askStep = "score"
    BY <1>2 DEF Shortlist!ResolveEntities, Shortlist!inputs
  <2>2. \A e \in DOMAIN wordEvidence : Shortlist!ToSet(Shortlist!Candidates(e)) \subseteq Shortlist!ToSet(visibleFiles)
    BY CandidatesAreSeen DEF Asked
  <2>5. masterFiles' \subseteq Shortlist!ToSet(visibleFiles)
    BY <1>2 DEF Shortlist!ResolveEntities, Shortlist!MasterPins
  <2>3. DOMAIN resolvedFiles' = DOMAIN wordEvidence /\ \A e \in DOMAIN wordEvidence : Shortlist!ToSet(resolvedFiles'[e]) \subseteq Shortlist!ToSet(visibleFiles)
    BY <2>1, <2>2
  <2>4. Weighed'
    BY <2>1 DEF Asked, Weighed
  <2> QED
    BY <2>1, <2>3, <2>4, <2>5 DEF Asked, Forcing
<1>3. CASE Shortlist!Retrieve \/ Shortlist!Failed
  BY <1>3 DEF Shortlist!Retrieve, Shortlist!Failed, Asked, Forcing, Weighed, Shortlist!question, Shortlist!inputs
<1>4. CASE Shortlist!Retrieved
  <2> DEFINE base == Shortlist!Forced(Shortlist!Those(visibleFiles, Shortlist!ToSet(foundFiles)), TRUE)
             T == (Lookups \cap (Shortlist!ToSet(foundFiles) \cup Shortlist!Neighbours(Shortlist!ToSet(foundFiles)))) \ Shortlist!ToSet(base)
  <2>1. PICK order \in Shortlist!Permuted(Shortlist!ToSet(Shortlist!Those(visibleFiles, T))) : shortFiles' = base \o Shortlist!Top(order, LookupSlots)
    BY <1>4 DEF Shortlist!Retrieved
  <2>2. Shortlist!Those(visibleFiles, Shortlist!ToSet(foundFiles)) \in Seq(Shortlist!ToSet(visibleFiles))
    <3> DEFINE V == Shortlist!ToSet(visibleFiles)
               F == Shortlist!ToSet(foundFiles)
    <3>1. visibleFiles \in Seq(V)
      BY ListsAreFinite DEF Asked
    <3> HIDE DEF V, F
    <3>2. Shortlist!Those(visibleFiles, F) \in Seq(V)
      BY <3>1, PartsAreLists
    <3> QED
      BY <3>2 DEF V, F
  <2>3. base \in Seq(Shortlist!ToSet(visibleFiles)) /\ Shortlist!Pinned \subseteq Shortlist!ToSet(base)
    BY <1>4, <2>2, ForcedLists DEF Shortlist!Retrieved
  <2> HIDE DEF base, T
  <2>4. shortFiles' \in Seq(Shortlist!ToSet(visibleFiles)) /\ Shortlist!Pinned \subseteq Shortlist!ToSet(shortFiles')
    BY <2>1, <2>3, RetrievedLists
  <2>5. askStep = "shortlist" /\ askStep' = "named" /\ UNCHANGED <<Shortlist!question, requiredDomains>>
    BY <1>4 DEF Shortlist!Retrieved
  <2> QED
    BY <2>4, <2>5, PinsStay DEF Asked, Forcing, Weighed, Shortlist!question, Shortlist!inputs
<1>5. CASE Shortlist!Recovered
  <2>1. PICK ranked \in Shortlist!Permuted(Shortlist!ToSet(visibleFiles)) :
           shortFiles' = LET primary == Shortlist!Top(ranked, FusedFiles - LookupSlots)
                            lookups == Shortlist!Those(Shortlist!Beside(ranked, primary), Lookups)
                        IN  Shortlist!Forced(primary \o Shortlist!Top(lookups, LookupSlots), FALSE)
    BY <1>5 DEF Shortlist!Recovered
  <2> DEFINE primary == Shortlist!Top(ranked, FusedFiles - LookupSlots)
             list == primary \o Shortlist!Top(Shortlist!Those(Shortlist!Beside(ranked, primary), Lookups), LookupSlots)
  <2>2. list \in Seq(Shortlist!ToSet(visibleFiles)) /\ shortFiles' = Shortlist!Forced(list, FALSE)
    BY <2>1, RankedLists
  <2> HIDE DEF list
  <2>3. askStep = "shortlist" /\ askStep' = "named" /\ UNCHANGED <<Shortlist!question, requiredDomains>>
    BY <1>5 DEF Shortlist!Recovered
  <2>4. shortFiles' \in Seq(Shortlist!ToSet(visibleFiles)) /\ Shortlist!Pinned \subseteq Shortlist!ToSet(shortFiles')
    BY <2>2, <2>3, ForcedLists
  <2> QED
    BY <2>3, <2>4, PinsStay DEF Asked, Forcing, Weighed, Shortlist!question, Shortlist!inputs
<1>6. CASE Shortlist!MentionFirst
  <2>1. askStep = "named" /\ askStep' = "workflow" /\ UNCHANGED <<Shortlist!question, requiredDomains>> /\ shortFiles' = Shortlist!Mentioned \o Shortlist!Beside(shortFiles, Shortlist!Mentioned)
    BY <1>6 DEF Shortlist!MentionFirst
  <2>2. Shortlist!Pinned \subseteq Shortlist!ToSet(shortFiles)
    BY <2>1 DEF Asked, Forcing
  <2>3. /\ shortFiles' \in Seq(Shortlist!ToSet(visibleFiles))
        /\ Shortlist!Pinned \subseteq Shortlist!ToSet(shortFiles') /\ Shortlist!ToSet(Shortlist!Mentioned) \subseteq Shortlist!ToSet(shortFiles')
    BY <2>1, <2>2, MentionedFirst
  <2> QED
    BY <2>1, <2>3, PinsStay DEF Asked, Forcing, Weighed, Shortlist!question, Shortlist!inputs
<1>11. CASE Shortlist!Workflow
  <2>1. askStep = "workflow" /\ askStep' = "expand" /\ UNCHANGED Shortlist!question /\ shortFiles' = shortFiles
    BY <1>11 DEF Shortlist!Workflow
  <2>2. requiredDomains' \in Seq(SemanticDomains)
    BY <1>11, RequiredAreDomains
  <2> QED
    BY <2>1, <2>2, PinsStay DEF Asked, Forcing, Weighed, Shortlist!question, Shortlist!inputs
<1>7. CASE Shortlist!Expand
  <2>1. PICK gaps \in Shortlist!GapOffers : \E withRoles \in Shortlist!RoleOffers, thin \in Shortlist!ThinOffers :
           shortFiles' = shortFiles \o Shortlist!Top(Shortlist!FirstOfEach(Shortlist!Beside(gaps \o withRoles \o thin, shortFiles)), Shortlist!Room)
    BY <1>7 DEF Shortlist!Expand
  <2>2. askStep = "expand" /\ askStep' = "prune" /\ UNCHANGED <<Shortlist!question, requiredDomains>>
    BY <1>7 DEF Shortlist!Expand
  <2>3. Shortlist!Pinned \subseteq Shortlist!ToSet(shortFiles) /\ Shortlist!ToSet(Shortlist!Mentioned) \subseteq Shortlist!ToSet(shortFiles) /\ shortFiles \in Seq(Shortlist!ToSet(visibleFiles))
    BY <2>2 DEF Asked, Forcing
  <2>4. PICK added \in Seq(Shortlist!ToSet(visibleFiles)) : shortFiles' = shortFiles \o added
    BY <2>1, OffersAreSeen
  <2>5. /\ shortFiles' \in Seq(Shortlist!ToSet(visibleFiles))
        /\ Shortlist!Pinned \subseteq Shortlist!ToSet(shortFiles') /\ Shortlist!ToSet(Shortlist!Mentioned) \subseteq Shortlist!ToSet(shortFiles')
    BY <2>3, <2>4, JoinedSeen
  <2> QED
    BY <2>2, <2>5, PinsStay DEF Asked, Forcing, Weighed, Shortlist!question, Shortlist!inputs
<1>8. CASE Shortlist!Prune
  <2>1. askStep = "prune" /\ askStep' = "done" /\ UNCHANGED <<Shortlist!question, requiredDomains>> /\ shortFiles' = Shortlist!Pruned
    BY <1>8 DEF Shortlist!Prune
  <2>2. /\ shortFiles' \in Seq(Shortlist!ToSet(visibleFiles)) /\ Shortlist!ToSet(Shortlist!Mentioned) \subseteq Shortlist!ToSet(shortFiles')
        /\ \A f \in Shortlist!EntityPins : \E g \in Shortlist!ToSet(shortFiles') : NameOf[g] = NameOf[f]
        /\ Shortlist!Prunable \/ masterFiles \subseteq Shortlist!ToSet(shortFiles')
    BY <2>1, PruningKeepsNames
  <2> QED
    BY <2>1, <2>2, PinsStay DEF Asked, Forcing, Weighed, Shortlist!question, Shortlist!inputs
<1>9. CASE UNCHANGED Shortlist!vars
  BY <1>9, PinsStay DEF Shortlist!vars, Asked, Forcing, Weighed, Shortlist!question, Shortlist!inputs
<1> QED
  BY <1>1, <1>2, <1>3, <1>4, <1>5, <1>6, <1>7, <1>8, <1>9, <1>10, <1>11 DEF Shortlist!Next

LEMMA AskedForces == ASSUME Shortlist!ConstantsOK, Asked PROVE Shortlist!ForcedFilesSurvive
<1>2. askStep \notin {"ask", "resolve", "score", "none"} =>
        \A e \in DOMAIN resolvedFiles : \A f \in Shortlist!PinsOf(e) :
            Shortlist!Fires(wordEvidence[e][f], 4) \/ (Shortlist!Fires(wordEvidence[e][f], 2) /\ ~Shortlist!Fires(wordEvidence[e][f], 1))
  BY PinsAreSeen DEF Asked
<1>1. Shortlist!ToSet(shortFiles) \subseteq Shortlist!ToSet(visibleFiles)
  BY ListsAreFinite DEF Asked
<1> QED
  BY <1>1, <1>2 DEF Asked, Shortlist!ForcedFilesSurvive

(* An expansion that is called for fills every gap or all its places.                                *)
LEMMA GapsFill == ASSUME Shortlist!ConstantsOK, Asked, Shortlist!Next PROVE Shortlist!GapsAreFilled
<1> DEFINE V == Shortlist!ToSet(visibleFiles)
<1>1. SUFFICES ASSUME askStep = "expand", askStep' = "prune", Shortlist!Needed
      PROVE  \/ \A d \in Shortlist!ToSet(requiredDomains) : Shortlist!Having(d) \cap Shortlist!ToSet(shortFiles') # {}
             \/ Len(shortFiles') >= HardMax \/ Len(shortFiles') = Len(shortFiles) + ExpandSlots
  BY DEF Shortlist!GapsAreFilled
<1>2. Shortlist!Expand
  BY <1>1 DEF Shortlist!Next, Shortlist!LoadCatalog, Shortlist!ReadRoles, Shortlist!ResolveEntities, Shortlist!Retrieve, Shortlist!Failed,
              Shortlist!Retrieved, Shortlist!Recovered, Shortlist!MentionFirst, Shortlist!Workflow, Shortlist!Prune
<1>3. PICK gaps \in Shortlist!GapOffers : \E withRoles \in Shortlist!RoleOffers, thin \in Shortlist!ThinOffers :
         shortFiles' = shortFiles \o Shortlist!Top(Shortlist!FirstOfEach(Shortlist!Beside(gaps \o withRoles \o thin, shortFiles)), Shortlist!Room)
  BY <1>2 DEF Shortlist!Expand
<1>4. PICK withRoles \in Shortlist!RoleOffers, thin \in Shortlist!ThinOffers :
         shortFiles' = shortFiles \o Shortlist!Top(Shortlist!FirstOfEach(Shortlist!Beside(gaps \o withRoles \o thin, shortFiles)), Shortlist!Room)
  BY <1>3
<1> DEFINE listed == Shortlist!FirstOfEach(Shortlist!Beside(gaps \o withRoles \o thin, shortFiles))
           added == Shortlist!Top(listed, Shortlist!Room)
<1>5. /\ Shortlist!Room \in Nat /\ listed \in Seq(V) /\ added \in Seq(V)
      /\ Shortlist!ToSet(gaps) \subseteq Shortlist!ToSet(listed) \cup Shortlist!ToSet(shortFiles)
  BY OffersAreSeen
<1>6. \A i \in DOMAIN Shortlist!Lacking : \E f \in Shortlist!ToSet(gaps) : f \in Shortlist!Having(Shortlist!Lacking[i])
  BY <1>1, OffersAreLists
<1>7. shortFiles \in Seq(V) /\ shortFiles' = shortFiles \o added
  BY <1>4 DEF Asked
<1> HIDE DEF V, listed
<1>8. added = listed \/ Len(added) = Shortlist!Room
  BY <1>5, TopFills
<1> HIDE DEF added
<1>9. Len(shortFiles') = Len(shortFiles) + Len(added) /\ Shortlist!ToSet(shortFiles') = Shortlist!ToSet(shortFiles) \cup Shortlist!ToSet(added)
  <2>1. shortFiles \o added \in Seq(V) /\ Shortlist!ToSet(shortFiles \o added) = Shortlist!ToSet(shortFiles) \cup Shortlist!ToSet(added)
    BY <1>5, <1>7, JoinedLists
  <2>2. Len(shortFiles \o added) = Len(shortFiles) + Len(added)
    BY <1>5, <1>7
  <2> QED
    BY <1>7, <2>1, <2>2
<1>10. CASE Len(added) = Shortlist!Room
  <2>1. Len(shortFiles) \in Nat /\ HardMax \in Nat /\ ExpandSlots \in Nat
    BY <1>7 DEF Shortlist!ConstantsOK
  <2> QED
    BY <1>9, <1>10, <2>1 DEF Shortlist!Room, Shortlist!Least
<1>11. CASE added = listed
  <2>1. ASSUME NEW d \in Shortlist!ToSet(requiredDomains) PROVE Shortlist!Having(d) \cap Shortlist!ToSet(shortFiles') # {}
    <3>1. CASE Shortlist!Having(d) \cap Shortlist!ToSet(shortFiles) # {}
      BY <1>9, <3>1
    <3>2. CASE Shortlist!Having(d) \cap Shortlist!ToSet(shortFiles) = {}
      <4>1. d \in Shortlist!ToSet(Shortlist!Lacking)
        BY <3>2, LackingAreDomains
      <4>2. PICK i \in DOMAIN Shortlist!Lacking : Shortlist!Lacking[i] = d
        BY <4>1 DEF Shortlist!ToSet
      <4>3. PICK f \in Shortlist!ToSet(gaps) : f \in Shortlist!Having(d)
        BY <1>6, <4>2
      <4> QED
        BY <1>5, <1>9, <1>11, <4>3
    <3> QED
      BY <3>1, <3>2
  <2> QED
    BY <2>1
<1> QED
  BY <1>8, <1>10, <1>11

LEMMA ForcedFilesHold == ASSUME Shortlist!ConstantsOK PROVE Shortlist!Spec => []Shortlist!ForcedFilesSurvive
<1>1. Shortlist!Init => Asked
  BY AskedInit
<1>2. Asked /\ [Shortlist!Next]_(Shortlist!vars) => Asked'
  BY AskedStep
<1>3. Asked => Shortlist!ForcedFilesSurvive
  BY AskedForces
<1> QED
  BY <1>1, <1>2, <1>3, PTL DEF Shortlist!Spec

-----------------------------------------------------------------------------
(* A page shows what is: the thread only messages of its own conversation, whatever was opened,        *)
(* deleted or streamed meanwhile (useChat.ts); the progress only while its loop runs and every question    *)
(* its end (usePdfChat.ts); a file as done only once its ingestion has been started (lib/upload.ts).     *)
THEOREM PagesShow ==
    ASSUME Chat!ConstantsOK, PdfPage!ConstantsOK PROVE Spec => []PagesShowWhatIs
<1>1. Init => /\ focus = "chat" => Chat!Init
              /\ focus = "pdfui" => PdfPage!Init
              /\ focus = "uploads" => Loading!Init
  BY DEF Init, Begins
<1>2. [Next]_vars => /\ (focus = "chat") <=> (focus = "chat")'
                     /\ focus = "chat" => [Chat!Next]_(Chat!vars)
  BY DEF Next, Moves, vars, chatVars, Chat!vars
<1>3. [Next]_vars => /\ (focus = "pdfui") <=> (focus = "pdfui")'
                     /\ focus = "pdfui" => [PdfPage!Next]_(PdfPage!vars)
  BY DEF Next, Moves, vars, pdfPageVars, PdfPage!vars
<1>4. [Next]_vars => /\ (focus = "uploads") <=> (focus = "uploads")'
                     /\ focus = "uploads" => [Loading!Next]_(Loading!vars)
  BY DEF Next, Moves, vars, loadingVars, Loading!vars, Loading!clientVars, Loading!serverVars
<1> QED
  BY <1>1, <1>2, <1>3, <1>4, ChatHolds, PageHolds, UploadsHold, PTL
     DEF Spec, Chat!Spec, PdfPage!Spec, Loading!Spec, PagesShowWhatIs

(* However many finalizations overlap, fail or are overtaken by other uploads: versions are numbered     *)
(* without gaps and each once, a page shows one version and all of it, and a lookup finds what the newest *)
(* version says. Every entry cites chunks that define or hold its term, and shows every wording the      *)
(* model confirmed of them; that those words stand in the chunk is not claimed, and is false of the code *)
(* (comprehension/finalize.py, glossary_miner.py:410).                                               *)
THEOREM ComprehensionHolds ==
    ASSUME Learned!ConstantsOK PROVE Spec => []ComprehensionIsSound
<1>1. Init => (focus = "comprehension" => Learned!Init)
  BY DEF Init, Begins
<1>2. [Next]_vars => /\ (focus = "comprehension") <=> (focus = "comprehension")'
                     /\ focus = "comprehension" => [Learned!Next]_(Learned!vars)
  BY DEF Next, Moves, vars, learnedVars, Learned!vars
<1> QED
  BY <1>1, <1>2, LearningHolds, PTL DEF Spec, Learned!Spec, ComprehensionIsSound

(* Whatever the searches find, the expansion adds and the pruning drops: a file the user may see and  *)
(* names is in the prompt, a file an entity pins is, or one of its name, and nothing is that lies out  *)
(* of the user's domains (graph.py, catalog_cache.py, orchestrator.py, entity_resolver.py).          *)
THEOREM ForcedFiles ==
    ASSUME Shortlist!ConstantsOK PROVE Spec => []ForcedFilesSurvive
<1>1. Init => (focus = "shortlist" => Shortlist!Init)
  BY DEF Init, Begins
<1>2. [Next]_vars => /\ (focus = "shortlist") <=> (focus = "shortlist")'
                     /\ focus = "shortlist" => [Shortlist!Next]_(Shortlist!vars)
  BY DEF Next, Moves, vars, shortlistVars, Shortlist!vars, Shortlist!inputs
<1> QED
  BY <1>1, <1>2, ForcedFilesHold, PTL DEF Spec, Shortlist!Spec, ForcedFilesSurvive

(* An expansion that is called for leaves a domain the question activates without a file only when it    *)
(* has used all its places or the shortlist is full (semantic_expansion.py,                           *)
(* workflow_capability_resolver.py).                                                                  *)
THEOREM ExpansionFillsGaps ==
    ASSUME Shortlist!ConstantsOK PROVE Spec => GapsAreFilled
<1> DEFINE Known == focus = "shortlist" => Asked
           Filled == focus = "shortlist" => Shortlist!GapsAreFilled
<1>1. Init => Known
  BY AskedInit DEF Init, Begins
<1>2. ASSUME Known, [Next]_vars PROVE Known' /\ (Filled \/ UNCHANGED vars)
  <2>1. /\ focus' = focus
        /\ focus = "shortlist" => Shortlist!Next \/ UNCHANGED Shortlist!vars
    BY <1>2 DEF Next, Moves, vars, shortlistVars, Shortlist!vars, Shortlist!inputs
  <2>2. focus = "shortlist" => Asked'
    BY <1>2, <2>1, AskedStep
  <2>3. CASE focus = "shortlist" /\ Shortlist!Next
    BY <1>2, <2>1, <2>2, <2>3, GapsFill
  <2>4. CASE focus = "shortlist" /\ UNCHANGED Shortlist!vars
    <3>1. askStep' = askStep
      BY <2>4 DEF Shortlist!vars
    <3>2. Shortlist!GapsAreFilled
      BY <3>1 DEF Shortlist!GapsAreFilled
    <3> QED
      BY <2>1, <2>2, <3>2
  <2>5. CASE focus # "shortlist"
    BY <2>1, <2>5
  <2> QED
    BY <2>1, <2>3, <2>4, <2>5
<1> HIDE DEF Known
<1> QED
  BY <1>1, <1>2, PTL DEF Spec, GapsAreFilled
===============================================================================
