------------------------------- MODULE ModelPool ------------------------------
(***************************************************************************)
(* Calls to language and embedding models over several deployments          *)
(* ("lanes").  A lane that answers 429 or times out cools down; a call goes  *)
(* on to another lane.  There are two callers of select_deployment, each     *)
(* with a health map of its own: the asynchronous ModelPool (embeddings) and *)
(* the synchronous picker of openai_client (chat completions in workers).    *)
(*                                                                          *)
(* Source: server/app/core/model_pool.py, server/app/core/openai_client.py. *)
(***************************************************************************)
EXTENDS Naturals, FiniteSets

CONSTANTS
    Lanes,          \* configured deployments
    LaneKind,       \* "chat" or "embedding", by lane
    LaneTier,       \* "standard" or "high", by lane
    LaneWeight,     \* weight of a lane in the pick
    LaneDeployment, \* deployment_id of a lane; lanes of two regions may share it
    LaneRank,       \* position of a lane in the configuration
    Calls,          \* calls under way
    CallStyle,      \* "pool" or "sync", by call
    CallTier,       \* tier asked for, by call
    MaxAttempts,    \* max_failover_attempts
    Cooldown,       \* circuit_breaker_cooldown_seconds
    MaxTime         \* bound: the clock

VARIABLES
    now,     \* time.monotonic()
    cooling, \* [style][lane]: the time until which a lane cools down
    pc,      \* where a call is
    lane,    \* the lane a call waits for
    tried,   \* the lanes it has tried
    attempts, started,
    failedOn \* history: <<style, lane>> that answered 429 or timed out

vars == <<now, cooling, pc, lane, tried, attempts, started, failedOn>>

Styles == {"pool", "sync"}

(* What the proofs need: times are numbers, a call has one of the two styles, and the deployment  *)
(* ids of the chat lanes differ, because report_chat_failure knows a lane by nothing else.       *)
ConstantsOK ==
    /\ MaxAttempts \in Nat /\ Cooldown \in Nat /\ MaxTime \in Nat
    /\ CallStyle \in [Calls -> Styles] /\ LaneRank \in [Lanes -> Nat]
    /\ \A l, k \in Lanes :
          LaneKind[l] = "chat" /\ LaneKind[k] = "chat" /\ LaneDeployment[l] = LaneDeployment[k] => l = k

CallKind(c) == IF CallStyle[c] = "pool" THEN "embedding" ELSE "chat"

Init ==
    /\ now = 0
    /\ cooling = [s \in Styles |-> [l \in Lanes |-> 0]]
    /\ pc = [c \in Calls |-> "idle"]
    /\ lane = [c \in Calls |-> CHOOSE l \in Lanes : TRUE]
    /\ tried = [c \in Calls |-> {}]
    /\ attempts = [c \in Calls |-> 0]
    /\ started = [c \in Calls |-> 0]
    /\ failedOn = {}
-----------------------------------------------------------------------------
(* select_deployment: lanes of the kind; the high ones for a high call, if     *)
(* there are any.                                                            *)
Candidates(kind, tier) ==
    LET ofKind == {l \in Lanes : LaneKind[l] = kind}
        high   == {l \in ofKind : LaneTier[l] = "high"}
    IN  IF tier = "high" /\ high # {} THEN high ELSE ofKind

Healthy(style, lanes) == {l \in lanes : cooling[style][l] <= now}

(* A healthy lane, by weight (any, if all weigh nothing); when every candidate  *)
(* cools, the first of those that recover soonest.  The pseudo-random token    *)
(* is a choice.                                                              *)
Selected(style, kind, tier) ==
    LET cands   == Candidates(kind, tier)
        healthy == Healthy(style, cands)
        heavy   == {l \in healthy : LaneWeight[l] > 0}
        soonest == {l \in cands : \A k \in cands : cooling[style][l] <= cooling[style][k]}
    IN  IF healthy = {}
        THEN {l \in soonest : \A k \in soonest : LaneRank[l] <= LaneRank[k]}
        ELSE IF heavy = {} THEN healthy ELSE heavy

(* One attempt per chat lane, four at most; a single lane is the legacy client.*)
ChatLanes == {l \in Lanes : LaneKind[l] = "chat"}
AttemptLimit(c) ==
    IF CallStyle[c] = "pool" THEN MaxAttempts
    ELSE IF Cardinality(ChatLanes) > 4 THEN 4 ELSE Cardinality(ChatLanes)

(* ModelPool._trip cools the lane that failed.                               *)
Tripped_Forgets(l) == [k \in Lanes |-> IF k = l THEN now ELSE cooling["pool"][k]]
Tripped(l) == [cooling["pool"] EXCEPT ![l] = now + Cooldown]

(* report_chat_failure is told the deployment id and cools the first lane that *)
(* has it; with one chat lane it does nothing.                               *)
Reported_CoolsFirst(l) ==
    [cooling["sync"] EXCEPT ![CHOOSE k \in ChatLanes :
                                 \A j \in ChatLanes : LaneRank[k] <= LaneRank[j]] = now + Cooldown]
Reported(l) ==
    LET named == {k \in ChatLanes : LaneDeployment[k] = LaneDeployment[l]}
        first == CHOOSE k \in named : \A j \in named : LaneRank[k] <= LaneRank[j]
    IN  IF Cardinality(ChatLanes) <= 1 THEN cooling["sync"]
        ELSE [cooling["sync"] EXCEPT ![first] = now + Cooldown]

CoolDown(c) ==
    cooling' = [cooling EXCEPT ![CallStyle[c]] =
                   IF CallStyle[c] = "pool" THEN Tripped(lane[c]) ELSE Reported(lane[c])]
-----------------------------------------------------------------------------
Start(c) ==
    /\ pc[c] = "idle"
    /\ pc' = [pc EXCEPT ![c] = "select"]
    /\ started' = [started EXCEPT ![c] = now]
    /\ UNCHANGED <<now, cooling, lane, tried, attempts, failedOn>>

(* The pool gives up on a lane it has tried already; the sync loop tries it    *)
(* again.                                                                    *)
GivesUp(c, l) == CallStyle[c] = "pool" /\ l \in tried[c]

Select(c) ==
    /\ pc[c] = "select"
    /\ attempts[c] < AttemptLimit(c)
    /\ \E l \in Selected(CallStyle[c], CallKind(c), CallTier[c]) :
          IF GivesUp(c, l)
          THEN pc' = [pc EXCEPT ![c] = "failed"] /\ UNCHANGED <<lane, tried, attempts>>
          ELSE /\ pc' = [pc EXCEPT ![c] = "waiting"]
               /\ lane' = [lane EXCEPT ![c] = l]
               /\ tried' = [tried EXCEPT ![c] = @ \cup {l}]
               /\ attempts' = [attempts EXCEPT ![c] = @ + 1]
    /\ UNCHANGED <<now, cooling, started, failedOn>>

(* No lane of the kind, or every attempt used up.                            *)
Exhausted(c) ==
    /\ pc[c] = "select"
    /\ \/ attempts[c] >= AttemptLimit(c)
       \/ Selected(CallStyle[c], CallKind(c), CallTier[c]) = {}
    /\ pc' = [pc EXCEPT ![c] = "failed"]
    /\ UNCHANGED <<now, cooling, lane, tried, attempts, started, failedOn>>

(* An answer, or an error that is neither a rate limit nor a timeout.        *)
Answered(c) ==
    /\ pc[c] = "waiting"
    /\ \E end \in {"answered", "raised"} : pc' = [pc EXCEPT ![c] = end]
    /\ UNCHANGED <<now, cooling, lane, tried, attempts, started, failedOn>>

RateLimitedOrTimedOut(c) ==
    /\ pc[c] = "waiting"
    /\ CoolDown(c)
    /\ pc' = [pc EXCEPT ![c] = "select"]
    /\ failedOn' = failedOn \cup {<<CallStyle[c], lane[c]>>}
    /\ UNCHANGED <<now, lane, tried, attempts, started>>

Tick ==
    /\ now < MaxTime
    /\ now' = now + 1
    /\ UNCHANGED <<cooling, pc, lane, tried, attempts, started, failedOn>>

Next ==
    \/ \E c \in Calls : Start(c) \/ Select(c) \/ Exhausted(c) \/ Answered(c)
                        \/ RateLimitedOrTimedOut(c)
    \/ Tick

Spec == Init /\ [][Next]_vars
-----------------------------------------------------------------------------
(* A call to the pool fails over to every healthy lane before it gives up with *)
(* attempts left, whatever the calls beside it trip; as long as it takes less *)
(* than one cool-down.  (A slower call may draw a lane it tried that has       *)
(* recovered meanwhile, and gives up although others are healthy.)            *)
GivesUpRightly ==
    \A c \in Calls :
        /\ pc[c] = "select" /\ pc'[c] = "failed"
        /\ CallStyle[c] = "pool"
        /\ attempts[c] < MaxAttempts
        /\ now < started[c] + Cooldown
        => Healthy("pool", Candidates("embedding", CallTier[c])) = {}

(* Only lanes that failed are taken out of service.  It needs the deployment   *)
(* ids of the chat lanes to differ: report_chat_failure knows nothing else.   *)
OnlyFailedLanesCool ==
    \A s \in Styles, l \in Lanes : cooling[s][l] > now => <<s, l>> \in failedOn
===============================================================================
