---------------------------- MODULE PdfModelCalls ----------------------------
(***************************************************************************)
(* Which model a PDF question may use and how batches of embeddings are called:*)
(* the escalation budget of a container in Redis, read and then counted up by  *)
(* processes that know nothing of each other, and BoundedBackoffExecutor, which *)
(* retries rate-limited calls under a semaphore.                              *)
(*                                                                          *)
(* Source: server/pdf_chat/model_router.py, tunables.py,                      *)
(* ingestion/{rate_limiter,embeddings}.py.                                    *)
(***************************************************************************)
EXTENDS Naturals, FiniteSets

CONSTANTS
    Askers,          \* questions of one container under way
    HasStore,        \* a budget store was installed in the process
    Fraction,        \* budget_fraction, in percent
    Window,          \* budget_window, by default max(total, 1)
    Batches,         \* batches of texts of one gather_bounded
    MaxConcurrency,
    MaxAttempts

VARIABLES
    cross,    \* by asker: an escalation signal fires
    todo,     \* by asker: the selections still to make
    at,       \* by asker: "idle", or "checked" between the test and the reservation
    used,     \* the counter in Redis
    strong,   \* history: selections that chose the strong model
    batch,    \* by batch: "waiting", "calling", "sleeping", "ok" or "failed"
    attempt,  \* by batch: attempts that were rate-limited
    calls,    \* history, by batch: calls to the provider
    gather    \* "running", "returned" or "raised"

(* What tunables.py sets: counts, and at least one attempt (by default five; with *)
(* none a batch would still be called once).                                 *)
ConstantsOK ==
    /\ IsFiniteSet(Askers)
    /\ Fraction \in Nat /\ Window \in Nat
    /\ MaxAttempts \in Nat \ {0}

vars == <<cross, todo, at, used, strong, batch, attempt, calls, gather>>
routerVars == <<cross, todo, at, used, strong>>
gatherVars == <<batch, attempt, calls, gather>>

(* The planner selects twice without signals.  The two selections of a question *)
(* of several parts, of which the first reserves and calls nothing, and that of *)
(* the synthesis carry the planner's signals.                                *)
Selections(multi) == IF multi THEN 3 ELSE 1

Init ==
    /\ cross \in [Askers -> BOOLEAN]
    /\ \E multi \in [Askers -> BOOLEAN] : todo = [a \in Askers |-> Selections(multi[a])]
    /\ at = [a \in Askers |-> "idle"] /\ used = 0 /\ strong = 0
    /\ batch = [b \in Batches |-> "waiting"]
    /\ attempt = [b \in Batches |-> 0] /\ calls = [b \in Batches |-> 0]
    /\ gather = "running"
-----------------------------------------------------------------------------
Max2(a, b) == IF a > b THEN a ELSE b
cap == Max2(1, (Fraction * Window) \div 100)

BudgetLeft_OffByOne == used <= cap
BudgetLeft == used < cap

(* No signal, no store and a spent budget leave the bulk model.               *)
SelectBulk(a) ==
    /\ todo[a] > 0 /\ at[a] = "idle"
    /\ ~cross[a] \/ ~HasStore \/ ~BudgetLeft
    /\ todo' = [todo EXCEPT ![a] = @ - 1]
    /\ UNCHANGED <<cross, at, used, strong, gatherVars>>

CheckBudget(a) ==
    /\ todo[a] > 0 /\ at[a] = "idle"
    /\ cross[a] /\ HasStore /\ BudgetLeft
    /\ at' = [at EXCEPT ![a] = "checked"]
    /\ UNCHANGED <<cross, todo, used, strong, gatherVars>>

(* INCR is atomic; the test before it was not.  A store that is down raises,   *)
(* which the planner and the refusals of the synthesis absorb.                *)
Reserve(a) ==
    /\ at[a] = "checked"
    /\ at' = [at EXCEPT ![a] = "idle"]
    /\ todo' = [todo EXCEPT ![a] = @ - 1]
    /\ \/ used' = used + 1 /\ strong' = strong + 1
       \/ UNCHANGED <<used, strong>>
    /\ UNCHANGED <<cross, gatherVars>>
-----------------------------------------------------------------------------
InFlight == {b \in Batches : batch[b] \in {"calling", "sleeping"}}

(* A batch takes a place and calls; the place is held while it sleeps.         *)
Enter(b) ==
    /\ batch[b] = "waiting" /\ Cardinality(InFlight) < MaxConcurrency
    /\ batch' = [batch EXCEPT ![b] = "calling"]
    /\ calls' = [calls EXCEPT ![b] = @ + 1]
    /\ UNCHANGED <<attempt, gather, routerVars>>

Wake(b) ==
    /\ batch[b] = "sleeping"
    /\ batch' = [batch EXCEPT ![b] = "calling"]
    /\ calls' = [calls EXCEPT ![b] = @ + 1]
    /\ UNCHANGED <<attempt, gather, routerVars>>

LastAttempt_OffByOne(b) == attempt[b] >= MaxAttempts
LastAttempt(b) == attempt[b] + 1 >= MaxAttempts

(* Only 429 and 503 are tried again.  The first error raises in the caller,     *)
(* while the batches behind it go on being called.                           *)
RateLimited(b) ==
    /\ batch[b] = "calling"
    /\ attempt' = [attempt EXCEPT ![b] = @ + 1]
    /\ batch' = [batch EXCEPT ![b] = IF LastAttempt(b) THEN "failed" ELSE "sleeping"]
    /\ gather' = IF LastAttempt(b) THEN "raised" ELSE gather
    /\ UNCHANGED <<calls, routerVars>>

CallFails(b) ==
    /\ batch[b] = "calling"
    /\ batch' = [batch EXCEPT ![b] = "failed"]
    /\ gather' = "raised"
    /\ UNCHANGED <<attempt, calls, routerVars>>

CallSucceeds(b) ==
    /\ batch[b] = "calling"
    /\ batch' = [batch EXCEPT ![b] = "ok"]
    /\ gather' = IF \A o \in Batches : batch'[o] = "ok" THEN "returned" ELSE gather
    /\ UNCHANGED <<attempt, calls, routerVars>>

Next ==
    \/ \E a \in Askers : SelectBulk(a) \/ CheckBudget(a) \/ Reserve(a)
    \/ \E b \in Batches :
          Enter(b) \/ Wake(b) \/ RateLimited(b) \/ CallFails(b) \/ CallSucceeds(b)

Spec == Init /\ [][Next]_vars
-----------------------------------------------------------------------------
(* However many questions test the budget at once, the strong model is chosen   *)
(* past the cap at most once for each of the others.                         *)
SpendIsBounded == strong <= cap + Cardinality(Askers) - 1

(* A gather, also one that has raised, calls the provider for a batch at most as *)
(* often as the attempts it is given.                                        *)
CallsAreBounded == \A b \in Batches : calls[b] <= MaxAttempts

ModelCallsAreBounded == SpendIsBounded /\ CallsAreBounded
===============================================================================
