------------------------------ MODULE Onboarding ------------------------------
(***************************************************************************)
(* The onboarding of one organisation: requests of its owner and its admins    *)
(* take it through a linear sequence of steps, each of which writes what it    *)
(* provides and then advances the state in a second commit; beside them the     *)
(* container of the organisation is changed, folders and containers are deleted *)
(* and synchronisations take away empty folders.                              *)
(*                                                                          *)
(* Source: server/app/api/v1/{onboarding,organizations,folders,containers}.py,  *)
(* server/app/services/onboarding.py, server/app/models/{folder,organization}.py. *)
(* Files, and the moves of folders, are not modelled: any folder may be empty.   *)
(* Sessions keep what they loaded after a commit (expire_on_commit is off).   *)
(***************************************************************************)
EXTENDS Naturals, FiniteSets, Sequences

CONSTANTS
    Requests,
    Containers,   \* container ids, used in order: 1..n
    Domains       \* names a domain folder may get

VARIABLES
    state,      \* onboarding_state, an index of States
    done,       \* history: steps of which a request has committed the writes
    container,  \* its container_id, 0 without
    connected,  \* containers connected so far
    containers, \* those that are there
    roots,      \* org_root folders: the container each was created with
    folders,    \* domain folders: pairs of name and container
    step, at,   \* by request: the step it takes and where it is
    seen,       \* by request: the state it knows of
    saw         \* by request: the root it found, 0 without

vars == <<state, done, container, connected, containers, roots, folders, step, at, seen, saw>>
organisation == <<done, container, connected, containers, roots, folders>>

States == <<"created", "ai_configured", "storage_connected", "domains_created", "users_added",
            "completed">>
Index(s) == CHOOSE i \in DOMAIN States : States[i] = s
Steps == {States[i] : i \in 2..Len(States)}

Init ==
    /\ state = 1 /\ done = {} /\ container = 0 /\ connected = 0
    /\ containers = {} /\ roots = {} /\ folders = {}
    /\ step \in [Requests -> Steps]
    /\ at = [r \in Requests |-> "new"]
    /\ seen = [r \in Requests |-> 1] /\ saw = [r \in Requests |-> 0]

Goes(r, place) == at' = [at EXCEPT ![r] = place]
Knowing(r, known) == seen' = [seen EXCEPT ![r] = known]

(* What a request knows goes with it.                                        *)
Ends(r) == Goes(r, "end") /\ Knowing(r, 1) /\ saw' = [saw EXCEPT ![r] = 0]

(* assert_step_allowed: at most the next step.                                *)
StepAllowed_OneMore(r, known) == Index(step[r]) <= known + 2
StepAllowed(r, known) == Index(step[r]) <= known + 1

(* The organisation is loaded and the order of steps checked; "complete" writes  *)
(* nothing of its own.                                                       *)
LoadOwnedOrg(r) ==
    /\ at[r] = "new"
    /\ IF StepAllowed(r, state)
       THEN /\ Knowing(r, state)
            /\ Goes(r, IF step[r] = "completed" THEN "advance" ELSE "check")
            /\ UNCHANGED saw
       ELSE Ends(r)
    /\ UNCHANGED <<state, organisation, step>>

(* The database of the organisation and the storage account must answer; domains  *)
(* need a root folder, and any there is may be the one that is found.            *)
Check(r) ==
    /\ at[r] = "check"
    /\ \/ step[r] \in {"ai_configured", "storage_connected"} /\ Ends(r)
       \/ step[r] = "domains_created" /\ roots = {} /\ Ends(r)
       \/ /\ step[r] \in {"ai_configured", "users_added"} \/ (step[r] = "storage_connected" /\ roots = {})
          /\ Goes(r, "write") /\ UNCHANGED <<seen, saw>>
       \/ /\ step[r] \in {"storage_connected", "domains_created"}
          /\ \E c \in roots : saw' = [saw EXCEPT ![r] = c]
          /\ Goes(r, "write") /\ UNCHANGED seen
    /\ UNCHANGED <<state, organisation, step>>

Commits(r) == done' = done \cup {step[r]} /\ Goes(r, "advance")
Refreshed(r) == Knowing(r, state)

(* The settings are committed; what was loaded of the organisation is kept.     *)
UpsertAiSettings(r) ==
    /\ at[r] = "write" /\ step[r] = "ai_configured"
    /\ Commits(r)
    /\ UNCHANGED <<state, container, connected, containers, roots, folders, step, seen, saw>>

(* A new primary container; a root folder when none was found before, be it gone *)
(* by now.                                                                   *)
RootAfter(r, c) == IF saw[r] = 0 THEN roots \cup {c} ELSE roots

ConnectStorage(r) ==
    /\ at[r] = "write" /\ step[r] = "storage_connected" /\ connected < Cardinality(Containers)
    /\ connected' = connected + 1 /\ container' = connected'
    /\ containers' = containers \cup {connected'}
    /\ roots' = RootAfter(r, connected')
    /\ Commits(r) /\ Refreshed(r)
    /\ UNCHANGED <<state, folders, step, saw>>

(* A folder for every name that has none, under the root that was found and in   *)
(* its container.  A root that is gone by now is refused as a parent, and with it *)
(* the request; without a new name there is nothing to refuse.                 *)
CreateDomains(r) ==
    /\ at[r] = "write" /\ step[r] = "domains_created"
    /\ \E names \in SUBSET Domains :
          LET new == {<<n, saw[r]>> : n \in {n \in names : \A f \in folders : f[1] # n}} IN
          \/ /\ new = {} \/ saw[r] \in roots
             /\ folders' = folders \cup new
             /\ Commits(r) /\ Refreshed(r) /\ UNCHANGED saw
          \/ /\ new # {} /\ saw[r] \notin roots
             /\ Ends(r)
             /\ UNCHANGED <<folders, done>>
    /\ UNCHANGED <<state, container, connected, containers, roots, step>>

(* add_users, add_users_bulk: UserAdmin says what becomes of the users.         *)
AddUsers(r) ==
    /\ at[r] = "write" /\ step[r] = "users_added"
    /\ Commits(r) /\ Refreshed(r)
    /\ UNCHANGED <<state, container, connected, containers, roots, folders, step, saw>>

(* advance_state, from the state the request knows of.                        *)
AdvanceState(r) ==
    /\ at[r] = "advance"
    /\ state' = IF StepAllowed(r, seen[r]) /\ Index(step[r]) > seen[r] THEN Index(step[r])
                ELSE state
    /\ Ends(r)
    /\ UNCHANGED <<organisation, step>>

Again(r) ==
    /\ at[r] = "end"
    /\ step' \in {[step EXCEPT ![r] = s] : s \in Steps}
    /\ Goes(r, "new")
    /\ UNCHANGED <<state, organisation, seen, saw>>
-----------------------------------------------------------------------------
(* update_organization sets the container, if at all, to any that exists.       *)
UpdateOrganization ==
    /\ \E c \in {0} \cup containers : container' = c
    /\ UNCHANGED <<state, done, connected, containers, roots, folders, step, at, seen, saw>>

(* delete_folder: a root or a domain folder.  The children of a root stay.      *)
DeleteFolder ==
    /\ \/ \E c \in roots : roots' = roots \ {c} /\ UNCHANGED folders
       \/ \E f \in folders : folders' = folders \ {f} /\ UNCHANGED roots
    /\ UNCHANGED <<state, done, container, connected, containers, step, at, seen, saw>>

(* delete_container: its folders go with it, and an organisation it was bound to  *)
(* has none (ON DELETE SET NULL).                                            *)
DeleteContainer ==
    /\ \E c \in containers :
          /\ containers' = containers \ {c}
          /\ roots' = roots \ {c}
          /\ folders' = {f \in folders : f[2] # c}
          /\ container' = IF container = c THEN 0 ELSE container
    /\ UNCHANGED <<state, done, connected, step, at, seen, saw>>

(* sync_container takes away the folders of the container that are empty, the root *)
(* among them.                                                               *)
SyncContainer ==
    /\ \E c \in containers :
          /\ \E gone \in SUBSET {f \in folders : f[2] = c} : folders' = folders \ gone
          /\ roots' \in {roots, roots \ {c}}
    /\ UNCHANGED <<state, done, container, connected, containers, step, at, seen, saw>>

Next ==
    \/ \E r \in Requests :
          \/ LoadOwnedOrg(r) \/ Check(r) \/ UpsertAiSettings(r) \/ ConnectStorage(r)
          \/ CreateDomains(r) \/ AddUsers(r) \/ AdvanceState(r) \/ Again(r)
    \/ UpdateOrganization \/ DeleteFolder \/ DeleteContainer \/ SyncContainer

Spec == Init /\ [][Next]_vars
-----------------------------------------------------------------------------
(* However the requests of the steps overlap, and whatever is deleted beside them: *)
(* no step is skipped, since an organisation in a state has had the writes of that  *)
(* step and of each before it committed; and no folder of it is left in a container *)
(* that is gone.  What a step wrote need not be there any more: root folders and    *)
(* containers go and leave the state as it is.                                  *)
StateTellsWhatIsThere ==
    /\ \A i \in 2..state : States[i] # "completed" => States[i] \in done
    /\ \A f \in folders : f[2] \in containers
===============================================================================
