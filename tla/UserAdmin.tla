------------------------------ MODULE UserAdmin -------------------------------
(***************************************************************************)
(* The accounts: signing in, asking for access, and what the admins of the      *)
(* platform and of the organisations do to roles, organisations and domains.   *)
(*                                                                          *)
(* Source: server/app/api/v1/{auth,users,access,organizations,onboarding}.py,  *)
(* server/app/services/{org_provisioning,org_access}.py, core/security.py.     *)
(***************************************************************************)
EXTENDS Naturals, FiniteSets

CONSTANTS People, Orgs, Tags,
          None         \* no organisation

VARIABLES
    user,     \* by person: [role, admin, platform, google, org, allowed]; role "nobody" without a row
    owner,    \* by organisation: its owner, "nobody", "absent" before it and "deleted" after it
    assigned, \* by person: pairs of organisation and domain tag
    granted,  \* pairs of platform admin and organisation with an active grant
    request   \* by person: status of the access request, "none" without

vars == <<user, owner, assigned, granted, request>>

(* What stands for the owner of an organisation without one is no person.       *)
ConstantsOK == None \notin Orgs /\ {"nobody", "absent", "deleted"} \cap People = {}

Nobody == [role |-> "nobody", admin |-> FALSE, platform |-> FALSE, google |-> FALSE,
           org |-> None, allowed |-> {}]
Known(p) == user[p].role # "nobody"
Exists(o) == owner[o] \notin {"absent", "deleted"}
Sets(p, u) == user' = [user EXCEPT ![p] = u]

(* require_admin, require_platform_admin: somebody else who may.                *)
AdminBeside(p) == \E q \in People \ {p} : user[q].admin
PlatformAdmin == \E q \in People : user[q].platform

Init ==
    /\ user = [p \in People |-> Nobody]
    /\ owner = [o \in Orgs |-> "absent"]
    /\ assigned = [p \in People |-> {}]
    /\ granted = {} /\ request = [p \in People |-> "none"]

(* The first to sign in with Google is platform admin; a known user keeps the row, *)
(* and Google becomes the way in.                                             *)
GoogleCallback(p) ==
    /\ Sets(p, IF Known(p) THEN [user[p] EXCEPT !.google = TRUE]
               ELSE IF \A q \in People : ~Known(q)
               THEN [Nobody EXCEPT !.role = "platform_admin", !.admin = TRUE, !.platform = TRUE,
                                   !.google = TRUE]
               ELSE [Nobody EXCEPT !.role = "owner", !.google = TRUE])
    /\ UNCHANGED <<owner, assigned, granted, request>>

SubmitAccessRequest(p) ==
    /\ Known(p) /\ ~user[p].admin /\ request[p] = "none"
    /\ request' = [request EXCEPT ![p] = "pending"]
    /\ UNCHANGED <<user, owner, assigned, granted>>

(* decline_request declines what was approved, too.                            *)
DeclineRequest(p) ==
    /\ request[p] # "none" /\ \E q \in People : user[q].admin
    /\ request' = [request EXCEPT ![p] = "declined"]
    /\ UNCHANGED <<user, owner, assigned, granted>>

(* provision_owner_org: the organisation one owns already, or a new one.        *)
OwnOrg(p) == IF \E o \in Orgs : owner[o] = p THEN {o \in Orgs : owner[o] = p}
             ELSE {o \in Orgs : owner[o] = "absent"}

(* grant_user: an organisation of one's own, or the platform role, which the first *)
(* does not take away; only a pending request becomes approved.               *)
GrantUser(p, as) ==
    /\ Known(p) /\ PlatformAdmin
    /\ \/ /\ as = "owner"
          /\ \E o \in OwnOrg(p) :
                /\ owner' = [owner EXCEPT ![o] = p]
                /\ Sets(p, [user[p] EXCEPT !.role = "org_owner", !.admin = TRUE,
                                           !.google = TRUE, !.org = o, !.allowed = {}])
       \/ /\ as = "admin"
          /\ Sets(p, [user[p] EXCEPT !.role = "admin", !.admin = TRUE, !.platform = TRUE,
                                     !.allowed = {}])
          /\ owner' = owner
    /\ request' = [request EXCEPT ![p] = IF @ = "pending" THEN "approved" ELSE @]
    /\ UNCHANGED <<assigned, granted>>

(* set_user_role, never one's own; an owner must sign in with Google.           *)
MayOwn_ByAdmin(p) == user[p].google \/ user[p].admin
MayOwn(p) == user[p].google

SetUserRole(p, role) ==
    /\ Known(p) /\ AdminBeside(p)
    /\ role = "org_owner" => MayOwn(p)
    /\ Sets(p, [user[p] EXCEPT !.role = role, !.platform = (role = "platform_admin"),
                               !.admin = role \in {"platform_admin", "org_owner", "org_admin"}])
    /\ UNCHANGED <<owner, assigned, granted, request>>

ToggleAdmin(p) ==
    /\ Known(p) /\ AdminBeside(p)
    /\ Sets(p, [user[p] EXCEPT !.admin = ~@])
    /\ UNCHANGED <<owner, assigned, granted, request>>

(* assign_user_to_organization keeps role, assignments and allowed domains.     *)
AssignToOrganization(p, o) ==
    /\ Known(p) /\ \E q \in People : user[q].admin
    /\ o \in {None} \cup {x \in Orgs : Exists(x)}
    /\ Sets(p, [user[p] EXCEPT !.org = o])
    /\ UNCHANGED <<owner, assigned, granted, request>>

(* delete_user; the keys that refer to the row go with it or are cleared.       *)
DeleteUser(p) ==
    /\ Known(p) /\ AdminBeside(p)
    /\ Sets(p, Nobody)
    /\ owner' = [o \in Orgs |-> IF owner[o] = p THEN "nobody" ELSE owner[o]]
    /\ assigned' = [assigned EXCEPT ![p] = {}]
    /\ granted' = {g \in granted : g[1] # p}
    /\ request' = [request EXCEPT ![p] = "none"]

(* create_organization by an admin, start_onboarding by a platform admin.       *)
CreateOrganization(o, whose) ==
    /\ owner[o] = "absent"
    /\ \/ whose = "nobody" /\ \E q \in People : user[q].admin
       \/ whose \in People /\ Known(whose) /\ PlatformAdmin
    /\ owner' = [owner EXCEPT ![o] = whose]
    /\ UNCHANGED <<user, assigned, granted, request>>

DeleteOrganization(o) ==
    /\ Exists(o) /\ \E q \in People : user[q].admin
    /\ owner' = [owner EXCEPT ![o] = "deleted"]
    /\ user' = [p \in People |-> IF user[p].org = o THEN [user[p] EXCEPT !.org = None]
                                 ELSE user[p]]
    /\ assigned' = [p \in People |-> {pair \in assigned[p] : pair[1] # o}]
    /\ granted' = {g \in granted : g[2] # o}
    /\ UNCHANGED request

(* _load_owned_org: the organisation one owns, else the one one belongs to.     *)
Runs(q, o) == Exists(o) /\ (owner[o] = q \/ (user[q].org = o /\ \A x \in Orgs : owner[x] # q))

(* _provision_users: a new user signs in with a password; a known one is moved and *)
(* takes the role; assignments are only added, and all of them are mirrored.    *)
AddUser(p, o, role, tags) ==
    /\ \E q \in People : user[q].role \in {"org_owner", "org_admin"} /\ Runs(q, o)
    /\ assigned' = [assigned EXCEPT ![p] = @ \cup ({o} \X tags)]
    /\ Sets(p, [user[p] EXCEPT !.role = role, !.admin = (role = "org_admin"), !.org = o,
                               !.allowed = {pair[2] : pair \in assigned'[p]}])
    /\ UNCHANGED <<owner, granted, request>>

(* set_my_domains.                                                           *)
SetMyDomains(p, tags) ==
    /\ Known(p)
    /\ Sets(p, [user[p] EXCEPT !.allowed = tags])
    /\ UNCHANGED <<owner, assigned, granted, request>>

(* upsert_platform_admin_grant, by the owner of the organisation.              *)
PlatformAdminGrant(p, o, active) ==
    /\ \E q \in People : user[q].role = "org_owner" /\ user[q].google /\ Runs(q, o)
    /\ Known(p)
    /\ granted' = IF active THEN granted \cup {<<p, o>>} ELSE granted \ {<<p, o>>}
    /\ UNCHANGED <<user, owner, assigned, request>>

Next ==
    \/ \E p \in People :
          \/ GoogleCallback(p) \/ SubmitAccessRequest(p) \/ DeclineRequest(p)
          \/ ToggleAdmin(p) \/ DeleteUser(p)
          \/ \E as \in {"owner", "admin"} : GrantUser(p, as)
          \/ \E role \in {"platform_admin", "org_owner", "org_admin", "manager", "user"} :
                SetUserRole(p, role)
          \/ \E o \in Orgs \cup {None} : AssignToOrganization(p, o)
          \/ \E o \in Orgs, role \in {"org_admin", "manager", "user"}, tags \in SUBSET Tags :
                AddUser(p, o, role, tags)
          \/ \E tags \in SUBSET Tags : SetMyDomains(p, tags)
          \/ \E o \in Orgs, active \in BOOLEAN : PlatformAdminGrant(p, o, active)
    \/ \E o \in Orgs :
          \/ DeleteOrganization(o)
          \/ \E whose \in People \cup {"nobody"} : CreateOrganization(o, whose)

Spec == Init /\ [][Next]_vars
-----------------------------------------------------------------------------
(* effective_domains_for: all the tags for those who run the organisation.       *)
EffectiveDomains(p, o) ==
    CASE user[p].platform \/ user[p].role = "platform_admin" ->
            IF <<p, o>> \in granted THEN Tags ELSE {}
      [] user[p].role \in {"org_owner", "org_admin"} -> IF user[p].org = o THEN Tags ELSE {}
      [] OTHER -> IF user[p].org = o THEN {t \in Tags : <<o, t>> \in assigned[p]} ELSE {}

(* Whatever is granted, provisioned, moved and taken back: local_login turns every *)
(* owner away, so each of them has Google; and of an organisation that is gone   *)
(* nobody sees a domain any more.                                            *)
OwnersCanSignIn ==
    \A p \in People :
        /\ user[p].role = "org_owner" => user[p].google
        /\ \A o \in Orgs : ~Exists(o) => EffectiveDomains(p, o) = {}
===============================================================================
