----------------------------- MODULE Directory ------------------------------
(***************************************************************************)
(* Tenants, memberships, invitations, and who may grant what: the services *)
(* the management API and the admin panel share (services/tenants.rs,      *)
(* services/authz.rs), the outcome of hooks (hooks.rs), the bootstrap of   *)
(* the first superadmin (admin/mod.rs) and the records of store.rs.        *)
(*                                                                         *)
(* A membership is two keys: tenant:{t}:user:{u}, which holds the role,    *)
(* and user:{u}:tenant:{t}, by which a user's tenants are listed. A        *)
(* request in flight is a process p, each write to the store is one step,  *)
(* and a process may die before any step. A request through the API acts   *)
(* with the roles its access token carries, however old; one through the   *)
(* panel with the roles stored when it starts.                             *)
(***************************************************************************)
EXTENDS Requests, Integers, FiniteSets

CONSTANTS
    Tenants, Users, Invites, Hooks, None,
    FirstTenant, FirstAdmin, FirstManager,  \* of an authority that is established
    Asked,          \* the roles requests ask for
    MaxRequests,    \* bound: requests
    MaxCrashes      \* bound: handlers that die

ASSUME DirectoryAssumption ==
    /\ None \notin Procs \cup Tenants \cup Users \cup Invites \cup Hooks
    /\ FirstTenant \in Tenants /\ {FirstAdmin, FirstManager} \subseteq Users /\ FirstAdmin # FirstManager
    /\ Asked \subseteq {"owner", "admin", "manager", "member"} /\ MaxRequests \in Nat /\ MaxCrashes \in Nat

VARIABLES
    tenant,     \* tenant:{id}
    fwd, rev,   \* the role under tenant:{t}:user:{u}; the pairs with a key user:{u}:tenant:{t}
    user, superadmin,
    flag,       \* the cached flag that a superadmin exists
    claimed,    \* meta:bootstrap_done
    invite,     \* invite:{token}
    token,      \* the claims of each user's latest access token
    hook,       \* hook:{id}; a script is the number of the request that wrote it
    snapshot,   \* hookver:{id}:{version}: the script, or -1
    requests, crashes,
    bootstrapped,   \* history: users the bootstrap form made superadmin
    ceiling,        \* history: the highest rank superadmins and hooks granted per tenant
    ran,            \* history: <<hook, version, script>> of executions, as the audit log has them
    torn            \* history: pairs, and hooks, at which a crash struck or requests that undo each other met

vars == <<tenant, fwd, rev, user, superadmin, flag, claimed, invite, token, hook, snapshot, pc, req, requests,
          crashes, bootstrapped, ceiling, ran, torn>>
people == <<user, superadmin, flag, claimed, bootstrapped>>
keys == <<fwd, rev>>
scripts == <<hook, snapshot, ran>>

\* role_level, ASSIGNABLE_ROLES and INVITABLE_ROLES.
Level == [none |-> 0, verify_email |-> 0, member |-> 1, manager |-> 2, admin |-> 3, owner |-> 4]
Assignable == {"owner", "admin", "manager", "member"}
Invitable == {"admin", "manager", "member"}

NoToken == [held |-> FALSE, super |-> FALSE, role |-> [t \in Tenants |-> "none"]]
NoInvite == [st |-> "unused", tenant |-> None, user |-> None, role |-> "none"]
\* A request makes one version at most.
Versions == 1..MaxRequests + 1
NoHook == [st |-> "unused", enabled |-> FALSE, version |-> 0, script |-> 0]
\* then: what follows the writing of a membership; todo: tenants whose keys delete_user still has to delete;
\* super: the superadmin flag as activate_user read it.
NoRequest ==
    [route |-> "none", tenant |-> None, user |-> None, role |-> "none", invite |-> None, todo |-> {}, then |-> "idle",
     hook |-> None, value |-> NoHook, super |-> FALSE]
Routes == {"edithook", "none", "bootstrap", "tenant", "add", "remove", "accept", "hook", "erase", "activate"}
Labels == {"idle", "claim", "admin", "organization", "check", "fwd", "rev", "delfwd", "delrev",
           "delinvite", "puttenant", "deltenant", "record", "list", "hooktenant", "activate",
           "rereadhook", "puthook", "snapshot", "delhook"}

TypeOK ==
    /\ tenant \in [Tenants -> {"unused", "active", "suspended", "deleted"}]
    /\ fwd \in [Tenants \X Users -> Assignable \cup {"none"}] /\ rev \subseteq Tenants \X Users
    /\ user \in [Users -> {"unused", "live", "gone"}] /\ superadmin \subseteq Users
    /\ flag \in BOOLEAN /\ claimed \in BOOLEAN
    /\ \A i \in Invites : invite[i].st \in {"unused", "open", "gone"} /\ invite[i].role \in DOMAIN Level
    /\ pc \in [Procs -> Labels] /\ \A p \in Procs : req[p].route \in Routes
    /\ requests \in 0..MaxRequests /\ crashes \in 0..MaxCrashes
    /\ bootstrapped \subseteq Users /\ ceiling \in [Tenants -> 0..4] /\ torn \subseteq (Tenants \X Users) \cup Hooks
    /\ \A h \in Hooks : hook[h].st \in {"unused", "live", "deleted"} /\ hook[h].version \in 0..MaxRequests + 1
    /\ \A r \in ran : r[1] \in Hooks

\* The stored roles of a user: list_user_tenants reads the reverse keys and keeps those with a membership.
Claims(u) ==
    [held |-> TRUE, super |-> u \in superadmin,
     role |-> [t \in Tenants |-> IF <<t, u>> \in rev THEN fwd[<<t, u>>] ELSE "none"]]

\* A new authority without users, or one that was established: a superadmin, a manager
\* of the first tenant, and hooks.
Fresh ==
    /\ tenant = [t \in Tenants |-> "unused"] /\ superadmin = {} /\ flag = FALSE /\ claimed = FALSE
    /\ user = [u \in Users |-> "unused"]
    /\ fwd = [x \in Tenants \X Users |-> "none"] /\ rev = {} /\ ceiling = [t \in Tenants |-> 0]
    /\ token = [u \in Users |-> NoToken] /\ bootstrapped = {}
    /\ hook = [h \in Hooks |-> NoHook] /\ snapshot = [x \in Hooks \X Versions |-> -1]
Established ==
    /\ tenant = [t \in Tenants |-> IF t = FirstTenant THEN "active" ELSE "unused"]
    /\ superadmin = {FirstAdmin} /\ flag = TRUE /\ claimed = TRUE
    /\ user = [u \in Users |-> "live"]
    /\ fwd = [x \in Tenants \X Users |-> IF x = <<FirstTenant, FirstManager>> THEN "manager" ELSE "none"]
    /\ rev = {<<FirstTenant, FirstManager>>}
    /\ ceiling = [t \in Tenants |-> IF t = FirstTenant THEN Level["manager"] ELSE 0]
    /\ token = [u \in Users |-> IF u \in {FirstAdmin, FirstManager} THEN Claims(u) ELSE NoToken]
    /\ bootstrapped = {FirstAdmin}
    /\ hook = [h \in Hooks |-> [st |-> "live", enabled |-> TRUE, version |-> 1, script |-> 0]]
    /\ snapshot = [x \in Hooks \X Versions |-> IF x[2] = 1 THEN 0 ELSE -1]
Init ==
    /\ Fresh \/ Established
    /\ invite = [i \in Invites |-> NoInvite]
    /\ pc = [p \in Procs |-> "idle"] /\ req = [p \in Procs |-> NoRequest] /\ requests = 0 /\ crashes = 0
    /\ ran = {} /\ torn = {}

Finish(p) == GotoWith(p, "idle", NoRequest)
Start(p) == At(p, "idle") /\ requests < MaxRequests /\ requests' = requests + 1
Exists(t) == tenant[t] \in {"active", "suspended"}
Raised(t, role) == [ceiling EXCEPT ![t] = IF Level[role] > @ THEN Level[role] ELSE @]

(***************************************************************************)
(* Callers.                                                                *)
(***************************************************************************)
\* A token is issued with the roles of its owner.
IssueToken(p, u) ==
    /\ Start(p) /\ user[u] = "live" /\ token[u] # Claims(u) /\ token' = [token EXCEPT ![u] = Claims(u)] /\ Finish(p)
    /\ UNCHANGED <<scripts, tenant, keys, people, invite, crashes, ceiling, torn>>

Caller(u, via) == IF via = "api" THEN token[u] ELSE Claims(u)
TenantRole(c, t) == IF c.super THEN "owner" ELSE c.role[t]
\* require_caller: a valid access token.
RequireCaller(u) == token[u].held
\* resolve_admin_session: a superadmin, or an administrator of some tenant.
PanelAdmin(u) == user[u] = "live" /\ (u \in superadmin \/ \E t \in Tenants : Level[Claims(u).role[t]] >= Level["admin"])
\* require_tenant_admin reads the membership itself.
Admitted(u, via, t) ==
    IF via = "api" THEN RequireCaller(u)
    ELSE PanelAdmin(u) /\ (u \in superadmin \/ Level[fwd[<<t, u>>]] >= Level["admin"])
RequireTenantRole(c, t, min) == Level[TenantRole(c, t)] >= Level[min]

\* Mutant: the role granted is not compared with the caller's.
MayGrant_AnyRole(c, t, role) == RequireTenantRole(c, t, "manager")

\* Nobody grants a role above the own.
MayGrant(c, t, role) == RequireTenantRole(c, t, "manager") /\ Level[role] <= Level[TenantRole(c, t)]

(***************************************************************************)
(* Writing a membership.                                                   *)
(***************************************************************************)
Adding == {"fwd", "rev"}
Removing == {"delfwd", "delrev"}
Pairs(q) ==
    CASE pc[q] \in Adding \cup Removing -> {<<req[q].tenant, req[q].user>>} \cup (req[q].todo \X {req[q].user})
      [] pc[q] = "list" -> req[q].todo \X {req[q].user}
      [] OTHER -> {}
\* The pairs of a writer that starts and of one under way that undoes what it does.
Met(p, labels, pairs) ==
    pairs \cap UNION {Pairs(q) : q \in {q \in Procs \ {p} : pc[q] \in labels}}

\* add_membership of the request's tenant, user and role.
StartAdd(p, r) ==
    GotoWith(p, "fwd", r) /\ torn' = torn \cup Met(p, Removing \cup {"list"}, {<<r.tenant, r.user>>})
PutFwd(p) ==
    /\ At(p, "fwd") /\ fwd' = [fwd EXCEPT ![<<req[p].tenant, req[p].user>>] = req[p].role] /\ Goto(p, "rev")
    /\ UNCHANGED <<scripts, tenant, rev, people, invite, token, requests, crashes, ceiling, torn>>
PutRev(p) ==
    /\ At(p, "rev") /\ rev' = rev \cup {<<req[p].tenant, req[p].user>>}
    /\ IF req[p].then = "idle" THEN Finish(p) ELSE GotoWith(p, req[p].then, [req[p] EXCEPT !.then = "idle"])
    /\ UNCHANGED <<scripts, tenant, fwd, people, invite, token, requests, crashes, ceiling, torn>>

\* Mutant: the key by which the user's tenants are listed stays.
Unlisted_Kept(x) == rev

\* remove_membership, its second key.
Unlisted(x) == rev \ {x}

DeleteFwd(p) ==
    /\ At(p, "delfwd") /\ fwd' = [fwd EXCEPT ![<<req[p].tenant, req[p].user>>] = "none"] /\ Goto(p, "delrev")
    /\ UNCHANGED <<scripts, tenant, rev, people, invite, token, requests, crashes, ceiling, torn>>
DeleteRev(p) ==
    /\ At(p, "delrev") /\ rev' = Unlisted(<<req[p].tenant, req[p].user>>)
    /\ IF req[p].route = "erase" THEN Goto(p, "list") ELSE Finish(p)
    /\ UNCHANGED <<scripts, tenant, fwd, people, invite, token, requests, crashes, ceiling, torn>>

(***************************************************************************)
(* Tenants: superadmins only.                                              *)
(***************************************************************************)
\* Routes of the panel that touch more than one tenant are for superadmins.
GlobalRoute(u) == PanelAdmin(u) /\ u \in superadmin
Super(u, via) == IF via = "api" THEN RequireCaller(u) /\ token[u].super ELSE GlobalRoute(u)

\* create_tenant draws a new id.
CreateTenant(p, t) ==
    /\ Start(p) /\ tenant[t] = "unused" /\ \E u \in Users : Super(u, "api")
    /\ tenant' = [tenant EXCEPT ![t] = "active"] /\ Finish(p)
    /\ UNCHANGED <<scripts, keys, people, invite, token, crashes, ceiling, torn>>
\* update_tenant and delete_tenant read before they write.
BeginTenantEdit(p, t, via, label) ==
    /\ Start(p) /\ Exists(t) /\ \E u \in Users : Super(u, via)
    /\ GotoWith(p, label, [NoRequest EXCEPT !.route = "tenant", !.tenant = t])
    /\ UNCHANGED <<scripts, tenant, keys, people, invite, token, crashes, ceiling, torn>>
UpdateTenant(p, t) == BeginTenantEdit(p, t, "api", "puttenant")
BeginDeleteTenant(p, t) == BeginTenantEdit(p, t, "api", "deltenant")
DeleteTenantInPanel(p, t) == BeginTenantEdit(p, t, "panel", "deltenant")
PutTenant(p) ==
    /\ At(p, "puttenant") /\ Finish(p)
    /\ \E status \in {"active", "suspended"} : tenant' = [tenant EXCEPT ![req[p].tenant] = status]
    /\ UNCHANGED <<scripts, keys, people, invite, token, requests, crashes, ceiling, torn>>
\* The memberships of the tenant stay.
DeleteTenant(p) ==
    /\ At(p, "deltenant") /\ Finish(p) /\ tenant' = [tenant EXCEPT ![req[p].tenant] = "deleted"]
    /\ UNCHANGED <<scripts, keys, people, invite, token, requests, crashes, ceiling, torn>>

(***************************************************************************)
(* Members and invitations.                                                *)
(***************************************************************************)
Granted(c, t, role) == IF c.super THEN Raised(t, role) ELSE ceiling

\* add_member, up to its writes: the tenant and the user exist, and there is no membership.
AddMember(p, by, via, t, u, role) ==
    LET c == Caller(by, via) IN
    /\ Start(p) /\ Admitted(by, via, t) /\ MayGrant(c, t, role) /\ role \in Assignable
    /\ Exists(t) /\ user[u] = "live" /\ fwd[<<t, u>>] = "none"
    /\ StartAdd(p, [NoRequest EXCEPT !.route = "add", !.tenant = t, !.user = u, !.role = role])
    /\ ceiling' = Granted(c, t, role)
    /\ UNCHANGED <<scripts, tenant, keys, people, invite, token, crashes>>

AddTenantUser(p, by, t, u, role) == AddMember(p, by, "api", t, u, role)
AddInPanel(p, by, t, u, role) == AddMember(p, by, "panel", t, u, role)

\* The panel's form makes a tenant of any id for a superadmin, and then adds the user.
AddToNewTenant(p, t, u, role) ==
    /\ Start(p) /\ ~Exists(t) /\ \E by \in Users : Super(by, "panel")
    /\ tenant' = [tenant EXCEPT ![t] = "active"] /\ role \in Assignable
    /\ GotoWith(p, "check", [NoRequest EXCEPT !.route = "add", !.tenant = t, !.user = u, !.role = role])
    /\ UNCHANGED <<scripts, keys, people, invite, token, crashes, ceiling, torn>>
\* The panel makes the creator of a tenant its owner.
CreateTenantInPanel(p, t) ==
    /\ tenant[t] = "unused"
    /\ \E by \in Users : Super(by, "panel") /\ AddToNewTenant(p, t, by, "owner")
\* add_member with a superadmin as its caller.
CheckMember(p) ==
    LET t == req[p].tenant
        u == req[p].user
    IN /\ At(p, "check")
       /\ IF Exists(t) /\ user[u] = "live" /\ fwd[<<t, u>>] = "none"
          THEN StartAdd(p, req[p]) /\ ceiling' = Raised(t, req[p].role)
          ELSE Finish(p) /\ UNCHANGED <<torn, ceiling>>
       /\ UNCHANGED <<scripts, tenant, keys, people, invite, token, requests, crashes>>

\* remove_member: the caller outranks the member, is the member, or is a superadmin.
RemoveMember(p, by, via, t, u) ==
    LET c == Caller(by, via)
        x == <<t, u>>
    IN /\ Start(p) /\ Admitted(by, via, t) /\ RequireTenantRole(c, t, "manager") /\ fwd[x] # "none"
       /\ by = u \/ c.super \/ Level[fwd[x]] < Level[TenantRole(c, t)]
       /\ GotoWith(p, "delfwd", [NoRequest EXCEPT !.route = "remove", !.tenant = t, !.user = u])
       /\ torn' = torn \cup Met(p, Adding, {x})
       /\ UNCHANGED <<scripts, tenant, keys, people, invite, token, crashes, ceiling>>

RemoveTenantUser(p, by, t, u) == RemoveMember(p, by, "api", t, u)
RemoveInPanel(p, by, t, u) == RemoveMember(p, by, "panel", t, u)
RemoveOnUserPage(p, by, t, u) == RemoveMember(p, by, "panel", t, u)

InviteUser(p, by, via, i, t, u, role) ==
    LET c == Caller(by, via) IN
    /\ Start(p) /\ invite[i].st = "unused" /\ Admitted(by, via, t) /\ MayGrant(c, t, role) /\ role \in Invitable
    /\ Exists(t) /\ Finish(p)
    /\ invite' = [invite EXCEPT ![i] = [st |-> "open", tenant |-> t, user |-> u, role |-> role]]
    /\ ceiling' = Granted(c, t, role)
    /\ UNCHANGED <<scripts, tenant, keys, people, token, crashes, torn>>
InviteTenantUser(p, by, i, t, u, role) == InviteUser(p, by, "api", i, t, u, role)
InviteInPanel(p, by, i, t, u, role) == InviteUser(p, by, "panel", i, t, u, role)
\* Verification mails keep their token among the invitations.
SaveVerification(p, i, u) ==
    /\ Start(p) /\ invite[i].st = "unused" /\ user[u] = "live" /\ Finish(p)
    /\ invite' = [invite EXCEPT ![i] = [NoInvite EXCEPT !.st = "open", !.user = u, !.role = "verify_email"]]
    /\ UNCHANGED <<scripts, tenant, keys, people, token, crashes, ceiling, torn>>
\* Its TTL is over.
ExpireInvite(i) ==
    /\ invite[i].st = "open" /\ invite' = [invite EXCEPT ![i].st = "gone"]
    /\ UNCHANGED <<scripts, tenant, keys, people, token, pc, req, requests, crashes, ceiling, torn>>

\* accept_invitation, up to its writes; the invitation is deleted last.
AcceptInvitation(p, i) ==
    LET v == invite[i] IN
    /\ Start(p) /\ v.st = "open" /\ v.role \in Assignable /\ Exists(v.tenant)
    /\ user[v.user] = "live" /\ fwd[<<v.tenant, v.user>>] = "none"
    /\ StartAdd(p, [NoRequest EXCEPT !.route = "accept", !.tenant = v.tenant, !.user = v.user, !.role = v.role,
                                     !.invite = i, !.then = "delinvite"])
    /\ UNCHANGED <<scripts, tenant, keys, people, invite, token, crashes, ceiling>>
DeleteInvitation(p) ==
    /\ At(p, "delinvite") /\ invite' = [invite EXCEPT ![req[p].invite].st = "gone"] /\ Finish(p)
    /\ UNCHANGED <<scripts, tenant, keys, people, token, requests, crashes, ceiling, torn>>

\* delete_user: the record, then both keys of every pair the reverse keys list.
BeginErase(p, u) ==
    /\ Start(p) /\ user[u] = "live" /\ token' = [token EXCEPT ![u] = NoToken]
    /\ GotoWith(p, "record", [NoRequest EXCEPT !.route = "erase", !.user = u])
    /\ UNCHANGED <<scripts, tenant, keys, people, invite, crashes, ceiling, torn>>
DeleteRecord(p) ==
    LET u == req[p].user
        todo == {t \in Tenants : <<t, u>> \in rev}
    IN /\ At(p, "record") /\ user' = [user EXCEPT ![u] = "gone"] /\ superadmin' = superadmin \ {u}
       /\ GotoWith(p, "list", [req[p] EXCEPT !.todo = todo])
       /\ torn' = torn \cup Met(p, Adding, todo \X {u})
       /\ UNCHANGED <<scripts, tenant, keys, flag, claimed, bootstrapped, invite, token, requests, crashes, ceiling>>
NextPair(p) ==
    /\ At(p, "list")
    /\ IF req[p].todo = {} THEN Finish(p)
       ELSE \E t \in req[p].todo : GotoWith(p, "delfwd", [req[p] EXCEPT !.tenant = t, !.todo = @ \ {t}])
    /\ UNCHANGED <<scripts, tenant, keys, people, invite, token, requests, crashes, ceiling, torn>>

\* activate_user puts back the record that it read: an erased user, and a superadmin flag.
BeginActivate(p, u) ==
    /\ Start(p) /\ user[u] = "live" /\ \E by \in Users, via \in {"api", "panel"} : Super(by, via)
    /\ GotoWith(p, "activate", [NoRequest EXCEPT !.route = "activate", !.user = u, !.super = u \in superadmin])
    /\ UNCHANGED <<scripts, tenant, keys, people, invite, token, crashes, ceiling, torn>>
PutActivated(p) ==
    LET u == req[p].user IN
    /\ At(p, "activate") /\ user' = [user EXCEPT ![u] = "live"]
    /\ superadmin' = IF req[p].super THEN superadmin \cup {u} ELSE superadmin \ {u}
    /\ Finish(p)
    /\ UNCHANGED <<scripts, tenant, keys, flag, claimed, bootstrapped, invite, token, requests, crashes, ceiling, torn>>

(***************************************************************************)
(* Hooks and bootstrap.                                                    *)
(***************************************************************************)
\* has_superadmin: the flag, or else a scan of the users.
HasSuperadmin == flag \/ superadmin # {}

\* load_hooks_for_trigger keeps the enabled ones; an execution is logged.
Runs(h) == hook[h].st = "live" /\ hook[h].enabled /\ ran' = ran \cup {<<h, hook[h].version, hook[h].script>>}

\* apply_outcome after a sign-in: set_superadmin, one compare-and-swap and the flag.
HookSetsSuperadmin(p, h, u) ==
    /\ Start(p) /\ user[u] = "live" /\ Runs(h) /\ Finish(p)
    /\ \/ u \notin superadmin /\ superadmin' = superadmin \cup {u} /\ flag' = TRUE
       \/ u \in superadmin /\ superadmin' = superadmin \ {u} /\ UNCHANGED flag
    /\ UNCHANGED <<hook, snapshot, tenant, keys, user, claimed, bootstrapped, invite, token, crashes, ceiling, torn>>
\* create_tenants, and add_to_tenants where the user's list lacks the tenant.
BeginHook(p, h, t, u, role) ==
    /\ Start(p) /\ user[u] = "live" /\ Runs(h) /\ Claims(u).role[t] = "none" /\ role \in Assignable
    /\ GotoWith(p, "hooktenant", [NoRequest EXCEPT !.route = "hook", !.tenant = t, !.user = u, !.role = role])
    /\ UNCHANGED <<hook, snapshot, tenant, keys, people, invite, token, crashes, ceiling, torn>>
HookGrant(p) ==
    /\ At(p, "hooktenant")
    /\ tenant' = IF Exists(req[p].tenant) THEN tenant ELSE [tenant EXCEPT ![req[p].tenant] = "active"]
    /\ StartAdd(p, req[p]) /\ ceiling' = Raised(req[p].tenant, req[p].role)
    /\ UNCHANGED <<scripts, keys, people, invite, token, requests, crashes>>

\* Superadmins edit hooks: read, then put the record and the snapshot of the new version.
Editors(h) == {p \in Procs : req[p].hook = h}
BeginCreateHook(p, h, via, enabled) ==
    /\ Start(p) /\ hook[h].st = "unused" /\ Editors(h) = {} /\ \E u \in Users : Super(u, via)
    /\ GotoWith(p, "puthook", [NoRequest EXCEPT !.route = "edithook", !.hook = h,
                   !.value = [st |-> "live", enabled |-> enabled, version |-> 1, script |-> requests + 1]])
    /\ UNCHANGED <<scripts, tenant, keys, people, invite, token, crashes, ceiling, torn>>
CreateHook(p, h, enabled) == BeginCreateHook(p, h, "api", enabled)
CreateHookForm(p, h, enabled) == BeginCreateHook(p, h, "panel", enabled)

\* Mutant: the version is not counted up.
NextVersion_Same(v) == v

NextVersion(v) == v + 1

BeginHookEdit(p, h, via, label, value) ==
    /\ Start(p) /\ hook[h].st = "live" /\ \E u \in Users : Super(u, via)
    /\ GotoWith(p, label, [NoRequest EXCEPT !.route = "edithook", !.hook = h, !.value = value])
    /\ torn' = torn \cup (IF Editors(h) = {} THEN {} ELSE {h})
    /\ UNCHANGED <<scripts, tenant, keys, people, invite, token, crashes, ceiling>>
\* A field that is not given stays as it was read; a script that is given is new.
Revised(h, enabled, script) == [hook[h] EXCEPT !.enabled = enabled, !.version = NextVersion(@), !.script = script]
BeginHookUpdate(p, h, enabled) ==
    \E script \in {hook[h].script, requests + 1} : BeginHookEdit(p, h, "api", "puthook", Revised(h, enabled, script))
\* The panel's form sends the script, the stored one of a first read if the field is missing.
BeginHookForm(p, h, enabled) ==
    \E script \in {hook[h].script, requests + 1} :
        BeginHookEdit(p, h, "panel", "rereadhook", [hook[h] EXCEPT !.enabled = enabled, !.script = script])
RereadHook(p) ==
    LET h == req[p].hook
        form == req[p].value
    IN /\ At(p, "rereadhook")
       /\ IF hook[h].st = "live"
          THEN GotoWith(p, "puthook", [req[p] EXCEPT !.value = Revised(h, form.enabled, form.script)])
          ELSE Finish(p)
       /\ UNCHANGED <<scripts, tenant, keys, people, invite, token, requests, crashes, ceiling, torn>>
BeginHookDelete(p, h) == BeginHookEdit(p, h, "api", "delhook", NoHook)
DeleteHookInPanel(p, h) == BeginHookEdit(p, h, "panel", "delhook", NoHook)
PutHook(p) ==
    /\ At(p, "puthook") /\ hook' = [hook EXCEPT ![req[p].hook] = req[p].value] /\ Goto(p, "snapshot")
    /\ UNCHANGED <<snapshot, ran, tenant, keys, people, invite, token, requests, crashes, ceiling, torn>>
SaveHookVersion(p) ==
    /\ At(p, "snapshot") /\ Finish(p)
    /\ snapshot' = [snapshot EXCEPT ![<<req[p].hook, req[p].value.version>>] = req[p].value.script]
    /\ UNCHANGED <<hook, ran, tenant, keys, people, invite, token, requests, crashes, ceiling, torn>>
DeleteHook(p) ==
    /\ At(p, "delhook") /\ hook' = [hook EXCEPT ![req[p].hook].st = "deleted"] /\ Finish(p)
    /\ UNCHANGED <<snapshot, ran, tenant, keys, people, invite, token, requests, crashes, ceiling, torn>>

\* handle_bootstrap_submit; the id of the user is drawn before the claim.
BeginBootstrap(p, u) ==
    /\ Start(p) /\ ~HasSuperadmin /\ user[u] = "unused" /\ \A q \in Procs : req[q].user # u
    /\ GotoWith(p, "claim", [NoRequest EXCEPT !.route = "bootstrap", !.user = u])
    /\ UNCHANGED <<scripts, tenant, keys, people, invite, token, crashes, ceiling, torn>>
\* A configured bootstrap hook may give the user a tenant, before the claim and before the user exists.
BootstrapHook(p, t, role) ==
    /\ At(p, "claim") /\ req[p].tenant = None
    /\ tenant' = IF Exists(t) THEN tenant ELSE [tenant EXCEPT ![t] = "active"]
    /\ StartAdd(p, [req[p] EXCEPT !.tenant = t, !.role = role, !.then = "claim"]) /\ ceiling' = Raised(t, role)
    /\ UNCHANGED <<scripts, keys, people, invite, token, requests, crashes>>

\* Mutant: the marker is put, whoever was first.
MayClaim_Always == TRUE

\* meta:bootstrap_done can be created.
MayClaim == ~claimed

ClaimBootstrap(p) ==
    /\ At(p, "claim")
    /\ IF MayClaim THEN claimed' = TRUE /\ Goto(p, "admin") ELSE Finish(p) /\ UNCHANGED claimed
    /\ UNCHANGED <<scripts, tenant, keys, user, superadmin, flag, bootstrapped, invite, token, requests, crashes, ceiling, torn>>
\* The user and the flag; the address may be taken, and the claim stays.
CreateAdmin(p) ==
    /\ At(p, "admin")
    /\ \/ /\ user' = [user EXCEPT ![req[p].user] = "live"] /\ superadmin' = superadmin \cup {req[p].user}
          /\ flag' = TRUE /\ bootstrapped' = bootstrapped \cup {req[p].user} /\ Goto(p, "organization")
       \/ Finish(p) /\ UNCHANGED <<user, superadmin, flag, bootstrapped>>
    /\ UNCHANGED <<scripts, tenant, keys, claimed, invite, token, requests, crashes, ceiling, torn>>
CreateOrganization(p, t) ==
    /\ At(p, "organization") /\ tenant[t] = "unused" /\ tenant' = [tenant EXCEPT ![t] = "active"]
    /\ GotoWith(p, "check", [req[p] EXCEPT !.tenant = t, !.role = "owner"])
    /\ UNCHANGED <<scripts, keys, people, invite, token, requests, crashes, ceiling, torn>>

\* A handler dies between two of its steps.
Crash(p) ==
    /\ ~At(p, "idle") /\ crashes < MaxCrashes /\ crashes' = crashes + 1 /\ Finish(p)
    /\ torn' = torn \cup Pairs(p) \cup ({req[p].hook} \ {None})
    /\ UNCHANGED <<scripts, tenant, keys, people, invite, token, requests, ceiling>>

Step(p) ==
    \/ PutFwd(p) \/ PutRev(p) \/ DeleteFwd(p) \/ DeleteRev(p) \/ PutTenant(p) \/ DeleteTenant(p)
    \/ RereadHook(p) \/ PutHook(p) \/ SaveHookVersion(p) \/ DeleteHook(p)
    \/ CheckMember(p) \/ DeleteInvitation(p) \/ DeleteRecord(p) \/ NextPair(p) \/ HookGrant(p) \/ PutActivated(p)
    \/ \E t \in Tenants, role \in Asked : BootstrapHook(p, t, role)
    \/ ClaimBootstrap(p) \/ CreateAdmin(p) \/ \E t \in Tenants : CreateOrganization(p, t)
Begin(p) ==
    /\ At(p, "idle") /\ requests < MaxRequests
    /\ \/ \E u \in Users : IssueToken(p, u) \/ BeginErase(p, u) \/ BeginActivate(p, u) \/ BeginBootstrap(p, u)
       \/ \E u \in Users, i \in Invites : SaveVerification(p, i, u)
       \/ \E i \in Invites : AcceptInvitation(p, i)
       \/ \E t \in Tenants :
            \/ CreateTenant(p, t) \/ CreateTenantInPanel(p, t) \/ UpdateTenant(p, t)
            \/ BeginDeleteTenant(p, t) \/ DeleteTenantInPanel(p, t)
            \/ \E by \in Users, u \in Users :
                 \/ RemoveTenantUser(p, by, t, u) \/ RemoveInPanel(p, by, t, u) \/ RemoveOnUserPage(p, by, t, u)
                 \/ \E role \in Asked : AddTenantUser(p, by, t, u, role) \/ AddInPanel(p, by, t, u, role)
                 \/ \E i \in Invites, role \in Asked :
                      InviteTenantUser(p, by, i, t, u, role) \/ InviteInPanel(p, by, i, t, u, role)
            \/ \E u \in Users, role \in Asked : AddToNewTenant(p, t, u, role)
       \/ \E h \in Hooks :
            \/ \E u \in Users : HookSetsSuperadmin(p, h, u)
            \/ \E t \in Tenants, u \in Users, role \in Asked : BeginHook(p, h, t, u, role)
            \/ \E enabled \in BOOLEAN : CreateHook(p, h, enabled) \/ CreateHookForm(p, h, enabled)
            \/ \E enabled \in BOOLEAN : BeginHookUpdate(p, h, enabled) \/ BeginHookForm(p, h, enabled)
            \/ BeginHookDelete(p, h) \/ DeleteHookInPanel(p, h)
Next ==
    \/ \E p \in Procs : Begin(p) \/ Step(p) \/ Crash(p)
    \/ \E i \in Invites : ExpireInvite(i)
Spec == Init /\ [][Next]_vars

-----------------------------------------------------------------------------
(***************************************************************************)
(* The bootstrap form makes one superadmin at most, however many browsers  *)
(* post it at once (handle_bootstrap_submit, meta:bootstrap_done).         *)
(***************************************************************************)
BootstrapOnce == Cardinality(bootstrapped) <= 1

(***************************************************************************)
(* Rank in a tenant comes from above: no sequence of additions, removals,  *)
(* invitations accepted late, and requests with tokens that carry outdated *)
(* roles yields a member, or an open invitation, that ranks above every    *)
(* role superadmins and hooks granted there (add_member, invite_user and   *)
(* accept_invitation).                                                     *)
(***************************************************************************)
RankFromAbove ==
    /\ \A x \in Tenants \X Users : Level[fwd[x]] <= ceiling[x[1]]
    /\ \A i \in Invites : invite[i].st = "open" /\ invite[i].tenant # None =>
           Level[invite[i].role] <= ceiling[invite[i].tenant]

(***************************************************************************)
(* The tenant and the user agree on a membership: when nobody is writing   *)
(* it, both keys are there or neither is, except where a handler died or   *)
(* an addition and a removal overlapped (add_membership,                   *)
(* remove_membership, delete_user).                                        *)
(***************************************************************************)
ViewsAgree ==
    \A x \in Tenants \X Users : x \notin torn /\ (\A p \in Procs : x \notin Pairs(p)) =>
        (fwd[x] # "none" <=> x \in rev)

(***************************************************************************)
(* What a hook did can be told afterwards: the script of every execution,  *)
(* logged with its version, is the one the snapshot of that version keeps, *)
(* once no edit of the hook is under way, and unless edits overlapped or   *)
(* one was cut short (update_hook, save_hook_version, execute_hooks).      *)
(***************************************************************************)
RanIsOnRecord ==
    \A r \in ran : r[1] \notin torn /\ Editors(r[1]) = {} => snapshot[<<r[1], r[2]>>] = r[3]
=============================================================================
