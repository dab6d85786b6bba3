-------------------------- MODULE DirectoryProofs ---------------------------
(***************************************************************************)
(* Theorems about Directory for any number of tenants, users, invitations, *)
(* hooks and requests: one bootstrap, roles that come from above, the two  *)
(* keys of a membership, and the record of what a hook did.                *)
(***************************************************************************)
EXTENDS Directory, FiniteSetTheorems, TLAPS

Roles == Assignable \cup {"none"}
Claim == [held: BOOLEAN, super: BOOLEAN, role: [Tenants -> Roles]]
Invitation == [st: {"unused", "open", "gone"}, tenant: Tenants \cup {None}, user: Users \cup {None}, role: DOMAIN Level]
Hook == [st: {"unused", "live", "deleted"}, enabled: BOOLEAN, version: 0..MaxRequests + 1, script: Nat]
Request == [route: Routes, tenant: Tenants \cup {None}, user: Users \cup {None}, role: Roles, invite: Invites \cup {None},
            todo: SUBSET Tenants, then: {"idle", "delinvite", "claim"}, hook: Hooks \cup {None}, value: Hook,
            super: BOOLEAN]

\* The tables, without the locals of the requests.
Tables ==
    /\ tenant \in [Tenants -> {"unused", "active", "suspended", "deleted"}]
    /\ fwd \in [Tenants \X Users -> Roles] /\ rev \subseteq Tenants \X Users
    /\ user \in [Users -> {"unused", "live", "gone"}] /\ superadmin \subseteq Users
    /\ flag \in BOOLEAN /\ claimed \in BOOLEAN
    /\ requests \in 0..MaxRequests /\ crashes \in 0..MaxCrashes
    /\ bootstrapped \subseteq Users /\ ceiling \in [Tenants -> 0..4] /\ torn \subseteq (Tenants \X Users) \cup Hooks
    /\ invite \in [Invites -> Invitation] /\ token \in [Users -> Claim]
    /\ hook \in [Hooks -> Hook] /\ snapshot \in [Hooks \X Versions -> Int]
    /\ ran \subseteq Hooks \X Versions \X Nat

Typed == Tables /\ pc \in [Procs -> Labels] /\ req \in [Procs -> Request]

\* What a request with locals r knows when it is about to take step l.
ReqOK(l, r) ==
    /\ l \in Adding \cup {"check", "hooktenant"} => r.tenant \in Tenants /\ r.user \in Users /\ r.role \in Assignable
    /\ l \in {"claim", "admin", "organization", "record", "list", "activate"} => r.user \in Users
    /\ l \in Removing => r.tenant \in Tenants /\ r.user \in Users
    /\ l \in {"puttenant", "deltenant"} => r.tenant \in Tenants
    /\ l = "delinvite" \/ r.then = "delinvite" => r.invite \in Invites
    /\ l \in {"rereadhook", "puthook", "snapshot", "delhook"} => r.hook \in Hooks
    /\ l \in {"puthook", "snapshot"} => r.value.version > 0 /\ r.value.st = "live"
    /\ l \notin Removing \cup {"list"} => r.todo = {}
    /\ l \notin Adding => r.then = "idle"
RequestOK(p) == ReqOK(pc[p], req[p])

\* The claim of the bootstrap is taken once, and whoever took it makes the first superadmin.
BootstrapOK ==
    /\ \A p, q \in Procs : At(p, "admin") /\ At(q, "admin") => p = q
    /\ \A p \in Procs : At(p, "admin") => claimed /\ bootstrapped = {}
    /\ bootstrapped # {} => claimed
    /\ \A u, v \in bootstrapped : u = v

\* Roles stored, offered, carried by a token or about to be stored are below the ceiling.
Below(t, role) == Level[role] <= ceiling[t]
InvitationOK(i) ==
    /\ invite[i].role \in Assignable => invite[i].tenant \in Tenants /\ invite[i].user \in Users
    /\ invite[i].st = "open" /\ invite[i].tenant # None => invite[i].role \in Assignable /\ Below(invite[i].tenant, invite[i].role)
RankOK ==
    /\ \A t \in Tenants, u \in Users : Below(t, fwd[<<t, u>>]) /\ Below(t, token[u].role[t])
    /\ \A i \in Invites : InvitationOK(i)
    /\ \A p \in Procs : At(p, "fwd") => Below(req[p].tenant, req[p].role)

\* The pair that a request is writing just now.
Writes(p, labels, x) == pc[p] \in labels /\ <<req[p].tenant, req[p].user>> = x

\* Unless torn, a pair is written by requests that add it or by ones that remove it, and one key
\* without the other is the work of a request between its two steps.
PairOK(x) ==
    x \notin torn =>
        /\ \A p, q \in Procs : x \in Pairs(p) /\ pc[p] \in Adding /\ x \in Pairs(q) => pc[q] \in Adding
        /\ fwd[x] # "none" /\ x \notin rev => \E p \in Procs : Writes(p, {"rev"}, x)
        /\ fwd[x] = "none" /\ x \in rev => \E p \in Procs : Writes(p, {"delrev"}, x)
        /\ \A p \in Procs : Writes(p, {"rev"}, x) => fwd[x] # "none"
        /\ \A p \in Procs : Writes(p, {"delrev"}, x) => fwd[x] = "none"

\* Each form that will read a hook again may still add one version.
Rereaders == {p \in Procs : pc[p] = "rereadhook"}
VersionsOK ==
    /\ IsFiniteSet(Rereaders)
    /\ \A h \in Hooks : hook[h].version + Cardinality(Rereaders) <= requests + 1
    /\ \A p \in Procs : req[p].value.version + Cardinality(Rereaders) <= requests + 1

\* Unless torn, a hook has one editor, who writes the snapshot of the version just stored.
Snapshotter(p, h) == pc[p] = "snapshot" /\ req[p].hook = h
HookOK(h) ==
    /\ hook[h].st = "unused" => hook[h].version = 0
    /\ hook[h].st = "live" => hook[h].version > 0
    /\ h \notin torn =>
        /\ \A p, q \in Procs : req[p].hook = h /\ req[q].hook = h => p = q
        /\ \A p \in Procs : Snapshotter(p, h) => req[p].value = hook[h]
        /\ \A p \in Procs : pc[p] = "puthook" /\ req[p].hook = h => req[p].value.version > hook[h].version
        /\ hook[h].version > 0 /\ (\A p \in Procs : ~Snapshotter(p, h)) =>
              snapshot[<<h, hook[h].version>>] = hook[h].script
        /\ \A r \in ran : r[1] = h =>
              /\ r[2] <= hook[h].version
              /\ r[2] = hook[h].version => r[3] = hook[h].script
              /\ r[2] < hook[h].version => snapshot[<<h, r[2]>>] = r[3]

IInv ==
    /\ Typed
    /\ \A p \in Procs : RequestOK(p)
    /\ BootstrapOK /\ RankOK /\ VersionsOK
    /\ \A x \in Tenants \X Users : PairOK(x)
    /\ \A h \in Hooks : HookOK(h)

(***************************************************************************)
(* Values, and the steps of one request.                                   *)
(***************************************************************************)
\* role_level orders the roles.
LEMMA Levels ==
    /\ DOMAIN Level = {"none", "verify_email", "member", "manager", "admin", "owner"}
    /\ \A role \in DOMAIN Level : Level[role] \in 0..4
    /\ Level["none"] = 0 /\ Level["verify_email"] = 0 /\ Level["owner"] = 4
    /\ Roles \subseteq DOMAIN Level /\ Assignable \subseteq Roles /\ Invitable \subseteq Assignable
    /\ Asked \subseteq Assignable
BY DirectoryAssumption DEF Level, Roles, Assignable, Invitable

\* The types of the model follow.
LEMMA TypesHold == Typed => TypeOK
<1>1. \A h \in Hook : h.st \in {"unused", "live", "deleted"} /\ h.version \in 0..MaxRequests + 1
    BY DEF Hook
<1>2. \A i \in Invitation : i.st \in {"unused", "open", "gone"} /\ i.role \in DOMAIN Level
    BY DEF Invitation
<1>3. \A r \in Request : r.route \in Routes
    BY DEF Request
<1>4. \A r \in Hooks \X Versions \X Nat : r[1] \in Hooks
    OBVIOUS
<1> QED
    BY <1>1, <1>2, <1>3, <1>4 DEF Typed, TypeOK, Tables, Roles

\* The values that requests and records start from.
LEMMA NothingTyped ==
    /\ NoHook \in Hook /\ NoRequest \in Request /\ NoInvite \in Invitation /\ NoToken \in Claim
    /\ ReqOK("idle", NoRequest) /\ NoHook.version = 0
<1>1. NoHook \in Hook /\ NoHook.version = 0
    BY DirectoryAssumption DEF NoHook, Hook
<1>2. NoRequest \in Request /\ ReqOK("idle", NoRequest)
    BY <1>1 DEF NoRequest, Request, Routes, Roles, ReqOK, Adding, Removing
<1>3. NoInvite \in Invitation
    BY Levels DEF NoInvite, Invitation
<1>4. NoToken \in Claim
    BY DEF NoToken, Claim, Roles
<1> QED
    BY <1>1, <1>2, <1>3, <1>4

\* The step of request p.
LEMMA MovesOne ==
    ASSUME IInv, NEW p \in Procs, NEW l, NEW r, GotoWith(p, l, r)
    PROVE  /\ pc'[p] = l /\ req'[p] = r
           /\ \A q \in Procs \ {p} : pc'[q] = pc[q] /\ req'[q] = req[q]
BY DEF IInv, Typed, GotoWith

\* What request p knows of its own locals.
LEMMA Locals ==
    ASSUME IInv, NEW p \in Procs
    PROVE  req[p] \in Request /\ pc[p] \in Labels /\ ReqOK(pc[p], req[p])
BY DEF IInv, Typed, RequestOK

\* The parts of the invariant after a step of request p.
LEMMA Combine ==
    ASSUME IInv, NEW p \in Procs, NEW l \in Labels, NEW r \in Request, GotoWith(p, l, r), ReqOK(l, r),
           Tables', BootstrapOK', RankOK', VersionsOK',
           \A x \in Tenants \X Users : PairOK(x)', \A h \in Hooks : HookOK(h)'
    PROVE  IInv'
<1>1. pc' \in [Procs -> Labels] /\ req' \in [Procs -> Request]
    BY DEF IInv, Typed, GotoWith
<1>3. \A q \in Procs : RequestOK(q)'
    BY MovesOne DEF IInv, RequestOK
<1> QED
    BY <1>1, <1>3 DEF IInv, Typed

(***************************************************************************)
(* Steps that leave a part of the invariant alone.                         *)
(***************************************************************************)
LEMMA SameBootstrap ==
    ASSUME IInv, NEW p \in Procs, NEW l, NEW r, GotoWith(p, l, r), l # "admin", UNCHANGED <<claimed, bootstrapped>>
    PROVE  BootstrapOK'
BY MovesOne DEF IInv, BootstrapOK, At

\* A request is about to store a role at most if it is below the ceiling.
LEMMA SameRanks ==
    ASSUME IInv, NEW p \in Procs, NEW l, NEW r, GotoWith(p, l, r), UNCHANGED <<fwd, token, invite, ceiling>>,
           l = "fwd" => Below(r.tenant, r.role)
    PROVE  RankOK'
<1>1. \A q \in Procs : At(q, "fwd")' => Below(req'[q].tenant, req'[q].role)
    BY MovesOne DEF IInv, RankOK, At
<1> QED
    BY <1>1 DEF IInv, RankOK, InvitationOK, Below

\* Steps outside the writing of memberships.
Writing == Adding \cup Removing \cup {"list"}

LEMMA SamePairs ==
    ASSUME IInv, NEW p \in Procs, NEW l, NEW r, GotoWith(p, l, r), UNCHANGED keys, torn \subseteq torn',
           pc[p] \notin Writing, l \notin Writing
    PROVE  \A x \in Tenants \X Users : PairOK(x)'
<1> TAKE x \in Tenants \X Users
<1>1. /\ pc'[p] = l /\ req'[p] = r
      /\ \A q \in Procs \ {p} : pc'[q] = pc[q] /\ req'[q] = req[q]
    BY MovesOne
<1>2. \A q \in Procs : Pairs(q)' = Pairs(q)
    BY <1>1 DEF Pairs, Writing
<1>3. \A q \in Procs : pc'[q] \in Adding <=> pc[q] \in Adding
    BY <1>1 DEF Writing
<1>4. \A q \in Procs : /\ Writes(q, {"rev"}, x)' <=> Writes(q, {"rev"}, x)
                       /\ Writes(q, {"delrev"}, x)' <=> Writes(q, {"delrev"}, x)
    BY <1>1 DEF Writes, Writing, Adding, Removing
<1>5. PairOK(x)
    BY DEF IInv
<1> QED
    BY <1>2, <1>3, <1>4, <1>5 DEF PairOK, keys

\* Steps that store no version of a hook and plan none.
LEMMA SameVersions ==
    ASSUME IInv, Tables', NEW p \in Procs, NEW l, NEW r \in Request, GotoWith(p, l, r), l # "rereadhook", requests <= requests',
           \A h \in Hooks : hook'[h].version = hook[h].version, r.value.version <= req[p].value.version
    PROVE  VersionsOK'
<1>1. Rereaders' \subseteq Rereaders
    BY MovesOne DEF Rereaders
<1>2. /\ IsFiniteSet(Rereaders') /\ Cardinality(Rereaders') \in Nat /\ Cardinality(Rereaders) \in Nat
      /\ Cardinality(Rereaders') <= Cardinality(Rereaders)
    BY <1>1, FS_Subset, FS_CardinalityType DEF IInv, VersionsOK
<1>3. requests \in Nat /\ requests' \in Nat
    BY DEF IInv, Typed, Tables
<1>4. \A h \in Hooks : hook[h].version \in Nat
    BY DEF IInv, Typed, Tables, Hook
<1>5. \A q \in Procs : /\ req[q].value.version \in Nat /\ req'[q].value.version \in Nat
                       /\ req'[q].value.version <= req[q].value.version
    BY MovesOne, Locals DEF Request, Hook
<1>6. \A h \in Hooks : hook'[h].version + Cardinality(Rereaders') <= requests' + 1
    BY <1>2, <1>3, <1>4 DEF IInv, VersionsOK
<1>7. \A q \in Procs : req'[q].value.version + Cardinality(Rereaders') <= requests' + 1
    BY <1>2, <1>3, <1>5 DEF IInv, VersionsOK
<1> QED
    BY <1>2, <1>6, <1>7 DEF VersionsOK

\* Steps that run hooks or do nothing to them. A request that dies before its snapshot tears the hook.
Executed == \A r \in ran' : r \in ran \/ \E h \in Hooks : hook[h].st # "unused" /\ r = <<h, hook[h].version, hook[h].script>>

LEMMA SameHooks ==
    ASSUME IInv, NEW p \in Procs, NEW l, NEW r, GotoWith(p, l, r), UNCHANGED <<hook, snapshot>>, Executed,
           torn \subseteq torn', r.hook \in {None, req[p].hook}, l \notin {"puthook", "snapshot"},
           pc[p] = "snapshot" => req[p].hook \in torn'
    PROVE  \A h \in Hooks : HookOK(h)'
<1> TAKE h \in Hooks
<1>1. /\ pc'[p] = l /\ req'[p] = r /\ h # None
      /\ \A q \in Procs \ {p} : pc'[q] = pc[q] /\ req'[q] = req[q]
    BY MovesOne, DirectoryAssumption
<1>2. HookOK(h) /\ hook[h].version \in Nat
    BY DEF IInv, Typed, Tables, Hook
<1> SUFFICES ASSUME h \notin torn' PROVE HookOK(h)'
    BY <1>2 DEF HookOK
<1>3. \A q \in Procs : req'[q].hook = h => req[q].hook = h
    BY <1>1
<1>4. \A q \in Procs : Snapshotter(q, h)' <=> Snapshotter(q, h)
    BY <1>1 DEF Snapshotter
<1>5. \A q \in Procs : pc'[q] \in {"puthook", "snapshot"} => q # p
    BY <1>1
<1>6. ASSUME NEW e \in ran', e[1] = h
      PROVE  /\ e[2] <= hook[h].version
             /\ e[2] = hook[h].version => e[3] = hook[h].script
             /\ e[2] < hook[h].version => snapshot[<<h, e[2]>>] = e[3]
    <2>1. CASE e \in ran
        BY <1>2, <1>6, <2>1 DEF HookOK
    <2>2. CASE e \notin ran
        <3>1. e = <<h, hook[h].version, hook[h].script>>
            BY <1>6, <2>2 DEF Executed
        <3> QED
            BY <1>2, <3>1
    <2> QED
        BY <2>1, <2>2
<1>7. \A q \in Procs : Snapshotter(q, h)' => req'[q].value = hook'[h]
    BY <1>1, <1>2, <1>4, <1>5 DEF HookOK, Snapshotter
<1>8. \A q \in Procs : pc'[q] = "puthook" /\ req'[q].hook = h => req'[q].value.version > hook'[h].version
    BY <1>1, <1>2, <1>5 DEF HookOK
<1>9. \A q, s \in Procs : req'[q].hook = h /\ req'[s].hook = h => q = s
    BY <1>2, <1>3 DEF HookOK
<1> QED
    BY <1>2, <1>4, <1>6, <1>7, <1>8, <1>9 DEF HookOK

\* A step outside the writing of memberships, hooks and claims.
LEMMA PlainStep ==
    ASSUME IInv, Tables', NEW p \in Procs, NEW l \in Labels, NEW r \in Request, GotoWith(p, l, r), ReqOK(l, r),
           pc[p] \notin Writing \cup {"snapshot"},
           l \notin Writing \cup {"admin", "puthook", "snapshot", "rereadhook"},
           r.hook \in {None, req[p].hook}, r.value.version <= req[p].value.version, requests <= requests',
           UNCHANGED <<keys, claimed, bootstrapped, hook, snapshot>>, Executed, torn \subseteq torn', RankOK'
    PROVE  IInv'
<1>1. BootstrapOK'
    BY SameBootstrap
<1>2. \A x \in Tenants \X Users : PairOK(x)'
    BY SamePairs
<1>3. VersionsOK'
    BY SameVersions
<1>4. \A h \in Hooks : HookOK(h)'
    BY SameHooks
<1> QED
    BY <1>1, <1>2, <1>3, <1>4, Combine

\* Such a step of a request that begins or ends.
LEMMA PlainFresh ==
    ASSUME IInv, Tables', NEW p \in Procs,
           NEW l \in {"idle", "record", "check", "claim", "hooktenant", "puttenant", "deltenant", "activate"}, NEW r \in Request,
           GotoWith(p, l, r), ReqOK(l, r), pc[p] \notin Writing \cup {"snapshot"}, r.hook = None, r.value = NoHook,
           UNCHANGED <<keys, claimed, bootstrapped, hook, snapshot>>, Executed, requests <= requests', torn \subseteq torn', RankOK'
    PROVE  IInv'
<1>1. l \in Labels /\ l \notin Writing \cup {"admin", "puthook", "snapshot", "rereadhook"}
    BY DEF Labels, Writing, Adding, Removing
<1>2. r.value.version <= req[p].value.version
    BY Locals, NothingTyped DEF Request, Hook
<1> QED
    BY <1>1, <1>2, PlainStep

\* A step that begins counts one request.
LEMMA Counted ==
    ASSUME IInv, NEW p \in Procs, Start(p)
    PROVE  requests' \in 0..MaxRequests /\ requests <= requests' /\ pc[p] \notin Writing \cup {"snapshot"}
BY DirectoryAssumption DEF IInv, Typed, Tables, Start, At, Writing, Adding, Removing

\* The tables where a step changes none.
LEMMA NotExecuted == UNCHANGED ran => Executed
BY DEF Executed

(***************************************************************************)
(* Callers and tenants.                                                    *)
(***************************************************************************)
\* The stored roles are a claim below the ceilings.
LEMMA ClaimsBelow ==
    ASSUME IInv, NEW u \in Users
    PROVE  Claims(u) \in Claim /\ \A t \in Tenants : Below(t, Claims(u).role[t])
<1>1. \A t \in Tenants : fwd[<<t, u>>] \in Roles /\ ceiling[t] \in Nat
    BY DEF IInv, Typed, Tables
<1>2. Claims(u) \in Claim
    BY <1>1 DEF Claims, Claim, Roles
<1>3. \A t \in Tenants : Below(t, fwd[<<t, u>>]) /\ Below(t, "none")
    BY <1>1, Levels DEF IInv, RankOK, Below
<1> QED
    BY <1>2, <1>3 DEF Claims

LEMMA IssueTokenOK == ASSUME IInv, NEW p \in Procs, NEW u \in Users, IssueToken(p, u) PROVE IInv'
<1>1. Tables'
    BY Counted, ClaimsBelow DEF IssueToken, IInv, Typed, Tables, scripts, keys, people
<1>2. RankOK'
    <2>1. /\ token' = [token EXCEPT ![u] = Claims(u)] /\ token \in [Users -> Claim]
          /\ UNCHANGED <<fwd, invite, ceiling>>
        BY DEF IssueToken, IInv, Typed, Tables, keys
    <2>2. \A t \in Tenants, v \in Users : Below(t, token'[v].role[t])
        BY <2>1, ClaimsBelow DEF IInv, RankOK
    <2>3. \A q \in Procs : At(q, "fwd")' => At(q, "fwd") /\ req'[q] = req[q]
        BY MovesOne DEF IssueToken, Finish, At
    <2> QED
        BY <2>1, <2>2, <2>3 DEF IInv, RankOK, InvitationOK, Below
<1> QED
    BY <1>1, <1>2, PlainFresh, Counted, NothingTyped, NotExecuted DEF IssueToken, Finish, scripts, people, NoRequest

LEMMA CreateTenantOK == ASSUME IInv, NEW p \in Procs, NEW t \in Tenants, CreateTenant(p, t) PROVE IInv'
<1>1. Tables'
    BY Counted DEF CreateTenant, IInv, Typed, Tables, scripts, keys, people
<1>2. RankOK'
    BY SameRanks DEF CreateTenant, Finish, keys
<1> QED
    BY <1>1, <1>2, PlainFresh, Counted, NothingTyped, NotExecuted DEF CreateTenant, Finish, scripts, people, NoRequest

LEMMA BeginTenantEditOK ==
    ASSUME IInv, NEW p \in Procs, NEW t \in Tenants, NEW via, NEW l \in {"puttenant", "deltenant"}, BeginTenantEdit(p, t, via, l)
    PROVE  IInv'
<1> DEFINE r == [NoRequest EXCEPT !.route = "tenant", !.tenant = t]
<1>1. Tables'
    BY Counted DEF BeginTenantEdit, IInv, Typed, Tables, scripts, keys, people
<1>2. RankOK'
    BY SameRanks DEF BeginTenantEdit, keys
<1>3. r \in Request
    BY NothingTyped DEF Request, Routes
<1>4. ReqOK(l, r) /\ r.hook = None /\ r.value = NoHook
    BY DEF ReqOK, NoRequest, Adding, Removing
<1> QED
    BY <1>1, <1>2, <1>3, <1>4, PlainFresh, Counted, NotExecuted DEF BeginTenantEdit, scripts, people

\* update_tenant and delete_tenant, and the invitations and memberships they leave alone.
LEMMA WriteTenantOK == ASSUME IInv, NEW p \in Procs, PutTenant(p) \/ DeleteTenant(p) PROVE IInv'
<1>1. Tables'
    <2>1. req[p].tenant \in Tenants
        BY Locals DEF ReqOK, PutTenant, DeleteTenant, At
    <2> QED
        BY <2>1 DEF PutTenant, DeleteTenant, IInv, Typed, Tables, scripts, keys, people
<1>2. RankOK'
    BY SameRanks DEF PutTenant, DeleteTenant, Finish, keys
<1>3. requests <= requests'
    BY DEF PutTenant, DeleteTenant, IInv, Typed, Tables
<1>4. pc[p] \notin Writing \cup {"snapshot"}
    BY DEF PutTenant, DeleteTenant, At, Writing, Adding, Removing
<1> QED
    BY <1>1, <1>2, <1>3, <1>4, PlainFresh, NothingTyped, NotExecuted DEF PutTenant, DeleteTenant, Finish, scripts, people, NoRequest

LEMMA AddToNewTenantOK ==
    ASSUME IInv, NEW p \in Procs, NEW t \in Tenants, NEW u \in Users, NEW role \in Assignable, AddToNewTenant(p, t, u, role)
    PROVE  IInv'
<1> DEFINE r == [NoRequest EXCEPT !.route = "add", !.tenant = t, !.user = u, !.role = role]
<1>1. Tables'
    BY Counted DEF AddToNewTenant, IInv, Typed, Tables, scripts, keys, people
<1>2. RankOK'
    BY SameRanks DEF AddToNewTenant, keys
<1>3. r \in Request
    BY NothingTyped, Levels DEF Request, Routes
<1>4. ReqOK("check", r) /\ r.hook = None /\ r.value = NoHook
    BY DEF ReqOK, NoRequest, Adding, Removing
<1> QED
    BY <1>1, <1>2, <1>3, <1>4, PlainFresh, Counted, NotExecuted DEF AddToNewTenant, scripts, people

\* delete_user takes the tokens of the user away first.
LEMMA BeginEraseOK == ASSUME IInv, NEW p \in Procs, NEW u \in Users, BeginErase(p, u) PROVE IInv'
<1> DEFINE r == [NoRequest EXCEPT !.route = "erase", !.user = u]
<1>1. Tables'
    BY Counted, NothingTyped DEF BeginErase, IInv, Typed, Tables, scripts, keys, people
<1>2. RankOK'
    <2>1. /\ token' = [token EXCEPT ![u] = NoToken] /\ token \in [Users -> Claim]
          /\ UNCHANGED <<fwd, invite, ceiling>> /\ ceiling \in [Tenants -> 0..4]
        BY DEF BeginErase, IInv, Typed, Tables, keys
    <2>2. \A t \in Tenants : NoToken.role[t] = "none" /\ Below(t, "none")
        BY <2>1, Levels DEF NoToken, Below
    <2>3. \A t \in Tenants, v \in Users : Below(t, token'[v].role[t])
        BY <2>1, <2>2 DEF IInv, RankOK
    <2>4. \A q \in Procs : At(q, "fwd")' => At(q, "fwd") /\ req'[q] = req[q]
        BY MovesOne DEF BeginErase, At
    <2> QED
        BY <2>1, <2>3, <2>4 DEF IInv, RankOK, InvitationOK, Below
<1>3. r \in Request
    BY NothingTyped DEF Request, Routes
<1>4. ReqOK("record", r) /\ r.hook = None /\ r.value = NoHook
    BY DEF ReqOK, NoRequest, Adding, Removing
<1> QED
    BY <1>1, <1>2, <1>3, <1>4, PlainFresh, Counted, NotExecuted DEF BeginErase, scripts, people

\* activate_user leaves the memberships and the claims of tokens alone.
LEMMA BeginActivateOK == ASSUME IInv, NEW p \in Procs, NEW u \in Users, BeginActivate(p, u) PROVE IInv'
<1> DEFINE r == [NoRequest EXCEPT !.route = "activate", !.user = u, !.super = u \in superadmin]
<1>1. Tables'
    BY Counted DEF BeginActivate, IInv, Typed, Tables, scripts, keys, people
<1>2. RankOK'
    BY SameRanks DEF BeginActivate, keys
<1>3. r \in Request
    <2>1. (u \in superadmin) \in BOOLEAN
        OBVIOUS
    <2>2. \A b \in BOOLEAN : [NoRequest EXCEPT !.route = "activate", !.user = u, !.super = b] \in Request
        BY NothingTyped DEF Request, Routes
    <2> QED
        BY <2>1, <2>2
<1>4. ReqOK("activate", r) /\ r.hook = None /\ r.value = NoHook
    BY DEF ReqOK, NoRequest, Adding, Removing
<1> QED
    BY <1>1, <1>2, <1>3, <1>4, PlainFresh, Counted, NotExecuted DEF BeginActivate, scripts, people

LEMMA PutActivatedOK == ASSUME IInv, NEW p \in Procs, PutActivated(p) PROVE IInv'
<1>1. pc[p] = "activate" /\ req[p].user \in Users
    BY Locals DEF PutActivated, At, ReqOK
<1>2. Tables'
    BY <1>1 DEF PutActivated, IInv, Typed, Tables, scripts, keys
<1>3. RankOK' /\ GotoWith(p, "idle", NoRequest)
    BY SameRanks DEF PutActivated, Finish, keys
<1>4. requests <= requests' /\ pc[p] \notin Writing \cup {"snapshot"}
    BY <1>1, <1>2 DEF PutActivated, IInv, Typed, Tables, Writing, Adding, Removing
<1> QED
    BY <1>2, <1>3, <1>4, PlainFresh, NothingTyped, NotExecuted DEF PutActivated, scripts, NoRequest

\* An execution is of a version that was stored.
LEMMA RunsOK ==
    ASSUME IInv, NEW h \in Hooks, Runs(h)
    PROVE  ran' \subseteq Hooks \X Versions \X Nat /\ Executed
<1>1. /\ hook[h].version \in 0..MaxRequests + 1 /\ hook[h].script \in Nat
      /\ hook[h].st = "live" /\ HookOK(h) /\ ran \subseteq Hooks \X Versions \X Nat
    BY DEF IInv, Typed, Tables, Hook, Runs
<1>2. hook[h].version # 0
    BY <1>1 DEF HookOK
<1>3. hook[h].version \in Versions
    BY <1>1, <1>2, DirectoryAssumption DEF Versions
<1> QED
    BY <1>1, <1>3 DEF Runs, Executed

LEMMA HookSetsSuperadminOK ==
    ASSUME IInv, NEW p \in Procs, NEW h \in Hooks, NEW u \in Users, HookSetsSuperadmin(p, h, u)
    PROVE  IInv'
<1>1. Tables'
    BY Counted, RunsOK DEF HookSetsSuperadmin, IInv, Typed, Tables, keys
<1>2. RankOK'
    BY SameRanks DEF HookSetsSuperadmin, Finish, keys
<1>3. Executed /\ torn \subseteq torn' /\ UNCHANGED <<keys, claimed, bootstrapped, hook, snapshot>>
    BY RunsOK DEF HookSetsSuperadmin
<1>4. Start(p) /\ GotoWith(p, "idle", NoRequest)
    BY DEF HookSetsSuperadmin, Finish
<1> QED
    BY <1>1, <1>2, <1>3, <1>4, PlainFresh, Counted, NothingTyped DEF NoRequest

LEMMA BeginHookOK ==
    ASSUME IInv, NEW p \in Procs, NEW h \in Hooks, NEW t \in Tenants, NEW u \in Users, NEW role \in Assignable,
           BeginHook(p, h, t, u, role)
    PROVE  IInv'
<1> DEFINE r == [NoRequest EXCEPT !.route = "hook", !.tenant = t, !.user = u, !.role = role]
<1>1. Tables'
    BY Counted, RunsOK DEF BeginHook, IInv, Typed, Tables, keys, people
<1>2. RankOK'
    BY SameRanks DEF BeginHook, keys
<1>3. r \in Request
    BY NothingTyped, Levels DEF Request, Routes
<1>4. ReqOK("hooktenant", r) /\ r.hook = None /\ r.value = NoHook
    BY DEF ReqOK, NoRequest, Adding, Removing
<1>5. Executed /\ torn \subseteq torn' /\ UNCHANGED <<keys, claimed, bootstrapped, hook, snapshot>>
    BY RunsOK DEF BeginHook, people
<1>6. Start(p) /\ GotoWith(p, "hooktenant", r)
    BY DEF BeginHook
<1> QED
    BY <1>1, <1>2, <1>3, <1>4, <1>5, <1>6, PlainFresh, Counted

LEMMA BeginBootstrapOK == ASSUME IInv, NEW p \in Procs, NEW u \in Users, BeginBootstrap(p, u) PROVE IInv'
<1> DEFINE r == [NoRequest EXCEPT !.route = "bootstrap", !.user = u]
<1>1. Tables'
    BY Counted DEF BeginBootstrap, IInv, Typed, Tables, scripts, keys, people
<1>2. RankOK'
    BY SameRanks DEF BeginBootstrap, keys
<1>3. r \in Request
    BY NothingTyped DEF Request, Routes
<1>4. ReqOK("claim", r) /\ r.hook = None /\ r.value = NoHook
    BY DEF ReqOK, NoRequest, Adding, Removing
<1> QED
    BY <1>1, <1>2, <1>3, <1>4, PlainFresh, Counted, NotExecuted DEF BeginBootstrap, scripts, people

(***************************************************************************)
(* Grants: the ceiling is raised before a role above it is stored.         *)
(***************************************************************************)
Grown == ceiling' \in [Tenants -> 0..4] /\ \A t \in Tenants : ceiling[t] <= ceiling'[t]

LEMMA RaisedOK ==
    ASSUME IInv, NEW t \in Tenants, NEW role \in Assignable
    PROVE  /\ Raised(t, role) \in [Tenants -> 0..4] /\ Level[role] <= Raised(t, role)[t]
           /\ \A s \in Tenants : ceiling[s] <= Raised(t, role)[s]
BY Levels DEF IInv, Typed, Tables, Raised

\* A caller whose roles are below the ceilings grants at most the own.
LEMMA GrantedOK ==
    ASSUME IInv, NEW by \in Users, NEW via, NEW t \in Tenants, NEW role \in Assignable,
           MayGrant(Caller(by, via), t, role), ceiling' = Granted(Caller(by, via), t, role)
    PROVE  Grown /\ Level[role] <= ceiling'[t]
<1> DEFINE c == Caller(by, via)
<1>1. ceiling \in [Tenants -> 0..4]
    BY DEF IInv, Typed, Tables
<1>2. CASE c.super
    BY <1>2, RaisedOK DEF Granted, Grown
<1>3. CASE ~c.super
    <2>1. Level[role] <= Level[c.role[t]]
        BY <1>3 DEF MayGrant, TenantRole
    <2>2. c \in Claim /\ Level[c.role[t]] <= ceiling[t]
        BY ClaimsBelow DEF Caller, Below, IInv, Typed, Tables, RankOK
    <2>3. Level[role] \in Nat /\ Level[c.role[t]] \in Nat /\ ceiling[t] \in Nat
        BY <1>1, <2>2, Levels DEF Claim
    <2> QED
        BY <1>1, <1>3, <2>1, <2>2, <2>3 DEF Granted, Grown
<1> QED
    BY <1>2, <1>3

\* Ranks stay below ceilings that grow.
LEMMA BelowStays ==
    ASSUME IInv, Grown, NEW t \in Tenants, NEW role \in DOMAIN Level, Below(t, role)
    PROVE  Level[role] <= ceiling'[t]
BY Levels DEF IInv, Typed, Tables, Grown, Below

LEMMA RanksGrow ==
    ASSUME IInv, Grown, NEW p \in Procs, NEW l, NEW r, GotoWith(p, l, r), UNCHANGED <<fwd, token>>,
           l = "fwd" => Level[r.role] <= ceiling'[r.tenant],
           \A i \in Invites : invite'[i] = invite[i] \/ InvitationOK(i)'
    PROVE  RankOK'
<1>1. \A t \in Tenants, u \in Users : Below(t, fwd[<<t, u>>])' /\ Below(t, token[u].role[t])'
    <2> TAKE t \in Tenants, u \in Users
    <2>1. fwd[<<t, u>>] \in DOMAIN Level /\ token[u].role[t] \in DOMAIN Level
        BY Levels DEF IInv, Typed, Tables, Claim
    <2> QED
        BY <2>1, BelowStays DEF IInv, RankOK, Below
<1>2. \A i \in Invites : InvitationOK(i)'
    <2> TAKE i \in Invites
    <2>1. invite[i] \in Invitation /\ InvitationOK(i)
        BY DEF IInv, Typed, Tables, RankOK
    <2>2. CASE invite'[i] = invite[i]
        BY <2>1, <2>2, BelowStays DEF InvitationOK, Below, Invitation
    <2> QED
        BY <2>2
<1>3. \A q \in Procs : At(q, "fwd")' => Level[req'[q].role] <= ceiling'[req'[q].tenant]
    <2> TAKE q \in Procs
    <2>1. CASE q = p
        BY <2>1, MovesOne DEF At
    <2>2. CASE q # p
        <3>1. pc'[q] = pc[q] /\ req'[q] = req[q]
            BY <2>2, MovesOne
        <3> SUFFICES ASSUME At(q, "fwd") PROVE Level[req[q].role] <= ceiling'[req[q].tenant]
            BY <3>1 DEF At
        <3>2. req[q].tenant \in Tenants /\ req[q].role \in DOMAIN Level /\ Below(req[q].tenant, req[q].role)
            BY Locals, Levels DEF ReqOK, At, Adding, IInv, RankOK
        <3> QED
            BY <3>2, BelowStays
    <2> QED
        BY <2>1, <2>2
<1> QED
    BY <1>1, <1>2, <1>3 DEF RankOK, Below

(***************************************************************************)
(* Invitations.                                                            *)
(***************************************************************************)
LEMMA SaveVerificationOK ==
    ASSUME IInv, NEW p \in Procs, NEW i \in Invites, NEW u \in Users, SaveVerification(p, i, u)
    PROVE  IInv'
<1> DEFINE v == [NoInvite EXCEPT !.st = "open", !.user = u, !.role = "verify_email"]
<1>1. v \in Invitation /\ v.role \notin Assignable /\ v.tenant = None
    BY NothingTyped, Levels DEF Invitation, NoInvite, Assignable
<1>2. invite' = [invite EXCEPT ![i] = v] /\ Start(p) /\ GotoWith(p, "idle", NoRequest)
    BY DEF SaveVerification, Finish
<1>3. Tables'
    BY <1>1, <1>2, Counted DEF SaveVerification, IInv, Typed, Tables, scripts, keys, people
<1>4. RankOK'
    <2>1. InvitationOK(i)'
        BY <1>1, <1>2 DEF InvitationOK, IInv, Typed, Tables
    <2>2. \A j \in Invites : invite'[j] = invite[j] \/ InvitationOK(j)'
        BY <1>2, <2>1 DEF IInv, Typed, Tables
    <2>3. Grown /\ UNCHANGED <<fwd, token>>
        BY DEF SaveVerification, Grown, IInv, Typed, Tables, keys
    <2> QED
        BY <1>2, <2>2, <2>3, RanksGrow
<1> QED
    BY <1>2, <1>3, <1>4, PlainFresh, Counted, NothingTyped, NotExecuted DEF SaveVerification, scripts, people, NoRequest

LEMMA InviteUserOK ==
    ASSUME IInv, NEW p \in Procs, NEW by \in Users, NEW via, NEW i \in Invites, NEW t \in Tenants, NEW u \in Users,
           NEW role \in Asked, InviteUser(p, by, via, i, t, u, role)
    PROVE  IInv'
<1> DEFINE v == [st |-> "open", tenant |-> t, user |-> u, role |-> role]
<1>1. role \in Assignable /\ v \in Invitation
    BY Levels DEF Invitation
<1>2. /\ invite' = [invite EXCEPT ![i] = v] /\ Start(p) /\ GotoWith(p, "idle", NoRequest)
      /\ UNCHANGED <<scripts, tenant, keys, people, token, crashes, torn>>
    BY DEF InviteUser, Finish
<1>3. Grown /\ Level[role] <= ceiling'[t]
    BY <1>1, GrantedOK DEF InviteUser
<1>4. Tables'
    BY <1>1, <1>2, <1>3, Counted DEF IInv, Typed, Tables, scripts, keys, people, Grown
<1>5. RankOK'
    <2>1. invite'[i] = v
        BY <1>2 DEF IInv, Typed, Tables
    <2>2. InvitationOK(i)'
        BY <1>1, <1>3, <2>1 DEF InvitationOK, Below
    <2>3. \A j \in Invites : invite'[j] = invite[j] \/ InvitationOK(j)'
        BY <1>2, <2>2 DEF IInv, Typed, Tables
    <2> QED
        BY <1>2, <1>3, <2>3, RanksGrow DEF keys
<1> QED
    BY <1>2, <1>4, <1>5, PlainFresh, Counted, NothingTyped, NotExecuted DEF scripts, people, NoRequest

\* An invitation that is withdrawn offers nothing.
LEMMA Withdrawn ==
    ASSUME IInv, NEW i \in Invites, invite' = [invite EXCEPT ![i].st = "gone"]
    PROVE  /\ invite' \in [Invites -> Invitation] /\ InvitationOK(i)'
           /\ \A j \in Invites \ {i} : invite'[j] = invite[j]
<1>1. invite[i] \in Invitation /\ InvitationOK(i) /\ invite \in [Invites -> Invitation]
    BY DEF IInv, Typed, Tables, RankOK
<1>2. invite'[i] = [invite[i] EXCEPT !.st = "gone"]
    BY <1>1
<1>3. invite'[i] \in Invitation /\ invite'[i].st = "gone"
    BY <1>1, <1>2 DEF Invitation
<1> QED
    BY <1>1, <1>2, <1>3 DEF InvitationOK, Invitation

LEMMA DeleteInvitationOK == ASSUME IInv, NEW p \in Procs, DeleteInvitation(p) PROVE IInv'
<1>1. /\ req[p].invite \in Invites /\ GotoWith(p, "idle", NoRequest) /\ pc[p] \notin Writing \cup {"snapshot"}
      /\ UNCHANGED <<scripts, tenant, keys, people, token, requests, crashes, ceiling, torn>>
    BY Locals DEF ReqOK, DeleteInvitation, At, Finish, Writing, Adding, Removing
<1>2. /\ invite' \in [Invites -> Invitation]
      /\ \A j \in Invites : invite'[j] = invite[j] \/ InvitationOK(j)'
    BY <1>1, Withdrawn DEF DeleteInvitation
<1>3. Tables' /\ Grown /\ requests <= requests'
    BY <1>1, <1>2 DEF IInv, Typed, Tables, Grown, scripts, keys, people
<1>4. RankOK'
    BY <1>1, <1>2, <1>3, RanksGrow DEF keys
<1> QED
    BY <1>1, <1>3, <1>4, PlainFresh, NothingTyped, NotExecuted DEF scripts, people, NoRequest

LEMMA ExpireInviteOK == ASSUME IInv, NEW i \in Invites, ExpireInvite(i) PROVE IInv'
<1>1. /\ invite' \in [Invites -> Invitation] /\ InvitationOK(i)'
      /\ \A j \in Invites \ {i} : invite'[j] = invite[j]
    BY Withdrawn DEF ExpireInvite
<1>2. UNCHANGED <<scripts, tenant, keys, people, token, pc, req, requests, crashes, ceiling, torn>>
    BY DEF ExpireInvite
<1>3. Typed'
    BY <1>1, <1>2 DEF IInv, Typed, Tables, scripts, keys, people
<1>4. (\A p \in Procs : RequestOK(p))' /\ BootstrapOK' /\ VersionsOK'
    BY <1>2 DEF IInv, RequestOK, BootstrapOK, VersionsOK, Rereaders, At, scripts, people
<1>5. \A x \in Tenants \X Users : PairOK(x)'
    BY <1>2 DEF IInv, PairOK, Pairs, Writes, keys
<1>6. \A h \in Hooks : HookOK(h)'
    BY <1>2 DEF IInv, HookOK, Snapshotter, scripts
<1>7. RankOK'
    BY <1>1, <1>2 DEF IInv, RankOK, InvitationOK, Below, At, keys
<1> QED
    BY <1>3, <1>4, <1>5, <1>6, <1>7 DEF IInv

(***************************************************************************)
(* The bootstrap.                                                          *)
(***************************************************************************)
\* The request keeps its user, and nothing of hooks.
LEMMA CreateOrganizationOK == ASSUME IInv, NEW p \in Procs, NEW t \in Tenants, CreateOrganization(p, t) PROVE IInv'
<1> DEFINE r == [req[p] EXCEPT !.tenant = t, !.role = "owner"]
<1>1. /\ req[p] \in Request /\ req[p].user \in Users /\ req[p].todo = {} /\ req[p].then = "idle"
      /\ pc[p] \notin Writing \cup {"snapshot"}
    BY Locals DEF ReqOK, CreateOrganization, At, Writing, Adding, Removing
<1>2. /\ r \in Request /\ ReqOK("check", r) /\ r.hook = req[p].hook /\ r.value = req[p].value
      /\ "check" \notin Writing \cup {"admin", "puthook", "snapshot", "rereadhook"} /\ "check" \in Labels
    BY <1>1, Levels DEF Request, ReqOK, Adding, Removing, Assignable, Writing, Labels
<1>3. Tables' /\ requests <= requests' /\ r.value.version <= req[p].value.version
    BY <1>1, <1>2 DEF CreateOrganization, IInv, Typed, Tables, scripts, keys, people, Request, Hook
<1>4. RankOK'
    BY SameRanks DEF CreateOrganization, keys
<1>5. GotoWith(p, "check", r) /\ torn \subseteq torn' /\ UNCHANGED <<keys, claimed, bootstrapped, hook, snapshot, ran>>
    BY DEF CreateOrganization, scripts, people
<1> QED
    BY <1>1, <1>2, <1>3, <1>4, <1>5, PlainStep, NotExecuted

\* A step of the form outside memberships and hooks.
LEMMA BootstrapStep ==
    ASSUME IInv, Tables', BootstrapOK', NEW p \in Procs, NEW l \in {"admin", "organization", "idle"},
           NEW r \in {req[p], NoRequest}, GotoWith(p, l, r), pc[p] \in {"claim", "admin"},
           UNCHANGED <<scripts, keys, invite, token, requests, ceiling, torn>>, l # "idle" => r = req[p], l = "idle" => r = NoRequest
    PROVE  IInv'
<1>1. /\ req[p] \in Request /\ req[p].user \in Users /\ req[p].todo = {} /\ req[p].then = "idle"
      /\ pc[p] \notin Writing \cup {"snapshot"}
    BY Locals DEF ReqOK, Writing, Adding, Removing
<1>2. /\ l \in Labels /\ l \notin Writing \cup {"puthook", "snapshot", "rereadhook", "fwd"}
    BY DEF Labels, Writing, Adding, Removing
<1>3. r \in Request /\ ReqOK(l, r)
    BY <1>1, NothingTyped DEF ReqOK, Adding, Removing
<1>4. r.hook \in {None, req[p].hook} /\ r.value.version <= req[p].value.version
    BY <1>1, NothingTyped DEF NoRequest, Request, Hook
<1>5. RankOK'
    BY <1>2, SameRanks DEF keys
<1>6. \A x \in Tenants \X Users : PairOK(x)'
    BY <1>1, <1>2, SamePairs
<1>7. requests <= requests'
    BY DEF IInv, Typed, Tables
<1>8. VersionsOK'
    BY <1>2, <1>3, <1>4, <1>7, SameVersions DEF scripts
<1>9. \A h \in Hooks : HookOK(h)'
    BY <1>1, <1>2, <1>4, SameHooks, NotExecuted DEF scripts
<1> QED
    BY <1>2, <1>3, <1>5, <1>6, <1>8, <1>9, Combine

\* meta:bootstrap_done lets one request through.
LEMMA ClaimBootstrapOK == ASSUME IInv, NEW p \in Procs, ClaimBootstrap(p) PROVE IInv'
<1>1. pc[p] = "claim" /\ UNCHANGED <<scripts, tenant, keys, user, superadmin, flag, bootstrapped, invite, token, requests, crashes, ceiling, torn>>
    BY DEF ClaimBootstrap, At
<1>2. CASE ~claimed
    <2>1. claimed' = TRUE /\ GotoWith(p, "admin", req[p])
        BY <1>2 DEF ClaimBootstrap, MayClaim, Goto
    <2>2. Tables'
        BY <1>1, <2>1 DEF IInv, Typed, Tables, scripts, keys
    <2>3. BootstrapOK'
        BY <1>1, <1>2, <2>1, MovesOne DEF IInv, BootstrapOK, At
    <2> QED
        BY <1>1, <2>1, <2>2, <2>3, BootstrapStep
<1>3. CASE claimed
    <2>1. UNCHANGED claimed /\ GotoWith(p, "idle", NoRequest)
        BY <1>3 DEF ClaimBootstrap, MayClaim, Finish
    <2>2. Tables'
        BY <1>1, <2>1 DEF IInv, Typed, Tables, scripts, keys
    <2>3. BootstrapOK'
        BY <1>1, <2>1, SameBootstrap
    <2> QED
        BY <1>1, <2>1, <2>2, <2>3, BootstrapStep
<1> QED
    BY <1>2, <1>3

LEMMA CreateAdminOK == ASSUME IInv, NEW p \in Procs, CreateAdmin(p) PROVE IInv'
<1>1. pc[p] = "admin" /\ UNCHANGED <<scripts, tenant, keys, claimed, invite, token, requests, crashes, ceiling, torn>>
    BY DEF CreateAdmin, At
<1>2. req[p].user \in Users /\ claimed /\ bootstrapped = {}
    BY <1>1, Locals DEF ReqOK, IInv, BootstrapOK, At
<1>3. CASE Finish(p) /\ UNCHANGED <<user, superadmin, flag, bootstrapped>>
    <2>1. Tables'
        BY <1>1, <1>3 DEF IInv, Typed, Tables, scripts, keys
    <2>2. BootstrapOK' /\ GotoWith(p, "idle", NoRequest)
        BY <1>1, <1>3, SameBootstrap DEF Finish
    <2> QED
        BY <1>1, <2>1, <2>2, BootstrapStep
<1>4. CASE /\ user' = [user EXCEPT ![req[p].user] = "live"] /\ superadmin' = superadmin \cup {req[p].user}
           /\ flag' = TRUE /\ bootstrapped' = bootstrapped \cup {req[p].user} /\ Goto(p, "organization")
    <2>1. Tables'
        BY <1>1, <1>2, <1>4 DEF IInv, Typed, Tables, scripts, keys
    <2>2. GotoWith(p, "organization", req[p])
        BY <1>4 DEF Goto
    <2>3. \A q \in Procs : pc'[q] # "admin"
        BY <1>1, <2>2, MovesOne DEF IInv, BootstrapOK, At
    <2>4. BootstrapOK'
        BY <1>1, <1>2, <1>4, <2>3 DEF BootstrapOK, At
    <2> QED
        BY <1>1, <2>1, <2>2, <2>4, BootstrapStep
<1> QED
    BY <1>3, <1>4 DEF CreateAdmin

(***************************************************************************)
(* The two keys of a membership.                                           *)
(***************************************************************************)
\* A step that writes memberships or is about to.
LEMMA WriterStep ==
    ASSUME IInv, Tables', RankOK', \A x \in Tenants \X Users : PairOK(x)',
           NEW p \in Procs, NEW l \in Writing \cup {"idle", "claim", "delinvite"}, NEW r \in Request, GotoWith(p, l, r), ReqOK(l, r),
           pc[p] # "snapshot", r.hook \in {None, req[p].hook}, r.value \in {NoHook, req[p].value}, requests <= requests',
           UNCHANGED <<claimed, bootstrapped, scripts>>, torn \subseteq torn'
    PROVE  IInv'
<1>1. l \in Labels /\ l \notin {"admin", "puthook", "snapshot", "rereadhook"}
    BY DEF Labels, Writing, Adding, Removing
<1>2. BootstrapOK'
    BY <1>1, SameBootstrap
<1>3. r.value.version <= req[p].value.version
    BY Locals, NothingTyped DEF Request, Hook
<1>4. VersionsOK'
    BY <1>1, <1>3, SameVersions DEF scripts
<1>5. \A h \in Hooks : HookOK(h)'
    BY <1>1, SameHooks, NotExecuted DEF scripts
<1> QED
    BY <1>1, <1>2, <1>4, <1>5, Combine

\* The pairs of the other requests, and who writes one just now.
LEMMA OtherPairs ==
    ASSUME IInv, NEW p \in Procs, NEW l, NEW r, GotoWith(p, l, r)
    PROVE  /\ \A q \in Procs \ {p} : Pairs(q)' = Pairs(q) /\ pc'[q] = pc[q]
           /\ \A q \in Procs \ {p}, x \in Tenants \X Users :
                 /\ Writes(q, {"rev"}, x)' <=> Writes(q, {"rev"}, x)
                 /\ Writes(q, {"delrev"}, x)' <=> Writes(q, {"delrev"}, x)
BY MovesOne DEF Pairs, Writes

LEMMA PairsOf ==
    ASSUME NEW q, NEW x
    PROVE  /\ x \in Pairs(q) => pc[q] \in Writing
           /\ Writes(q, {"rev"}, x) => x \in Pairs(q) /\ pc[q] = "rev"
           /\ Writes(q, {"delrev"}, x) => x \in Pairs(q) /\ pc[q] = "delrev"
BY DEF Pairs, Writes, Writing, Adding, Removing

\* What an untorn pair means when a request other than p writes it.
LEMMA PairKnown ==
    ASSUME IInv, NEW x \in Tenants \X Users, x \notin torn
    PROVE  /\ \A p, q \in Procs : x \in Pairs(p) /\ pc[p] \in Adding /\ x \in Pairs(q) => pc[q] \in Adding
           /\ fwd[x] # "none" /\ x \notin rev => \E p \in Procs : Writes(p, {"rev"}, x)
           /\ fwd[x] = "none" /\ x \in rev => \E p \in Procs : Writes(p, {"delrev"}, x)
           /\ \A p \in Procs : Writes(p, {"rev"}, x) => fwd[x] # "none"
           /\ \A p \in Procs : Writes(p, {"delrev"}, x) => fwd[x] = "none"
BY DEF IInv, PairOK

\* A writer that starts marks the pairs it has in common with those that undo it.
Opposed(l) == IF l = "fwd" THEN Removing \cup {"list"} ELSE Adding

LEMMA StartsPairs ==
    ASSUME IInv, NEW p \in Procs, NEW l \in {"fwd", "delfwd", "list"}, NEW r, GotoWith(p, l, r), UNCHANGED keys,
           pc[p] \notin Writing, torn' = torn \cup Met(p, Opposed(l), Pairs(p)')
    PROVE  \A x \in Tenants \X Users : PairOK(x)'
<1> SUFFICES ASSUME NEW x \in Tenants \X Users, x \notin torn' PROVE PairOK(x)'
    BY DEF PairOK
<1>1. x \notin torn /\ x \notin Met(p, Opposed(l), Pairs(p)')
    OBVIOUS
<1>2. pc'[p] = l
    BY MovesOne
<1>3. ASSUME NEW q \in Procs \ {p}, x \in Pairs(p)', x \in Pairs(q)'
      PROVE  pc'[q] \in Adding <=> pc'[p] \in Adding
    <2>1. x \in Pairs(q) /\ pc'[q] = pc[q] /\ pc[q] \in Writing
        BY <1>3, OtherPairs, PairsOf
    <2>2. pc[q] \notin Opposed(l)
        BY <1>1, <1>3, <2>1 DEF Met
    <2> QED
        BY <1>2, <2>1, <2>2 DEF Opposed, Writing, Adding, Removing
<1>4. \A q, s \in Procs : x \in Pairs(q)' /\ pc'[q] \in Adding /\ x \in Pairs(s)' => pc'[s] \in Adding
    BY <1>1, <1>3, OtherPairs, PairKnown
<1>5. \A q \in Procs : /\ Writes(q, {"rev"}, x)' <=> Writes(q, {"rev"}, x)
                       /\ Writes(q, {"delrev"}, x)' <=> Writes(q, {"delrev"}, x)
    <2>1. pc[p] \notin {"rev", "delrev"} /\ pc'[p] \notin {"rev", "delrev"}
        BY <1>2 DEF Writing, Adding, Removing
    <2>2. ~Writes(p, {"rev"}, x) /\ ~Writes(p, {"delrev"}, x) /\ ~Writes(p, {"rev"}, x)' /\ ~Writes(p, {"delrev"}, x)'
        BY <2>1 DEF Writes
    <2> QED
        BY <2>2, OtherPairs
<1> QED
    BY <1>1, <1>4, <1>5, PairKnown DEF PairOK, keys

\* add_membership, at its start.
LEMMA StartAddPairs ==
    ASSUME IInv, NEW p \in Procs, NEW r \in Request, r.todo = {}, StartAdd(p, r), UNCHANGED keys, pc[p] \notin Writing
    PROVE  \A x \in Tenants \X Users : PairOK(x)'
<1>1. pc'[p] = "fwd" /\ req'[p] = r
    BY MovesOne DEF StartAdd
<1>2. Pairs(p)' = {<<r.tenant, r.user>>}
    BY <1>1 DEF Pairs, Adding
<1> QED
    BY <1>2, StartsPairs DEF StartAdd, Opposed

\* Who adds a role below the ceiling.
LEMMA AddOK ==
    ASSUME IInv, Tables', Grown, NEW p \in Procs, NEW r \in Request, StartAdd(p, r), ReqOK("fwd", r),
           Level[r.role] <= ceiling'[r.tenant],
           pc[p] \notin Writing \cup {"snapshot"}, r.hook \in {None, req[p].hook}, r.value \in {NoHook, req[p].value},
           requests <= requests', UNCHANGED <<scripts, keys, claimed, bootstrapped, invite, token>>
    PROVE  IInv'
<1>1. GotoWith(p, "fwd", r) /\ torn \subseteq torn' /\ r.todo = {} /\ "fwd" \in Writing
    BY DEF StartAdd, ReqOK, Writing, Adding, Removing
<1>2. RankOK'
    BY <1>1, RanksGrow DEF keys
<1>3. \A x \in Tenants \X Users : PairOK(x)'
    BY <1>1, StartAddPairs
<1> QED
    BY <1>1, <1>2, <1>3, WriterStep

LEMMA MetTyped ==
    ASSUME IInv, NEW p, NEW labels, NEW pairs \in SUBSET (Tenants \X Users)
    PROVE  torn \cup Met(p, labels, pairs) \subseteq (Tenants \X Users) \cup Hooks
BY DEF Met, IInv, Typed, Tables

\* A request that begins to add, with the locals it starts from.
LEMMA AddBegins ==
    ASSUME IInv, NEW p \in Procs, NEW r \in Request, Start(p), StartAdd(p, r), ReqOK("fwd", r), Grown,
           Level[r.role] <= ceiling'[r.tenant], r.hook = None, r.value = NoHook,
           UNCHANGED <<scripts, tenant, keys, people, invite, token, crashes>>
    PROVE  IInv'
<1>1. r.tenant \in Tenants /\ r.user \in Users
    BY DEF ReqOK, Adding
<1>2. Tables'
    BY <1>1, Counted, MetTyped DEF StartAdd, IInv, Typed, Tables, Grown, scripts, keys, people
<1> QED
    BY <1>2, AddOK, Counted DEF people

\* add_member
LEMMA AddMemberOK ==
    ASSUME IInv, NEW p \in Procs, NEW by \in Users, NEW via, NEW t \in Tenants, NEW u \in Users, NEW role \in Asked,
           AddMember(p, by, via, t, u, role)
    PROVE  IInv'
<1> DEFINE r == [NoRequest EXCEPT !.route = "add", !.tenant = t, !.user = u, !.role = role]
<1>1. role \in Assignable /\ r \in Request
    BY NothingTyped, Levels DEF Request, Routes
<1>2. ReqOK("fwd", r) /\ r.hook = None /\ r.value = NoHook /\ r.tenant = t /\ r.role = role
    BY <1>1 DEF ReqOK, NoRequest, Adding, Removing
<1>3. Grown /\ Level[role] <= ceiling'[t]
    BY <1>1, GrantedOK DEF AddMember
<1>4. Start(p) /\ StartAdd(p, r) /\ UNCHANGED <<scripts, tenant, keys, people, invite, token, crashes>>
    BY DEF AddMember
<1> QED
    BY <1>1, <1>2, <1>3, <1>4, AddBegins

\* accept_invitation stores a role that the ceiling allowed when it was offered.
LEMMA AcceptInvitationOK == ASSUME IInv, NEW p \in Procs, NEW i \in Invites, AcceptInvitation(p, i) PROVE IInv'
<1> DEFINE v == invite[i]
           r == [NoRequest EXCEPT !.route = "accept", !.tenant = v.tenant, !.user = v.user, !.role = v.role,
                                  !.invite = i, !.then = "delinvite"]
<1>1. v \in Invitation /\ v.role \in Assignable /\ v.tenant \in Tenants /\ v.user \in Users /\ Below(v.tenant, v.role)
    BY DirectoryAssumption DEF AcceptInvitation, IInv, Typed, Tables, RankOK, InvitationOK
<1>2. r \in Request
    BY <1>1, NothingTyped, Levels DEF Request, Routes
<1>3. ReqOK("fwd", r) /\ r.hook = None /\ r.value = NoHook /\ r.tenant = v.tenant /\ r.role = v.role
    BY <1>1 DEF ReqOK, NoRequest, Adding, Removing
<1>4. Grown /\ Level[r.role] <= ceiling'[r.tenant]
    BY <1>1, <1>3 DEF AcceptInvitation, Grown, Below, IInv, Typed, Tables
<1>5. Start(p) /\ StartAdd(p, r) /\ UNCHANGED <<scripts, tenant, keys, people, invite, token, crashes>>
    BY DEF AcceptInvitation
<1> QED
    BY <1>2, <1>3, <1>4, <1>5, AddBegins

\* add_member for the panel's new tenant, a hook's and the bootstrap hook's tenants: a request under way.
LEMMA AddContinues ==
    ASSUME IInv, NEW p \in Procs, NEW r \in Request, StartAdd(p, r), ReqOK("fwd", r), ceiling' = Raised(r.tenant, r.role),
           pc[p] \in {"check", "hooktenant", "claim"}, r.hook = req[p].hook, r.value = req[p].value,
           tenant' \in {tenant, [tenant EXCEPT ![r.tenant] = "active"]},
           UNCHANGED <<scripts, keys, people, invite, token, requests, crashes>>
    PROVE  IInv'
<1>1. r.tenant \in Tenants /\ r.user \in Users /\ r.role \in Assignable
    BY DEF ReqOK, Adding
<1>2. Grown /\ Level[r.role] <= ceiling'[r.tenant]
    BY <1>1, RaisedOK DEF Grown
<1>3. Tables' /\ requests <= requests'
    BY <1>1, <1>2, MetTyped DEF StartAdd, IInv, Typed, Tables, Grown, scripts, keys, people
<1>4. pc[p] \notin Writing \cup {"snapshot"}
    BY DEF Writing, Adding, Removing
<1> QED
    BY <1>2, <1>3, <1>4, AddOK DEF people

LEMMA CheckMemberOK == ASSUME IInv, NEW p \in Procs, CheckMember(p) PROVE IInv'
<1> DEFINE t == req[p].tenant
           u == req[p].user
<1>1. /\ pc[p] = "check" /\ req[p] \in Request /\ ReqOK("check", req[p])
      /\ UNCHANGED <<scripts, tenant, keys, people, invite, token, requests, crashes>>
    BY Locals DEF CheckMember, At
<1>2. ReqOK("fwd", req[p])
    BY <1>1 DEF ReqOK, Adding, Removing
<1>3. CASE Exists(t) /\ user[u] = "live" /\ fwd[<<t, u>>] = "none"
    <2>1. StartAdd(p, req[p]) /\ ceiling' = Raised(t, req[p].role)
        BY <1>3 DEF CheckMember
    <2> QED
        BY <1>1, <1>2, <2>1, AddContinues
<1>4. CASE ~(Exists(t) /\ user[u] = "live" /\ fwd[<<t, u>>] = "none")
    <2>1. GotoWith(p, "idle", NoRequest) /\ UNCHANGED <<torn, ceiling>>
        BY <1>4 DEF CheckMember, Finish
    <2>2. Tables' /\ requests <= requests'
        BY <1>1, <2>1 DEF IInv, Typed, Tables, scripts, keys, people
    <2>3. RankOK'
        BY <1>1, <2>1, SameRanks DEF keys
    <2>4. pc[p] \notin Writing \cup {"snapshot"}
        BY <1>1 DEF Writing, Adding, Removing
    <2> QED
        BY <1>1, <2>1, <2>2, <2>3, <2>4, PlainFresh, NothingTyped, NotExecuted DEF scripts, people, NoRequest
<1> QED
    BY <1>3, <1>4

LEMMA HookGrantOK == ASSUME IInv, NEW p \in Procs, HookGrant(p) PROVE IInv'
<1>1. pc[p] = "hooktenant" /\ req[p] \in Request /\ ReqOK("hooktenant", req[p])
    BY Locals DEF HookGrant, At
<1>2. ReqOK("fwd", req[p])
    BY <1>1 DEF ReqOK, Adding, Removing
<1> QED
    BY <1>1, <1>2, AddContinues DEF HookGrant

LEMMA BootstrapHookOK ==
    ASSUME IInv, NEW p \in Procs, NEW t \in Tenants, NEW role \in Asked, BootstrapHook(p, t, role)
    PROVE  IInv'
<1> DEFINE r == [req[p] EXCEPT !.tenant = t, !.role = role, !.then = "claim"]
<1>1. pc[p] = "claim" /\ req[p] \in Request /\ ReqOK("claim", req[p]) /\ role \in Assignable
    BY Locals, Levels DEF BootstrapHook, At
<1>2. /\ r \in Request /\ r.tenant = t /\ r.user = req[p].user /\ r.role = role /\ r.todo = req[p].todo
      /\ r.then = "claim" /\ r.hook = req[p].hook /\ r.value = req[p].value
    BY <1>1, Levels DEF Request
<1>3. ReqOK("fwd", r)
    BY <1>1, <1>2 DEF ReqOK, Adding, Removing
<1>4. /\ StartAdd(p, r) /\ ceiling' = Raised(t, role) /\ tenant' \in {tenant, [tenant EXCEPT ![t] = "active"]}
      /\ UNCHANGED <<scripts, keys, people, invite, token, requests, crashes>>
    BY DEF BootstrapHook
<1> QED
    BY <1>1, <1>2, <1>3, <1>4, AddContinues

\* remove_member
LEMMA RemoveMemberOK ==
    ASSUME IInv, NEW p \in Procs, NEW by, NEW via, NEW t \in Tenants, NEW u \in Users, RemoveMember(p, by, via, t, u)
    PROVE  IInv'
<1> DEFINE r == [NoRequest EXCEPT !.route = "remove", !.tenant = t, !.user = u]
<1>1. r \in Request /\ ReqOK("delfwd", r) /\ r.hook = None /\ r.value = NoHook /\ r.tenant = t /\ r.user = u /\ r.todo = {}
    BY NothingTyped DEF Request, Routes, ReqOK, NoRequest, Adding, Removing
<1>2. /\ GotoWith(p, "delfwd", r) /\ Start(p) /\ torn' = torn \cup Met(p, Adding, {<<t, u>>})
      /\ UNCHANGED <<scripts, tenant, keys, people, invite, token, crashes, ceiling>>
    BY DEF RemoveMember
<1>3. Pairs(p)' = {<<t, u>>}
    <2>1. pc'[p] = "delfwd" /\ req'[p] = r
        BY <1>2, MovesOne
    <2>2. Pairs(p)' = {<<r.tenant, r.user>>} \cup (r.todo \X {r.user})
        BY <2>1 DEF Pairs, Adding, Removing
    <2>3. {} \X {u} = {}
        OBVIOUS
    <2> HIDE DEF r
    <2> QED
        BY <1>1, <2>2, <2>3
<1>4. Tables'
    BY <1>2, Counted, MetTyped DEF IInv, Typed, Tables, scripts, keys, people
<1>5. RankOK'
    BY <1>2, SameRanks DEF keys
<1>6. \A x \in Tenants \X Users : PairOK(x)'
    BY <1>2, <1>3, StartsPairs, Counted DEF Opposed
<1> QED
    BY <1>1, <1>2, <1>4, <1>5, <1>6, WriterStep, Counted DEF people, Writing, Removing

\* delete_user, with the keys it found.
LEMMA DeleteRecordOK == ASSUME IInv, NEW p \in Procs, DeleteRecord(p) PROVE IInv'
<1> DEFINE u == req[p].user
           todo == {t \in Tenants : <<t, u>> \in rev}
           r == [req[p] EXCEPT !.todo = todo]
<1>1. pc[p] = "record" /\ req[p] \in Request /\ ReqOK("record", req[p]) /\ pc[p] \notin Writing \cup {"snapshot"}
    BY Locals DEF DeleteRecord, At, Writing, Adding, Removing
<1>2. /\ r \in Request /\ ReqOK("list", r) /\ r.hook = req[p].hook /\ r.value = req[p].value
      /\ r.user = u /\ r.todo = todo /\ u \in Users
    BY <1>1 DEF Request, ReqOK, Adding, Removing
<1>3. /\ GotoWith(p, "list", r) /\ torn' = torn \cup Met(p, Adding, todo \X {u})
      /\ user' = [user EXCEPT ![u] = "gone"] /\ superadmin' = superadmin \ {u}
      /\ UNCHANGED <<scripts, tenant, keys, flag, claimed, bootstrapped, invite, token, requests, crashes, ceiling>>
    BY DEF DeleteRecord
<1>4. Pairs(p)' = todo \X {u}
    <2>1. pc'[p] = "list" /\ req'[p] = r
        BY <1>3, MovesOne
    <2>2. Pairs(p)' = r.todo \X {r.user}
        BY <2>1 DEF Pairs, Adding, Removing
    <2> QED
        BY <1>2, <2>2
<1>5. Tables' /\ requests <= requests'
    <2>1. todo \X {u} \in SUBSET (Tenants \X Users)
        BY <1>2
    <2>2. torn' \subseteq (Tenants \X Users) \cup Hooks
        BY <1>3, <2>1, MetTyped
    <2>3. user' \in [Users -> {"unused", "live", "gone"}] /\ superadmin' \subseteq Users
        BY <1>3 DEF IInv, Typed, Tables
    <2>4. UNCHANGED <<scripts, tenant, keys, flag, claimed, bootstrapped, invite, token, requests, crashes, ceiling>>
        BY <1>3
    <2> QED
        BY <2>2, <2>3, <2>4 DEF IInv, Typed, Tables, scripts, keys
<1>6. RankOK'
    BY <1>3, SameRanks DEF keys
<1>7. \A x \in Tenants \X Users : PairOK(x)'
    BY <1>1, <1>3, <1>4, StartsPairs DEF Opposed
<1> QED
    BY <1>1, <1>2, <1>3, <1>5, <1>6, <1>7, WriterStep DEF Writing

\* A request between its two writes, or with fewer left to do, tells the same of its pairs.
LEMMA Narrows ==
    ASSUME IInv, NEW p \in Procs, NEW l, NEW r, GotoWith(p, l, r), Pairs(p)' \subseteq Pairs(p),
           l \in Adding => pc[p] \in Adding, pc[p] \in Adding => l \notin Removing \cup {"list"},
           NEW x \in Tenants \X Users, x \notin torn
    PROVE  \A q, s \in Procs : x \in Pairs(q)' /\ pc'[q] \in Adding /\ x \in Pairs(s)' => pc'[s] \in Adding
<1> SUFFICES ASSUME NEW q \in Procs, NEW s \in Procs, x \in Pairs(q)', pc'[q] \in Adding, x \in Pairs(s)'
             PROVE  pc'[s] \in Adding
    OBVIOUS
<1>1. x \in Pairs(q) /\ x \in Pairs(s) /\ pc[q] \in Adding
    BY OtherPairs, MovesOne
<1>2. pc[s] \in Adding
    BY <1>1, PairKnown
<1>3. CASE s = p
    <2>1. pc'[s] = l /\ l \in Writing
        BY <1>3, MovesOne, PairsOf, x \in Pairs(s)' DEF Pairs, Writing
    <2> QED
        BY <1>2, <1>3, <2>1 DEF Writing
<1> QED
    BY <1>2, <1>3, OtherPairs

\* The pair a request writes.
LEMMA OwnPair ==
    ASSUME IInv, NEW p \in Procs, pc[p] \in Adding \cup Removing
    PROVE  /\ <<req[p].tenant, req[p].user>> \in (Tenants \X Users) \cap Pairs(p)
           /\ req[p] \in Request /\ ReqOK(pc[p], req[p]) /\ pc[p] # "snapshot"
BY Locals DEF ReqOK, Pairs, Adding, Removing

\* add_membership, first the tenant's key.
LEMMA PutFwdOK == ASSUME IInv, NEW p \in Procs, PutFwd(p) PROVE IInv'
<1> DEFINE y == <<req[p].tenant, req[p].user>>
<1>1. /\ pc[p] = "fwd" /\ GotoWith(p, "rev", req[p]) /\ fwd' = [fwd EXCEPT ![y] = req[p].role]
      /\ UNCHANGED <<scripts, tenant, rev, people, invite, token, requests, crashes, ceiling, torn>>
    BY DEF PutFwd, At, Goto
<1>2. /\ y \in (Tenants \X Users) \cap Pairs(p) /\ req[p] \in Request /\ ReqOK("fwd", req[p])
      /\ req[p].role \in Assignable /\ Below(req[p].tenant, req[p].role)
    BY <1>1, OwnPair DEF Adding, ReqOK, IInv, RankOK, At
<1>3. ReqOK("rev", req[p]) /\ "rev" \in Adding /\ "fwd" \in Adding /\ "rev" \in Writing
    BY <1>2 DEF ReqOK, Adding, Removing, Writing
<1>4. pc'[p] = "rev" /\ req'[p] = req[p] /\ Pairs(p)' = Pairs(p)
    BY <1>1, <1>3, MovesOne DEF Pairs
<1>5. fwd'[y] = req[p].role /\ \A x \in Tenants \X Users : x # y => fwd'[x] = fwd[x]
    BY <1>1, <1>2 DEF IInv, Typed, Tables
<1>6. Tables'
    BY <1>1, <1>2, Levels DEF IInv, Typed, Tables, scripts, people
<1>7. RankOK'
    <2>1. \A t \in Tenants, u \in Users : Level[fwd'[<<t, u>>]] <= ceiling[t]
        BY <1>2, <1>5 DEF IInv, RankOK, Below
    <2>2. \A q \in Procs : pc'[q] = "fwd" => pc[q] = "fwd" /\ req'[q] = req[q]
        BY <1>1, <1>4, MovesOne
    <2> QED
        BY <1>1, <2>1, <2>2 DEF IInv, RankOK, InvitationOK, Below, At
<1>8. ASSUME NEW x \in Tenants \X Users, x \notin torn' PROVE PairOK(x)'
    <2>1. x \notin torn
        BY <1>1, <1>8
    <2>2. \A q, s \in Procs : x \in Pairs(q)' /\ pc'[q] \in Adding /\ x \in Pairs(s)' => pc'[s] \in Adding
        BY <1>1, <1>3, <1>4, <2>1, Narrows DEF Adding, Removing
    <2>3. CASE x = y
        <3>1. fwd'[x] # "none" /\ Writes(p, {"rev"}, x)'
            BY <1>2, <1>4, <1>5, <2>3 DEF Assignable, Writes
        <3>2. \A q \in Procs : ~Writes(q, {"delrev"}, x)'
            <4> SUFFICES ASSUME NEW q \in Procs, Writes(q, {"delrev"}, x)' PROVE FALSE
                OBVIOUS
            <4>1. q # p
                BY <1>4 DEF Writes
            <4>2. Writes(q, {"delrev"}, x)
                BY <1>1, <4>1, OtherPairs
            <4>3. x \in Pairs(q) /\ pc[q] = "delrev"
                BY <4>2, PairsOf
            <4> QED
                BY <1>1, <1>2, <1>3, <2>1, <2>3, <4>3, PairKnown DEF Adding
        <3> QED
            BY <2>2, <3>1, <3>2 DEF PairOK
    <2>4. CASE x # y
        <3>1. fwd'[x] = fwd[x] /\ rev' = rev
            BY <1>1, <1>5, <2>4
        <3>2. ~Writes(p, {"rev"}, x) /\ ~Writes(p, {"delrev"}, x) /\ ~Writes(p, {"rev"}, x)' /\ ~Writes(p, {"delrev"}, x)'
            BY <1>1, <1>4, <2>4 DEF Writes
        <3> QED
            BY <1>1, <2>1, <2>2, <3>1, <3>2, PairKnown, OtherPairs DEF PairOK
    <2> QED
        BY <2>3, <2>4
<1>9. \A x \in Tenants \X Users : PairOK(x)'
    BY <1>8 DEF PairOK
<1>10. requests <= requests'
    BY <1>1 DEF IInv, Typed, Tables
<1> QED
    BY <1>1, <1>2, <1>3, <1>6, <1>7, <1>9, <1>10, WriterStep DEF people

\* add_membership, then the user's; what follows is the caller's.
LEMMA PutRevOK == ASSUME IInv, NEW p \in Procs, PutRev(p) PROVE IInv'
<1> DEFINE y == <<req[p].tenant, req[p].user>>
<1>1. /\ pc[p] = "rev" /\ rev' = rev \cup {y}
      /\ UNCHANGED <<scripts, tenant, fwd, people, invite, token, requests, crashes, ceiling, torn>>
    BY DEF PutRev, At
<1>2. y \in (Tenants \X Users) \cap Pairs(p) /\ req[p] \in Request /\ ReqOK("rev", req[p])
    BY <1>1, OwnPair DEF Adding
<1>3. PICK l \in {"idle", "delinvite", "claim"}, r \in Request :
         GotoWith(p, l, r) /\ ReqOK(l, r) /\ r.hook \in {None, req[p].hook} /\ r.value \in {NoHook, req[p].value}
    <2>1. CASE req[p].then = "idle"
        <3>1. GotoWith(p, "idle", NoRequest) /\ NoRequest.hook = None /\ NoRequest.value = NoHook
            BY <2>1 DEF PutRev, Finish, NoRequest
        <3> QED
            BY <3>1, NothingTyped
    <2>2. CASE req[p].then # "idle"
        <3> DEFINE r == [req[p] EXCEPT !.then = "idle"]
        <3>1. GotoWith(p, req[p].then, r) /\ req[p].then \in {"delinvite", "claim"}
            BY <1>2, <2>2 DEF PutRev, Request
        <3>2. /\ r \in Request /\ r.hook = req[p].hook /\ r.value = req[p].value /\ r.todo = req[p].todo /\ r.then = "idle"
              /\ r.user = req[p].user /\ r.invite = req[p].invite
            BY <1>2 DEF Request
        <3>3. ReqOK(req[p].then, r)
            BY <1>2, <3>1, <3>2 DEF ReqOK, Adding, Removing
        <3> QED
            BY <3>1, <3>2, <3>3
    <2> QED
        BY <2>1, <2>2
<1>4. pc'[p] = l /\ Pairs(p)' = {} /\ l \notin Writing /\ l # "fwd"
    BY <1>3, MovesOne DEF Pairs, Writing, Adding, Removing
<1>5. Tables'
    BY <1>1, <1>2 DEF IInv, Typed, Tables, scripts, people
<1>6. RankOK'
    BY <1>1, <1>3, <1>4, SameRanks
<1>7. ASSUME NEW x \in Tenants \X Users, x \notin torn' PROVE PairOK(x)'
    <2>1. x \notin torn
        BY <1>1, <1>7
    <2>2. \A q, s \in Procs : x \in Pairs(q)' /\ pc'[q] \in Adding /\ x \in Pairs(s)' => pc'[s] \in Adding
        BY <1>3, <1>4, <2>1, Narrows DEF Writing
    <2>3. ~Writes(p, {"rev"}, x)' /\ ~Writes(p, {"delrev"}, x)' /\ ~Writes(p, {"delrev"}, x)
        BY <1>1, <1>4 DEF Writes, Writing, Adding, Removing
    <2>4. CASE x = y
        <3>1. fwd[x] # "none"
            BY <1>1, <2>1, <2>4, PairKnown DEF Writes
        <3>2. x \in rev' /\ fwd'[x] = fwd[x]
            BY <1>1, <2>4
        <3>3. \A q \in Procs : Writes(q, {"delrev"}, x)' => Writes(q, {"delrev"}, x)
            BY <1>3, <2>3, OtherPairs
        <3> QED
            BY <2>1, <2>2, <3>1, <3>2, <3>3, PairKnown DEF PairOK
    <2>5. CASE x # y
        <3>1. (x \in rev' <=> x \in rev) /\ fwd'[x] = fwd[x] /\ ~Writes(p, {"rev"}, x)
            BY <1>1, <2>5 DEF Writes
        <3>2. \A q \in Procs : /\ Writes(q, {"rev"}, x)' <=> Writes(q, {"rev"}, x)
                               /\ Writes(q, {"delrev"}, x)' <=> Writes(q, {"delrev"}, x)
            BY <1>3, <2>3, <3>1, OtherPairs
        <3> QED
            BY <2>1, <2>2, <3>1, <3>2, PairKnown DEF PairOK
    <2> QED
        BY <2>4, <2>5
<1>8. \A x \in Tenants \X Users : PairOK(x)'
    BY <1>7 DEF PairOK
<1>9. requests <= requests'
    BY <1>1 DEF IInv, Typed, Tables
<1> QED
    BY <1>1, <1>3, <1>5, <1>6, <1>8, <1>9, WriterStep DEF people

\* Where request p is writing none of the two keys, the others write what they wrote.
LEMMA OthersWrite ==
    ASSUME IInv, NEW p \in Procs, NEW l, NEW r, GotoWith(p, l, r), NEW x \in Tenants \X Users,
           ~Writes(p, {"rev"}, x), ~Writes(p, {"delrev"}, x), ~Writes(p, {"rev"}, x)', ~Writes(p, {"delrev"}, x)'
    PROVE  \A q \in Procs : /\ Writes(q, {"rev"}, x)' <=> Writes(q, {"rev"}, x)
                            /\ Writes(q, {"delrev"}, x)' <=> Writes(q, {"delrev"}, x)
BY OtherPairs

\* remove_membership and delete_user, first the tenant's key.
LEMMA DeleteFwdOK == ASSUME IInv, NEW p \in Procs, DeleteFwd(p) PROVE IInv'
<1> DEFINE y == <<req[p].tenant, req[p].user>>
<1>1. /\ pc[p] = "delfwd" /\ GotoWith(p, "delrev", req[p]) /\ fwd' = [fwd EXCEPT ![y] = "none"]
      /\ UNCHANGED <<scripts, tenant, rev, people, invite, token, requests, crashes, ceiling, torn>>
    BY DEF DeleteFwd, At, Goto
<1>2. y \in (Tenants \X Users) \cap Pairs(p) /\ req[p] \in Request /\ ReqOK("delfwd", req[p])
    BY <1>1, OwnPair DEF Removing
<1>3. ReqOK("delrev", req[p]) /\ "delrev" \notin Adding /\ "delfwd" \notin Adding /\ "delrev" \in Writing
    BY <1>2 DEF ReqOK, Adding, Removing, Writing
<1>4. pc'[p] = "delrev" /\ req'[p] = req[p] /\ Pairs(p)' = Pairs(p)
    BY <1>1, MovesOne DEF Pairs, Adding, Removing
<1>5. fwd'[y] = "none" /\ \A x \in Tenants \X Users : x # y => fwd'[x] = fwd[x]
    BY <1>1, <1>2 DEF IInv, Typed, Tables
<1>6. Tables'
    BY <1>1, <1>2, Levels DEF IInv, Typed, Tables, scripts, people, Roles
<1>7. RankOK'
    <2>1. \A t \in Tenants, u \in Users : Level[fwd'[<<t, u>>]] <= ceiling[t]
        <3> TAKE t \in Tenants, u \in Users
        <3>1. Level["none"] = 0 /\ ceiling[t] \in 0..4 /\ Level[fwd[<<t, u>>]] <= ceiling[t]
            BY Levels DEF IInv, Typed, Tables, RankOK, Below
        <3>2. fwd'[<<t, u>>] \in {"none", fwd[<<t, u>>]}
            BY <1>5
        <3> QED
            BY <3>1, <3>2
    <2>2. \A q \in Procs : pc'[q] = "fwd" => pc[q] = "fwd" /\ req'[q] = req[q]
        BY <1>1, <1>4, MovesOne
    <2> QED
        BY <1>1, <2>1, <2>2 DEF IInv, RankOK, InvitationOK, Below, At
<1>8. ASSUME NEW x \in Tenants \X Users, x \notin torn' PROVE PairOK(x)'
    <2>1. x \notin torn
        BY <1>1, <1>8
    <2>2. \A q, s \in Procs : x \in Pairs(q)' /\ pc'[q] \in Adding /\ x \in Pairs(s)' => pc'[s] \in Adding
        BY <1>1, <1>3, <1>4, <2>1, Narrows DEF Adding, Removing
    <2>3. CASE x = y
        <3>1. fwd'[x] = "none" /\ Writes(p, {"delrev"}, x)'
            BY <1>4, <1>5, <2>3 DEF Writes
        <3>2. \A q \in Procs : ~Writes(q, {"rev"}, x)'
            <4> SUFFICES ASSUME NEW q \in Procs, Writes(q, {"rev"}, x)' PROVE FALSE
                OBVIOUS
            <4>1. q # p
                BY <1>4 DEF Writes
            <4>2. Writes(q, {"rev"}, x)
                BY <1>1, <4>1, OtherPairs
            <4>3. x \in Pairs(q) /\ pc[q] = "rev"
                BY <4>2, PairsOf
            <4> QED
                BY <1>1, <1>2, <1>3, <2>1, <2>3, <4>3, PairKnown DEF Adding
        <3> QED
            BY <2>2, <3>1, <3>2 DEF PairOK
    <2>4. CASE x # y
        <3>1. fwd'[x] = fwd[x] /\ rev' = rev
            BY <1>1, <1>5, <2>4
        <3>2. ~Writes(p, {"rev"}, x) /\ ~Writes(p, {"delrev"}, x) /\ ~Writes(p, {"rev"}, x)' /\ ~Writes(p, {"delrev"}, x)'
            BY <1>1, <1>4, <2>4 DEF Writes
        <3> QED
            BY <1>1, <2>1, <2>2, <3>1, <3>2, PairKnown, OthersWrite DEF PairOK
    <2> QED
        BY <2>3, <2>4
<1>9. \A x \in Tenants \X Users : PairOK(x)'
    BY <1>8 DEF PairOK
<1>10. requests <= requests'
    BY <1>1 DEF IInv, Typed, Tables
<1> QED
    BY <1>1, <1>2, <1>3, <1>6, <1>7, <1>9, <1>10, WriterStep DEF people

\* Then the user's key; delete_user goes on with its next pair.
LEMMA DeleteRevOK == ASSUME IInv, NEW p \in Procs, DeleteRev(p) PROVE IInv'
<1> DEFINE y == <<req[p].tenant, req[p].user>>
<1>1. /\ pc[p] = "delrev" /\ rev' = rev \ {y}
      /\ UNCHANGED <<scripts, tenant, fwd, people, invite, token, requests, crashes, ceiling, torn>>
    BY DEF DeleteRev, Unlisted, At
<1>2. y \in (Tenants \X Users) \cap Pairs(p) /\ req[p] \in Request /\ ReqOK("delrev", req[p])
    BY <1>1, OwnPair DEF Removing
<1>3. PICK l \in {"idle", "list"}, r \in Request :
         /\ GotoWith(p, l, r) /\ ReqOK(l, r) /\ r.hook \in {None, req[p].hook} /\ r.value \in {NoHook, req[p].value}
         /\ l = "list" => r = req[p]
    <2>1. CASE req[p].route = "erase"
        <3>1. GotoWith(p, "list", req[p])
            BY <2>1 DEF DeleteRev, Goto
        <3>2. ReqOK("list", req[p])
            BY <1>2 DEF ReqOK, Adding, Removing
        <3> QED
            BY <1>2, <3>1, <3>2
    <2>2. CASE req[p].route # "erase"
        <3>1. GotoWith(p, "idle", NoRequest) /\ NoRequest.hook = None /\ NoRequest.value = NoHook
            BY <2>2 DEF DeleteRev, Finish, NoRequest
        <3> QED
            BY <3>1, NothingTyped
    <2> QED
        BY <2>1, <2>2
<1>4. pc'[p] = l /\ l \notin Adding /\ l \in Writing \cup {"idle"} /\ l # "fwd" /\ l \notin {"rev", "delrev"}
    BY <1>3, MovesOne DEF Writing, Adding, Removing
<1>5. Pairs(p)' \subseteq Pairs(p)
    BY <1>1, <1>3, <1>4, MovesOne DEF Pairs, Adding, Removing
<1>6. Tables'
    BY <1>1, <1>2 DEF IInv, Typed, Tables, scripts, people
<1>7. RankOK'
    BY <1>1, <1>3, <1>4, SameRanks
<1>8. ASSUME NEW x \in Tenants \X Users, x \notin torn' PROVE PairOK(x)'
    <2>1. x \notin torn /\ pc[p] \notin Adding
        BY <1>1, <1>8 DEF Adding
    <2>2. \A q, s \in Procs : x \in Pairs(q)' /\ pc'[q] \in Adding /\ x \in Pairs(s)' => pc'[s] \in Adding
        BY <1>3, <1>4, <1>5, <2>1, Narrows
    <2>3. ~Writes(p, {"rev"}, x)' /\ ~Writes(p, {"delrev"}, x)' /\ ~Writes(p, {"rev"}, x)
        BY <1>1, <1>4 DEF Writes
    <2>4. CASE x = y
        <3>1. fwd[x] = "none"
            BY <1>1, <2>1, <2>4, PairKnown DEF Writes
        <3>2. x \notin rev' /\ fwd'[x] = fwd[x]
            BY <1>1, <2>4
        <3>3. \A q \in Procs : Writes(q, {"rev"}, x)' => Writes(q, {"rev"}, x)
            BY <1>3, <2>3, OtherPairs
        <3> QED
            BY <2>1, <2>2, <3>1, <3>2, <3>3, PairKnown DEF PairOK
    <2>5. CASE x # y
        <3>1. (x \in rev' <=> x \in rev) /\ fwd'[x] = fwd[x] /\ ~Writes(p, {"delrev"}, x)
            BY <1>1, <2>5 DEF Writes
        <3> QED
            BY <1>3, <2>1, <2>2, <2>3, <3>1, PairKnown, OthersWrite DEF PairOK
    <2> QED
        BY <2>4, <2>5
<1>9. \A x \in Tenants \X Users : PairOK(x)'
    BY <1>8 DEF PairOK
<1>10. requests <= requests'
    BY <1>1 DEF IInv, Typed, Tables
<1> QED
    BY <1>1, <1>3, <1>4, <1>6, <1>7, <1>9, <1>10, WriterStep DEF people

\* delete_user takes the pairs one by one.
LEMMA NextPairOK == ASSUME IInv, NEW p \in Procs, NextPair(p) PROVE IInv'
<1>1. /\ pc[p] = "list" /\ req[p] \in Request /\ ReqOK("list", req[p])
      /\ UNCHANGED <<scripts, tenant, keys, people, invite, token, requests, crashes, ceiling, torn>>
    BY Locals DEF NextPair, At
<1>2. PICK l \in {"idle", "delfwd"}, r \in Request :
         /\ GotoWith(p, l, r) /\ ReqOK(l, r) /\ r.hook \in {None, req[p].hook} /\ r.value \in {NoHook, req[p].value}
         /\ Pairs(p)' \subseteq Pairs(p)
    <2>1. CASE req[p].todo = {}
        <3>1. GotoWith(p, "idle", NoRequest) /\ NoRequest.hook = None /\ NoRequest.value = NoHook
            BY <2>1 DEF NextPair, Finish, NoRequest
        <3>2. Pairs(p)' = {}
            BY <3>1, MovesOne DEF Pairs, Adding, Removing
        <3> QED
            BY <3>1, <3>2, NothingTyped
    <2>2. CASE req[p].todo # {}
        <3>1. PICK t \in req[p].todo : GotoWith(p, "delfwd", [req[p] EXCEPT !.tenant = t, !.todo = @ \ {t}])
            BY <2>2 DEF NextPair
        <3> DEFINE r == [req[p] EXCEPT !.tenant = t, !.todo = @ \ {t}]
        <3>2. t \in Tenants
            BY <1>1, <3>1 DEF Request
        <3>3. /\ r \in Request /\ r.tenant = t /\ r.user = req[p].user /\ r.todo = req[p].todo \ {t} /\ r.then = req[p].then
              /\ r.hook = req[p].hook /\ r.value = req[p].value
            BY <1>1, <3>2 DEF Request
        <3>4. ReqOK("delfwd", r)
            BY <1>1, <3>2, <3>3 DEF ReqOK, Adding, Removing
        <3>5. pc'[p] = "delfwd" /\ req'[p] = r
            BY <3>1, MovesOne
        <3>6. Pairs(p)' = {<<r.tenant, r.user>>} \cup (r.todo \X {r.user}) /\ Pairs(p) = req[p].todo \X {req[p].user}
            BY <1>1, <3>5 DEF Pairs, Adding, Removing
        <3>7. Pairs(p)' \subseteq Pairs(p)
            BY <3>1, <3>3, <3>6
        <3> QED
            BY <3>1, <3>3, <3>4, <3>7
    <2> QED
        BY <2>1, <2>2
<1>3. pc'[p] = l /\ l \notin Adding /\ l \in Writing \cup {"idle"} /\ l # "fwd" /\ l \notin {"rev", "delrev"}
    BY <1>2, MovesOne DEF Writing, Adding, Removing
<1>4. Tables' /\ requests <= requests'
    BY <1>1 DEF IInv, Typed, Tables, scripts, people, keys
<1>5. RankOK'
    BY <1>1, <1>2, <1>3, SameRanks DEF keys
<1>6. ASSUME NEW x \in Tenants \X Users, x \notin torn' PROVE PairOK(x)'
    <2>1. x \notin torn /\ pc[p] \notin Adding
        BY <1>1, <1>6 DEF Adding
    <2>2. \A q, s \in Procs : x \in Pairs(q)' /\ pc'[q] \in Adding /\ x \in Pairs(s)' => pc'[s] \in Adding
        BY <1>2, <1>3, <2>1, Narrows
    <2>3. ~Writes(p, {"rev"}, x)' /\ ~Writes(p, {"delrev"}, x)' /\ ~Writes(p, {"rev"}, x) /\ ~Writes(p, {"delrev"}, x)
        BY <1>1, <1>3 DEF Writes
    <2> QED
        BY <1>1, <1>2, <2>1, <2>2, <2>3, PairKnown, OthersWrite DEF PairOK, keys
<1>7. \A x \in Tenants \X Users : PairOK(x)'
    BY <1>6 DEF PairOK
<1> QED
    BY <1>1, <1>2, <1>3, <1>4, <1>5, <1>7, WriterStep DEF people

(***************************************************************************)
(* The editing of hooks.                                                   *)
(***************************************************************************)
LEMMA HookStep ==
    ASSUME IInv, Tables', VersionsOK', \A h \in Hooks : HookOK(h)',
           NEW p \in Procs, NEW l \in {"puthook", "rereadhook", "delhook", "snapshot", "idle"}, NEW r \in Request,
           GotoWith(p, l, r), ReqOK(l, r), pc[p] \notin Writing, torn \subseteq torn',
           UNCHANGED <<keys, claimed, bootstrapped, invite, token, ceiling>>
    PROVE  IInv'
<1>1. l \in Labels /\ l \notin Writing \cup {"admin", "fwd"}
    BY DEF Labels, Writing, Adding, Removing
<1>2. BootstrapOK' /\ \A x \in Tenants \X Users : PairOK(x)'
    BY <1>1, SameBootstrap, SamePairs
<1>3. RankOK'
    BY <1>1, SameRanks DEF keys
<1> QED
    BY <1>1, <1>2, <1>3, Combine

\* The number of forms that will read again.
LEMMA RereadersCount ==
    ASSUME IInv, NEW p \in Procs, NEW l, NEW r, GotoWith(p, l, r)
    PROVE  /\ IsFiniteSet(Rereaders') /\ Cardinality(Rereaders') \in Nat /\ Cardinality(Rereaders) \in Nat
           /\ Cardinality(Rereaders') <= Cardinality(Rereaders) + 1
           /\ l # "rereadhook" => Cardinality(Rereaders') <= Cardinality(Rereaders)
           /\ l # "rereadhook" /\ pc[p] = "rereadhook" => Cardinality(Rereaders') + 1 <= Cardinality(Rereaders)
<1>1. IsFiniteSet(Rereaders) /\ Cardinality(Rereaders) \in Nat
    BY FS_CardinalityType DEF IInv, VersionsOK
<1>2. /\ IsFiniteSet(Rereaders \cup {p}) /\ Cardinality(Rereaders \cup {p}) \in Nat
      /\ Cardinality(Rereaders \cup {p}) <= Cardinality(Rereaders) + 1
    BY <1>1, FS_AddElement, FS_CardinalityType
<1>3. /\ IsFiniteSet(Rereaders \ {p}) /\ Cardinality(Rereaders \ {p}) \in Nat
      /\ p \in Rereaders => Cardinality(Rereaders \ {p}) = Cardinality(Rereaders) - 1
      /\ p \notin Rereaders => Rereaders \ {p} = Rereaders
    BY <1>1, FS_RemoveElement, FS_CardinalityType
<1>4. Rereaders' = IF l = "rereadhook" THEN Rereaders \cup {p} ELSE Rereaders \ {p}
    BY MovesOne DEF Rereaders
<1>5. pc[p] = "rereadhook" <=> p \in Rereaders
    BY DEF Rereaders
<1>6. CASE l = "rereadhook"
    BY <1>1, <1>2, <1>4, <1>6
<1>7. CASE l # "rereadhook"
    <2>1. Rereaders' = Rereaders \ {p}
        BY <1>4, <1>7
    <2>2. CASE p \in Rereaders
        BY <1>1, <1>3, <1>5, <1>7, <2>1, <2>2
    <2>3. CASE p \notin Rereaders
        <3>1. Rereaders' = Rereaders
            BY <1>3, <2>1, <2>3
        <3>2. Cardinality(Rereaders') = Cardinality(Rereaders)
            BY <3>1, Zenon
        <3> QED
            BY <1>1, <1>5, <2>3, <3>1, <3>2
    <2> QED
        BY <2>2, <2>3
<1> QED
    BY <1>6, <1>7

\* Versions stored and planned after a step, if the one of request p is in bounds.
LEMMA VersionsStep ==
    ASSUME IInv, NEW p \in Procs, NEW l, NEW r \in Request, GotoWith(p, l, r), requests' \in Nat,
           \A h \in Hooks : hook'[h].version \in {hook[h].version, req[p].value.version},
           Cardinality(Rereaders') - Cardinality(Rereaders) <= requests' - requests,
           r.value.version + Cardinality(Rereaders') <= requests' + 1
    PROVE  VersionsOK'
<1>1. IsFiniteSet(Rereaders') /\ Cardinality(Rereaders') \in Nat /\ Cardinality(Rereaders) \in Nat /\ requests \in Nat
    BY RereadersCount DEF IInv, Typed, Tables
<1>2. \A h \in Hooks : hook[h].version \in Nat
    BY DEF IInv, Typed, Tables, Hook
<1>3. \A q \in Procs : req[q].value.version \in Nat
    BY Locals DEF Request, Hook
<1>4. \A h \in Hooks : hook'[h].version + Cardinality(Rereaders') <= requests' + 1
    BY <1>1, <1>2, <1>3 DEF IInv, VersionsOK
<1>5. \A q \in Procs : req'[q].value.version + Cardinality(Rereaders') <= requests' + 1
    <2> TAKE q \in Procs
    <2>1. CASE q = p
        BY <2>1, MovesOne
    <2>2. CASE q # p
        BY <1>1, <1>3, <2>2, MovesOne DEF IInv, VersionsOK
    <2> QED
        BY <2>1, <2>2
<1> QED
    BY <1>1, <1>4, <1>5 DEF VersionsOK

\* A request that is about to change a hook, alone with it or it is torn.
LEMMA HookEdits ==
    ASSUME IInv, NEW p \in Procs, NEW h \in Hooks, NEW l \in {"puthook", "rereadhook", "delhook"}, NEW r, r.hook = h,
           GotoWith(p, l, r), UNCHANGED scripts, torn \subseteq torn', pc[p] # "snapshot",
           h \notin torn' => Editors(h) \subseteq {p}, l = "puthook" => r.value.version > hook[h].version
    PROVE  \A k \in Hooks : HookOK(k)'
<1> SUFFICES ASSUME NEW k \in Hooks PROVE HookOK(k)'
    OBVIOUS
<1>1. /\ pc'[p] = l /\ req'[p] = r
      /\ \A q \in Procs \ {p} : pc'[q] = pc[q] /\ req'[q] = req[q]
    BY MovesOne
<1>2. HookOK(k) /\ UNCHANGED <<hook, snapshot, ran>>
    BY DEF IInv, scripts
<1> SUFFICES ASSUME k \notin torn' PROVE HookOK(k)'
    BY <1>2 DEF HookOK
<1>3. k \notin torn
    OBVIOUS
<1>4. \A q \in Procs : Snapshotter(q, k)' <=> Snapshotter(q, k)
    BY <1>1 DEF Snapshotter
<1>5. \A q, s \in Procs : req'[q].hook = k /\ req'[s].hook = k => q = s
    <2>1. CASE k = h
        BY <1>1, <2>1 DEF Editors
    <2>2. CASE k # h
        BY <1>1, <1>2, <1>3, <2>2 DEF HookOK
    <2> QED
        BY <2>1, <2>2
<1>6. \A q \in Procs : Snapshotter(q, k)' => req'[q].value = hook'[k]
    BY <1>1, <1>2, <1>3, <1>4 DEF HookOK, Snapshotter
<1>7. \A q \in Procs : pc'[q] = "puthook" /\ req'[q].hook = k => req'[q].value.version > hook'[k].version
    BY <1>1, <1>2, <1>3 DEF HookOK
<1> QED
    BY <1>2, <1>3, <1>4, <1>5, <1>6, <1>7 DEF HookOK

\* A hook as a request would store it.
Draft == [st: {"unused", "live", "deleted"}, enabled: BOOLEAN, version: Nat, script: Nat]

\* A request that begins to edit a hook, with the version it will store or read again.
LEMMA EditBegins ==
    ASSUME IInv, NEW p \in Procs, NEW h \in Hooks, NEW l \in {"puthook", "rereadhook", "delhook"}, NEW v \in Draft, Start(p),
           GotoWith(p, l, [NoRequest EXCEPT !.route = "edithook", !.hook = h, !.value = v]),
           v.version <= 1 \/ v.version <= hook[h].version + 1, l = "rereadhook" => v.version <= hook[h].version,
           l = "puthook" => v.st = "live" /\ v.version > hook[h].version,
           h \notin torn' => Editors(h) \subseteq {p}, torn' \in {torn, torn \cup {h}},
           UNCHANGED <<scripts, tenant, keys, people, invite, token, crashes, ceiling>>
    PROVE  IInv'
<1> DEFINE r == [NoRequest EXCEPT !.route = "edithook", !.hook = h, !.value = v]
<1>1. Tables'
    BY Counted DEF IInv, Typed, Tables, scripts, keys, people
<1>2. /\ pc[p] = "idle" /\ requests \in Nat /\ requests' = requests + 1 /\ requests' <= MaxRequests /\ MaxRequests \in Nat
      /\ pc[p] \notin Writing \cup {"snapshot", "rereadhook"}
    BY DirectoryAssumption DEF Start, At, IInv, Typed, Tables, Writing, Adding, Removing
<1>3. /\ Cardinality(Rereaders') \in Nat /\ Cardinality(Rereaders) \in Nat
      /\ Cardinality(Rereaders') <= Cardinality(Rereaders) + 1
      /\ l # "rereadhook" => Cardinality(Rereaders') <= Cardinality(Rereaders)
    BY RereadersCount
<1>4. /\ hook[h].version \in Nat /\ hook[h].version + Cardinality(Rereaders) <= requests + 1
      /\ v.version \in Nat /\ UNCHANGED hook
    BY DEF IInv, Typed, Tables, Hook, VersionsOK, Draft, scripts
<1>5. v.version + Cardinality(Rereaders') <= requests' + 1
    BY <1>2, <1>3, <1>4
<1>6. v \in Hook
    BY <1>2, <1>3, <1>4, <1>5 DEF Hook, Draft
<1>7. /\ r \in Request /\ r.hook = h /\ r.value = v /\ r.todo = {} /\ r.then = "idle"
      /\ GotoWith(p, l, r)
    BY <1>6, NothingTyped DEF Request, Routes, NoRequest
<1> HIDE DEF r
<1>8. ReqOK(l, r)
    BY <1>4, <1>7 DEF ReqOK, Adding, Removing
<1>9. VersionsOK'
    <2>1. \A k \in Hooks : hook'[k].version \in {hook[k].version, req[p].value.version}
        BY <1>4
    <2>2. Cardinality(Rereaders') - Cardinality(Rereaders) <= requests' - requests /\ requests' \in Nat
        BY <1>2, <1>3
    <2>3. r.value.version + Cardinality(Rereaders') <= requests' + 1
        BY <1>5, <1>7
    <2> QED
        BY <1>7, <2>1, <2>2, <2>3, VersionsStep
<1>10. \A k \in Hooks : HookOK(k)'
    BY <1>2, <1>7, HookEdits
<1> QED
    BY <1>1, <1>2, <1>7, <1>8, <1>9, <1>10, HookStep DEF people

\* Hooks are typed, and a revised one has the next version.
LEMMA RevisedOK ==
    ASSUME IInv, NEW h \in Hooks
    PROVE  /\ hook[h] \in Draft /\ hook[h].version \in Nat /\ {hook[h].script, requests + 1} \subseteq Nat
           /\ NoHook \in Draft /\ NoHook.version = 0
           /\ \A enabled \in BOOLEAN, script \in Nat :
                 /\ Revised(h, enabled, script) \in Draft
                 /\ Revised(h, enabled, script).st = hook[h].st
                 /\ Revised(h, enabled, script).version = hook[h].version + 1
<1>1. hook[h] \in Draft /\ requests \in Nat
    BY DirectoryAssumption DEF IInv, Typed, Tables, Hook, Draft
<1>2. ASSUME NEW enabled \in BOOLEAN, NEW script \in Nat
      PROVE  /\ Revised(h, enabled, script) \in Draft
             /\ Revised(h, enabled, script).st = hook[h].st
             /\ Revised(h, enabled, script).version = hook[h].version + 1
    <2>1. PICK n : n = hook[h].version + 1 /\ n \in Nat
        BY <1>1 DEF Draft
    <2>2. Revised(h, enabled, script) = [hook[h] EXCEPT !.enabled = enabled, !.version = n, !.script = script]
        BY <1>1, <2>1 DEF Revised, NextVersion, Draft
    <2> QED
        BY <1>1, <2>1, <2>2 DEF Draft
<1>3. NoHook \in Draft /\ NoHook.version = 0
    BY DEF NoHook, Draft
<1>4. hook[h].version \in Nat /\ {hook[h].script, requests + 1} \subseteq Nat
    BY <1>1 DEF Draft
<1> QED
    BY <1>1, <1>2, <1>3, <1>4

LEMMA BeginCreateHookOK ==
    ASSUME IInv, NEW p \in Procs, NEW h \in Hooks, NEW via, NEW enabled \in BOOLEAN, BeginCreateHook(p, h, via, enabled)
    PROVE  IInv'
<1> DEFINE v == [st |-> "live", enabled |-> enabled, version |-> 1, script |-> requests + 1]
<1>1. /\ Start(p) /\ Editors(h) = {} /\ hook[h].st = "unused" /\ UNCHANGED torn
      /\ GotoWith(p, "puthook", [NoRequest EXCEPT !.route = "edithook", !.hook = h, !.value = v])
      /\ UNCHANGED <<scripts, tenant, keys, people, invite, token, crashes, ceiling>>
    BY DEF BeginCreateHook
<1>2. HookOK(h)
    BY DEF IInv
<1>3. hook[h].version = 0 /\ requests + 1 \in Nat
    BY <1>1, <1>2, RevisedOK DEF HookOK
<1>4. v \in Draft /\ v.st = "live" /\ v.version = 1
    BY <1>3 DEF Draft
<1> HIDE DEF v
<1>5. v.version <= 1 /\ v.version > hook[h].version
    BY <1>3, <1>4
<1>6. Editors(h) \subseteq {p} /\ torn' \in {torn, torn \cup {h}}
    BY <1>1
<1> QED
    BY <1>1, <1>4, <1>5, <1>6, EditBegins

\* update_hook, delete_hook and the panel's forms: who finds another editor tears the hook.
LEMMA BeginHookEditOK ==
    ASSUME IInv, NEW p \in Procs, NEW h \in Hooks, NEW via, NEW l \in {"puthook", "rereadhook", "delhook"}, NEW v \in Draft,
           BeginHookEdit(p, h, via, l, v),
           v.version <= 1 \/ v.version <= hook[h].version + 1, l = "rereadhook" => v.version <= hook[h].version,
           l = "puthook" => v.st = hook[h].st /\ v.version > hook[h].version
    PROVE  IInv'
<1>1. /\ Start(p) /\ GotoWith(p, l, [NoRequest EXCEPT !.route = "edithook", !.hook = h, !.value = v])
      /\ torn' \in {torn, torn \cup {h}} /\ (h \notin torn' => Editors(h) \subseteq {p}) /\ hook[h].st = "live"
      /\ UNCHANGED <<scripts, tenant, keys, people, invite, token, crashes, ceiling>>
    BY DEF BeginHookEdit
<1> QED
    BY <1>1, EditBegins

LEMMA BeginHookUpdateOK ==
    ASSUME IInv, NEW p \in Procs, NEW h \in Hooks, NEW enabled \in BOOLEAN, BeginHookUpdate(p, h, enabled)
    PROVE  IInv'
<1>1. PICK script \in {hook[h].script, requests + 1} : BeginHookEdit(p, h, "api", "puthook", Revised(h, enabled, script))
    BY DEF BeginHookUpdate
<1> DEFINE v == Revised(h, enabled, script)
<1>2. v \in Draft /\ v.st = hook[h].st /\ v.version = hook[h].version + 1 /\ hook[h].version \in Nat
    BY RevisedOK
<1> HIDE DEF v
<1>3. v.version > hook[h].version /\ v.version <= hook[h].version + 1
    BY <1>2
<1> QED
    BY <1>1, <1>2, <1>3, BeginHookEditOK DEF v

LEMMA BeginHookFormOK ==
    ASSUME IInv, NEW p \in Procs, NEW h \in Hooks, NEW enabled \in BOOLEAN, BeginHookForm(p, h, enabled)
    PROVE  IInv'
<1>1. PICK script \in {hook[h].script, requests + 1} :
         BeginHookEdit(p, h, "panel", "rereadhook", [hook[h] EXCEPT !.enabled = enabled, !.script = script])
    BY DEF BeginHookForm
<1> DEFINE v == [hook[h] EXCEPT !.enabled = enabled, !.script = script]
<1>2. v \in Draft /\ v.version = hook[h].version /\ hook[h].version \in Nat
    <2>1. hook[h] \in Draft /\ script \in Nat
        BY RevisedOK
    <2> QED
        BY <2>1 DEF Draft
<1>3. BeginHookEdit(p, h, "panel", "rereadhook", v)
    BY <1>1
<1> HIDE DEF v
<1>4. v.version <= hook[h].version /\ v.version <= hook[h].version + 1
    BY <1>2
<1> QED
    BY <1>2, <1>3, <1>4, BeginHookEditOK

LEMMA BeginHookDeleteOK ==
    ASSUME IInv, NEW p \in Procs, NEW h \in Hooks, BeginHookDelete(p, h) \/ DeleteHookInPanel(p, h)
    PROVE  IInv'
<1>1. NoHook \in Draft /\ NoHook.version <= 1
    BY RevisedOK
<1> QED
    BY <1>1, BeginHookEditOK DEF BeginHookDelete, DeleteHookInPanel

\* A request under way that edits a hook, and what it knows of it.
LEMMA Editor ==
    ASSUME IInv, NEW p \in Procs, pc[p] \in {"rereadhook", "puthook", "snapshot", "delhook"}
    PROVE  /\ req[p] \in Request /\ ReqOK(pc[p], req[p]) /\ req[p].hook \in Hooks /\ req[p].value \in Hook
           /\ req[p].todo = {} /\ req[p].then = "idle"
           /\ pc[p] \notin Writing /\ req[p].hook # None
           /\ req[p].hook \notin torn => Editors(req[p].hook) \subseteq {p}
<1>1. req[p] \in Request /\ ReqOK(pc[p], req[p]) /\ req[p].hook \in Hooks /\ pc[p] \notin Writing
    BY Locals DEF ReqOK, Writing, Adding, Removing
<1>2. req[p].value \in Hook /\ req[p].todo = {} /\ req[p].then = "idle"
    BY <1>1 DEF Request, ReqOK, Writing
<1>3. req[p].hook \notin torn => Editors(req[p].hook) \subseteq {p}
    BY <1>1 DEF Editors, IInv, HookOK
<1> QED
    BY <1>1, <1>2, <1>3, DirectoryAssumption

\* The panel's form reads the hook again before it counts the version up.
LEMMA RereadHookOK == ASSUME IInv, NEW p \in Procs, RereadHook(p) PROVE IInv'
<1> DEFINE h == req[p].hook
           v == Revised(h, req[p].value.enabled, req[p].value.script)
           r == [req[p] EXCEPT !.value = v]
<1>1. /\ pc[p] = "rereadhook"
      /\ UNCHANGED <<scripts, tenant, keys, people, invite, token, requests, crashes, ceiling, torn>>
    BY DEF RereadHook, At
<1>2. /\ req[p] \in Request /\ h \in Hooks /\ req[p].value \in Hook /\ req[p].todo = {} /\ req[p].then = "idle"
      /\ pc[p] \notin Writing \cup {"snapshot"} /\ (h \notin torn => Editors(h) \subseteq {p})
    BY <1>1, Editor
<1>3. Tables' /\ requests \in Nat /\ MaxRequests \in Nat /\ requests <= MaxRequests
    BY <1>1, DirectoryAssumption DEF IInv, Typed, Tables, scripts, keys, people
<1>4. CASE hook[h].st = "live"
    <2>1. GotoWith(p, "puthook", r)
        BY <1>4 DEF RereadHook
    <2>2. v \in Draft /\ v.st = "live" /\ v.version = hook[h].version + 1 /\ hook[h].version \in Nat
        BY <1>2, <1>4, RevisedOK DEF Hook
    <2>3. /\ Cardinality(Rereaders') \in Nat /\ Cardinality(Rereaders) \in Nat
          /\ Cardinality(Rereaders') + 1 <= Cardinality(Rereaders)
        BY <1>1, <2>1, RereadersCount
    <2>4. hook[h].version + Cardinality(Rereaders) <= requests + 1
        BY <1>2 DEF IInv, VersionsOK
    <2>5. v.version + Cardinality(Rereaders') <= requests' + 1
        BY <1>1, <1>3, <2>2, <2>3, <2>4
    <2>6. v \in Hook
        BY <1>1, <1>3, <2>2, <2>3, <2>5 DEF Hook, Draft
    <2>7. r \in Request /\ r.hook = h /\ r.value = v /\ r.todo = {} /\ r.then = "idle"
        BY <1>2, <2>6 DEF Request
    <2> HIDE DEF r, v
    <2>8. ReqOK("puthook", r)
        BY <1>2, <2>2, <2>7 DEF ReqOK, Adding, Removing
    <2>9. VersionsOK'
        <3>1. \A k \in Hooks : hook'[k].version \in {hook[k].version, req[p].value.version}
            BY <1>1 DEF scripts
        <3>2. Cardinality(Rereaders') - Cardinality(Rereaders) <= requests' - requests /\ requests' \in Nat
            BY <1>1, <1>3, <2>3
        <3>3. r.value.version + Cardinality(Rereaders') <= requests' + 1
            BY <2>5, <2>7
        <3> QED
            BY <2>1, <2>7, <3>1, <3>2, <3>3, VersionsStep
    <2>10. r.value.version > hook[h].version
        BY <2>2, <2>7
    <2>11. \A k \in Hooks : HookOK(k)'
        BY <1>1, <1>2, <2>1, <2>7, <2>10, HookEdits
    <2> QED
        BY <1>1, <1>2, <1>3, <2>1, <2>7, <2>8, <2>9, <2>11, HookStep DEF people
<1>5. CASE hook[h].st # "live"
    <2>1. GotoWith(p, "idle", NoRequest)
        BY <1>5 DEF RereadHook, Finish
    <2>2. RankOK'
        BY <1>1, <2>1, SameRanks DEF keys
    <2>3. requests <= requests'
        BY <1>1, <1>3
    <2> QED
        BY <1>1, <1>2, <1>3, <2>1, <2>2, <2>3, PlainFresh, NothingTyped, NotExecuted DEF scripts, people, NoRequest
<1> QED
    BY <1>4, <1>5

\* A version is stored: executions of the one before are on record, as nobody else edits the hook.
LEMMA PutHookOK == ASSUME IInv, NEW p \in Procs, PutHook(p) PROVE IInv'
<1> DEFINE h == req[p].hook
           v == req[p].value
<1>1. /\ pc[p] = "puthook" /\ hook' = [hook EXCEPT ![h] = v] /\ GotoWith(p, "snapshot", req[p])
      /\ UNCHANGED <<snapshot, ran, tenant, keys, people, invite, token, requests, crashes, ceiling, torn>>
    BY DEF PutHook, At, Goto
<1>2. /\ req[p] \in Request /\ h \in Hooks /\ v \in Hook /\ ReqOK("puthook", req[p])
      /\ pc[p] \notin Writing /\ (h \notin torn => Editors(h) \subseteq {p})
    BY <1>1, Editor
<1>3. v.version > 0 /\ v.st = "live" /\ v.version \in Nat /\ ReqOK("snapshot", req[p])
    BY <1>2 DEF ReqOK, Hook, Adding, Removing
<1>4. /\ pc'[p] = "snapshot" /\ req' = req /\ \A q \in Procs \ {p} : pc'[q] = pc[q]
      /\ hook'[h] = v /\ \A k \in Hooks : k # h => hook'[k] = hook[k]
    BY <1>1, <1>2 DEF GotoWith, IInv, Typed, Tables
<1>5. Tables' /\ requests' \in Nat /\ requests' = requests
    BY <1>1, <1>2 DEF IInv, Typed, Tables, keys, people
<1>6. VersionsOK'
    <2>1. \A k \in Hooks : hook'[k].version \in {hook[k].version, v.version}
        BY <1>4
    <2>2. /\ Cardinality(Rereaders') \in Nat /\ Cardinality(Rereaders) \in Nat
          /\ Cardinality(Rereaders') <= Cardinality(Rereaders)
        BY <1>1, RereadersCount
    <2>3. v.version + Cardinality(Rereaders) <= requests + 1
        BY DEF IInv, VersionsOK
    <2>4. Cardinality(Rereaders') - Cardinality(Rereaders) <= requests' - requests
        BY <1>5, <2>2
    <2>5. v.version + Cardinality(Rereaders') <= requests' + 1
        BY <1>3, <1>5, <2>2, <2>3
    <2> QED
        BY <1>1, <1>2, <1>5, <2>1, <2>4, <2>5, VersionsStep
<1>7. ASSUME NEW k \in Hooks PROVE HookOK(k)'
    <2>1. HookOK(k) /\ hook[k].version \in Nat /\ \A e \in ran : e[2] \in Nat /\ e[2] > 0
        BY DEF IInv, Typed, Tables, Hook, Versions
    <2>2. CASE k # h
        <3>1. hook'[k] = hook[k] /\ \A q \in Procs : req'[q].hook = k => q # p
            BY <1>4, <2>2
        <3>2. \A q \in Procs : Snapshotter(q, k)' <=> Snapshotter(q, k)
            BY <1>4, <2>2 DEF Snapshotter
        <3>3. \A q \in Procs : pc'[q] = "puthook" /\ req'[q].hook = k => pc[q] = "puthook"
            BY <1>4, <3>1
        <3> QED
            BY <1>1, <1>4, <2>1, <3>1, <3>2, <3>3 DEF HookOK
    <2>3. CASE k = h
        <3> SUFFICES ASSUME k \notin torn PROVE HookOK(k)'
            BY <1>1, <1>3, <1>4, <2>3 DEF HookOK
        <3>1. \A q \in Procs : req[q].hook = k => q = p
            BY <1>2, <2>3 DEF Editors
        <3>2. v.version > hook[k].version
            BY <1>1, <2>1, <2>3 DEF HookOK
        <3>3. \A q \in Procs : ~Snapshotter(q, k)
            BY <1>1, <3>1 DEF Snapshotter
        <3>4. \A e \in ran : e[1] = k => e[2] < v.version /\ snapshot[<<k, e[2]>>] = e[3]
            <4> SUFFICES ASSUME NEW e \in ran, e[1] = k PROVE e[2] < v.version /\ snapshot[<<k, e[2]>>] = e[3]
                OBVIOUS
            <4>1. /\ e[2] <= hook[k].version /\ (e[2] = hook[k].version => e[3] = hook[k].script)
                  /\ e[2] < hook[k].version => snapshot[<<k, e[2]>>] = e[3]
                BY <2>1 DEF HookOK
            <4>2. e[2] = hook[k].version => snapshot[<<k, hook[k].version>>] = hook[k].script
                BY <2>1, <3>3 DEF HookOK
            <4> QED
                BY <1>3, <2>1, <3>2, <4>1, <4>2
        <3>5. Snapshotter(p, k)' /\ \A q \in Procs : Snapshotter(q, k)' => req'[q].value = hook'[k]
            BY <1>4, <2>3, <3>1 DEF Snapshotter
        <3>6. \A q \in Procs : ~(pc'[q] = "puthook" /\ req'[q].hook = k)
            BY <1>4, <3>1
        <3>7. \A e \in ran' : e[1] = k =>
                  /\ e[2] <= hook'[k].version
                  /\ e[2] = hook'[k].version => e[3] = hook'[k].script
                  /\ e[2] < hook'[k].version => snapshot'[<<k, e[2]>>] = e[3]
            BY <1>1, <1>3, <1>4, <2>1, <2>3, <3>4
        <3>8. \A q, s \in Procs : req'[q].hook = k /\ req'[s].hook = k => q = s
            BY <1>4, <3>1
        <3> QED
            BY <1>3, <1>4, <2>3, <3>5, <3>6, <3>7, <3>8 DEF HookOK
    <2> QED
        BY <2>2, <2>3
<1> QED
    BY <1>1, <1>2, <1>3, <1>5, <1>6, <1>7, HookStep DEF people

\* save_hook_version, of the version that is still the stored one.
LEMMA SaveHookVersionOK == ASSUME IInv, NEW p \in Procs, SaveHookVersion(p) PROVE IInv'
<1> DEFINE h == req[p].hook
           v == req[p].value
<1>1. /\ pc[p] = "snapshot" /\ GotoWith(p, "idle", NoRequest)
      /\ snapshot' = [snapshot EXCEPT ![<<h, v.version>>] = v.script]
      /\ UNCHANGED <<hook, ran, tenant, keys, people, invite, token, requests, crashes, ceiling, torn>>
    BY DEF SaveHookVersion, At, Finish
<1>2. /\ req[p] \in Request /\ h \in Hooks /\ v \in Hook /\ ReqOK("snapshot", req[p])
      /\ pc[p] \notin Writing /\ (h \notin torn => Editors(h) \subseteq {p})
    BY <1>1, Editor
<1>3. v.version \in Versions /\ v.script \in Nat
    BY <1>2, DirectoryAssumption DEF ReqOK, Hook, Versions
<1>4. /\ pc'[p] = "idle" /\ req'[p] = NoRequest /\ NoRequest.hook = None
      /\ \A q \in Procs \ {p} : pc'[q] = pc[q] /\ req'[q] = req[q]
    BY <1>1, MovesOne DEF NoRequest
<1>5. /\ snapshot'[<<h, v.version>>] = v.script
      /\ \A x \in Hooks \X Versions : x # <<h, v.version>> => snapshot'[x] = snapshot[x]
    BY <1>1, <1>2, <1>3 DEF IInv, Typed, Tables
<1>6. Tables' /\ requests <= requests'
    BY <1>1, <1>2, <1>3 DEF IInv, Typed, Tables, keys, people
<1>7. VersionsOK'
    <2>1. NoRequest.value.version <= v.version
        BY <1>2, NothingTyped DEF NoRequest, Hook
    <2> QED
        BY <1>1, <1>6, <2>1, NothingTyped, SameVersions
<1>8. ASSUME NEW k \in Hooks PROVE HookOK(k)'
    <2>1. /\ HookOK(k) /\ hook[k].version \in 0..MaxRequests + 1 /\ ran \subseteq Hooks \X Versions \X Nat /\ k # None
          /\ hook' = hook
        BY <1>1, DirectoryAssumption DEF IInv, Typed, Tables, Hook
    <2> SUFFICES ASSUME k \notin torn PROVE HookOK(k)'
        BY <1>1, <2>1 DEF HookOK
    <2>2. \A q \in Procs : req'[q].hook = k => q # p /\ req'[q] = req[q] /\ pc'[q] = pc[q]
        BY <1>4, <2>1
    <2>3. \A q, s \in Procs : req'[q].hook = k /\ req'[s].hook = k => q = s
        BY <2>1, <2>2 DEF HookOK
    <2>4. \A q \in Procs : Snapshotter(q, k)' => req'[q].value = hook'[k]
        BY <2>1, <2>2 DEF HookOK, Snapshotter
    <2>5. \A q \in Procs : pc'[q] = "puthook" /\ req'[q].hook = k => req'[q].value.version > hook'[k].version
        BY <2>1, <2>2 DEF HookOK
    <2>6. CASE k = h
        <3>1. v = hook[k] /\ \A q \in Procs : req[q].hook = k => q = p
            BY <1>1, <1>2, <2>1, <2>6 DEF HookOK, Snapshotter, Editors
        <3>2. snapshot'[<<k, hook[k].version>>] = hook[k].script
            BY <1>5, <2>6, <3>1
        <3>3. \A e \in ran : e[1] = k /\ e[2] < hook[k].version => snapshot'[<<k, e[2]>>] = e[3]
            <4> SUFFICES ASSUME NEW e \in ran, e[1] = k, e[2] < hook[k].version PROVE snapshot'[<<k, e[2]>>] = e[3]
                OBVIOUS
            <4>1. snapshot[<<k, e[2]>>] = e[3] /\ e[2] \in Versions /\ e[2] # v.version
                BY <2>1, <3>1 DEF HookOK, Versions
            <4> QED
                BY <1>5, <4>1
        <3> QED
            BY <1>1, <2>1, <2>3, <2>4, <2>5, <3>2, <3>3 DEF HookOK
    <2>7. CASE k # h
        <3>1. \A n \in Versions : snapshot'[<<k, n>>] = snapshot[<<k, n>>]
            BY <1>5, <2>7
        <3>2. hook[k].version > 0 => snapshot'[<<k, hook[k].version>>] = snapshot[<<k, hook[k].version>>]
            BY <2>1, <3>1, DirectoryAssumption DEF Versions
        <3>3. \A q \in Procs : Snapshotter(q, k) => Snapshotter(q, k)'
            BY <1>4, <2>7 DEF Snapshotter
        <3>4. \A e \in ran : e[1] = k => snapshot'[<<k, e[2]>>] = snapshot[<<k, e[2]>>]
            BY <2>1, <3>1
        <3> QED
            BY <1>1, <2>1, <2>3, <2>4, <2>5, <3>2, <3>3, <3>4 DEF HookOK
    <2> QED
        BY <2>6, <2>7
<1> QED
    BY <1>1, <1>2, <1>6, <1>7, <1>8, NothingTyped, HookStep DEF people

LEMMA DeleteHookOK == ASSUME IInv, NEW p \in Procs, DeleteHook(p) PROVE IInv'
<1> DEFINE h == req[p].hook
<1>1. /\ pc[p] = "delhook" /\ GotoWith(p, "idle", NoRequest) /\ hook' = [hook EXCEPT ![h].st = "deleted"]
      /\ UNCHANGED <<snapshot, ran, tenant, keys, people, invite, token, requests, crashes, ceiling, torn>>
    BY DEF DeleteHook, At, Finish
<1>2. req[p] \in Request /\ h \in Hooks /\ pc[p] \notin Writing /\ req[p].value \in Hook
    BY <1>1, Editor
<1>3. /\ pc'[p] = "idle" /\ req'[p] = NoRequest /\ NoRequest.hook = None
      /\ \A q \in Procs \ {p} : pc'[q] = pc[q] /\ req'[q] = req[q]
    BY <1>1, MovesOne DEF NoRequest
<1>4. /\ hook' \in [Hooks -> Hook] /\ hook'[h].st = "deleted"
      /\ \A k \in Hooks : hook'[k].version = hook[k].version /\ hook'[k].script = hook[k].script
      /\ \A k \in Hooks : k # h => hook'[k] = hook[k]
    <2>1. hook \in [Hooks -> Hook] /\ hook[h] \in Hook
        BY <1>2 DEF IInv, Typed, Tables
    <2>2. hook'[h] = [hook[h] EXCEPT !.st = "deleted"] /\ \A k \in Hooks : k # h => hook'[k] = hook[k]
        BY <1>1, <1>2, <2>1
    <2>3. hook'[h] \in Hook /\ hook'[h].st = "deleted" /\ hook'[h].version = hook[h].version /\ hook'[h].script = hook[h].script
        BY <2>1, <2>2 DEF Hook
    <2>4. hook' \in [Hooks -> Hook]
        BY <1>1, <2>1, <2>2, <2>3
    <2> QED
        BY <2>2, <2>3, <2>4
<1>5. Tables' /\ requests <= requests'
    BY <1>1, <1>4 DEF IInv, Typed, Tables, keys, people
<1>6. VersionsOK'
    <2>1. NoRequest.value.version <= req[p].value.version
        BY <1>2, NothingTyped DEF NoRequest, Hook
    <2> QED
        BY <1>1, <1>4, <1>5, <2>1, NothingTyped, SameVersions
<1>7. ASSUME NEW k \in Hooks PROVE HookOK(k)'
    <2>1. HookOK(k) /\ k # None
        BY DirectoryAssumption DEF IInv
    <2>2. /\ hook'[k].st = "unused" => hook'[k].version = 0
          /\ hook'[k].st = "live" => hook'[k].version > 0
        BY <1>4, <2>1 DEF HookOK
    <2> SUFFICES ASSUME k \notin torn PROVE HookOK(k)'
        BY <1>1, <2>2 DEF HookOK
    <2>3. \A q \in Procs : req'[q].hook = k => q # p /\ req'[q] = req[q] /\ pc'[q] = pc[q]
        BY <1>3, <2>1
    <2>4. \A q \in Procs : Snapshotter(q, k)' <=> Snapshotter(q, k)
        BY <1>1, <1>3 DEF Snapshotter
    <2>5. \A q, s \in Procs : req'[q].hook = k /\ req'[s].hook = k => q = s
        BY <2>1, <2>3 DEF HookOK
    <2>6. \A q \in Procs : Snapshotter(q, k)' => req'[q].value = hook'[k]
        <3> SUFFICES ASSUME NEW q \in Procs, Snapshotter(q, k)' PROVE req'[q].value = hook'[k]
            OBVIOUS
        <3>1. q # p /\ req[q].hook = k /\ req'[q] = req[q] /\ req[q].value = hook[k]
            BY <2>1, <2>3, <2>4 DEF HookOK, Snapshotter
        <3>2. k # h
            BY <2>1, <3>1 DEF HookOK
        <3> QED
            BY <1>4, <3>1, <3>2
    <2>7. \A q \in Procs : pc'[q] = "puthook" /\ req'[q].hook = k => req'[q].value.version > hook'[k].version
        BY <1>4, <2>1, <2>3 DEF HookOK
    <2> QED
        BY <1>1, <1>4, <2>1, <2>2, <2>4, <2>5, <2>6, <2>7 DEF HookOK
<1> QED
    BY <1>1, <1>2, <1>5, <1>6, <1>7, NothingTyped, HookStep DEF people

(***************************************************************************)
(* Crashes, and all steps.                                                 *)
(***************************************************************************)
\* What a handler that dies was writing is torn.
LEMMA CrashOK == ASSUME IInv, NEW p \in Procs, Crash(p) PROVE IInv'
<1>1. /\ GotoWith(p, "idle", NoRequest) /\ crashes < MaxCrashes /\ crashes' = crashes + 1
      /\ torn' = torn \cup Pairs(p) \cup ({req[p].hook} \ {None})
      /\ UNCHANGED <<scripts, tenant, keys, people, invite, token, requests, ceiling>>
    BY DEF Crash, Finish
<1>2. req[p] \in Request /\ ReqOK(pc[p], req[p]) /\ req[p].hook \in Hooks \cup {None} /\ req[p].value.version \in Nat
    BY Locals DEF Request, Hook
<1>3. Pairs(p) \subseteq Tenants \X Users
    <2>1. req[p].todo \subseteq Tenants
        BY <1>2 DEF Request
    <2>2. pc[p] \in Writing => req[p].user \in Users
        BY <1>2 DEF ReqOK, Writing
    <2>3. pc[p] \in Adding \cup Removing => req[p].tenant \in Tenants
        BY <1>2 DEF ReqOK
    <2> QED
        BY <2>1, <2>2, <2>3 DEF Pairs, Writing
<1>4. Tables' /\ requests <= requests'
    <2>1. torn' \subseteq (Tenants \X Users) \cup Hooks
        BY <1>1, <1>2, <1>3 DEF IInv, Typed, Tables
    <2>2. crashes' \in 0..MaxCrashes
        BY <1>1, DirectoryAssumption DEF IInv, Typed, Tables
    <2>3. UNCHANGED <<scripts, tenant, keys, people, invite, token, requests, ceiling>>
        BY <1>1
    <2> QED
        BY <2>1, <2>2, <2>3 DEF IInv, Typed, Tables, scripts, keys, people
<1>5. BootstrapOK' /\ RankOK'
    BY <1>1, SameBootstrap, SameRanks DEF people, keys
<1>6. VersionsOK'
    <2>1. NoRequest.value.version <= req[p].value.version
        BY <1>2, NothingTyped DEF NoRequest
    <2> QED
        BY <1>1, <1>4, <2>1, NothingTyped, SameVersions DEF scripts
<1>7. \A h \in Hooks : HookOK(h)'
    <2>1. pc[p] = "snapshot" => req[p].hook \in torn'
        BY <1>1, Editor
    <2>2. torn \subseteq torn' /\ NoRequest.hook = None /\ UNCHANGED <<hook, snapshot>> /\ Executed
        BY <1>1, NotExecuted DEF NoRequest, scripts
    <2> QED
        BY <1>1, <2>1, <2>2, SameHooks
<1>8. ASSUME NEW x \in Tenants \X Users, x \notin torn' PROVE PairOK(x)'
    <2>1. x \notin torn /\ x \notin Pairs(p)
        BY <1>1, <1>8
    <2>2. pc'[p] = "idle" /\ Pairs(p)' = {}
        BY <1>1, MovesOne DEF Pairs, Adding, Removing
    <2>3. \A q, s \in Procs : x \in Pairs(q)' /\ pc'[q] \in Adding /\ x \in Pairs(s)' => pc'[s] \in Adding
        BY <1>1, <2>1, <2>2, Narrows DEF Adding, Removing
    <2>4. ~Writes(p, {"rev"}, x)' /\ ~Writes(p, {"delrev"}, x)'
        BY <2>2 DEF Writes
    <2>5. ~Writes(p, {"rev"}, x) /\ ~Writes(p, {"delrev"}, x)
        BY <2>1, PairsOf
    <2> QED
        BY <1>1, <2>1, <2>3, <2>4, <2>5, PairKnown, OthersWrite DEF PairOK, keys
<1>9. \A x \in Tenants \X Users : PairOK(x)'
    BY <1>8 DEF PairOK
<1> QED
    BY <1>1, <1>4, <1>5, <1>6, <1>7, <1>9, NothingTyped, Combine DEF Labels

LEMMA InitOK == Init => IInv
<1> SUFFICES ASSUME Init PROVE IInv
    OBVIOUS
<1>1. /\ invite = [i \in Invites |-> NoInvite] /\ pc = [p \in Procs |-> "idle"] /\ req = [p \in Procs |-> NoRequest]
      /\ requests = 0 /\ crashes = 0 /\ ran = {} /\ torn = {}
    BY DEF Init
<1>2. /\ pc \in [Procs -> Labels] /\ req \in [Procs -> Request] /\ invite \in [Invites -> Invitation]
      /\ requests \in 0..MaxRequests /\ crashes \in 0..MaxCrashes /\ Rereaders = {} /\ 1 \in Versions
      /\ \A p \in Procs : RequestOK(p) /\ Pairs(p) = {}
    BY <1>1, NothingTyped, DirectoryAssumption DEF Labels, Rereaders, RequestOK, Pairs, Adding, Removing, Versions
<1>3. \A i \in Invites : InvitationOK(i)
    BY <1>1, Levels DEF InvitationOK, NoInvite, Assignable
<1>4. (\A p \in Procs : req[p].hook = None /\ req[p].value.version = 0) /\ IsFiniteSet(Rereaders) /\ Cardinality(Rereaders) = 0
    BY <1>1, <1>2, NothingTyped, FS_EmptySet DEF NoRequest
<1>5. /\ Level["none"] = 0 /\ Level["manager"] \in 0..4 /\ "manager" \in Roles /\ "none" \in Roles
    BY Levels DEF Roles, Assignable
<1>6. CASE Fresh
    <2>1. Tables
        <3>1. /\ tenant \in [Tenants -> {"unused", "active", "suspended", "deleted"}]
              /\ user \in [Users -> {"unused", "live", "gone"}]
              /\ superadmin \subseteq Users /\ bootstrapped \subseteq Users /\ flag \in BOOLEAN /\ claimed \in BOOLEAN
            BY <1>6 DEF Fresh
        <3>2. /\ fwd \in [Tenants \X Users -> Roles] /\ rev \subseteq Tenants \X Users /\ ceiling \in [Tenants -> 0..4]
              /\ ran \subseteq Hooks \X Versions \X Nat /\ torn \subseteq (Tenants \X Users) \cup Hooks
            BY <1>1, <1>5, <1>6 DEF Fresh
        <3>3. token \in [Users -> Claim] /\ hook \in [Hooks -> Hook] /\ snapshot \in [Hooks \X Versions -> Int]
            BY <1>6, NothingTyped DEF Fresh
        <3> QED
            BY <1>2, <3>1, <3>2, <3>3 DEF Tables
    <2>2. RankOK
        BY <1>1, <1>3, <1>5, <1>6 DEF Fresh, RankOK, Below, At, NoToken
    <2>3. \A h \in Hooks : HookOK(h)
        BY <1>1, <1>4, <1>6, DirectoryAssumption DEF Fresh, HookOK, NoHook, Snapshotter
    <2>4. VersionsOK
        BY <1>1, <1>4, <1>6, NothingTyped DEF Fresh, VersionsOK
    <2>5. BootstrapOK
        BY <1>1, <1>6 DEF Fresh, BootstrapOK, At
    <2>6. \A x \in Tenants \X Users : PairOK(x)
        BY <1>1, <1>2, <1>6 DEF Fresh, PairOK, Writes
    <2> QED
        BY <1>2, <2>1, <2>2, <2>3, <2>4, <2>5, <2>6 DEF IInv, Typed
<1>7. CASE Established
    <2>1. fwd \in [Tenants \X Users -> Roles] /\ ceiling \in [Tenants -> 0..4] /\ rev \subseteq Tenants \X Users
        BY <1>5, <1>7, DirectoryAssumption DEF Established
    <2>2. \A t \in Tenants, u \in Users : Level[fwd[<<t, u>>]] <= ceiling[t]
        BY <1>5, <1>7 DEF Established
    <2>3. ASSUME NEW u \in Users
          PROVE  Claims(u) \in Claim /\ \A t \in Tenants : Level[Claims(u).role[t]] <= ceiling[t]
        <3>1. \A t \in Tenants : fwd[<<t, u>>] \in Roles /\ ceiling[t] \in Nat
            BY <2>1
        <3>2. Claims(u) \in Claim
            BY <1>5, <3>1 DEF Claims, Claim
        <3> QED
            BY <1>5, <2>2, <3>1, <3>2 DEF Claims
    <2>4. token \in [Users -> Claim] /\ \A u \in Users, t \in Tenants : Level[token[u].role[t]] <= ceiling[t]
        <3>1. NoToken \in Claim /\ \A t \in Tenants : NoToken.role[t] = "none" /\ ceiling[t] \in Nat
            BY <2>1, NothingTyped DEF NoToken
        <3>2. token = [u \in Users |-> IF u \in {FirstAdmin, FirstManager} THEN Claims(u) ELSE NoToken]
            BY <1>7 DEF Established
        <3> QED
            BY <1>5, <2>3, <3>1, <3>2
    <2>5. /\ hook = [h \in Hooks |-> [st |-> "live", enabled |-> TRUE, version |-> 1, script |-> 0]]
          /\ snapshot = [x \in Hooks \X Versions |-> IF x[2] = 1 THEN 0 ELSE -1]
        BY <1>7 DEF Established
    <2>6. hook \in [Hooks -> Hook] /\ snapshot \in [Hooks \X Versions -> Int]
        BY <2>5, DirectoryAssumption DEF Hook
    <2>7. Tables
        <3>1. /\ tenant \in [Tenants -> {"unused", "active", "suspended", "deleted"}]
              /\ user \in [Users -> {"unused", "live", "gone"}]
              /\ superadmin \subseteq Users /\ bootstrapped \subseteq Users /\ flag \in BOOLEAN /\ claimed \in BOOLEAN
            BY <1>7, DirectoryAssumption DEF Established
        <3>2. ran \subseteq Hooks \X Versions \X Nat /\ torn \subseteq (Tenants \X Users) \cup Hooks
            BY <1>1
        <3> QED
            BY <1>2, <2>1, <2>4, <2>6, <3>1, <3>2 DEF Tables
    <2>8. RankOK
        BY <1>1, <1>3, <2>2, <2>4 DEF RankOK, Below, At
    <2>9. \A h \in Hooks : HookOK(h)
        BY <1>1, <1>2, <1>4, <2>5, DirectoryAssumption DEF HookOK, Snapshotter
    <2>10. VersionsOK
        BY <1>1, <1>4, <2>5 DEF VersionsOK
    <2>11. BootstrapOK
        BY <1>1, <1>7 DEF Established, BootstrapOK, At
    <2>12. \A x \in Tenants \X Users : PairOK(x)
        BY <1>1, <1>2, <1>7 DEF Established, PairOK, Writes
    <2> QED
        BY <1>2, <2>7, <2>8, <2>9, <2>10, <2>11, <2>12 DEF IInv, Typed
<1> QED
    BY <1>6, <1>7 DEF Init

LEMMA BeginOK == ASSUME IInv, NEW p \in Procs, Begin(p) PROVE IInv'
<1>1. CASE \E u \in Users : IssueToken(p, u) \/ BeginErase(p, u) \/ BeginActivate(p, u) \/ BeginBootstrap(p, u)
    BY <1>1, IssueTokenOK, BeginEraseOK, BeginActivateOK, BeginBootstrapOK
<1>2. CASE \E u \in Users, i \in Invites : SaveVerification(p, i, u)
    BY <1>2, SaveVerificationOK
<1>3. CASE \E i \in Invites : AcceptInvitation(p, i)
    BY <1>3, AcceptInvitationOK
<1>4. ASSUME NEW t \in Tenants,
             \/ CreateTenant(p, t) \/ CreateTenantInPanel(p, t) \/ UpdateTenant(p, t)
             \/ BeginDeleteTenant(p, t) \/ DeleteTenantInPanel(p, t)
      PROVE  IInv'
    <2>1. CASE CreateTenant(p, t)
        BY <2>1, CreateTenantOK
    <2>2. CASE CreateTenantInPanel(p, t)
        BY <2>2, AddToNewTenantOK DEF CreateTenantInPanel, Assignable
    <2>3. CASE UpdateTenant(p, t) \/ BeginDeleteTenant(p, t) \/ DeleteTenantInPanel(p, t)
        BY <2>3, BeginTenantEditOK DEF UpdateTenant, BeginDeleteTenant, DeleteTenantInPanel
    <2> QED
        BY <1>4, <2>1, <2>2, <2>3
<1>5. ASSUME NEW t \in Tenants, NEW by \in Users, NEW u \in Users,
             \/ RemoveTenantUser(p, by, t, u) \/ RemoveInPanel(p, by, t, u) \/ RemoveOnUserPage(p, by, t, u)
             \/ \E role \in Asked : AddTenantUser(p, by, t, u, role) \/ AddInPanel(p, by, t, u, role)
             \/ \E i \in Invites, role \in Asked :
                  InviteTenantUser(p, by, i, t, u, role) \/ InviteInPanel(p, by, i, t, u, role)
      PROVE  IInv'
    <2>1. CASE RemoveTenantUser(p, by, t, u) \/ RemoveInPanel(p, by, t, u) \/ RemoveOnUserPage(p, by, t, u)
        BY <2>1, RemoveMemberOK DEF RemoveTenantUser, RemoveInPanel, RemoveOnUserPage
    <2>2. CASE \E role \in Asked : AddTenantUser(p, by, t, u, role) \/ AddInPanel(p, by, t, u, role)
        BY <2>2, AddMemberOK DEF AddTenantUser, AddInPanel
    <2>3. CASE \E i \in Invites, role \in Asked :
                 InviteTenantUser(p, by, i, t, u, role) \/ InviteInPanel(p, by, i, t, u, role)
        BY <2>3, InviteUserOK DEF InviteTenantUser, InviteInPanel
    <2> QED
        BY <1>5, <2>1, <2>2, <2>3
<1>6. CASE \E t \in Tenants, u \in Users, role \in Asked : AddToNewTenant(p, t, u, role)
    BY <1>6, AddToNewTenantOK, Levels
<1>7. ASSUME NEW h \in Hooks,
             \/ \E u \in Users : HookSetsSuperadmin(p, h, u)
             \/ \E t \in Tenants, u \in Users, role \in Asked : BeginHook(p, h, t, u, role)
      PROVE  IInv'
    BY <1>7, HookSetsSuperadminOK, BeginHookOK, Levels
<1>8. ASSUME NEW h \in Hooks,
             \/ \E enabled \in BOOLEAN : CreateHook(p, h, enabled) \/ CreateHookForm(p, h, enabled)
             \/ \E enabled \in BOOLEAN : BeginHookUpdate(p, h, enabled) \/ BeginHookForm(p, h, enabled)
             \/ BeginHookDelete(p, h) \/ DeleteHookInPanel(p, h)
      PROVE  IInv'
    <2>1. CASE \E enabled \in BOOLEAN : CreateHook(p, h, enabled) \/ CreateHookForm(p, h, enabled)
        BY <2>1, BeginCreateHookOK DEF CreateHook, CreateHookForm
    <2>2. CASE \E enabled \in BOOLEAN : BeginHookUpdate(p, h, enabled) \/ BeginHookForm(p, h, enabled)
        BY <2>2, BeginHookUpdateOK, BeginHookFormOK
    <2>3. CASE BeginHookDelete(p, h) \/ DeleteHookInPanel(p, h)
        BY <2>3, BeginHookDeleteOK
    <2> QED
        BY <1>8, <2>1, <2>2, <2>3
<1> QED
    BY <1>1, <1>2, <1>3, <1>4, <1>5, <1>6, <1>7, <1>8 DEF Begin

LEMMA StepOK == ASSUME IInv, NEW p \in Procs, Step(p) PROVE IInv'
<1>1. CASE PutFwd(p) \/ PutRev(p) \/ DeleteFwd(p) \/ DeleteRev(p) \/ NextPair(p) \/ DeleteRecord(p)
    BY <1>1, PutFwdOK, PutRevOK, DeleteFwdOK, DeleteRevOK, NextPairOK, DeleteRecordOK
<1>2. CASE PutTenant(p) \/ DeleteTenant(p) \/ DeleteInvitation(p) \/ CheckMember(p) \/ HookGrant(p) \/ PutActivated(p)
    BY <1>2, WriteTenantOK, DeleteInvitationOK, CheckMemberOK, HookGrantOK, PutActivatedOK
<1>3. CASE RereadHook(p) \/ PutHook(p) \/ SaveHookVersion(p) \/ DeleteHook(p)
    BY <1>3, RereadHookOK, PutHookOK, SaveHookVersionOK, DeleteHookOK
<1>4. CASE \/ \E t \in Tenants, role \in Asked : BootstrapHook(p, t, role)
           \/ ClaimBootstrap(p) \/ CreateAdmin(p) \/ \E t \in Tenants : CreateOrganization(p, t)
    BY <1>4, BootstrapHookOK, ClaimBootstrapOK, CreateAdminOK, CreateOrganizationOK
<1> QED
    BY <1>1, <1>2, <1>3, <1>4 DEF Step

LEMMA NextOK == IInv /\ [Next]_vars => IInv'
<1> SUFFICES ASSUME IInv, [Next]_vars PROVE IInv'
    OBVIOUS
<1>1. CASE \E p \in Procs : Begin(p) \/ Step(p) \/ Crash(p)
    BY <1>1, BeginOK, StepOK, CrashOK
<1>2. CASE \E i \in Invites : ExpireInvite(i)
    BY <1>2, ExpireInviteOK
<1>3. CASE UNCHANGED vars
    <2>1. UNCHANGED <<Rereaders, pc, req>>
        BY <1>3 DEF vars, Rereaders
    <2>2. Typed'
        BY <1>3 DEF vars, IInv, Typed, Tables
    <2>3. (\A p \in Procs : RequestOK(p))' /\ BootstrapOK' /\ RankOK'
        BY <1>3 DEF vars, IInv, RequestOK, BootstrapOK, RankOK, InvitationOK, Below, At
    <2>4. VersionsOK'
        BY <1>3, <2>1 DEF vars, IInv, VersionsOK
    <2>5. (\A x \in Tenants \X Users : PairOK(x))'
        BY <1>3 DEF vars, IInv, PairOK, Pairs, Writes
    <2>6. (\A h \in Hooks : HookOK(h))'
        BY <1>3 DEF vars, IInv, HookOK, Snapshotter
    <2> QED
        BY <2>2, <2>3, <2>4, <2>5, <2>6 DEF IInv
<1> QED
    BY <1>1, <1>2, <1>3 DEF Next

(***************************************************************************)
(* The theorems.                                                           *)
(***************************************************************************)
\* Requests, crashes and expiries keep what holds at the start.
THEOREM Invariance == Spec => []IInv
BY InitOK, NextOK, PTL DEF Spec

\* The records and locals keep their types (store.rs).
THEOREM TypeCorrect == Spec => []TypeOK
<1>1. IInv => TypeOK
    BY TypesHold DEF IInv
<1> QED
    BY <1>1, Invariance, PTL

\* handle_bootstrap_submit makes one superadmin at most: meta:bootstrap_done is created once, by the
\* request that goes on to make the user.
THEOREM OneBootstrap == Spec => []BootstrapOnce
<1>1. IInv => BootstrapOnce
    <2> SUFFICES ASSUME IInv PROVE Cardinality(bootstrapped) <= 1
        BY DEF BootstrapOnce
    <2>1. CASE bootstrapped = {}
        BY <2>1, FS_EmptySet
    <2>2. CASE bootstrapped # {}
        <3>1. PICK u : bootstrapped = {u}
            BY <2>2 DEF IInv, BootstrapOK
        <3> QED
            BY <3>1, FS_Singleton
    <2> QED
        BY <2>1, <2>2
<1> QED
    BY <1>1, Invariance, PTL

\* No member and no open invitation ranks above what superadmins and hooks granted in the tenant,
\* whatever roles the callers' tokens still carry (add_member, invite_user, accept_invitation).
THEOREM RanksComeFromAbove == Spec => []RankFromAbove
<1>1. IInv => RankFromAbove
    <2> SUFFICES ASSUME IInv PROVE RankFromAbove
        OBVIOUS
    <2>1. \A x \in Tenants \X Users : Level[fwd[x]] <= ceiling[x[1]]
        <3> TAKE x \in Tenants \X Users
        <3>1. PICK t \in Tenants, u \in Users : x = <<t, u>>
            OBVIOUS
        <3> QED
            BY <3>1 DEF IInv, RankOK, Below
    <2> QED
        BY <2>1 DEF IInv, RankOK, InvitationOK, Below, RankFromAbove
<1> QED
    BY <1>1, Invariance, PTL

\* The keys of a membership agree once nobody writes it, unless a handler died at it or an
\* addition met a removal (add_membership, remove_membership, delete_user).
THEOREM KeysAgree == Spec => []ViewsAgree
<1>1. IInv => ViewsAgree
    <2> SUFFICES ASSUME IInv, NEW x \in Tenants \X Users, x \notin torn, \A p \in Procs : x \notin Pairs(p)
                 PROVE  fwd[x] # "none" <=> x \in rev
        BY DEF ViewsAgree
    <2>1. \A p \in Procs : ~Writes(p, {"rev"}, x) /\ ~Writes(p, {"delrev"}, x)
        BY PairsOf
    <2> QED
        BY <2>1, PairKnown
<1> QED
    BY <1>1, Invariance, PTL

\* The script of every execution is the one its version's snapshot keeps, once the edits of the
\* hook are over and unless two overlapped or one was cut short (update_hook, save_hook_version).
THEOREM RunsOnRecord == Spec => []RanIsOnRecord
<1>1. IInv => RanIsOnRecord
    <2> SUFFICES ASSUME IInv, NEW e \in ran, e[1] \notin torn, Editors(e[1]) = {}
                 PROVE  snapshot[<<e[1], e[2]>>] = e[3]
        BY DEF RanIsOnRecord
    <2> DEFINE h == e[1]
    <2>1. h \in Hooks /\ e[2] \in Nat /\ e[2] > 0 /\ hook[h].version \in Nat
        BY DEF IInv, Typed, Tables, Versions, Hook
    <2>2. \A p \in Procs : ~Snapshotter(p, h)
        BY DEF Editors, Snapshotter
    <2>3. /\ e[2] <= hook[h].version /\ (e[2] = hook[h].version => e[3] = hook[h].script)
          /\ e[2] < hook[h].version => snapshot[<<h, e[2]>>] = e[3]
          /\ hook[h].version > 0 => snapshot[<<h, hook[h].version>>] = hook[h].script
        BY <2>1, <2>2 DEF IInv, HookOK
    <2>4. CASE e[2] = hook[h].version
        BY <2>1, <2>3, <2>4
    <2>5. CASE e[2] < hook[h].version
        BY <2>3, <2>5
    <2> QED
        BY <2>1, <2>3, <2>4, <2>5
<1> QED
    BY <1>1, Invariance, PTL
=============================================================================
