---------------------------- MODULE Provisioning ----------------------------
(***************************************************************************)
(* SCIM 2.0 provisioning: connections (scim_connection:{id}) with the hash *)
(* of their token, the users a connection makes, their memberships of the  *)
(* connection's tenant, and the two records that tie a user to the         *)
(* connection: scim_identity:{connection}:{externalId} (the primary) and   *)
(* scim_user:{connection}:{user} (the secondary)                           *)
(* (scim/mod.rs, services/scim.rs, store.rs).                              *)
(*                                                                         *)
(* A request in flight is a process p and each write to the store is one   *)
(* step. A process may die before any step, and the store may refuse a     *)
(* write. Whether an address is free is left open (Accounts models the     *)
(* e-mail index), and a membership is one record here (Directory models    *)
(* its two keys).                                                          *)
(***************************************************************************)
EXTENDS Requests, Naturals, FiniteSets

CONSTANTS
    Conns, Users, Externals, None,
    FirstConn, FirstUser, FirstExternal,  \* provisioned at the start
    LocalUser,      \* a user no connection made
    MaxRequests,    \* bound: requests
    MaxFaults       \* bound: processes that die and writes that fail

ASSUME ProvisioningAssumption ==
    /\ None \notin Procs \cup Conns \cup Users \cup Externals
    /\ FirstConn \in Conns /\ FirstExternal \in Externals
    /\ {FirstUser, LocalUser} \subseteq Users /\ FirstUser # LocalUser
    /\ MaxRequests \in Nat /\ MaxFaults \in Nat

VARIABLES
    conn,       \* scim_connection:{id}; token is the number of the token whose hash it holds
    issued,     \* tokens handed out per connection
    user,       \* user:{id}
    member,     \* users with a membership of the connection's tenant
    primary, secondary,
    requests, faults,
    madeBy,     \* history: the connection that made the user
    cut,        \* history: users whose creation or its undoing was cut short
    reached,    \* history: <<c, u>>: a request of c was shown u, or changed it
    revived,    \* history: users whom activate_user put back after they were gone
    floor       \* history: what the last edit that ran alone established

vars == <<conn, issued, user, member, primary, secondary, pc, req, requests, faults, madeBy, cut, reached, revived, floor>>
edits == <<conn, issued, floor>>
tied == <<primary, secondary>>
history == <<madeBy, cut, reached, revived>>

NoConn == [st |-> "unused", token |-> 0]
NoUser == [st |-> "unused", superadmin |-> FALSE]
NoIdentity == [user |-> None, external |-> None, version |-> 0]
NoFloor == [token |-> 0, deleted |-> FALSE]
\* active: the status asked for; read: the connection as an edit read it; alone: no edit overlapped this one;
\* person: the user as activate_user read it.
NoRequest ==
    [route |-> "none", conn |-> None, user |-> None, external |-> None, active |-> FALSE,
     identity |-> NoIdentity, read |-> NoConn, alone |-> TRUE, person |-> NoUser]
Edits == {"enable", "disable", "toggle", "rotate", "delete"}
Routes == {"none", "create", "put", "patch", "remove", "erase", "activate"} \cup Edits
Labels == {"idle", "createuser", "status", "member", "primary", "secondary", "unprimary", "unmember", "undo",
           "undomember", "write", "saveprimary", "savesecondary", "deluser", "delmember", "delprimary",
           "delsecondary", "activate", "readconn", "putconn", "delconn"}
Live(u) == user[u].st \in {"active", "disabled"}

TypeOK ==
    /\ \A c \in Conns : conn[c].st \in {"unused", "enabled", "disabled", "deleted"} /\ conn[c].token <= issued[c]
    /\ \A u \in Users : user[u].st \in {"unused", "active", "disabled", "gone"}
    /\ member \subseteq Users /\ madeBy \in [Users -> Conns \cup {None}] /\ cut \subseteq Users /\ revived \subseteq Users
    /\ \A x \in Conns \X Externals : primary[x].user \in Users \cup {None}
    /\ \A x \in Conns \X Users : secondary[x].external \in Externals \cup {None}
    /\ pc \in [Procs -> Labels] /\ \A p \in Procs : req[p].route \in Routes
    /\ requests \in 0..MaxRequests /\ faults \in 0..MaxFaults
    /\ reached \subseteq Conns \X Users

FirstIdentity == [user |-> FirstUser, external |-> FirstExternal, version |-> 1]
Init ==
    /\ conn = [c \in Conns |-> IF c = FirstConn THEN [st |-> "enabled", token |-> 1] ELSE NoConn]
    /\ issued = [c \in Conns |-> IF c = FirstConn THEN 1 ELSE 0]
    /\ user = [u \in Users |-> IF u \in {FirstUser, LocalUser} THEN [NoUser EXCEPT !.st = "active"] ELSE NoUser]
    /\ member = {FirstUser, LocalUser}
    /\ primary = [x \in Conns \X Externals |-> IF x = <<FirstConn, FirstExternal>> THEN FirstIdentity ELSE NoIdentity]
    /\ secondary = [x \in Conns \X Users |-> IF x = <<FirstConn, FirstUser>> THEN FirstIdentity ELSE NoIdentity]
    /\ pc = [p \in Procs |-> "idle"] /\ req = [p \in Procs |-> NoRequest] /\ requests = 0 /\ faults = 0
    /\ madeBy = [u \in Users |-> IF u = FirstUser THEN FirstConn ELSE None]
    /\ cut = {} /\ reached = {} /\ revived = {} /\ floor = [c \in Conns |-> NoFloor]

Finish(p) == GotoWith(p, "idle", NoRequest)
Start(p) == At(p, "idle") /\ requests < MaxRequests /\ requests' = requests + 1
Fails == faults < MaxFaults /\ faults' = faults + 1

(***************************************************************************)
(* The SCIM endpoint.                                                      *)
(***************************************************************************)
\* authenticate: the enabled connection whose hash is that of the token presented.
Authenticates(c, token) == conn[c].st = "enabled" /\ conn[c].token = token
Caller(c) == \E token \in 1..issued[c] : Authenticates(c, token)

\* Mutant: the identity is looked up by the user alone.
IdentityOf_AnyConnection(c, u) ==
    IF \E d \in Conns : secondary[<<d, u>>] # NoIdentity
    THEN secondary[<<CHOOSE d \in Conns : secondary[<<d, u>>] # NoIdentity, u>>] ELSE NoIdentity

\* get_scim_identity_by_user.
IdentityOf(c, u) == secondary[<<c, u>>]
\* identity_and_user: the two reads are one step.
Found(c, u) == IdentityOf(c, u) # NoIdentity /\ Live(u)
\* check_if_match: 0 stands for no header and for "*".
IfMatchPasses(seen, version) == seen \in {0, version}
Changeable(c, u) ==
    /\ Found(c, u) /\ ~user[u].superadmin
    /\ \E seen \in 0..MaxRequests + 1 : IfMatchPasses(seen, IdentityOf(c, u).version)

\* POST /Users, up to its checks.
BeginCreate(p, c, e, active) ==
    /\ Start(p) /\ Caller(c) /\ primary[<<c, e>>] = NoIdentity
    /\ GotoWith(p, "createuser", [NoRequest EXCEPT !.route = "create", !.conn = c, !.external = e, !.active = active])
    /\ UNCHANGED <<edits, user, member, tied, faults, history>>

\* store::create_user; an address registered meanwhile is a conflict.
CreateUser(p, u) ==
    /\ At(p, "createuser") /\ user[u].st = "unused"
    /\ \/ /\ user' = [user EXCEPT ![u].st = IF req[p].active THEN "active" ELSE "disabled"]
          /\ madeBy' = [madeBy EXCEPT ![u] = req[p].conn]
          /\ GotoWith(p, "status", [req[p] EXCEPT !.user = u])
       \/ Finish(p) /\ UNCHANGED <<user, madeBy>>
    /\ UNCHANGED <<edits, member, tied, requests, faults, cut, reached, revived>>

\* Mutant: the caller is told, and the user stays.
Undo_Forgets(p, label) == Finish(p)

\* What was made is taken back, from the given step on.
Undo(p, label) == Goto(p, label)

SetStatus(p) ==
    LET u == req[p].user IN
    /\ At(p, "status")
    /\ \/ /\ Live(u) /\ user' = [user EXCEPT ![u].st = IF req[p].active THEN "active" ELSE "disabled"]
          /\ Goto(p, "member") /\ UNCHANGED faults
       \/ ~Live(u) /\ Undo(p, "undo") /\ UNCHANGED <<user, faults>>
       \/ Fails /\ Undo(p, "undo") /\ UNCHANGED user
    /\ UNCHANGED <<edits, member, tied, requests, history>>

AddMembership(p) ==
    /\ At(p, "member")
    /\ \/ member' = member \cup {req[p].user} /\ Goto(p, "primary") /\ UNCHANGED faults
       \/ Fails /\ Undo(p, "undo") /\ UNCHANGED member
    /\ UNCHANGED <<edits, user, tied, requests, history>>

\* create_scim_identity: both records are only created where there is none.
NewIdentity(p) == [user |-> req[p].user, external |-> req[p].external, version |-> 1]
CreatePrimary(p) ==
    LET key == <<req[p].conn, req[p].external>> IN
    /\ At(p, "primary")
    /\ \/ /\ primary[key] = NoIdentity /\ primary' = [primary EXCEPT ![key] = NewIdentity(p)]
          /\ Goto(p, "secondary") /\ UNCHANGED faults
       \/ primary[key] # NoIdentity /\ Undo(p, "unmember") /\ UNCHANGED <<primary, faults>>
       \/ Fails /\ Undo(p, "unmember") /\ UNCHANGED primary
    /\ UNCHANGED <<edits, user, member, secondary, requests, history>>
CreateSecondary(p) ==
    LET key == <<req[p].conn, req[p].user>> IN
    /\ At(p, "secondary")
    /\ \/ /\ secondary[key] = NoIdentity /\ secondary' = [secondary EXCEPT ![key] = NewIdentity(p)]
          /\ Finish(p) /\ UNCHANGED faults
       \/ Fails /\ Undo(p, "unprimary") /\ UNCHANGED secondary
    /\ UNCHANGED <<edits, user, member, primary, requests, history>>

\* The undoing of a creation that failed, in the order of the code.
Unprimary(p) ==
    /\ At(p, "unprimary") /\ primary' = [primary EXCEPT ![<<req[p].conn, req[p].external>>] = NoIdentity]
    /\ Goto(p, "unmember")
    /\ UNCHANGED <<edits, user, member, secondary, requests, faults, history>>
Unmember(p) ==
    /\ At(p, "unmember") /\ member' = member \ {req[p].user} /\ Goto(p, "undo")
    /\ UNCHANGED <<edits, user, tied, requests, faults, history>>

\* store::delete_user: the record first, then the memberships; none when the record is gone.
DeleteRecord(p, label, then, absent) ==
    /\ At(p, label)
    /\ IF Live(req[p].user)
       THEN user' = [user EXCEPT ![req[p].user].st = "gone"] /\ Goto(p, then)
       ELSE absent /\ UNCHANGED user
    /\ UNCHANGED <<edits, member, tied, requests, faults, history>>
DeleteMemberships(p, label, then) ==
    /\ At(p, label) /\ member' = member \ {req[p].user} /\ then
    /\ UNCHANGED <<edits, user, tied, requests, faults, history>>
UndoUser(p) == DeleteRecord(p, "undo", "undomember", Finish(p))
UndoMemberships(p) == DeleteMemberships(p, "undomember", Finish(p))

\* GET /Users: the primaries under the connection's prefix whose user exists; GET /Users/{id}.
Resources(c) == {u \in Users : Live(u) /\ \E e \in Externals : primary[<<c, e>>].user = u}
GetUsers(p, c) ==
    /\ Start(p) /\ Caller(c) /\ reached' = reached \cup ({c} \X Resources(c)) /\ Finish(p)
    /\ UNCHANGED <<edits, user, member, tied, faults, madeBy, cut, revived>>
GetUser(p, c, u) ==
    /\ Start(p) /\ Caller(c) /\ Found(c, u) /\ reached' = reached \cup {<<c, u>>} /\ Finish(p)
    /\ UNCHANGED <<edits, user, member, tied, faults, madeBy, cut, revived>>

\* PUT and PATCH /Users/{id}, up to their checks; a PATCH that leaves active alone asks for what it read.
BeginUpdate(p, c, u, route, active) ==
    /\ Start(p) /\ Caller(c) /\ Changeable(c, u)
    /\ GotoWith(p, "write", [NoRequest EXCEPT !.route = route, !.conn = c, !.user = u, !.active = active,
                                              !.identity = IdentityOf(c, u)])
    /\ UNCHANGED <<edits, user, member, tied, faults, history>>
BeginPut(p, c, u, active) == BeginUpdate(p, c, u, "put", active)
BeginPatch(p, c, u) == BeginUpdate(p, c, u, "patch", user[u].st = "active")

\* update_user_provisioned; the user may be gone, and the address taken.
UpdateUser(p) ==
    LET u == req[p].user IN
    /\ At(p, "write")
    /\ \/ /\ Live(u) /\ user' = [user EXCEPT ![u].st = IF req[p].active THEN "active" ELSE "disabled"]
          /\ reached' = reached \cup {<<req[p].conn, u>>}
          /\ GotoWith(p, "saveprimary", [req[p] EXCEPT !.identity.version = @ + 1])
       \/ Finish(p) /\ UNCHANGED <<user, reached>>
    /\ UNCHANGED <<edits, member, tied, requests, faults, madeBy, cut, revived>>

\* save_scim_identity: two blind puts.
SavePrimary(p) ==
    /\ At(p, "saveprimary")
    /\ \/ /\ primary' = [primary EXCEPT ![<<req[p].conn, req[p].identity.external>>] = req[p].identity]
          /\ Goto(p, "savesecondary") /\ UNCHANGED faults
       \/ Fails /\ Finish(p) /\ UNCHANGED primary
    /\ UNCHANGED <<edits, user, member, secondary, requests, history>>
SaveSecondary(p) ==
    /\ At(p, "savesecondary")
    /\ \/ secondary' = [secondary EXCEPT ![<<req[p].conn, req[p].user>>] = req[p].identity] /\ UNCHANGED faults
       \/ Fails /\ UNCHANGED secondary
    /\ Finish(p)
    /\ UNCHANGED <<edits, user, member, primary, requests, history>>

\* DELETE /Users/{id}: the user, then the identities.
BeginRemove(p, c, u) ==
    /\ Start(p) /\ Caller(c) /\ Changeable(c, u)
    /\ reached' = reached \cup {<<c, u>>}
    /\ GotoWith(p, "deluser", [NoRequest EXCEPT !.route = "remove", !.conn = c, !.user = u, !.identity = IdentityOf(c, u)])
    /\ UNCHANGED <<edits, user, member, tied, faults, madeBy, cut, revived>>
RemoveUser(p) == DeleteRecord(p, "deluser", "delmember",
                              IF req[p].route = "remove" THEN Goto(p, "delprimary") ELSE Finish(p))
RemoveMemberships(p) == DeleteMemberships(p, "delmember",
                              IF req[p].route = "remove" THEN Goto(p, "delprimary") ELSE Finish(p))
DeletePrimary(p) ==
    /\ At(p, "delprimary")
    /\ \/ /\ primary' = [primary EXCEPT ![<<req[p].conn, req[p].identity.external>>] = NoIdentity]
          /\ Goto(p, "delsecondary") /\ UNCHANGED faults
       \/ Fails /\ Finish(p) /\ UNCHANGED primary
    /\ UNCHANGED <<edits, user, member, secondary, requests, history>>
DeleteSecondary(p) ==
    /\ At(p, "delsecondary") /\ Finish(p)
    /\ secondary' = [secondary EXCEPT ![<<req[p].conn, req[p].user>>] = NoIdentity]
    /\ UNCHANGED <<edits, user, member, primary, requests, faults, history>>

\* An administrator deletes the user: the identities stay.
BeginErase(p, u) ==
    /\ Start(p) /\ Live(u) /\ GotoWith(p, "deluser", [NoRequest EXCEPT !.route = "erase", !.user = u])
    /\ UNCHANGED <<edits, user, member, tied, faults, history>>

\* activate_user of an administrator puts back the record that it read, whatever happened since.
BeginActivate(p, u) ==
    /\ Start(p) /\ Live(u)
    /\ GotoWith(p, "activate", [NoRequest EXCEPT !.route = "activate", !.user = u, !.person = user[u]])
    /\ UNCHANGED <<edits, user, member, tied, faults, history>>
PutActivated(p) ==
    LET u == req[p].user IN
    /\ At(p, "activate") /\ Finish(p)
    /\ user' = [user EXCEPT ![u] = [req[p].person EXCEPT !.st = "active"]]
    /\ revived' = IF Live(u) THEN revived ELSE revived \cup {u}
    /\ UNCHANGED <<edits, member, tied, requests, faults, madeBy, cut, reached>>

\* A hook or an administrator makes a user a superadmin.
Promote(u) ==
    /\ Live(u) /\ ~user[u].superadmin /\ user' = [user EXCEPT ![u].superadmin = TRUE]
    /\ UNCHANGED <<edits, member, tied, pc, req, requests, faults, history>>

(***************************************************************************)
(* Administration of connections: read, then put.                          *)
(***************************************************************************)
Editing(c) == {p \in Procs : req[p].route \in Edits /\ req[p].conn = c}

\* create_connection draws a new id.
CreateConnection(p, c) ==
    /\ Start(p) /\ conn[c] = NoConn /\ Finish(p)
    /\ conn' = [conn EXCEPT ![c] = [st |-> "enabled", token |-> 1]] /\ issued' = [issued EXCEPT ![c] = 1]
    /\ UNCHANGED <<user, member, tied, faults, history, floor>>
CreateScimConnection(p, c) == CreateConnection(p, c)
CreateConnectionInPanel(p, c) == CreateConnection(p, c)

\* set_enabled, rotate_token, delete_connection; the panel's toggle reads the state it is to negate first.
BeginEdit(p, c, route) ==
    /\ Start(p) /\ conn[c].st \in {"enabled", "disabled"}
    /\ pc' = [pc EXCEPT ![p] = "readconn"]
    /\ req' = [q \in Procs |->
                 CASE q = p -> [NoRequest EXCEPT !.route = route, !.conn = c, !.active = conn[c].st # "enabled",
                                                 !.alone = Editing(c) = {}]
                   [] q \in Editing(c) -> [req[q] EXCEPT !.alone = FALSE]
                   [] OTHER -> req[q]]
    /\ UNCHANGED <<edits, user, member, tied, faults, history>>
UpdateScimConnection(p, c) == BeginEdit(p, c, "enable") \/ BeginEdit(p, c, "disable")
ToggleConnection(p, c) == BeginEdit(p, c, "toggle")
RotateScimToken(p, c) == BeginEdit(p, c, "rotate")
RotateTokenInPanel(p, c) == BeginEdit(p, c, "rotate")
DeleteScimConnection(p, c) == BeginEdit(p, c, "delete")
DeleteConnectionInPanel(p, c) == BeginEdit(p, c, "delete")
ReadConnection(p) ==
    LET c == req[p].conn IN
    /\ At(p, "readconn")
    /\ IF conn[c].st \in {"enabled", "disabled"}
       THEN GotoWith(p, IF req[p].route = "delete" THEN "delconn" ELSE "putconn", [req[p] EXCEPT !.read = conn[c]])
       ELSE Finish(p)
    /\ UNCHANGED <<edits, user, member, tied, requests, faults, history>>

\* Mutant: the new token is handed out and the old hash is saved.
Edited_OldHash(r, fresh) ==
    [r.read EXCEPT !.st = CASE r.route = "enable" -> "enabled" [] r.route = "disable" -> "disabled"
                            [] r.route = "toggle" -> IF r.active THEN "enabled" ELSE "disabled" [] OTHER -> @]

\* The record as it was read, with what the request changes.
Edited(r, fresh) ==
    [st |-> CASE r.route = "enable" -> "enabled" [] r.route = "disable" -> "disabled"
              [] r.route = "toggle" -> IF r.active THEN "enabled" ELSE "disabled" [] OTHER -> r.read.st,
     token |-> IF r.route = "rotate" THEN fresh ELSE r.read.token]

PutConnection(p) ==
    LET c == req[p].conn
        fresh == issued[c] + 1
    IN /\ At(p, "putconn") /\ Finish(p)
       /\ conn' = [conn EXCEPT ![c] = Edited(req[p], fresh)]
       /\ issued' = IF req[p].route = "rotate" THEN [issued EXCEPT ![c] = fresh] ELSE issued
       /\ floor' = IF req[p].route = "rotate" /\ req[p].alone THEN [floor EXCEPT ![c].token = fresh] ELSE floor
       /\ UNCHANGED <<user, member, tied, requests, faults, history>>
DeleteConnection(p) ==
    LET c == req[p].conn IN
    /\ At(p, "delconn") /\ Finish(p)
    /\ conn' = [conn EXCEPT ![c].st = "deleted"]
    /\ floor' = IF req[p].alone THEN [floor EXCEPT ![c].deleted = TRUE] ELSE floor
    /\ UNCHANGED <<issued, user, member, tied, requests, faults, history>>

\* A handler dies between two of its steps.
Crash(p) ==
    /\ ~At(p, "idle") /\ Fails /\ Finish(p)
    /\ cut' = IF req[p].route = "create" THEN cut \cup ({req[p].user} \ {None}) ELSE cut
    /\ UNCHANGED <<edits, user, member, tied, requests, madeBy, reached, revived>>

Step(p) ==
    \/ \E u \in Users : CreateUser(p, u)
    \/ SetStatus(p) \/ AddMembership(p) \/ CreatePrimary(p) \/ CreateSecondary(p)
    \/ Unprimary(p) \/ Unmember(p) \/ UndoUser(p) \/ UndoMemberships(p)
    \/ UpdateUser(p) \/ SavePrimary(p) \/ SaveSecondary(p)
    \/ RemoveUser(p) \/ RemoveMemberships(p) \/ DeletePrimary(p) \/ DeleteSecondary(p) \/ PutActivated(p)
    \/ ReadConnection(p) \/ PutConnection(p) \/ DeleteConnection(p)
Begin(p) ==
    /\ At(p, "idle") /\ requests < MaxRequests
    /\ \/ \E c \in Conns :
            \/ \E e \in Externals, active \in BOOLEAN : BeginCreate(p, c, e, active)
            \/ \E u \in Users, active \in BOOLEAN : BeginPut(p, c, u, active)
            \/ \E u \in Users : GetUser(p, c, u) \/ BeginPatch(p, c, u) \/ BeginRemove(p, c, u)
            \/ GetUsers(p, c) \/ CreateScimConnection(p, c) \/ CreateConnectionInPanel(p, c)
            \/ UpdateScimConnection(p, c) \/ ToggleConnection(p, c) \/ RotateScimToken(p, c) \/ RotateTokenInPanel(p, c)
            \/ DeleteScimConnection(p, c) \/ DeleteConnectionInPanel(p, c)
       \/ \E u \in Users : BeginErase(p, u) \/ BeginActivate(p, u)
Next == (\E p \in Procs : Begin(p) \/ Step(p) \/ Crash(p)) \/ (\E u \in Users : Promote(u))
Spec == Init /\ [][Next]_vars

-----------------------------------------------------------------------------
Creating(u) == \E p \in Procs : req[p].route = "create" /\ req[p].user = u

(***************************************************************************)
(* A user a connection made stays within its reach: while the user exists, *)
(* and its creation neither is under way nor was cut short by a crash, the *)
(* connection finds the identity it manages the user by. A creation that   *)
(* fails half-way takes the user back, and a removal deletes the identity  *)
(* last (create_user, create_scim_identity and DELETE in scim/mod.rs). Not *)
(* so for a user whom activate_user read before a removal and put back     *)
(* after it (services/users.rs:14-19): nothing ties that one to the        *)
(* connection any more.                                                    *)
(***************************************************************************)
Manageable ==
    \A u \in Users : Live(u) /\ madeBy[u] # None /\ u \notin cut \cup revived /\ ~Creating(u) =>
        secondary[<<madeBy[u], u>>] # NoIdentity

(***************************************************************************)
(* A connection is shown, changes and removes only users it made itself,   *)
(* never a local user or one of another connection, whatever requests,     *)
(* removals and re-creations race (identity_and_user, list_users).         *)
(***************************************************************************)
OwnUsersOnly == \A x \in reached : madeBy[x[2]] = x[1]

(***************************************************************************)
(* An edit of a connection that no other edit overlapped holds: after such *)
(* a rotation no earlier token is accepted again, after such a deletion    *)
(* none is (rotate_token, delete_connection and authenticate). Overlapping *)
(* edits put back what they read.                                          *)
(***************************************************************************)
LoneEditHolds ==
    \A c \in Conns, token \in 1..MaxRequests + 1 :
        Authenticates(c, token) => token >= floor[c].token /\ ~floor[c].deleted
=============================================================================
