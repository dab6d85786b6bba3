------------------------- MODULE ProvisioningProofs -------------------------
(***************************************************************************)
(* Theorems about Provisioning for any number of requests, connections,    *)
(* users and edits.                                                        *)
(***************************************************************************)
EXTENDS Provisioning, TLAPS

Connection == [st: {"unused", "enabled", "disabled", "deleted"}, token: Nat]
Person == [st: {"unused", "active", "disabled", "gone"}, superadmin: BOOLEAN]
Identity == [user: Users \cup {None}, external: Externals \cup {None}, version: Nat]
Floor == [token: Nat, deleted: BOOLEAN]
Request == [route: Routes, conn: Conns \cup {None}, user: Users \cup {None}, external: Externals \cup {None},
            active: BOOLEAN, identity: Identity, read: Connection, alone: BOOLEAN, person: Person]

\* The state has its types.
Shape ==
    /\ conn \in [Conns -> Connection] /\ issued \in [Conns -> Nat] /\ floor \in [Conns -> Floor]
    /\ user \in [Users -> Person] /\ member \subseteq Users
    /\ primary \in [Conns \X Externals -> Identity] /\ secondary \in [Conns \X Users -> Identity]
    /\ madeBy \in [Users -> Conns \cup {None}] /\ cut \subseteq Users /\ revived \subseteq Users /\ reached \subseteq Conns \X Users
    /\ requests \in 0..MaxRequests /\ faults \in 0..MaxFaults
    /\ pc \in [Procs -> Labels] /\ req \in [Procs -> Request]

Making == {"status", "member", "primary", "secondary", "unprimary", "unmember", "undo", "undomember"}
Writing == {"write", "saveprimary", "savesecondary"}
Editor == {"readconn", "putconn", "delconn"}

\* The identity i ties the user u, of the connection c, to it.
Ties(i, c, u) == i.user = u /\ i.external \in Externals /\ madeBy[u] = c
\* Gone for good, but for what activate_user puts back.
Gone(u) == user[u].st = "gone" \/ u \in revived

\* What a request with locals r knows when it is about to take step l.
ReqOK(l, r) ==
    /\ l = "idle" => r = NoRequest
    /\ r.route = "create" <=> l \in {"createuser"} \cup Making
    /\ l = "createuser" => r.conn \in Conns /\ r.external \in Externals /\ r.user = None
    /\ l \in Making => r.conn \in Conns /\ r.external \in Externals /\ r.user \in Users /\ madeBy[r.user] = r.conn
    /\ l = "undomember" => Gone(r.user)
    /\ l \in Writing => r.conn \in Conns /\ r.user \in Users /\ Ties(r.identity, r.conn, r.user)
    /\ l \in {"deluser", "delmember", "activate"} => r.user \in Users
    /\ l \in {"delprimary", "delsecondary"} => r.route = "remove"
    /\ r.route = "remove" => /\ l \in {"deluser", "delmember", "delprimary", "delsecondary"}
                             /\ r.conn \in Conns /\ r.user \in Users /\ Ties(r.identity, r.conn, r.user)
                             /\ l # "deluser" => Gone(r.user)
    /\ l \in Editor <=> r.route \in Edits
    /\ l \in Editor => r.conn \in Conns
RequestOK(p) == ReqOK(pc[p], req[p])

\* Both records of an identity, and what was reached, lead to users the connection made.
Owned ==
    /\ \A u \in Users : user[u].st = "unused" => madeBy[u] = None
    /\ \A c \in Conns, e \in Externals :
          primary[<<c, e>>] # NoIdentity => primary[<<c, e>>].user \in Users /\ madeBy[primary[<<c, e>>].user] = c
    /\ \A c \in Conns, u \in Users : secondary[<<c, u>>] # NoIdentity => Ties(secondary[<<c, u>>], c, u)
    /\ \A x \in reached : madeBy[x[2]] = x[1]

OwnInv == Shape /\ Owned /\ \A p \in Procs : RequestOK(p)

\* An edit that is alone is the only one of its connection; what it established is not undone by a later one.
Editors == \A p, q \in Procs :
    pc[p] \in Editor /\ pc[q] \in Editor /\ req[p].conn = req[q].conn /\ p # q => ~req[p].alone
Floors ==
    /\ \A c \in Conns :
          /\ floor[c].token <= conn[c].token /\ conn[c].token <= issued[c]
          /\ floor[c].deleted => conn[c].st = "deleted"
          /\ floor[c].deleted \/ conn[c].st = "unused" => \A p \in Procs : pc[p] \in Editor => req[p].conn # c
    /\ \A p \in Procs : pc[p] = "putconn" =>
          /\ req[p].read.st \in {"enabled", "disabled"}
          /\ floor[req[p].conn].token <= req[p].read.token /\ req[p].read.token <= issued[req[p].conn]
EditInv == Editors /\ Floors

-----------------------------------------------------------------------------
(* Whose users they are. *)

\* The tables, without the requests in flight.
Tables ==
    /\ conn \in [Conns -> Connection] /\ issued \in [Conns -> Nat] /\ floor \in [Conns -> Floor]
    /\ user \in [Users -> Person] /\ member \subseteq Users
    /\ primary \in [Conns \X Externals -> Identity] /\ secondary \in [Conns \X Users -> Identity]
    /\ madeBy \in [Users -> Conns \cup {None}] /\ cut \subseteq Users /\ revived \subseteq Users /\ reached \subseteq Conns \X Users
    /\ requests \in 0..MaxRequests /\ faults \in 0..MaxFaults

\* A step keeps what others know: who made a user, and that a user is gone.
Keeps == \A u \in Users : (madeBy[u] # None => madeBy'[u] = madeBy[u]) /\ (Gone(u) => Gone(u)')

LEMMA Unmoved ==
    ASSUME UNCHANGED <<madeBy, user, revived>> PROVE Keeps
BY DEF Keeps, Gone

LEMMA MovesOne ==
    ASSUME Shape, NEW p \in Procs, NEW l, NEW r, GotoWith(p, l, r)
    PROVE  /\ pc'[p] = l /\ req'[p] = r
           /\ \A q \in Procs \ {p} : pc'[q] = pc[q] /\ req'[q] = req[q]
BY DEF Shape, GotoWith

LEMMA KnowsStill ==
    ASSUME Keeps, NEW l, NEW r, ReqOK(l, r) PROVE ReqOK(l, r)'
<1>1. \A c \in Conns : c # None
    BY ProvisioningAssumption
<1>2. ASSUME NEW u \in Users, NEW c \in Conns, madeBy[u] = c PROVE madeBy'[u] = c
    BY <1>1, <1>2 DEF Keeps
<1>3. ASSUME NEW u \in Users, Gone(u) PROVE Gone(u)'
    BY <1>3 DEF Keeps
<1>4. ASSUME NEW u \in Users, NEW c \in Conns, Ties(r.identity, c, u) PROVE Ties(r.identity, c, u)'
    BY <1>2, <1>4 DEF Ties
<1> QED
    BY <1>2, <1>3, <1>4 DEF ReqOK, Making, Writing, Editor

LEMMA OtherKnows ==
    ASSUME OwnInv, Keeps, NEW q \in Procs, pc'[q] = pc[q], req'[q] = req[q] PROVE RequestOK(q)'
<1>1. PICK k, s : k = pc[q] /\ s = req[q]
    OBVIOUS
<1>2. ReqOK(k, s)
    BY <1>1 DEF OwnInv, RequestOK
<1>3. ReqOK(k, s)'
    BY <1>2, KnowsStill
<1>4. k = pc'[q] /\ s = req'[q]
    BY <1>1
<1> QED
    BY <1>3, <1>4 DEF RequestOK, ReqOK, Ties

LEMMA StepOwn ==
    ASSUME OwnInv, NEW p \in Procs, NEW l \in Labels, NEW r \in Request, GotoWith(p, l, r),
           Keeps, Tables', Owned', ReqOK(l, r)
    PROVE  OwnInv'
<1>1. /\ pc'[p] = l /\ req'[p] = r
      /\ \A q \in Procs \ {p} : pc'[q] = pc[q] /\ req'[q] = req[q]
    BY MovesOne DEF OwnInv
<1>2. Shape'
    BY DEF OwnInv, Shape, Tables, GotoWith
<1>3. ASSUME NEW q \in Procs \ {p} PROVE RequestOK(q)'
    BY <1>1, OtherKnows
<1>4. ReqOK(l, r)'
    BY KnowsStill
<1>5. RequestOK(p)'
    BY <1>1, <1>4 DEF RequestOK, ReqOK, Ties
<1> QED
    BY <1>1, <1>2, <1>3, <1>5 DEF OwnInv

LEMMA NoRequestOK == NoRequest \in Request /\ "idle" \in Labels /\ ReqOK("idle", NoRequest)
<1>1. NoRequest \in Request /\ NoRequest.route = "none"
    BY DEF NoRequest, Request, NoIdentity, Identity, NoConn, Connection, Routes, NoUser, Person
<1> QED
    BY <1>1 DEF Labels, ReqOK, Making, Writing, Editor, Edits

LEMMA FinishOwn ==
    ASSUME OwnInv, NEW p \in Procs, Finish(p), Keeps, Tables', Owned' PROVE OwnInv'
BY NoRequestOK, StepOwn DEF Finish

\* The locals of a request, as the steps change them.
LEMMA Locals ==
    ASSUME OwnInv, NEW p \in Procs
    PROVE  /\ req[p] \in Request /\ pc[p] \in Labels /\ ReqOK(pc[p], req[p])
           /\ Tables /\ Owned
BY DEF OwnInv, Shape, Tables, RequestOK

LEMMA SameOwned ==
    ASSUME Owned, UNCHANGED <<user, madeBy, primary, secondary, reached>> PROVE Owned'
BY DEF Owned, Ties

\* The user is made.
LEMMA CreateUserOwn ==
    ASSUME OwnInv, NEW p \in Procs, NEW u \in Users, CreateUser(p, u) PROVE OwnInv'
<1> USE DEF CreateUser, At, edits, tied
<1>1. /\ req[p] \in Request /\ Tables /\ Owned
      /\ req[p].route = "create" /\ req[p].conn \in Conns /\ req[p].external \in Externals
    BY Locals DEF ReqOK
<1>2. CASE Finish(p) /\ UNCHANGED <<user, madeBy>>
    <2>1. Tables'
        BY <1>1, <1>2 DEF Tables
    <2> QED
        BY <1>1, <1>2, <2>1, SameOwned, Unmoved, FinishOwn
<1>3. CASE /\ user' = [user EXCEPT ![u].st = IF req[p].active THEN "active" ELSE "disabled"]
           /\ madeBy' = [madeBy EXCEPT ![u] = req[p].conn]
           /\ GotoWith(p, "status", [req[p] EXCEPT !.user = u])
    <2>1. madeBy[u] = None /\ user[u].st # "gone" /\ revived' = revived
        BY <1>1 DEF Owned, history
    <2>2. Keeps
        <3>1. \A v \in Users \ {u} : madeBy'[v] = madeBy[v] /\ user'[v] = user[v]
            BY <1>1, <1>3 DEF Tables
        <3>2. Gone(u) => Gone(u)'
            BY <2>1 DEF Gone
        <3> QED
            BY <2>1, <3>1, <3>2 DEF Keeps, Gone
    <2>3. Tables'
        <3>1. user' \in [Users -> Person]
            BY <1>1, <1>3 DEF Tables, Person
        <3>2. madeBy' \in [Users -> Conns \cup {None}]
            BY <1>1, <1>3 DEF Tables
        <3> QED
            BY <1>1, <3>1, <3>2 DEF Tables
    <2>4. Owned'
        <3>1. \A c \in Conns : c # None
            BY ProvisioningAssumption
        <3>2. \A v \in Users : user'[v].st = "unused" => madeBy'[v] = None
            BY <1>1, <1>3 DEF Owned, Tables, Person
        <3>3. \A c \in Conns, v \in Users : madeBy[v] = c => madeBy'[v] = c
            BY <1>1, <1>3, <2>1, <3>1 DEF Tables
        <3>4. reached \subseteq Conns \X Users
            BY <1>1 DEF Tables
        <3>5. \A x \in reached : madeBy'[x[2]] = x[1]
            BY <1>1, <3>3, <3>4 DEF Owned
        <3> QED
            BY <1>1, <3>2, <3>3, <3>5 DEF Owned, Ties
    <2>5. /\ madeBy'[u] = req[p].conn /\ [req[p] EXCEPT !.user = u] \in Request
        BY <1>1, <1>3 DEF Tables, Request
    <2>6. OwnInv'
        <3>1. /\ pc'[p] = "status" /\ req'[p] = [req[p] EXCEPT !.user = u]
              /\ \A q \in Procs \ {p} : pc'[q] = pc[q] /\ req'[q] = req[q]
            BY <1>3, MovesOne DEF OwnInv
        <3>2. RequestOK(p)'
            BY <1>1, <2>5, <3>1 DEF RequestOK, ReqOK, Making, Writing, Editor, Edits, Request
        <3>3. \A q \in Procs \ {p} : RequestOK(q)'
            BY <2>2, <3>1, OtherKnows
        <3>4. Shape'
            BY <1>3, <2>3, <2>5 DEF OwnInv, Shape, Tables, GotoWith, Labels
        <3> QED
            BY <2>4, <3>2, <3>3, <3>4 DEF OwnInv
    <2> QED
        BY <2>6
<1> QED
    BY <1>2, <1>3

\* A later step of a creation, or of its undoing, that keeps the locals.
LEMMA MakingOwn ==
    ASSUME OwnInv, NEW p \in Procs, NEW l \in Making, pc[p] \in Making, Goto(p, l), Keeps, Tables', Owned',
           l = "undomember" => user'[req[p].user].st = "gone"
    PROVE  OwnInv'
<1>1. req[p] \in Request /\ ReqOK(pc[p], req[p]) /\ l \in Labels
    BY Locals DEF Making, Labels
<1>2. /\ pc'[p] = l /\ req'[p] = req[p]
      /\ \A q \in Procs \ {p} : pc'[q] = pc[q] /\ req'[q] = req[q]
    BY MovesOne DEF OwnInv, Goto
<1>3. madeBy'[req[p].user] = madeBy[req[p].user]
    BY <1>1, ProvisioningAssumption DEF ReqOK, Keeps
<1>4. RequestOK(p)'
    BY <1>1, <1>2, <1>3 DEF RequestOK, ReqOK, Making, Writing, Editor, Edits, Gone
<1>5. \A q \in Procs \ {p} : RequestOK(q)'
    BY <1>2, OtherKnows
<1>6. Shape'
    BY <1>1 DEF OwnInv, Shape, Tables, Goto, GotoWith
<1> QED
    BY <1>4, <1>5, <1>6 DEF OwnInv

\* A change of status: of a user that is there, to anything but "unused".
LEMMA Restate ==
    ASSUME Tables, Owned, NEW u \in Users, NEW st \in {"active", "disabled", "gone"},
           Live(u), user' = [user EXCEPT ![u].st = st], UNCHANGED <<madeBy, revived>>
    PROVE  /\ user' \in [Users -> Person] /\ Keeps
           /\ st = "gone" => user'[u].st = "gone"
           /\ \A v \in Users : user'[v].st = "unused" => user[v].st = "unused"
BY DEF Tables, Person, Live, Keeps, Gone

LEMMA RestateOwned ==
    ASSUME Owned, \A v \in Users : user'[v].st = "unused" => user[v].st = "unused",
           UNCHANGED <<madeBy, primary, secondary, reached>>
    PROVE  Owned'
BY DEF Owned, Ties

LEMMA Faults ==
    ASSUME Tables, Fails \/ UNCHANGED faults PROVE faults' \in 0..MaxFaults
BY ProvisioningAssumption DEF Tables, Fails

LEMMA SetStatusOwn == ASSUME OwnInv, NEW p \in Procs, SetStatus(p) PROVE OwnInv'
<1>0. faults' \in 0..MaxFaults
    BY Locals, Faults DEF SetStatus
<1> DEFINE u == req[p].user  st == IF req[p].active THEN "active" ELSE "disabled"
<1>1. /\ pc[p] = "status" /\ pc[p] \in Making /\ u \in Users /\ Tables /\ Owned
      /\ UNCHANGED <<conn, issued, floor, member, primary, secondary, requests, madeBy, cut, reached, revived>>
    BY Locals DEF SetStatus, At, ReqOK, Making, edits, tied, history
<1>2. CASE Live(u) /\ user' = [user EXCEPT ![u].st = st] /\ Goto(p, "member")
    <2>1. st \in {"active", "disabled", "gone"}
        OBVIOUS
    <2> HIDE DEF u, st
    <2>2. Tables' /\ Keeps /\ Owned'
        BY <1>0, <1>1, <1>2, <2>1, Restate, RestateOwned DEF Tables
    <2> QED
        BY <1>0, <1>1, <1>2, <2>2, MakingOwn DEF Making
<1>3. CASE Goto(p, "undo") /\ UNCHANGED user
    <2>1. Tables' /\ Owned'
        BY <1>0, <1>1, <1>3, SameOwned DEF Tables
    <2> QED
        BY <1>0, <1>1, <1>3, <2>1, Unmoved, MakingOwn DEF Making
<1> QED
    BY <1>2, <1>3 DEF SetStatus, Undo

LEMMA AddMembershipOwn == ASSUME OwnInv, NEW p \in Procs, AddMembership(p) PROVE OwnInv'
<1>0. faults' \in 0..MaxFaults
    BY Locals, Faults DEF AddMembership
<1>1. /\ pc[p] = "member" /\ pc[p] \in Making /\ req[p].user \in Users /\ Tables /\ Owned
      /\ UNCHANGED <<conn, issued, floor, user, primary, secondary, requests, madeBy, cut, reached, revived>>
    BY Locals DEF AddMembership, At, ReqOK, Making, edits, tied, history
<1>2. Tables' /\ Owned'
    BY <1>0, <1>1, SameOwned DEF Tables, AddMembership
<1>3. PICK l \in {"primary", "undo"} : Goto(p, l)
    BY DEF AddMembership, Undo
<1> QED
    BY <1>0, <1>1, <1>2, <1>3, Unmoved, MakingOwn DEF Making

LEMMA NewIdentityOK ==
    ASSUME OwnInv, NEW p \in Procs, pc[p] \in Making
    PROVE  /\ NewIdentity(p) \in Identity /\ NewIdentity(p) # NoIdentity
           /\ Ties(NewIdentity(p), req[p].conn, req[p].user)
           /\ req[p].conn \in Conns /\ req[p].user \in Users /\ req[p].external \in Externals
BY Locals, ProvisioningAssumption DEF NewIdentity, ReqOK, Identity, NoIdentity, Ties

\* A record of an identity is put under a key, or the key is emptied.
LEMMA PutPrimaryOwned ==
    ASSUME Owned, Tables, NEW c \in Conns, NEW e \in Externals, NEW i \in Identity,
           primary' = [primary EXCEPT ![<<c, e>>] = i], i # NoIdentity => i.user \in Users /\ madeBy[i.user] = c,
           UNCHANGED <<user, madeBy, secondary, reached>>
    PROVE  Owned' /\ primary' \in [Conns \X Externals -> Identity]
<1>1. \A d \in Conns, f \in Externals : primary'[<<d, f>>] = IF d = c /\ f = e THEN i ELSE primary[<<d, f>>]
    BY DEF Tables
<1>2. \A d \in Conns, f \in Externals :
        primary'[<<d, f>>] # NoIdentity => primary'[<<d, f>>].user \in Users /\ madeBy'[primary'[<<d, f>>].user] = d
    BY <1>1 DEF Owned
<1> QED
    BY <1>2 DEF Owned, Tables, Ties

LEMMA PutSecondaryOwned ==
    ASSUME Owned, Tables, NEW c \in Conns, NEW u \in Users, NEW i \in Identity,
           secondary' = [secondary EXCEPT ![<<c, u>>] = i], i # NoIdentity => Ties(i, c, u),
           UNCHANGED <<user, madeBy, primary, reached>>
    PROVE  Owned' /\ secondary' \in [Conns \X Users -> Identity]
<1>1. \A d \in Conns, v \in Users : secondary'[<<d, v>>] = IF d = c /\ v = u THEN i ELSE secondary[<<d, v>>]
    BY DEF Tables
<1>2. \A d \in Conns, v \in Users : secondary'[<<d, v>>] # NoIdentity => Ties(secondary'[<<d, v>>], d, v)
    BY <1>1 DEF Owned
<1> QED
    BY <1>2 DEF Owned, Tables, Ties

LEMMA NoIdentityOK == NoIdentity \in Identity
BY DEF NoIdentity, Identity

LEMMA CreatePrimaryOwn == ASSUME OwnInv, NEW p \in Procs, CreatePrimary(p) PROVE OwnInv'
<1>0. faults' \in 0..MaxFaults
    BY Locals, Faults DEF CreatePrimary
<1>1. /\ pc[p] = "primary" /\ pc[p] \in Making /\ Tables /\ Owned
      /\ UNCHANGED <<conn, issued, floor, user, member, secondary, requests, madeBy, cut, reached, revived>>
    BY Locals DEF CreatePrimary, At, Making, edits, history
<1>2. ASSUME UNCHANGED primary PROVE Owned' /\ Tables'
    BY <1>0, <1>1, <1>2, SameOwned DEF Tables
<1>3. ASSUME primary' = [primary EXCEPT ![<<req[p].conn, req[p].external>>] = NewIdentity(p)]
      PROVE  Owned' /\ Tables'
    <2>1. Owned' /\ primary' \in [Conns \X Externals -> Identity]
        <3> DEFINE i == NewIdentity(p)
        <3>1. i \in Identity /\ i.user \in Users /\ madeBy[i.user] = req[p].conn
            BY <1>1, NewIdentityOK DEF Ties
        <3> HIDE DEF i
        <3> QED
            BY <1>1, <1>3, <3>1, NewIdentityOK, PutPrimaryOwned DEF i
    <2> QED
        BY <1>0, <1>1, <2>1 DEF Tables
<1>4. Owned' /\ Tables'
    BY <1>2, <1>3 DEF CreatePrimary
<1>5. PICK l \in {"secondary", "unmember"} : Goto(p, l)
    BY DEF CreatePrimary, Undo
<1> QED
    BY <1>0, <1>1, <1>4, <1>5, Unmoved, MakingOwn DEF Making

LEMMA CreateSecondaryOwn == ASSUME OwnInv, NEW p \in Procs, CreateSecondary(p) PROVE OwnInv'
<1>0. faults' \in 0..MaxFaults
    BY Locals, Faults DEF CreateSecondary
<1>1. /\ pc[p] = "secondary" /\ pc[p] \in Making /\ Tables /\ Owned
      /\ UNCHANGED <<conn, issued, floor, user, member, primary, requests, madeBy, cut, reached, revived>>
    BY Locals DEF CreateSecondary, At, Making, edits, history
<1>2. CASE UNCHANGED secondary /\ Goto(p, "unprimary")
    <2>1. Owned' /\ Tables'
        BY <1>0, <1>1, <1>2, SameOwned DEF Tables
    <2> QED
        BY <1>0, <1>1, <1>2, <2>1, Unmoved, MakingOwn DEF Making
<1>3. CASE secondary' = [secondary EXCEPT ![<<req[p].conn, req[p].user>>] = NewIdentity(p)] /\ Finish(p)
    <2>1. Owned' /\ secondary' \in [Conns \X Users -> Identity]
        BY <1>0, <1>1, <1>3, NewIdentityOK, PutSecondaryOwned
    <2>2. Tables'
        BY <1>0, <1>1, <2>1 DEF Tables
    <2> QED
        BY <1>0, <1>1, <1>3, <2>1, <2>2, Unmoved, FinishOwn
<1> QED
    BY <1>2, <1>3 DEF CreateSecondary, Undo

LEMMA UnprimaryOwn == ASSUME OwnInv, NEW p \in Procs, Unprimary(p) PROVE OwnInv'
<1>1. /\ pc[p] = "unprimary" /\ pc[p] \in Making /\ Tables /\ Owned
      /\ UNCHANGED <<conn, issued, floor, user, member, secondary, requests, faults, madeBy, cut, reached, revived>>
    BY Locals DEF Unprimary, At, Making, edits, history
<1>2. Owned' /\ primary' \in [Conns \X Externals -> Identity]
    BY <1>1, NewIdentityOK, NoIdentityOK, PutPrimaryOwned DEF Unprimary
<1>3. Tables'
    BY <1>1, <1>2 DEF Tables
<1> QED
    BY <1>1, <1>2, <1>3, Unmoved, MakingOwn DEF Unprimary, Making

LEMMA UnmemberOwn == ASSUME OwnInv, NEW p \in Procs, Unmember(p) PROVE OwnInv'
<1>1. /\ pc[p] = "unmember" /\ pc[p] \in Making /\ Tables /\ Owned
      /\ UNCHANGED <<conn, issued, floor, user, primary, secondary, requests, faults, madeBy, cut, reached, revived>>
    BY Locals DEF Unmember, At, Making, edits, tied, history
<1>2. Owned' /\ Tables'
    BY <1>1, SameOwned DEF Tables, Unmember
<1> QED
    BY <1>1, <1>2, Unmoved, MakingOwn DEF Unmember, Making

\* The deletion of a user's record.
LEMMA Bury ==
    ASSUME OwnInv, NEW p \in Procs, NEW l, NEW then, NEW absent, DeleteRecord(p, l, then, absent), req[p].user \in Users
    PROVE  /\ Tables' /\ Keeps /\ Owned' /\ pc[p] = l
           /\ \/ user'[req[p].user].st = "gone" /\ Goto(p, then)
              \/ absent /\ ~Live(req[p].user) /\ UNCHANGED <<user, madeBy, revived>>
<1>1. /\ Tables /\ Owned /\ pc[p] = l
      /\ UNCHANGED <<conn, issued, floor, member, primary, secondary, requests, faults, madeBy, cut, reached, revived>>
    BY Locals DEF DeleteRecord, At, edits, tied, history
<1>2. CASE Live(req[p].user)
    <2>1. user' = [user EXCEPT ![req[p].user].st = "gone"] /\ Goto(p, then)
        BY <1>2 DEF DeleteRecord
    <2>2. user' \in [Users -> Person] /\ Keeps /\ user'[req[p].user].st = "gone" /\ Owned'
        BY <1>1, <1>2, <2>1, Restate, RestateOwned
    <2> QED
        BY <1>1, <2>1, <2>2 DEF Tables
<1>3. CASE ~Live(req[p].user)
    <2>1. absent /\ UNCHANGED user
        BY <1>3 DEF DeleteRecord
    <2>2. Tables' /\ Owned' /\ Keeps
        BY <1>1, <2>1, SameOwned, Unmoved DEF Tables
    <2> QED
        BY <1>1, <1>3, <2>1, <2>2
<1> QED
    BY <1>2, <1>3

LEMMA UndoUserOwn == ASSUME OwnInv, NEW p \in Procs, UndoUser(p) PROVE OwnInv'
<1>1. pc[p] = "undo" /\ pc[p] \in Making /\ req[p].user \in Users
    BY Locals DEF UndoUser, DeleteRecord, At, ReqOK, Making
<1>2. /\ Tables' /\ Keeps /\ Owned'
      /\ (user'[req[p].user].st = "gone" /\ Goto(p, "undomember")) \/ Finish(p)
    BY <1>1, Bury DEF UndoUser
<1> QED
    BY <1>1, <1>2, FinishOwn, MakingOwn DEF Making

LEMMA UndoMembershipsOwn == ASSUME OwnInv, NEW p \in Procs, UndoMemberships(p) PROVE OwnInv'
<1>1. /\ Tables /\ Owned /\ Finish(p)
      /\ UNCHANGED <<conn, issued, floor, user, primary, secondary, requests, faults, madeBy, cut, reached, revived>>
    BY Locals DEF UndoMemberships, DeleteMemberships, edits, tied, history
<1>2. Owned' /\ Tables'
    BY <1>1, SameOwned DEF Tables, UndoMemberships, DeleteMemberships
<1> QED
    BY <1>1, <1>2, Unmoved, FinishOwn

LEMMA Begun ==
    ASSUME OwnInv, NEW p \in Procs, Start(p)
    PROVE  /\ Tables /\ Owned /\ requests' \in 0..MaxRequests
           /\ pc[p] = "idle" /\ req[p] = NoRequest
<1>1. Tables /\ Owned /\ pc[p] = "idle" /\ req[p] = NoRequest
    BY Locals DEF Start, At, ReqOK
<1>2. requests' \in 0..MaxRequests
    BY <1>1, ProvisioningAssumption DEF Start, Tables
<1> QED
    BY <1>1, <1>2

\* What a connection finds, it made.
LEMMA FoundOwn ==
    ASSUME OwnInv, NEW c \in Conns, NEW u \in Users, Found(c, u)
    PROVE  Ties(IdentityOf(c, u), c, u) /\ IdentityOf(c, u) \in Identity /\ IdentityOf(c, u).external \in Externals
BY DEF OwnInv, Owned, Shape, Found, IdentityOf, Ties

LEMMA GetUsersOwn == ASSUME OwnInv, NEW p \in Procs, NEW c \in Conns, GetUsers(p, c) PROVE OwnInv'
<1>1. /\ Tables /\ Owned /\ requests' \in 0..MaxRequests /\ Finish(p)
      /\ reached' = reached \cup ({c} \X Resources(c))
      /\ UNCHANGED <<conn, issued, floor, user, member, primary, secondary, faults, madeBy, cut, revived>>
    BY Begun DEF GetUsers, edits, tied
<1>2. \A u \in Resources(c) : u \in Users /\ madeBy[u] = c
    <2> SUFFICES ASSUME NEW u \in Resources(c) PROVE u \in Users /\ madeBy[u] = c
        OBVIOUS
    <2>1. u \in Users /\ \E e \in Externals : primary[<<c, e>>].user = u
        BY DEF Resources
    <2>2. PICK e \in Externals : primary[<<c, e>>].user = u
        BY <2>1
    <2>3. primary[<<c, e>>] # NoIdentity
        BY <2>1, <2>2, ProvisioningAssumption DEF NoIdentity
    <2> QED
        BY <1>1, <2>1, <2>2, <2>3 DEF Owned
<1>3. reached' \subseteq Conns \X Users /\ \A x \in reached' : madeBy[x[2]] = x[1]
    BY <1>1, <1>2 DEF Owned, Tables
<1>4. Tables' /\ Owned'
    BY <1>1, <1>3 DEF Tables, Owned, Ties
<1> QED
    BY <1>1, <1>4, Unmoved, FinishOwn

\* The user a connection finds is reached.
LEMMA Reaches ==
    ASSUME Tables, Owned, NEW c \in Conns, NEW u \in Users, madeBy[u] = c, reached' = reached \cup {<<c, u>>},
           UNCHANGED <<user, madeBy, primary, secondary>>
    PROVE  Owned' /\ reached' \subseteq Conns \X Users
BY DEF Tables, Owned, Ties

LEMMA GetUserOwn == ASSUME OwnInv, NEW p \in Procs, NEW c \in Conns, NEW u \in Users, GetUser(p, c, u) PROVE OwnInv'
<1>1. /\ Tables /\ Owned /\ requests' \in 0..MaxRequests /\ Finish(p) /\ madeBy[u] = c
      /\ reached' = reached \cup {<<c, u>>}
      /\ UNCHANGED <<conn, issued, floor, user, member, primary, secondary, faults, madeBy, cut, revived>>
    BY Begun, FoundOwn DEF GetUser, edits, tied, Ties
<1>2. Owned' /\ reached' \subseteq Conns \X Users
    BY <1>1, Reaches
<1>3. Tables'
    BY <1>1, <1>2 DEF Tables
<1> QED
    BY <1>1, <1>2, <1>3, Unmoved, FinishOwn

LEMMA BeginCreateOwn ==
    ASSUME OwnInv, NEW p \in Procs, NEW c \in Conns, NEW e \in Externals, NEW active \in BOOLEAN, BeginCreate(p, c, e, active)
    PROVE  OwnInv'
<1> DEFINE r == [NoRequest EXCEPT !.route = "create", !.conn = c, !.external = e, !.active = active]
<1>1. /\ Tables /\ Owned /\ requests' \in 0..MaxRequests /\ GotoWith(p, "createuser", r)
      /\ UNCHANGED <<conn, issued, floor, user, member, primary, secondary, faults, madeBy, cut, reached, revived>>
    BY Begun DEF BeginCreate, edits, tied, history
<1>2. r \in Request /\ r.route = "create" /\ r.conn = c /\ r.external = e /\ r.user = None
    BY NoRequestOK DEF Request, Routes, NoRequest
<1>3. ReqOK("createuser", r) /\ "createuser" \in Labels
    BY <1>2 DEF ReqOK, Making, Writing, Editor, Edits, Labels
<1>4. Tables' /\ Owned'
    BY <1>1, SameOwned DEF Tables
<1> QED
    BY <1>1, <1>2, <1>3, <1>4, Unmoved, StepOwn

LEMMA BeginUpdateOwn ==
    ASSUME OwnInv, NEW p \in Procs, NEW c \in Conns, NEW u \in Users, NEW route \in {"put", "patch"}, NEW active \in BOOLEAN,
           BeginUpdate(p, c, u, route, active)
    PROVE  OwnInv'
<1> DEFINE r == [NoRequest EXCEPT !.route = route, !.conn = c, !.user = u, !.active = active, !.identity = IdentityOf(c, u)]
<1>1. /\ Tables /\ Owned /\ requests' \in 0..MaxRequests /\ GotoWith(p, "write", r)
      /\ Ties(IdentityOf(c, u), c, u) /\ IdentityOf(c, u) \in Identity
      /\ UNCHANGED <<conn, issued, floor, user, member, primary, secondary, faults, madeBy, cut, reached, revived>>
    BY Begun, FoundOwn DEF BeginUpdate, Changeable, edits, tied, history
<1>2. /\ r \in Request /\ r.route = route /\ r.conn = c /\ r.user = u /\ r.identity = IdentityOf(c, u)
    BY <1>1, NoRequestOK DEF Request, Routes, NoRequest
<1>3. ReqOK("write", r) /\ "write" \in Labels
    BY <1>1, <1>2 DEF ReqOK, Making, Writing, Editor, Edits, Labels
<1>4. Tables' /\ Owned'
    BY <1>1, SameOwned DEF Tables
<1> QED
    BY <1>1, <1>2, <1>3, <1>4, Unmoved, StepOwn

LEMMA UpdateUserOwn == ASSUME OwnInv, NEW p \in Procs, UpdateUser(p) PROVE OwnInv'
<1> DEFINE u == req[p].user  st == IF req[p].active THEN "active" ELSE "disabled"
           r == [req[p] EXCEPT !.identity.version = @ + 1]
<1>1. /\ Tables /\ Owned /\ req[p] \in Request /\ ReqOK("write", req[p])
      /\ req[p].conn \in Conns /\ u \in Users /\ Ties(req[p].identity, req[p].conn, u)
      /\ UNCHANGED <<conn, issued, floor, member, primary, secondary, requests, faults, madeBy, cut, revived>>
    BY Locals DEF UpdateUser, At, edits, tied, ReqOK, Writing
<1>2. CASE Finish(p) /\ UNCHANGED <<user, reached>>
    <2>1. Tables' /\ Owned'
        BY <1>1, <1>2, SameOwned DEF Tables
    <2> QED
        BY <1>1, <1>2, <2>1, Unmoved, FinishOwn
<1>3. CASE /\ Live(u) /\ user' = [user EXCEPT ![u].st = st]
           /\ reached' = reached \cup {<<req[p].conn, u>>}
           /\ GotoWith(p, "saveprimary", r)
    <2>1. st \in {"active", "disabled", "gone"}
        OBVIOUS
    <2>2. user' \in [Users -> Person] /\ Keeps /\ \A v \in Users : user'[v].st = "unused" => user[v].st = "unused"
        <3> HIDE DEF u, st
        <3> QED
            BY <1>1, <1>3, <2>1, Restate
    <2>3. reached' \subseteq Conns \X Users /\ \A x \in reached' : madeBy[x[2]] = x[1]
        BY <1>1, <1>3 DEF Owned, Tables, Ties
    <2>4. Tables' /\ Owned'
        BY <1>1, <2>2, <2>3 DEF Tables, Owned, Ties
    <2>5. /\ r \in Request /\ r.route = req[p].route /\ r.conn = req[p].conn /\ r.user = u
          /\ r.identity.user = req[p].identity.user /\ r.identity.external = req[p].identity.external
        BY <1>1 DEF Request, Identity
    <2>6. ReqOK("saveprimary", r) /\ "saveprimary" \in Labels
        BY <1>1, <2>5 DEF ReqOK, Making, Writing, Editor, Edits, Labels, Ties
    <2> HIDE DEF r
    <2> QED
        BY <1>3, <2>2, <2>4, <2>5, <2>6, StepOwn
<1> QED
    BY <1>2, <1>3 DEF UpdateUser

\* A step of a request that keeps its locals.
LEMMA GotoOwn ==
    ASSUME OwnInv, NEW p \in Procs, NEW l \in Labels, Goto(p, l), Keeps, Tables', Owned', ReqOK(l, req[p])
    PROVE  OwnInv'
BY Locals, StepOwn DEF Goto

LEMMA SavePrimaryOwn == ASSUME OwnInv, NEW p \in Procs, SavePrimary(p) PROVE OwnInv'
<1> DEFINE r == req[p]
<1>0. faults' \in 0..MaxFaults
    BY Locals, Faults DEF SavePrimary
<1>1. /\ Tables /\ Owned /\ r \in Request /\ ReqOK("saveprimary", r)
      /\ r.conn \in Conns /\ r.user \in Users /\ r.identity \in Identity /\ Ties(r.identity, r.conn, r.user)
      /\ UNCHANGED <<conn, issued, floor, user, member, secondary, requests, madeBy, cut, reached, revived>>
    BY Locals DEF SavePrimary, At, edits, history, ReqOK, Writing, Request
<1>2. CASE Finish(p) /\ UNCHANGED primary
    <2>1. Tables' /\ Owned'
        BY <1>0, <1>1, <1>2, SameOwned DEF Tables
    <2> QED
        BY <1>1, <1>2, <2>1, Unmoved, FinishOwn
<1>3. CASE primary' = [primary EXCEPT ![<<r.conn, r.identity.external>>] = r.identity] /\ Goto(p, "savesecondary")
    <2>1. r.identity.external \in Externals /\ r.identity.user \in Users /\ madeBy[r.identity.user] = r.conn
        BY <1>1 DEF Ties
    <2>2. Owned' /\ primary' \in [Conns \X Externals -> Identity]
        <3> HIDE DEF r
        <3> QED
            BY <1>1, <1>3, <2>1, PutPrimaryOwned
    <2>3. Tables'
        BY <1>0, <1>1, <2>2 DEF Tables
    <2>4. ReqOK("savesecondary", r) /\ "savesecondary" \in Labels
        BY <1>1 DEF ReqOK, Making, Writing, Editor, Edits, Labels
    <2> QED
        BY <1>1, <1>3, <2>2, <2>3, <2>4, Unmoved, GotoOwn
<1> QED
    BY <1>2, <1>3 DEF SavePrimary

LEMMA SaveSecondaryOwn == ASSUME OwnInv, NEW p \in Procs, SaveSecondary(p) PROVE OwnInv'
<1> DEFINE r == req[p]
<1>0. faults' \in 0..MaxFaults
    BY Locals, Faults DEF SaveSecondary
<1>1. /\ Tables /\ Owned /\ Finish(p)
      /\ r.conn \in Conns /\ r.user \in Users /\ r.identity \in Identity /\ Ties(r.identity, r.conn, r.user)
      /\ UNCHANGED <<conn, issued, floor, user, member, primary, requests, madeBy, cut, reached, revived>>
    BY Locals DEF SaveSecondary, At, edits, history, ReqOK, Writing, Request
<1>2. Owned' /\ secondary' \in [Conns \X Users -> Identity]
    <2>1. CASE UNCHANGED secondary
        BY <1>1, <2>1, SameOwned DEF Tables
    <2>2. CASE secondary' = [secondary EXCEPT ![<<r.conn, r.user>>] = r.identity]
        <3> HIDE DEF r
        <3> QED
            BY <1>1, <2>2, PutSecondaryOwned
    <2> QED
        BY <2>1, <2>2 DEF SaveSecondary
<1>3. Tables'
    BY <1>0, <1>1, <1>2 DEF Tables
<1> QED
    BY <1>1, <1>2, <1>3, Unmoved, FinishOwn

LEMMA BeginRemoveOwn ==
    ASSUME OwnInv, NEW p \in Procs, NEW c \in Conns, NEW u \in Users, BeginRemove(p, c, u) PROVE OwnInv'
<1> DEFINE r == [NoRequest EXCEPT !.route = "remove", !.conn = c, !.user = u, !.identity = IdentityOf(c, u)]
<1>1. /\ Tables /\ Owned /\ requests' \in 0..MaxRequests /\ GotoWith(p, "deluser", r)
      /\ Ties(IdentityOf(c, u), c, u) /\ IdentityOf(c, u) \in Identity
      /\ reached' = reached \cup {<<c, u>>}
      /\ UNCHANGED <<conn, issued, floor, user, member, primary, secondary, faults, madeBy, cut, revived>>
    BY Begun, FoundOwn DEF BeginRemove, Changeable, edits, tied
<1>2. /\ r \in Request /\ r.route = "remove" /\ r.conn = c /\ r.user = u /\ r.identity = IdentityOf(c, u)
    BY <1>1, NoRequestOK DEF Request, Routes, NoRequest
<1>3. ReqOK("deluser", r) /\ "deluser" \in Labels
    BY <1>1, <1>2 DEF ReqOK, Making, Writing, Editor, Edits, Labels
<1>4. Owned' /\ reached' \subseteq Conns \X Users
    BY <1>1, Reaches DEF Ties
<1>5. Tables'
    BY <1>1, <1>4 DEF Tables
<1> HIDE DEF r
<1> QED
    BY <1>1, <1>2, <1>3, <1>4, <1>5, Unmoved, StepOwn

\* A removal or an erasure goes on after the user is gone.
LEMMA RemovalOwn ==
    ASSUME OwnInv, NEW p \in Procs, NEW l \in {"delmember", "delprimary"}, Goto(p, l), Keeps, Tables', Owned',
           pc[p] \in {"deluser", "delmember"}, l = "delprimary" => req[p].route = "remove",
           req[p].route = "remove" => user'[req[p].user].st = "gone" \/ req[p].user \in revived'
    PROVE  OwnInv'
<1>1. /\ pc'[p] = l /\ req'[p] = req[p]
      /\ \A q \in Procs \ {p} : pc'[q] = pc[q] /\ req'[q] = req[q]
    BY MovesOne DEF OwnInv, Goto
<1>2. req[p] \in Request /\ ReqOK(pc[p], req[p]) /\ l \in Labels
    BY Locals DEF Labels
<1>3. req[p].route = "remove" => Ties(req[p].identity, req[p].conn, req[p].user)'
    BY <1>1, <1>2, ProvisioningAssumption DEF ReqOK, Ties, Keeps
<1>4. RequestOK(p)'
    BY <1>1, <1>2, <1>3 DEF RequestOK, ReqOK, Making, Writing, Editor, Edits, Gone
<1>5. \A q \in Procs \ {p} : RequestOK(q)'
    BY <1>1, OtherKnows
<1>6. Shape'
    BY <1>2 DEF OwnInv, Shape, Tables, Goto, GotoWith
<1> QED
    BY <1>4, <1>5, <1>6 DEF OwnInv

\* A user that a connection made and that is not there any more is gone.
LEMMA MadeAndGone ==
    ASSUME OwnInv, NEW u \in Users, madeBy[u] \in Conns, ~Live(u) PROVE Gone(u)
BY ProvisioningAssumption DEF OwnInv, Shape, Owned, Person, Live, Gone

LEMMA RemoveUserOwn == ASSUME OwnInv, NEW p \in Procs, RemoveUser(p) PROVE OwnInv'
<1>1. /\ pc[p] = "deluser" /\ req[p].user \in Users
      /\ req[p].route = "remove" => madeBy[req[p].user] \in Conns
    BY Locals DEF RemoveUser, DeleteRecord, At, ReqOK, Ties
<1>2. /\ Tables' /\ Keeps /\ Owned'
      /\ \/ user'[req[p].user].st = "gone" /\ Goto(p, "delmember")
         \/ /\ IF req[p].route = "remove" THEN Goto(p, "delprimary") ELSE Finish(p)
            /\ ~Live(req[p].user) /\ UNCHANGED <<user, madeBy, revived>>
    BY <1>1, Bury DEF RemoveUser
<1>3. ~Live(req[p].user) /\ UNCHANGED <<user, revived>> /\ req[p].route = "remove"
        => user'[req[p].user].st = "gone" \/ req[p].user \in revived'
    BY <1>1, MadeAndGone DEF Gone
<1> QED
    BY <1>1, <1>2, <1>3, FinishOwn, RemovalOwn

LEMMA RemoveMembershipsOwn == ASSUME OwnInv, NEW p \in Procs, RemoveMemberships(p) PROVE OwnInv'
<1>1. /\ pc[p] = "delmember" /\ Tables /\ Owned
      /\ req[p].route = "remove" => user[req[p].user].st = "gone" \/ req[p].user \in revived
      /\ IF req[p].route = "remove" THEN Goto(p, "delprimary") ELSE Finish(p)
      /\ UNCHANGED <<conn, issued, floor, user, primary, secondary, requests, faults, madeBy, cut, reached, revived>>
    BY Locals DEF RemoveMemberships, DeleteMemberships, At, ReqOK, Gone, edits, tied, history
<1>2. Owned' /\ Tables'
    BY <1>1, SameOwned DEF Tables, RemoveMemberships, DeleteMemberships
<1> QED
    BY <1>1, <1>2, Unmoved, FinishOwn, RemovalOwn

LEMMA DeletePrimaryOwn == ASSUME OwnInv, NEW p \in Procs, DeletePrimary(p) PROVE OwnInv'
<1> DEFINE r == req[p]
<1>0. faults' \in 0..MaxFaults
    BY Locals, Faults DEF DeletePrimary
<1>1. /\ Tables /\ Owned /\ r \in Request /\ ReqOK("delprimary", r)
      /\ r.conn \in Conns /\ r.identity.external \in Externals
      /\ UNCHANGED <<conn, issued, floor, user, member, secondary, requests, madeBy, cut, reached, revived>>
    BY Locals DEF DeletePrimary, At, edits, history, ReqOK, Ties
<1>2. CASE Finish(p) /\ UNCHANGED primary
    <2>1. Tables' /\ Owned'
        BY <1>0, <1>1, <1>2, SameOwned DEF Tables
    <2> QED
        BY <1>1, <1>2, <2>1, Unmoved, FinishOwn
<1>3. CASE primary' = [primary EXCEPT ![<<r.conn, r.identity.external>>] = NoIdentity] /\ Goto(p, "delsecondary")
    <2>1. Owned' /\ primary' \in [Conns \X Externals -> Identity]
        <3> HIDE DEF r
        <3> QED
            BY <1>1, <1>3, NoIdentityOK, PutPrimaryOwned
    <2>2. Tables'
        BY <1>0, <1>1, <2>1 DEF Tables
    <2>3. ReqOK("delsecondary", r) /\ "delsecondary" \in Labels
        BY <1>1 DEF ReqOK, Making, Writing, Editor, Edits, Labels
    <2> QED
        BY <1>1, <1>3, <2>1, <2>2, <2>3, Unmoved, GotoOwn
<1> QED
    BY <1>2, <1>3 DEF DeletePrimary

LEMMA DeleteSecondaryOwn == ASSUME OwnInv, NEW p \in Procs, DeleteSecondary(p) PROVE OwnInv'
<1>1. /\ Tables /\ Owned /\ Finish(p)
      /\ req[p].conn \in Conns /\ req[p].user \in Users
      /\ UNCHANGED <<conn, issued, floor, user, member, primary, requests, faults, madeBy, cut, reached, revived>>
    BY Locals DEF DeleteSecondary, At, edits, history, ReqOK
<1>2. Owned' /\ secondary' \in [Conns \X Users -> Identity]
    BY <1>1, NoIdentityOK, PutSecondaryOwned DEF DeleteSecondary
<1>3. Tables'
    BY <1>1, <1>2 DEF Tables
<1> QED
    BY <1>1, <1>2, <1>3, Unmoved, FinishOwn

LEMMA BeginEraseOwn == ASSUME OwnInv, NEW p \in Procs, NEW u \in Users, BeginErase(p, u) PROVE OwnInv'
<1> DEFINE r == [NoRequest EXCEPT !.route = "erase", !.user = u]
<1>1. /\ Tables /\ Owned /\ requests' \in 0..MaxRequests /\ GotoWith(p, "deluser", r)
      /\ UNCHANGED <<conn, issued, floor, user, member, primary, secondary, faults, madeBy, cut, reached, revived>>
    BY Begun DEF BeginErase, edits, tied, history
<1>2. r \in Request /\ r.route = "erase" /\ r.user = u
    BY NoRequestOK DEF Request, Routes, NoRequest
<1>3. ReqOK("deluser", r) /\ "deluser" \in Labels
    BY <1>2 DEF ReqOK, Making, Writing, Editor, Edits, Labels
<1>4. Tables' /\ Owned'
    BY <1>1, SameOwned DEF Tables
<1> QED
    BY <1>1, <1>2, <1>3, <1>4, Unmoved, StepOwn

LEMMA BeginActivateOwn == ASSUME OwnInv, NEW p \in Procs, NEW u \in Users, BeginActivate(p, u) PROVE OwnInv'
<1> DEFINE r == [NoRequest EXCEPT !.route = "activate", !.user = u, !.person = user[u]]
<1>1. /\ Tables /\ Owned /\ requests' \in 0..MaxRequests /\ GotoWith(p, "activate", r)
      /\ UNCHANGED <<conn, issued, floor, user, member, primary, secondary, faults, madeBy, cut, reached, revived>>
    BY Begun DEF BeginActivate, edits, tied, history
<1>2. r \in Request /\ r.route = "activate" /\ r.user = u
    BY <1>1, NoRequestOK DEF Request, Routes, NoRequest, Tables
<1>3. ReqOK("activate", r) /\ "activate" \in Labels
    BY <1>2 DEF ReqOK, Making, Writing, Editor, Edits, Labels
<1>4. Tables' /\ Owned'
    BY <1>1, SameOwned DEF Tables
<1> HIDE DEF r
<1> QED
    BY <1>1, <1>2, <1>3, <1>4, Unmoved, StepOwn

\* Whoever was gone when the record is put back is revived.
LEMMA PutActivatedOwn == ASSUME OwnInv, NEW p \in Procs, PutActivated(p) PROVE OwnInv'
<1> DEFINE u == req[p].user  new == [req[p].person EXCEPT !.st = "active"]
<1>1. /\ Tables /\ Owned /\ Finish(p) /\ u \in Users /\ req[p] \in Request
      /\ user' = [user EXCEPT ![u] = new]
      /\ revived' = IF Live(u) THEN revived ELSE revived \cup {u}
      /\ UNCHANGED <<conn, issued, floor, member, primary, secondary, requests, faults, madeBy, cut, reached>>
    BY Locals DEF PutActivated, At, ReqOK, edits, tied
<1>2. new \in Person /\ new.st = "active"
    BY <1>1 DEF Request, Person
<1> HIDE DEF u, new
<1>3. user' \in [Users -> Person] /\ revived' \subseteq Users
    BY <1>1, <1>2 DEF Tables
<1>4. Keeps
    BY <1>1 DEF Keeps, Gone, Live, Tables
<1>5. \A v \in Users : user'[v].st = "unused" => user[v].st = "unused"
    BY <1>1, <1>2 DEF Tables
<1>6. Tables' /\ Owned'
    BY <1>1, <1>3, <1>5, RestateOwned DEF Tables
<1> QED
    BY <1>1, <1>4, <1>6, FinishOwn

\* A step that leaves the requests as they are.
LEMMA StillOwn ==
    ASSUME OwnInv, UNCHANGED <<pc, req>>, Keeps, Tables', Owned' PROVE OwnInv'
<1>1. \A q \in Procs : RequestOK(q)'
    BY OtherKnows
<1> QED
    BY <1>1 DEF OwnInv, Shape, Tables

LEMMA PromoteOwn == ASSUME OwnInv, NEW u \in Users, Promote(u) PROVE OwnInv'
<1>1. /\ Tables /\ Owned /\ user' = [user EXCEPT ![u].superadmin = TRUE]
      /\ UNCHANGED <<conn, issued, floor, member, primary, secondary, pc, req, requests, faults, madeBy, cut, reached, revived>>
    BY DEF OwnInv, Shape, Tables, Promote, edits, tied, history
<1>2. user' \in [Users -> Person] /\ \A v \in Users : user'[v].st = user[v].st
    BY <1>1 DEF Tables, Person
<1>3. Keeps /\ Owned' /\ Tables'
    BY <1>1, <1>2, RestateOwned DEF Keeps, Gone, Tables
<1> QED
    BY <1>1, <1>3, StillOwn

LEMMA CrashOwn == ASSUME OwnInv, NEW p \in Procs, Crash(p) PROVE OwnInv'
<1>0. faults' \in 0..MaxFaults
    BY Locals, Faults DEF Crash
<1>1. /\ Tables /\ Owned /\ Finish(p) /\ req[p] \in Request
      /\ UNCHANGED <<conn, issued, floor, user, member, primary, secondary, requests, madeBy, reached, revived>>
    BY Locals DEF Crash, edits, tied
<1>2. cut' \subseteq Users
    BY <1>1 DEF Crash, Tables, Request
<1>3. Tables' /\ Owned'
    BY <1>0, <1>1, <1>2, SameOwned DEF Tables
<1> QED
    BY <1>1, <1>3, Unmoved, FinishOwn

LEMMA CreateConnectionOwn ==
    ASSUME OwnInv, NEW p \in Procs, NEW c \in Conns, CreateConnection(p, c) PROVE OwnInv'
<1>1. /\ Tables /\ Owned /\ requests' \in 0..MaxRequests /\ Finish(p)
      /\ UNCHANGED <<user, member, primary, secondary, faults, madeBy, cut, reached, revived, floor>>
    BY Begun DEF CreateConnection, tied, history
<1>2. conn' \in [Conns -> Connection] /\ issued' \in [Conns -> Nat]
    BY <1>1 DEF CreateConnection, Tables, Connection
<1>3. Tables' /\ Owned'
    BY <1>1, <1>2, SameOwned DEF Tables
<1> QED
    BY <1>1, <1>3, Unmoved, FinishOwn

\* An edit begins, and the edits of the connection that are under way are not alone any more.
LEMMA EditBegins ==
    ASSUME OwnInv, NEW p \in Procs, NEW c \in Conns, NEW route \in Edits, BeginEdit(p, c, route)
    PROVE  /\ pc[p] = "idle" /\ pc'[p] = "readconn" /\ pc' \in [Procs -> Labels]
           /\ req' \in [Procs -> Request]
           /\ req'[p].route = route /\ req'[p].conn = c /\ req'[p].alone = (Editing(c) = {})
           /\ \A q \in Procs : q \in Editing(c) <=> pc[q] \in Editor /\ req[q].conn = c
           /\ \A q \in Procs \ {p} :
                 /\ pc'[q] = pc[q]
                 /\ IF q \in Editing(c)
                    THEN /\ req'[q].route = req[q].route /\ req'[q].conn = req[q].conn /\ req'[q].read = req[q].read
                         /\ ~req'[q].alone
                    ELSE req'[q] = req[q]
<1> DEFINE E == Editing(c)
           r == [NoRequest EXCEPT !.route = route, !.conn = c, !.active = conn[c].st # "enabled", !.alone = E = {}]
<1>1. pc[p] = "idle" /\ req[p] = NoRequest /\ pc' = [pc EXCEPT ![p] = "readconn"]
    BY Begun DEF BeginEdit
<1>2. \A q \in Procs : q \in E <=> pc[q] \in Editor /\ req[q].conn = c
    BY Locals DEF Editing, ReqOK
<1>3. req' = [q \in Procs |-> CASE q = p -> r [] q \in E -> [req[q] EXCEPT !.alone = FALSE] [] OTHER -> req[q]]
    BY DEF BeginEdit
<1> HIDE DEF E
<1>4. r \in Request /\ r.route = route /\ r.conn = c /\ r.alone = (E = {})
    <2>1. (E = {}) \in BOOLEAN /\ (conn[c].st # "enabled") \in BOOLEAN
        OBVIOUS
    <2> QED
        BY <2>1, NoRequestOK DEF Request, Routes, NoRequest
<1>5. \A q \in Procs : req[q] \in Request /\ [req[q] EXCEPT !.alone = FALSE] \in Request
    BY Locals DEF Request
<1> HIDE DEF r
<1>6. req' \in [Procs -> Request]
    BY <1>3, <1>4, <1>5
<1>7. req'[p] = r /\ \A q \in Procs \ {p} : req'[q] = IF q \in E THEN [req[q] EXCEPT !.alone = FALSE] ELSE req[q]
    <2>1. p \notin E
        BY <1>1, <1>2 DEF Editor
    <2> QED
        BY <1>3, <2>1
<1>8. pc'[p] = "readconn" /\ pc' \in [Procs -> Labels] /\ \A q \in Procs \ {p} : pc'[q] = pc[q]
    BY <1>1 DEF OwnInv, Shape, Labels
<1>9. ASSUME NEW q \in Procs \ {p}
      PROVE  IF q \in E
             THEN /\ req'[q].route = req[q].route /\ req'[q].conn = req[q].conn /\ req'[q].read = req[q].read
                  /\ ~req'[q].alone
             ELSE req'[q] = req[q]
    <2>1. req[q] \in Request /\ req'[q] = IF q \in E THEN [req[q] EXCEPT !.alone = FALSE] ELSE req[q]
        BY <1>5, <1>7
    <2> QED
        BY <2>1 DEF Request
<1>10. req'[p].route = route /\ req'[p].conn = c /\ req'[p].alone = (E = {})
    BY <1>4, <1>7
<1> QED
    BY <1>1, <1>2, <1>6, <1>8, <1>9, <1>10 DEF E

LEMMA BeginEditOwn ==
    ASSUME OwnInv, NEW p \in Procs, NEW c \in Conns, NEW route \in Edits, BeginEdit(p, c, route) PROVE OwnInv'
<1>1. /\ Tables /\ Owned /\ requests' \in 0..MaxRequests
      /\ UNCHANGED <<conn, issued, floor, user, member, primary, secondary, faults, madeBy, cut, reached, revived>>
    BY Begun DEF BeginEdit, edits, tied, history
<1>2. Tables' /\ Owned'
    BY <1>1, SameOwned DEF Tables
<1>3. pc' \in [Procs -> Labels] /\ req' \in [Procs -> Request]
    BY EditBegins
<1>4. RequestOK(p)'
    <2>1. /\ pc'[p] = "readconn" /\ req'[p].route = route /\ req'[p].conn = c
        BY EditBegins
    <2> QED
        BY <2>1 DEF RequestOK, ReqOK, Making, Writing, Editor, Edits
<1>5. ASSUME NEW q \in Procs \ {p} PROVE RequestOK(q)'
    <2>1. /\ pc'[q] = pc[q]
          /\ IF q \in Editing(c)
             THEN req'[q].route = req[q].route /\ req'[q].conn = req[q].conn
             ELSE req'[q] = req[q]
        BY EditBegins
    <2>2. CASE q \notin Editing(c)
        BY <1>1, <2>1, <2>2, Unmoved, OtherKnows
    <2>3. CASE q \in Editing(c)
        <3>1. pc[q] \in Editor /\ ReqOK(pc[q], req[q])
            BY <2>3, EditBegins, Locals
        <3> QED
            BY <2>1, <2>3, <3>1 DEF RequestOK, ReqOK, Making, Writing, Editor, Edits
    <2> QED
        BY <2>2, <2>3
<1> QED
    BY <1>2, <1>3, <1>4, <1>5 DEF OwnInv, Shape, Tables

LEMMA ReadConnectionOwn == ASSUME OwnInv, NEW p \in Procs, ReadConnection(p) PROVE OwnInv'
<1> DEFINE c == req[p].conn
           r == [req[p] EXCEPT !.read = conn[c]]
<1>1. /\ Tables /\ Owned /\ req[p] \in Request /\ ReqOK("readconn", req[p]) /\ c \in Conns
      /\ UNCHANGED <<conn, issued, floor, user, member, primary, secondary, requests, faults, madeBy, cut, reached, revived>>
    BY Locals DEF ReadConnection, At, edits, tied, history, ReqOK, Editor
<1>2. Tables' /\ Owned'
    BY <1>1, SameOwned DEF Tables
<1>3. CASE Finish(p)
    BY <1>1, <1>2, <1>3, Unmoved, FinishOwn
<1>4. ASSUME NEW l \in {"delconn", "putconn"}, GotoWith(p, l, r) PROVE OwnInv'
    <2>1. r \in Request /\ r.route = req[p].route /\ r.conn = c
        BY <1>1 DEF Request, Tables
    <2>2. ReqOK(l, r) /\ l \in Labels
        BY <1>1, <2>1 DEF ReqOK, Making, Writing, Editor, Edits, Labels
    <2> HIDE DEF r
    <2> QED
        BY <1>1, <1>2, <1>4, <2>1, <2>2, Unmoved, StepOwn
<1>5. CASE GotoWith(p, IF req[p].route = "delete" THEN "delconn" ELSE "putconn", r)
    <2> HIDE DEF r
    <2> QED
        BY <1>4, <1>5
<1> QED
    BY <1>3, <1>5 DEF ReadConnection

LEMMA PutConnectionOwn == ASSUME OwnInv, NEW p \in Procs, PutConnection(p) PROVE OwnInv'
<1> DEFINE c == req[p].conn
<1>1. /\ Tables /\ Owned /\ Finish(p) /\ req[p] \in Request /\ c \in Conns /\ issued[c] \in Nat
      /\ UNCHANGED <<user, member, primary, secondary, requests, faults, madeBy, cut, reached, revived>>
    BY Locals DEF PutConnection, At, tied, history, ReqOK, Editor, Tables
<1>2. Edited(req[p], issued[c] + 1) \in Connection
    BY <1>1 DEF Edited, Connection, Request
<1>3. conn' \in [Conns -> Connection]
    BY <1>1, <1>2 DEF PutConnection, Tables
<1>4. issued' \in [Conns -> Nat]
    BY <1>1 DEF PutConnection, Tables
<1>5. floor' \in [Conns -> Floor]
    <2>1. \A n \in Nat : [floor EXCEPT ![c].token = n] \in [Conns -> Floor]
        BY <1>1 DEF Tables, Floor
    <2>2. issued[c] + 1 \in Nat
        BY <1>1
    <2>3. UNCHANGED floor \/ floor' = [floor EXCEPT ![c].token = issued[c] + 1]
        BY DEF PutConnection
    <2> QED
        BY <1>1, <2>1, <2>2, <2>3 DEF Tables
<1>6. Tables' /\ Owned'
    BY <1>1, <1>3, <1>4, <1>5, SameOwned DEF Tables
<1> QED
    BY <1>1, <1>6, Unmoved, FinishOwn

LEMMA DeleteConnectionOwn == ASSUME OwnInv, NEW p \in Procs, DeleteConnection(p) PROVE OwnInv'
<1>1. /\ Tables /\ Owned /\ Finish(p)
      /\ UNCHANGED <<issued, user, member, primary, secondary, requests, faults, madeBy, cut, reached, revived>>
    BY Locals DEF DeleteConnection, tied, history
<1>2. conn' \in [Conns -> Connection] /\ floor' \in [Conns -> Floor]
    BY <1>1 DEF DeleteConnection, Tables, Connection, Floor
<1>3. Tables' /\ Owned'
    BY <1>1, <1>2, SameOwned DEF Tables
<1> QED
    BY <1>1, <1>3, Unmoved, FinishOwn

LEMMA OwnInit == Init => OwnInv
<1> SUFFICES ASSUME Init PROVE OwnInv
    OBVIOUS
<1> USE ProvisioningAssumption
<1>1. FirstIdentity \in Identity /\ FirstIdentity.user = FirstUser /\ FirstIdentity.external = FirstExternal
    BY DEF FirstIdentity, Identity
<1>2. conn \in [Conns -> Connection] /\ issued \in [Conns -> Nat] /\ floor \in [Conns -> Floor]
    BY DEF Init, NoConn, Connection, NoFloor, Floor
<1>3. user \in [Users -> Person] /\ member \subseteq Users
    BY DEF Init, NoUser, Person
<1>4. /\ primary \in [Conns \X Externals -> Identity] /\ secondary \in [Conns \X Users -> Identity]
    BY <1>1, NoIdentityOK DEF Init
<1>5. /\ madeBy \in [Users -> Conns \cup {None}] /\ cut \subseteq Users /\ revived \subseteq Users /\ reached \subseteq Conns \X Users
      /\ requests \in 0..MaxRequests /\ faults \in 0..MaxFaults
    BY DEF Init
<1>6. pc \in [Procs -> Labels] /\ req \in [Procs -> Request]
    BY NoRequestOK DEF Init
<1>7. \A u \in Users : user[u].st = "unused" => madeBy[u] = None
    BY DEF Init, NoUser
<1>8. \A c \in Conns, e \in Externals :
          primary[<<c, e>>] # NoIdentity => primary[<<c, e>>].user \in Users /\ madeBy[primary[<<c, e>>].user] = c
    BY <1>1 DEF Init
<1>9. \A c \in Conns, u \in Users : secondary[<<c, u>>] # NoIdentity => Ties(secondary[<<c, u>>], c, u)
    BY <1>1 DEF Init, Ties
<1>10. Owned
    BY <1>7, <1>8, <1>9 DEF Owned, Init
<1>11. \A p \in Procs : RequestOK(p)
    BY NoRequestOK DEF Init, RequestOK
<1> QED
    BY <1>2, <1>3, <1>4, <1>5, <1>6, <1>10, <1>11 DEF OwnInv, Shape

LEMMA StutterOwn == ASSUME OwnInv, UNCHANGED vars PROVE OwnInv'
<1>1. Tables' /\ Owned' /\ Keeps /\ UNCHANGED <<pc, req>>
    BY SameOwned, Unmoved DEF OwnInv, Shape, Tables, vars
<1> QED
    BY <1>1, StillOwn

LEMMA StepsOwn == ASSUME OwnInv, NEW p \in Procs, Step(p) PROVE OwnInv'
BY CreateUserOwn, SetStatusOwn, AddMembershipOwn, CreatePrimaryOwn, CreateSecondaryOwn, UnprimaryOwn, UnmemberOwn,
   UndoUserOwn, UndoMembershipsOwn, UpdateUserOwn, SavePrimaryOwn, SaveSecondaryOwn, RemoveUserOwn,
   RemoveMembershipsOwn, DeletePrimaryOwn, DeleteSecondaryOwn, ReadConnectionOwn, PutConnectionOwn,
   DeleteConnectionOwn, PutActivatedOwn
   DEF Step

\* How a request begins, whichever route leads to it.
LEMMA Beginnings ==
    ASSUME NEW p \in Procs, Begin(p)
    PROVE  \/ \E c \in Conns :
                \/ \E e \in Externals, active \in BOOLEAN : BeginCreate(p, c, e, active)
                \/ \E u \in Users, route \in {"put", "patch"}, active \in BOOLEAN : BeginUpdate(p, c, u, route, active)
                \/ \E u \in Users : GetUser(p, c, u) \/ BeginRemove(p, c, u)
                \/ GetUsers(p, c) \/ CreateConnection(p, c)
                \/ \E route \in Edits : BeginEdit(p, c, route)
           \/ \E u \in Users : BeginErase(p, u) \/ BeginActivate(p, u)
BY DEF Begin, BeginPut, BeginPatch, CreateScimConnection, CreateConnectionInPanel, UpdateScimConnection,
       ToggleConnection, RotateScimToken, RotateTokenInPanel, DeleteScimConnection, DeleteConnectionInPanel, Edits

LEMMA BeginOwn == ASSUME OwnInv, NEW p \in Procs, Begin(p) PROVE OwnInv'
BY Beginnings, BeginCreateOwn, BeginUpdateOwn, GetUserOwn, BeginRemoveOwn, GetUsersOwn, CreateConnectionOwn,
   BeginEditOwn, BeginEraseOwn, BeginActivateOwn

LEMMA OwnNext == OwnInv /\ [Next]_vars => OwnInv'
BY BeginOwn, StepsOwn, CrashOwn, PromoteOwn, StutterOwn DEF Next

LEMMA OwnInvariance == Spec => []OwnInv
BY OwnInit, OwnNext, PTL DEF Spec

-----------------------------------------------------------------------------
(* The connection that made a user finds it. *)

LEMMA ManageKept ==
    ASSUME Manageable, UNCHANGED madeBy, cut \subseteq cut', revived \subseteq revived',
           \A u \in Users : Live(u)' => Live(u) \/ u \in revived',
           \A u \in Users : Creating(u) =>
              Creating(u)' \/ ~Live(u)' \/ u \in cut' \cup revived' \/ madeBy[u] = None \/ secondary'[<<madeBy[u], u>>] # NoIdentity,
           \A u \in Users : secondary[<<madeBy[u], u>>] # NoIdentity /\ Live(u)' /\ u \notin revived' /\ madeBy[u] # None
                               => secondary'[<<madeBy[u], u>>] # NoIdentity
    PROVE  Manageable'
<1> SUFFICES ASSUME NEW u \in Users, Live(u)', madeBy[u] # None, u \notin cut' \cup revived', ~Creating(u)'
             PROVE  secondary'[<<madeBy[u], u>>] # NoIdentity
    BY DEF Manageable
<1>1. Live(u) /\ u \notin cut \cup revived
    OBVIOUS
<1> QED
    BY <1>1 DEF Manageable

LEMMA StillCreating ==
    ASSUME OwnInv, NEW p \in Procs, NEW l, NEW r, GotoWith(p, l, r),
           req[p].route = "create" => r.route = "create" /\ r.user = req[p].user
    PROVE  \A u \in Users : Creating(u) => Creating(u)'
BY MovesOne DEF OwnInv, Creating

\* A step that continues a request, or ends one that creates nothing.
LEMMA StepManages ==
    ASSUME OwnInv, Manageable, NEW p \in Procs, NEW l, NEW r, GotoWith(p, l, r),
           req[p].route = "create" => r.route = "create" /\ r.user = req[p].user,
           UNCHANGED <<madeBy, cut, revived, secondary>>, \A u \in Users : Live(u)' => Live(u)
    PROVE  Manageable'
<1> QED
    BY StillCreating, ManageKept

LEMMA SameLive ==
    ASSUME UNCHANGED user PROVE \A u \in Users : Live(u)' => Live(u)
BY DEF Live

LEMMA RestateLive ==
    ASSUME OwnInv, NEW v \in Users, NEW st, Live(v), user' = [user EXCEPT ![v].st = st]
    PROVE  \A u \in Users : Live(u)' => Live(u)
BY DEF OwnInv, Shape, Person, Live

LEMMA GotoManages ==
    ASSUME OwnInv, Manageable, NEW p \in Procs, NEW l, Goto(p, l),
           UNCHANGED <<madeBy, cut, revived, secondary>>, \A u \in Users : Live(u)' => Live(u)
    PROVE  Manageable'
BY StepManages DEF Goto

LEMMA FinishManages ==
    ASSUME OwnInv, Manageable, NEW p \in Procs, Finish(p), req[p].route # "create",
           UNCHANGED <<madeBy, cut, revived, secondary>>, \A u \in Users : Live(u)' => Live(u)
    PROVE  Manageable'
BY StepManages DEF Finish

LEMMA CreateUserManages ==
    ASSUME OwnInv, Manageable, NEW p \in Procs, NEW u \in Users, CreateUser(p, u) PROVE Manageable'
<1>1. /\ req[p].route = "create" /\ req[p].user = None /\ req[p] \in Request
      /\ user[u].st = "unused" /\ madeBy[u] = None /\ ~Live(u)
      /\ UNCHANGED <<secondary, cut, revived>>
    BY Locals DEF CreateUser, At, ReqOK, Owned, tied, Live
<1>2. CASE Finish(p) /\ UNCHANGED <<user, madeBy>>
    <2>1. \A v \in Users : Creating(v) => Creating(v)'
        BY <1>1, <1>2, MovesOne, ProvisioningAssumption DEF OwnInv, Creating, Finish
    <2> QED
        BY <1>1, <1>2, <2>1, SameLive, ManageKept
<1>3. CASE /\ user' = [user EXCEPT ![u].st = IF req[p].active THEN "active" ELSE "disabled"]
           /\ madeBy' = [madeBy EXCEPT ![u] = req[p].conn]
           /\ GotoWith(p, "status", [req[p] EXCEPT !.user = u])
    <2>1. Creating(u)'
        BY <1>1, <1>3, MovesOne DEF OwnInv, Creating, Request
    <2>2. ASSUME NEW v \in Users, v # u
          PROVE  (Live(v)' => Live(v)) /\ madeBy'[v] = madeBy[v]
        BY <1>3, <2>2 DEF OwnInv, Shape, Live
    <2>3. ASSUME NEW v \in Users, v # u, Creating(v) PROVE Creating(v)'
        BY <1>1, <1>3, <2>3, MovesOne, ProvisioningAssumption DEF OwnInv, Creating
    <2> SUFFICES ASSUME NEW v \in Users, Live(v)', madeBy'[v] # None, v \notin cut' \cup revived', ~Creating(v)'
                 PROVE  secondary'[<<madeBy'[v], v>>] # NoIdentity
        BY DEF Manageable
    <2> QED
        BY <1>1, <2>1, <2>2, <2>3 DEF Manageable
<1> QED
    BY <1>2, <1>3 DEF CreateUser

LEMMA SetStatusManages ==
    ASSUME OwnInv, Manageable, NEW p \in Procs, SetStatus(p) PROVE Manageable'
<1> DEFINE u == req[p].user
<1>1. u \in Users /\ UNCHANGED <<madeBy, cut, revived, secondary>>
    BY Locals DEF SetStatus, At, ReqOK, Making, tied, history
<1>2. PICK l : Goto(p, l)
    BY DEF SetStatus, Undo
<1>3. UNCHANGED user \/ (Live(u) /\ \E st : user' = [user EXCEPT ![u].st = st])
    BY DEF SetStatus
<1> HIDE DEF u
<1>4. \A v \in Users : Live(v)' => Live(v)
    BY <1>1, <1>3, SameLive, RestateLive
<1> QED
    BY <1>1, <1>2, <1>4, GotoManages

\* The steps of a creation, and of its undoing, that touch neither users nor the identities by user.
LEMMA OnTheWayManages ==
    ASSUME OwnInv, Manageable, NEW p \in Procs,
           AddMembership(p) \/ CreatePrimary(p) \/ Unprimary(p) \/ Unmember(p)
    PROVE  Manageable'
<1>1. UNCHANGED <<madeBy, cut, revived, secondary, user>>
    BY DEF AddMembership, CreatePrimary, Unprimary, Unmember, tied, history
<1>2. PICK l : Goto(p, l)
    BY DEF AddMembership, CreatePrimary, Unprimary, Unmember, Undo
<1> QED
    BY <1>1, <1>2, SameLive, GotoManages

LEMMA CreateSecondaryManages ==
    ASSUME OwnInv, Manageable, NEW p \in Procs, CreateSecondary(p) PROVE Manageable'
<1>1. /\ pc[p] \in Making /\ UNCHANGED <<madeBy, cut, revived, user>>
      /\ req[p].user \in Users /\ req[p].conn \in Conns /\ madeBy[req[p].user] = req[p].conn
    BY Locals DEF CreateSecondary, At, ReqOK, Making, history
<1>2. CASE UNCHANGED secondary /\ Goto(p, "unprimary")
    BY <1>1, <1>2, SameLive, GotoManages
<1>3. CASE secondary' = [secondary EXCEPT ![<<req[p].conn, req[p].user>>] = NewIdentity(p)] /\ Finish(p)
    <2>1. NewIdentity(p) # NoIdentity
        BY <1>1, NewIdentityOK
    <2>2. ASSUME NEW v \in Users, madeBy[v] # None
          PROVE  secondary'[<<madeBy[v], v>>] = IF v = req[p].user THEN NewIdentity(p) ELSE secondary[<<madeBy[v], v>>]
        BY <1>1, <1>3, <2>2 DEF OwnInv, Shape
    <2>3. ASSUME NEW v \in Users, Creating(v), ~Creating(v)' PROVE v = req[p].user
        BY <1>3, <2>3, MovesOne DEF OwnInv, Creating, Finish
    <2> QED
        BY <1>1, <2>1, <2>2, <2>3, SameLive, ManageKept
<1> QED
    BY <1>2, <1>3 DEF CreateSecondary, Undo

\* A creation ends when its user is gone, or put back after that.
LEMMA EndsGone ==
    ASSUME OwnInv, Manageable, NEW p \in Procs, Finish(p), ~Live(req[p].user) \/ req[p].user \in revived, UNCHANGED <<madeBy, cut, revived, secondary, user>>
    PROVE  Manageable'
<1>1. \A v \in Users : Creating(v) /\ ~Creating(v)' => v = req[p].user
    BY MovesOne DEF OwnInv, Creating, Finish
<1>2. \A v \in Users : Creating(v) => Creating(v)' \/ ~Live(v)' \/ v \in revived'
    BY <1>1 DEF Live
<1> QED
    BY <1>2, SameLive, ManageKept

LEMMA UndoUserManages ==
    ASSUME OwnInv, Manageable, NEW p \in Procs, UndoUser(p) PROVE Manageable'
<1>1. req[p].user \in Users /\ UNCHANGED <<madeBy, cut, revived, secondary>>
    BY Locals DEF UndoUser, DeleteRecord, At, ReqOK, Making, tied, history
<1>2. CASE Live(req[p].user)
    <2>1. user' = [user EXCEPT ![req[p].user].st = "gone"] /\ Goto(p, "undomember")
        BY <1>2 DEF UndoUser, DeleteRecord
    <2>2. \A v \in Users : Live(v)' => Live(v)
        BY <1>1, <1>2, <2>1, RestateLive
    <2> QED
        BY <1>1, <2>1, <2>2, GotoManages
<1>3. CASE ~Live(req[p].user)
    BY <1>1, <1>3, EndsGone DEF UndoUser, DeleteRecord
<1> QED
    BY <1>2, <1>3

LEMMA UndoMembershipsManages ==
    ASSUME OwnInv, Manageable, NEW p \in Procs, UndoMemberships(p) PROVE Manageable'
<1>1. Gone(req[p].user) /\ Finish(p) /\ UNCHANGED <<madeBy, cut, revived, secondary, user>>
    BY Locals DEF UndoMemberships, DeleteMemberships, At, ReqOK, tied, history
<1> QED
    BY <1>1, EndsGone DEF Gone, Live

LEMMA UpdateUserManages ==
    ASSUME OwnInv, Manageable, NEW p \in Procs, UpdateUser(p) PROVE Manageable'
<1> DEFINE u == req[p].user
<1>1. u \in Users /\ req[p].route # "create" /\ UNCHANGED <<madeBy, cut, revived, secondary>>
    BY Locals DEF UpdateUser, At, ReqOK, Writing, Making, tied
<1>2. PICK l, r : GotoWith(p, l, r)
    BY DEF UpdateUser, Finish
<1>3. UNCHANGED user \/ (Live(u) /\ \E st : user' = [user EXCEPT ![u].st = st])
    BY DEF UpdateUser
<1> HIDE DEF u
<1>4. \A v \in Users : Live(v)' => Live(v)
    BY <1>1, <1>3, SameLive, RestateLive
<1> QED
    BY <1>1, <1>2, <1>4, StepManages

LEMMA SaveManages ==
    ASSUME OwnInv, Manageable, NEW p \in Procs, SavePrimary(p) \/ DeletePrimary(p) PROVE Manageable'
<1>1. req[p].route # "create" /\ UNCHANGED <<madeBy, cut, revived, secondary, user>>
    BY Locals DEF SavePrimary, DeletePrimary, At, ReqOK, Making, history
<1>2. PICK l, r : GotoWith(p, l, r)
    BY DEF SavePrimary, DeletePrimary, Finish, Goto
<1> QED
    BY <1>1, <1>2, SameLive, StepManages

LEMMA SaveSecondaryManages ==
    ASSUME OwnInv, Manageable, NEW p \in Procs, SaveSecondary(p) PROVE Manageable'
<1>1. /\ req[p].route # "create" /\ UNCHANGED <<madeBy, cut, revived, user>> /\ Finish(p)
      /\ req[p].user \in Users /\ req[p].conn \in Conns /\ req[p].identity.external \in Externals
    BY Locals DEF SaveSecondary, At, ReqOK, Writing, Making, Ties, history
<1>2. req[p].identity # NoIdentity
    BY <1>1, ProvisioningAssumption DEF NoIdentity
<1>3. ASSUME NEW v \in Users, madeBy[v] # None, secondary[<<madeBy[v], v>>] # NoIdentity
      PROVE  secondary'[<<madeBy[v], v>>] # NoIdentity
    BY <1>1, <1>2, <1>3 DEF SaveSecondary, OwnInv, Shape
<1>4. \A v \in Users : Creating(v) => Creating(v)'
    BY <1>1, StillCreating DEF Finish
<1> QED
    BY <1>1, <1>3, <1>4, SameLive, ManageKept

LEMMA RemoveManages ==
    ASSUME OwnInv, Manageable, NEW p \in Procs, RemoveUser(p) \/ RemoveMemberships(p) PROVE Manageable'
<1>1. req[p].user \in Users /\ req[p].route # "create" /\ UNCHANGED <<madeBy, cut, revived, secondary>>
    BY Locals DEF RemoveUser, RemoveMemberships, DeleteRecord, DeleteMemberships, At, ReqOK, Making, tied, history
<1>2. PICK l, r : GotoWith(p, l, r)
    BY DEF RemoveUser, RemoveMemberships, DeleteRecord, DeleteMemberships, Finish, Goto
<1>3. UNCHANGED user \/ (Live(req[p].user) /\ user' = [user EXCEPT ![req[p].user].st = "gone"])
    BY DEF RemoveUser, RemoveMemberships, DeleteRecord, DeleteMemberships
<1>4. \A v \in Users : Live(v)' => Live(v)
    BY <1>1, <1>3, SameLive, RestateLive
<1> QED
    BY <1>1, <1>2, <1>4, StepManages

\* The identity is deleted after the user.
LEMMA DeleteSecondaryManages ==
    ASSUME OwnInv, Manageable, NEW p \in Procs, DeleteSecondary(p) PROVE Manageable'
<1>1. /\ req[p].route # "create" /\ UNCHANGED <<madeBy, cut, revived, user>> /\ Finish(p)
      /\ req[p].user \in Users /\ Gone(req[p].user)
    BY Locals DEF DeleteSecondary, At, ReqOK, Making, history
<1>2. ASSUME NEW v \in Users, madeBy[v] # None, Live(v)', v \notin revived', secondary[<<madeBy[v], v>>] # NoIdentity
      PROVE  secondary'[<<madeBy[v], v>>] # NoIdentity
    <2>1. v # req[p].user
        BY <1>1, <1>2 DEF Live, Gone
    <2> QED
        BY <1>2, <2>1 DEF DeleteSecondary, OwnInv, Shape
<1>3. \A v \in Users : Creating(v) => Creating(v)'
    BY <1>1, StillCreating DEF Finish
<1> QED
    BY <1>1, <1>2, <1>3, SameLive, ManageKept

LEMMA PutActivatedManages ==
    ASSUME OwnInv, Manageable, NEW p \in Procs, PutActivated(p) PROVE Manageable'
<1>1. /\ req[p].route # "create" /\ UNCHANGED <<madeBy, cut, secondary>> /\ Finish(p)
      /\ req[p].user \in Users /\ revived \subseteq revived'
    BY Locals DEF PutActivated, At, ReqOK, Making, tied
<1>2. ASSUME NEW v \in Users, Live(v)', v \notin revived' PROVE Live(v)
    BY <1>1, <1>2 DEF PutActivated, OwnInv, Shape, Live
<1>3. \A v \in Users : Creating(v) => Creating(v)'
    BY <1>1, StillCreating DEF Finish
<1> QED
    BY <1>1, <1>2, <1>3, ManageKept

LEMMA CrashManages ==
    ASSUME OwnInv, Manageable, NEW p \in Procs, Crash(p) PROVE Manageable'
<1>1. UNCHANGED <<madeBy, revived, secondary, user>> /\ cut \subseteq cut' /\ Finish(p)
    BY DEF Crash, tied
<1>2. ASSUME NEW v \in Users, Creating(v), ~Creating(v)' PROVE v \in cut'
    <2>1. req[p].route = "create" /\ v = req[p].user
        BY <1>1, <1>2, MovesOne DEF OwnInv, Creating, Finish
    <2> QED
        BY <2>1, ProvisioningAssumption DEF Crash
<1> QED
    BY <1>1, <1>2, SameLive, ManageKept

LEMMA ConnectionManages ==
    ASSUME OwnInv, Manageable, NEW p \in Procs, ReadConnection(p) \/ PutConnection(p) \/ DeleteConnection(p)
    PROVE  Manageable'
<1>1. req[p].route # "create" /\ UNCHANGED <<madeBy, cut, revived, secondary, user>>
    BY Locals DEF ReadConnection, PutConnection, DeleteConnection, At, ReqOK, Making, tied, history
<1>2. PICK l, r : GotoWith(p, l, r)
    BY DEF ReadConnection, PutConnection, DeleteConnection, Finish
<1> QED
    BY <1>1, <1>2, SameLive, StepManages

LEMMA BeginEditManages ==
    ASSUME OwnInv, Manageable, NEW p \in Procs, NEW c \in Conns, NEW route \in Edits, BeginEdit(p, c, route)
    PROVE  Manageable'
<1>1. UNCHANGED <<madeBy, cut, revived, secondary, user>> /\ req[p].route # "create"
    <2>1. UNCHANGED <<madeBy, cut, revived, secondary, user>> /\ Start(p)
        BY DEF BeginEdit, tied, history
    <2>2. req[p] = NoRequest
        BY <2>1, Begun
    <2> QED
        BY <2>1, <2>2 DEF NoRequest
<1>2. ASSUME NEW v \in Users, NEW q \in Procs, req[q].route = "create", req[q].user = v
      PROVE  req'[q] = req[q]
    <2>1. pc[q] \notin Editor /\ q # p
        BY <1>1, <1>2, Locals DEF ReqOK, Making, Editor
    <2> QED
        BY <2>1, EditBegins
<1>3. \A v \in Users : Creating(v) => Creating(v)'
    BY <1>2 DEF Creating
<1> QED
    BY <1>1, <1>3, SameLive, ManageKept

LEMMA BeginManages == ASSUME OwnInv, Manageable, NEW p \in Procs, Begin(p) PROVE Manageable'
<1>1. ASSUME NEW c \in Conns, NEW route \in Edits, BeginEdit(p, c, route) PROVE Manageable'
    BY <1>1, BeginEditManages
<1>2. ASSUME Start(p), UNCHANGED <<madeBy, cut, revived, secondary, user>>, NEW l, NEW r, GotoWith(p, l, r) PROVE Manageable'
    <2>1. req[p].route # "create"
        BY <1>2, Begun DEF NoRequest
    <2> QED
        BY <1>2, <2>1, SameLive, StepManages
<1>3. ASSUME NEW c \in Conns, NEW e \in Externals, NEW active \in BOOLEAN, BeginCreate(p, c, e, active) PROVE Manageable'
    BY <1>2, <1>3 DEF BeginCreate, tied, history
<1>4. ASSUME NEW c \in Conns, NEW u \in Users, NEW route, NEW active \in BOOLEAN, BeginUpdate(p, c, u, route, active)
      PROVE  Manageable'
    BY <1>2, <1>4 DEF BeginUpdate, tied, history
<1>5. ASSUME NEW c \in Conns, NEW u \in Users, GetUser(p, c, u) \/ BeginRemove(p, c, u) PROVE Manageable'
    BY <1>2, <1>5 DEF GetUser, BeginRemove, Finish, tied
<1>6. ASSUME NEW c \in Conns, GetUsers(p, c) \/ CreateConnection(p, c) PROVE Manageable'
    BY <1>2, <1>6 DEF GetUsers, CreateConnection, Finish, tied, history
<1>7. ASSUME NEW u \in Users, BeginErase(p, u) \/ BeginActivate(p, u) PROVE Manageable'
    BY <1>2, <1>7 DEF BeginErase, BeginActivate, tied, history
<1> QED
    BY <1>1, <1>3, <1>4, <1>5, <1>6, <1>7, Beginnings

LEMMA PromoteManages == ASSUME OwnInv, Manageable, NEW u \in Users, Promote(u) PROVE Manageable'
<1>1. UNCHANGED <<madeBy, cut, revived, secondary, pc, req>>
    BY DEF Promote, tied, history
<1>2. \A v \in Users : Live(v)' => Live(v)
    BY DEF Promote, OwnInv, Shape, Person, Live
<1>3. \A v \in Users : Creating(v) => Creating(v)'
    BY <1>1 DEF Creating
<1> QED
    BY <1>1, <1>2, <1>3, ManageKept

LEMMA StepsManage == ASSUME OwnInv, Manageable, NEW p \in Procs, Step(p) PROVE Manageable'
BY CreateUserManages, SetStatusManages, OnTheWayManages, CreateSecondaryManages, UndoUserManages, UndoMembershipsManages,
   UpdateUserManages, SaveManages, SaveSecondaryManages, RemoveManages, DeleteSecondaryManages, PutActivatedManages,
   ConnectionManages
   DEF Step

LEMMA ManageNext == OwnInv /\ Manageable /\ [Next]_vars => Manageable'
<1>1. ASSUME Manageable, UNCHANGED vars PROVE Manageable'
    BY <1>1 DEF Manageable, vars, tied, history, Live, Creating
<1> QED
    BY <1>1, BeginManages, StepsManage, CrashManages, PromoteManages DEF Next

LEMMA ManageInit == Init => Manageable
BY ProvisioningAssumption DEF Init, Manageable, NoIdentity, FirstIdentity, NoUser, Live

(***************************************************************************)
(* A user that a connection made, whose creation neither is under way nor  *)
(* was cut short, is found by that connection as long as the user exists,  *)
(* for any number of requests that create, change, remove and erase, but   *)
(* for a user whom activate_user put back after a removal.                 *)
(***************************************************************************)
THEOREM ProvisionedManageable == Spec => []Manageable
BY ManageInit, ManageNext, OwnInvariance, PTL DEF Spec

(***************************************************************************)
(* A connection reaches only users it made itself.                         *)
(***************************************************************************)
THEOREM ProvisionedOwnUsersOnly == Spec => []OwnUsersOnly
<1>1. OwnInv => OwnUsersOnly
    BY DEF OwnInv, Owned, OwnUsersOnly
<1> QED
    BY <1>1, OwnInvariance, PTL

-----------------------------------------------------------------------------
(* An edit of a connection that was alone holds. *)

\* Steps of requests that do not edit connections, and edits that give up.
LEMMA OtherStepEdits ==
    ASSUME OwnInv, EditInv, NEW p \in Procs, NEW l, NEW r, GotoWith(p, l, r), l \notin Editor,
           UNCHANGED <<conn, issued, floor>>
    PROVE  EditInv'
<1>1. /\ pc'[p] = l /\ req'[p] = r
      /\ \A q \in Procs \ {p} : pc'[q] = pc[q] /\ req'[q] = req[q]
    BY MovesOne DEF OwnInv
<1>2. \A q \in Procs : pc'[q] \in Editor => q # p /\ pc'[q] = pc[q] /\ req'[q] = req[q]
    BY <1>1
<1>3. Editors'
    BY <1>2 DEF EditInv, Editors
<1>4. Floors'
    BY <1>2 DEF EditInv, Floors, Editor
<1> QED
    BY <1>3, <1>4 DEF EditInv

LEMMA FinishEdits ==
    ASSUME OwnInv, EditInv, NEW p \in Procs, Finish(p), UNCHANGED <<conn, issued, floor>> PROVE EditInv'
BY OtherStepEdits DEF Finish, Editor

LEMMA ReadConnectionEdits ==
    ASSUME OwnInv, EditInv, NEW p \in Procs, ReadConnection(p) PROVE EditInv'
<1> DEFINE c == req[p].conn
           r == [req[p] EXCEPT !.read = conn[c]]
<1>1. /\ UNCHANGED <<conn, issued, floor>> /\ c \in Conns /\ pc[p] = "readconn" /\ req[p] \in Request
      /\ conn[c] \in Connection
    BY Locals DEF ReadConnection, At, edits, ReqOK, Editor, Tables
<1>2. CASE Finish(p)
    BY <1>1, <1>2, FinishEdits
<1>3. CASE conn[c].st \in {"enabled", "disabled"} /\ GotoWith(p, IF req[p].route = "delete" THEN "delconn" ELSE "putconn", r)
    <2>1. /\ r.conn = c /\ r.alone = req[p].alone /\ r.read = conn[c]
        BY <1>1 DEF Request
    <2>2. /\ pc'[p] \in {"delconn", "putconn"} /\ req'[p] = r
          /\ \A q \in Procs \ {p} : pc'[q] = pc[q] /\ req'[q] = req[q]
        <3> HIDE DEF r
        <3> QED
            BY <1>3, MovesOne DEF OwnInv
    <2>3. \A q \in Procs : /\ pc'[q] \in Editor <=> pc[q] \in Editor
                           /\ req'[q].conn = req[q].conn /\ req'[q].alone = req[q].alone
        <3> HIDE DEF r
        <3> QED
            BY <1>1, <2>1, <2>2 DEF Editor
    <2>4. Editors'
        BY <2>3 DEF EditInv, Editors
    <2>5. ASSUME NEW d \in Conns
          PROVE  /\ floor[d].token <= conn[d].token /\ conn[d].token <= issued[d]
                 /\ floor[d].deleted => conn[d].st = "deleted"
                 /\ floor[d].deleted \/ conn[d].st = "unused" => \A q \in Procs : pc'[q] \in Editor => req'[q].conn # d
        BY <2>3 DEF EditInv, Floors
    <2>6. ASSUME NEW q \in Procs, pc'[q] = "putconn"
          PROVE  /\ req'[q].read.st \in {"enabled", "disabled"}
                 /\ floor[req'[q].conn].token <= req'[q].read.token /\ req'[q].read.token <= issued[req'[q].conn]
        <3>1. CASE q = p
            <4> HIDE DEF r
            <4> QED
                BY <1>1, <1>3, <2>1, <2>2, <2>5, <3>1
        <3>2. CASE q # p
            BY <2>2, <2>6, <3>2 DEF EditInv, Floors
        <3> QED
            BY <3>1, <3>2
    <2>7. Floors'
        BY <1>1, <2>5, <2>6 DEF Floors
    <2> QED
        BY <2>4, <2>7 DEF EditInv
<1> QED
    BY <1>2, <1>3 DEF ReadConnection

LEMMA BeginEditEdits ==
    ASSUME OwnInv, EditInv, NEW p \in Procs, NEW c \in Conns, NEW route \in Edits, BeginEdit(p, c, route)
    PROVE  EditInv'
<1>1. UNCHANGED <<conn, issued, floor>> /\ conn[c].st \in {"enabled", "disabled"}
    BY DEF BeginEdit, edits
<1>2. /\ pc'[p] = "readconn" /\ req'[p].conn = c
      /\ \A q \in Procs \ {p} : pc'[q] = pc[q] /\ req'[q].conn = req[q].conn /\ req'[q].read = req[q].read
    BY EditBegins
<1>3. ASSUME NEW q \in Procs \ {p}, pc[q] \in Editor, req[q].conn = c PROVE ~req'[q].alone /\ ~req'[p].alone
    <2>1. q \in Editing(c)
        BY <1>3, EditBegins
    <2>2. Editing(c) # {}
        BY <2>1
    <2> QED
        BY <2>1, <2>2, EditBegins
<1>4. ASSUME NEW q \in Procs \ {p}, req'[q].alone PROVE req[q].alone
    BY <1>4, EditBegins
<1>5. Editors'
    BY <1>2, <1>3, <1>4 DEF EditInv, Editors
<1>6. Floors'
    <2>1. ASSUME NEW d \in Conns, floor[d].deleted \/ conn[d].st = "unused"
          PROVE  \A q \in Procs : pc'[q] \in Editor => req'[q].conn # d
        BY <1>1, <1>2, <2>1 DEF EditInv, Floors
    <2>2. \A q \in Procs : pc'[q] = "putconn" => q # p
        BY <1>2
    <2> QED
        BY <1>1, <1>2, <2>1, <2>2 DEF EditInv, Floors
<1> QED
    BY <1>5, <1>6 DEF EditInv

\* No other request edits the connection when an edit that is alone saves it.
LEMMA SaveEdits ==
    ASSUME OwnInv, EditInv, NEW p \in Procs, pc[p] \in Editor, Finish(p),
           NEW new \in Connection, NEW n \in Nat, NEW f \in Floor,
           conn' = [conn EXCEPT ![req[p].conn] = new],
           issued' = [issued EXCEPT ![req[p].conn] = n],
           floor' = [floor EXCEPT ![req[p].conn] = f],
           new.st # "unused", issued[req[p].conn] <= n,
           f.token <= new.token, new.token <= n, f.deleted => new.st = "deleted",
           f = floor[req[p].conn] \/ req[p].alone
    PROVE  EditInv'
<1> DEFINE c == req[p].conn
<1>1. /\ \A q \in Procs : pc'[q] \in Editor => q # p /\ pc'[q] = pc[q] /\ req'[q] = req[q]
    BY MovesOne DEF OwnInv, Finish, Editor
<1>2. Editors'
    BY <1>1 DEF EditInv, Editors
<1>3. c \in Conns /\ ~floor[c].deleted
    BY Locals DEF ReqOK, EditInv, Floors
<1>4. /\ conn'[c] = new /\ issued'[c] = n /\ floor'[c] = f
      /\ \A d \in Conns : d # c => conn'[d] = conn[d] /\ issued'[d] = issued[d] /\ floor'[d] = floor[d]
    BY <1>3 DEF OwnInv, Shape
<1>5. ASSUME req[p].alone PROVE \A q \in Procs : pc'[q] \in Editor => req'[q].conn # c
    BY <1>1, <1>5 DEF EditInv, Editors
<1>6. ASSUME NEW d \in Conns
      PROVE  /\ floor'[d].token <= conn'[d].token /\ conn'[d].token <= issued'[d]
             /\ floor'[d].deleted => conn'[d].st = "deleted"
             /\ floor'[d].deleted \/ conn'[d].st = "unused" => \A q \in Procs : pc'[q] \in Editor => req'[q].conn # d
    <2>1. CASE d = c
        BY <1>3, <1>4, <1>5, <2>1
    <2>2. CASE d # c
        BY <1>1, <1>4, <2>2 DEF EditInv, Floors
    <2> QED
        BY <2>1, <2>2
<1>7. ASSUME NEW q \in Procs, pc'[q] = "putconn"
      PROVE  /\ req'[q].read.st \in {"enabled", "disabled"}
             /\ floor'[req'[q].conn].token <= req'[q].read.token /\ req'[q].read.token <= issued'[req'[q].conn]
    <2>1. /\ q # p /\ pc[q] = "putconn" /\ req'[q] = req[q] /\ pc'[q] \in Editor
        BY <1>1, <1>7 DEF Editor
    <2>2. /\ req[q].conn \in Conns /\ req[q].read.token \in Nat /\ issued[req[q].conn] \in Nat
          /\ req[q].read.st \in {"enabled", "disabled"}
          /\ floor[req[q].conn].token <= req[q].read.token /\ req[q].read.token <= issued[req[q].conn]
        BY <2>1, Locals DEF ReqOK, Editor, Request, Connection, Tables, EditInv, Floors
    <2>3. CASE req[q].conn = c
        <3>1. floor'[c] = floor[c]
            BY <1>4, <1>5, <2>1, <2>3
        <3> QED
            BY <1>3, <1>4, <2>1, <2>2, <2>3, <3>1
    <2>4. CASE req[q].conn # c
        BY <1>4, <2>1, <2>2, <2>4
    <2> QED
        BY <2>3, <2>4
<1>8. Floors'
    BY <1>6, <1>7 DEF Floors
<1> QED
    BY <1>2, <1>8 DEF EditInv

LEMMA PutConnectionEdits ==
    ASSUME OwnInv, EditInv, NEW p \in Procs, PutConnection(p) PROVE EditInv'
<1> DEFINE c == req[p].conn
           new == Edited(req[p], issued[c] + 1)
           rotates == req[p].route = "rotate"
           n == IF rotates THEN issued[c] + 1 ELSE issued[c]
           f == IF rotates /\ req[p].alone THEN [floor[c] EXCEPT !.token = issued[c] + 1] ELSE floor[c]
<1>1. /\ pc[p] = "putconn" /\ pc[p] \in Editor /\ Finish(p) /\ c \in Conns
      /\ req[p] \in Request /\ req[p].read \in Connection
      /\ issued[c] \in Nat /\ floor[c] \in Floor
    BY Locals DEF PutConnection, At, ReqOK, Editor, Request, Tables
<1>2. /\ floor[c].token <= req[p].read.token /\ req[p].read.token <= issued[c]
      /\ req[p].read.st \in {"enabled", "disabled"} /\ ~floor[c].deleted
    BY <1>1 DEF EditInv, Floors
<1>3. new \in Connection /\ new.st # "unused"
    BY <1>1, <1>2 DEF Edited, Connection, Request
<1>4. new.token = IF rotates THEN issued[c] + 1 ELSE req[p].read.token
    BY DEF Edited
<1>5. n \in Nat /\ issued[c] <= n /\ new.token <= n
    BY <1>1, <1>2, <1>4 DEF Connection
<1>6. /\ f \in Floor /\ ~f.deleted /\ f.token <= new.token
      /\ f = floor[c] \/ req[p].alone
    BY <1>1, <1>2, <1>4 DEF Floor, Connection
<1>7. conn' = [conn EXCEPT ![c] = new]
    BY DEF PutConnection
<1>8. issued' = [issued EXCEPT ![c] = n]
    BY <1>1 DEF PutConnection, OwnInv, Shape
<1>9. floor' = [floor EXCEPT ![c] = f]
    BY <1>1 DEF PutConnection, OwnInv, Shape
<1> HIDE DEF n, f, new
<1> QED
    BY <1>1, <1>3, <1>5, <1>6, <1>7, <1>8, <1>9, SaveEdits

LEMMA DeleteConnectionEdits ==
    ASSUME OwnInv, EditInv, NEW p \in Procs, DeleteConnection(p) PROVE EditInv'
<1> DEFINE c == req[p].conn
           new == [conn[c] EXCEPT !.st = "deleted"]
           n == issued[c]
           f == IF req[p].alone THEN [floor[c] EXCEPT !.deleted = TRUE] ELSE floor[c]
<1>1. /\ pc[p] \in Editor /\ Finish(p) /\ c \in Conns
      /\ issued[c] \in Nat /\ floor[c] \in Floor /\ conn[c] \in Connection
    BY Locals DEF DeleteConnection, At, ReqOK, Editor, Tables
<1>2. floor[c].token <= conn[c].token /\ conn[c].token <= issued[c]
    BY <1>1 DEF EditInv, Floors
<1>3. new \in Connection /\ new.st = "deleted" /\ new.token = conn[c].token
    BY <1>1 DEF Connection
<1>4. n \in Nat /\ issued[c] <= n /\ new.token <= n
    BY <1>1, <1>2, <1>3
<1>5. /\ f \in Floor /\ f.token = floor[c].token
      /\ f = floor[c] \/ req[p].alone
    BY <1>1 DEF Floor
<1>6. conn' = [conn EXCEPT ![c] = new]
    BY DEF DeleteConnection
<1>7. issued' = [issued EXCEPT ![c] = n]
    BY <1>1 DEF DeleteConnection, OwnInv, Shape
<1>8. floor' = [floor EXCEPT ![c] = f]
    BY <1>1 DEF DeleteConnection, OwnInv, Shape
<1> HIDE DEF n, f, new
<1> QED
    BY <1>1, <1>2, <1>3, <1>4, <1>5, <1>6, <1>7, <1>8, SaveEdits

LEMMA CreateConnectionEdits ==
    ASSUME OwnInv, EditInv, NEW p \in Procs, NEW c \in Conns, CreateConnection(p, c) PROVE EditInv'
<1>1. /\ conn[c] = NoConn /\ Finish(p) /\ UNCHANGED floor
      /\ conn' = [conn EXCEPT ![c] = [st |-> "enabled", token |-> 1]] /\ issued' = [issued EXCEPT ![c] = 1]
    BY DEF CreateConnection
<1>2. \A q \in Procs : pc'[q] \in Editor => q # p /\ pc'[q] = pc[q] /\ req'[q] = req[q]
    BY <1>1, MovesOne DEF OwnInv, Finish, Editor
<1>3. Editors'
    BY <1>2 DEF EditInv, Editors
<1>4. /\ floor[c] \in Floor /\ floor[c].token = 0 /\ ~floor[c].deleted
      /\ \A q \in Procs : pc[q] \in Editor => req[q].conn # c
    <2>1. /\ floor[c] \in Floor /\ floor[c].token <= 0 /\ conn[c].st = "unused"
        BY <1>1 DEF OwnInv, Shape, EditInv, Floors, NoConn
    <2> QED
        BY <2>1 DEF EditInv, Floors, Floor
<1>5. /\ conn'[c] = [st |-> "enabled", token |-> 1] /\ issued'[c] = 1
      /\ \A d \in Conns : d # c => conn'[d] = conn[d] /\ issued'[d] = issued[d]
    BY <1>1 DEF OwnInv, Shape
<1>6. ASSUME NEW d \in Conns
      PROVE  /\ floor'[d].token <= conn'[d].token /\ conn'[d].token <= issued'[d]
             /\ floor'[d].deleted => conn'[d].st = "deleted"
             /\ floor'[d].deleted \/ conn'[d].st = "unused" => \A q \in Procs : pc'[q] \in Editor => req'[q].conn # d
    <2>1. CASE d = c
        BY <1>1, <1>4, <1>5, <2>1
    <2>2. CASE d # c
        BY <1>1, <1>2, <1>5, <2>2 DEF EditInv, Floors
    <2> QED
        BY <2>1, <2>2
<1>7. ASSUME NEW q \in Procs, pc'[q] = "putconn"
      PROVE  /\ req'[q].read.st \in {"enabled", "disabled"}
             /\ floor'[req'[q].conn].token <= req'[q].read.token /\ req'[q].read.token <= issued'[req'[q].conn]
    <2>1. pc[q] = "putconn" /\ pc[q] \in Editor /\ req'[q] = req[q]
        BY <1>2, <1>7 DEF Editor
    <2>2. req[q].conn \in Conns /\ req[q].conn # c
        BY <1>4, <2>1, Locals DEF ReqOK
    <2> QED
        BY <1>1, <1>5, <2>1, <2>2 DEF EditInv, Floors
<1>8. Floors'
    BY <1>6, <1>7 DEF Floors
<1> QED
    BY <1>3, <1>8 DEF EditInv

LEMMA StepsEdit == ASSUME OwnInv, EditInv, NEW p \in Procs, Step(p) PROVE EditInv'
<1>1. CASE ReadConnection(p) \/ PutConnection(p) \/ DeleteConnection(p)
    BY <1>1, ReadConnectionEdits, PutConnectionEdits, DeleteConnectionEdits
<1>2. CASE ~(ReadConnection(p) \/ PutConnection(p) \/ DeleteConnection(p))
    <2>1. UNCHANGED <<conn, issued, floor>>
        BY <1>2 DEF Step, CreateUser, SetStatus, AddMembership, CreatePrimary, CreateSecondary, Unprimary, Unmember,
                    UndoUser, UndoMemberships, UpdateUser, SavePrimary, SaveSecondary, RemoveUser, RemoveMemberships,
                    DeletePrimary, DeleteSecondary, DeleteRecord, DeleteMemberships, PutActivated, edits
    <2>2. ASSUME NEW l, Goto(p, l), l \notin Editor PROVE EditInv'
        BY <2>1, <2>2, OtherStepEdits DEF Goto
    <2>3. ASSUME Finish(p) PROVE EditInv'
        BY <2>1, <2>3, FinishEdits
    <2>4. CASE \E u \in Users : CreateUser(p, u)
        BY <2>1, <2>3, <2>4, OtherStepEdits DEF CreateUser, Editor
    <2>5. CASE SetStatus(p) \/ AddMembership(p) \/ Unprimary(p) \/ Unmember(p)
        BY <2>2, <2>5 DEF SetStatus, AddMembership, Unprimary, Unmember, Undo, Editor
    <2>6. CASE CreatePrimary(p) \/ CreateSecondary(p)
        BY <2>2, <2>3, <2>6 DEF CreatePrimary, CreateSecondary, Undo, Editor
    <2>7. CASE UndoUser(p) \/ UndoMemberships(p) \/ RemoveUser(p) \/ RemoveMemberships(p)
        BY <2>2, <2>3, <2>7 DEF UndoUser, UndoMemberships, RemoveUser, RemoveMemberships, DeleteRecord,
                                DeleteMemberships, Editor
    <2>8. CASE UpdateUser(p)
        BY <2>1, <2>3, <2>8, OtherStepEdits DEF UpdateUser, Editor
    <2>9. CASE SavePrimary(p) \/ SaveSecondary(p) \/ DeletePrimary(p) \/ DeleteSecondary(p)
        BY <2>2, <2>3, <2>9 DEF SavePrimary, SaveSecondary, DeletePrimary, DeleteSecondary, Editor
    <2>10. CASE PutActivated(p)
        BY <2>3, <2>10 DEF PutActivated
    <2> QED
        BY <1>2, <2>4, <2>5, <2>6, <2>7, <2>8, <2>9, <2>10 DEF Step
<1> QED
    BY <1>1, <1>2

LEMMA BeginEdits == ASSUME OwnInv, EditInv, NEW p \in Procs, Begin(p) PROVE EditInv'
<1>1. ASSUME NEW c \in Conns, NEW route \in Edits, BeginEdit(p, c, route) PROVE EditInv'
    BY <1>1, BeginEditEdits
<1>2. ASSUME NEW c \in Conns, CreateConnection(p, c) PROVE EditInv'
    BY <1>2, CreateConnectionEdits
<1>3. ASSUME NEW c \in Conns, NEW e \in Externals, NEW active \in BOOLEAN, BeginCreate(p, c, e, active) PROVE EditInv'
    BY <1>3, OtherStepEdits DEF BeginCreate, edits, Editor
<1>4. ASSUME NEW c \in Conns, NEW u \in Users, NEW route, NEW active \in BOOLEAN, BeginUpdate(p, c, u, route, active)
      PROVE  EditInv'
    BY <1>4, OtherStepEdits DEF BeginUpdate, edits, Editor
<1>5. ASSUME NEW c \in Conns, NEW u \in Users, BeginRemove(p, c, u) PROVE EditInv'
    BY <1>5, OtherStepEdits DEF BeginRemove, edits, Editor
<1>6. ASSUME NEW c \in Conns, NEW u \in Users, GetUser(p, c, u) \/ GetUsers(p, c) PROVE EditInv'
    BY <1>6, FinishEdits DEF GetUser, GetUsers, edits
<1>7. ASSUME NEW c \in Conns, GetUsers(p, c) PROVE EditInv'
    BY <1>7, FinishEdits DEF GetUsers, edits
<1>8. ASSUME NEW u \in Users, BeginErase(p, u) \/ BeginActivate(p, u) PROVE EditInv'
    BY <1>8, OtherStepEdits DEF BeginErase, BeginActivate, edits, Editor
<1> QED
    BY <1>1, <1>2, <1>3, <1>4, <1>5, <1>6, <1>7, <1>8, Beginnings

LEMMA EditNext == OwnInv /\ EditInv /\ [Next]_vars => EditInv'
<1>1. ASSUME EditInv, UNCHANGED <<conn, issued, floor, pc, req>> PROVE EditInv'
    BY <1>1 DEF EditInv, Editors, Floors
<1>2. ASSUME OwnInv, EditInv, NEW p \in Procs, Crash(p) PROVE EditInv'
    BY <1>2, FinishEdits DEF Crash, edits
<1> QED
    BY <1>1, <1>2, BeginEdits, StepsEdit DEF Next, Promote, vars, edits

LEMMA EditInit == Init => EditInv
<1> SUFFICES ASSUME Init PROVE EditInv
    OBVIOUS
<1>1. \A p \in Procs : pc[p] \notin Editor
    BY DEF Init, Editor
<1>2. Editors
    BY <1>1 DEF Editors
<1>3. Floors
    BY <1>1 DEF Init, Floors, NoFloor, NoConn, Editor
<1> QED
    BY <1>2, <1>3 DEF EditInv

(***************************************************************************)
(* After a rotation that no other edit overlapped, no earlier token of the *)
(* connection is accepted again, and after such a deletion none is,        *)
(* whatever edits come before and after it.                                *)
(***************************************************************************)
THEOREM ProvisionedEditHolds == Spec => []LoneEditHolds
<1>1. EditInv => LoneEditHolds
    BY DEF EditInv, Floors, LoneEditHolds, Authenticates
<1> QED
    BY <1>1, EditInit, EditNext, OwnInvariance, PTL DEF Spec
=============================================================================
