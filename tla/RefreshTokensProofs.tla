------------------------ MODULE RefreshTokensProofs ------------------------
(***************************************************************************)
(* Theorems about RefreshTokens for every set of users, tokens and         *)
(* requests and every choice of the lifetimes: first that a family has one *)
(* holder, from IInv; then that rotation implements TokenFamily; then what *)
(* a token's history says of its lifetime, its replay and its index, from  *)
(* HInv.  HInv adds to IInv what requests in flight and the tables know of *)
(* the past: that the issue time is the family's, that a token handed out  *)
(* has a marked predecessor, and that one request carries a token that     *)
(* nobody holds yet.                                                       *)
(***************************************************************************)
EXTENDS RefreshTokens, TLAPS

\* What a request in flight knows at each of its steps.
RequestOK(p) ==
    LET r == req[p] IN
    /\ pc[p] \in {"consume", "user", "save", "retire"} =>
          r.tok \in Tokens /\ r.user \in Users /\ family[r.tok] # NoToken
    /\ pc[p] = "consume" => r.rev = 1
    /\ pc[p] = "grant" => r.user \in Users /\ r.tok = NoToken
    /\ pc[p] = "index" => r.user \in Users /\ r.new \in Tokens
    /\ pc[p] = "index" /\ r.tok # NoToken => family[r.tok] # NoToken
    /\ pc[p] = "retire" => r.new \in Tokens
    /\ pc[p] \in {"forget", "erase"} /\ r.why = "rotate" => r.new \in Tokens
    /\ pc[p] \in {"marker", "entry"} => r.tok \in Tokens

\* What the store knows of a token: the revision tells the state of its entry, and only
\* generated tokens have one.
EntryOK(t) ==
    /\ Live(t) <=> refresh[t].rev = 1
    /\ Live(t) => refresh[t].user \in Users
    /\ family[t] = NoToken => refresh[t].st = "absent"

\* A family is named by its first token.
FamilyRooted == \A t \in Tokens : family[t] # NoToken => family[family[t]] = family[t]

IInv ==
    /\ TypeOK
    /\ \A p \in Procs : RequestOK(p)
    /\ \A t \in Tokens : EntryOK(t)
    /\ FamilyRooted
    /\ OneHolder

\* Every request that this step moves still knows what it needs and holds no new family.
RequestsKeep ==
    \A q \in Procs : RequestOK(q)' /\ \A f \in Tokens : Holds(q, f)' => Holds(q, f)

\* This step only drops entries.
EntriesDrop ==
    \A t \in Tokens : refresh'[t] = refresh[t] \/ refresh'[t] = Absent

\* The value of an absent key and of a request with no locals.
LEMMA EmptyValues == Absent \in Entry /\ NoRequest \in Request
<1>1. Absent \in Entry
    BY DEF Absent, Entry, MaybeUser
<1>2. NoRequest \in Request
    BY DEF NoRequest, Request, MaybeUser, MaybeToken, Purposes
<1> QED
    BY <1>1, <1>2

\* Empty tables and idle requests satisfy the invariant.
LEMMA InitOK == Init => IInv
<1> SUFFICES ASSUME Init PROVE IInv
    OBVIOUS
<1>1. TypeOK
    <2>1. Absent \in Entry /\ NoRequest \in Request
        BY EmptyValues
    <2>2. [user |-> NoUser, until |-> 0] \in Marker
        BY DEF Marker, MaybeUser
    <2>3. "idle" \in Labels
        BY DEF Labels
    <2> QED
        BY <2>1, <2>2, <2>3 DEF Init, TypeOK, MaybeToken
<1>2. \A p \in Procs : RequestOK(p)
    BY DEF Init, RequestOK, NoRequest
<1>3. (\A t \in Tokens : EntryOK(t)) /\ FamilyRooted
    BY DEF Init, EntryOK, FamilyRooted, Live, Absent
<1>4. OneHolder
    BY DEF Init, OneHolder, Live, Absent, Holds
<1> QED
    BY <1>1, <1>2, <1>3, <1>4 DEF IInv

\* Steps that generate no token and take none preserve the invariant.
LEMMA Frame ==
    ASSUME IInv, TypeOK', UNCHANGED family, EntriesDrop, RequestsKeep
    PROVE  IInv'
<1>1. \A t \in Tokens : Live(t)' => Live(t) /\ refresh'[t] = refresh[t]
    BY DEF EntriesDrop, Live, Absent
<1>2. \A t \in Tokens : EntryOK(t)'
    BY DEF IInv, EntryOK, EntriesDrop, Live, Absent
<1>3. FamilyRooted'
    BY DEF IInv, FamilyRooted
<1>4. OneHolder'
    <2>1. \A s, t \in Tokens : Live(s)' /\ Live(t)' /\ family'[s] = family'[t] => s = t
        BY <1>1 DEF IInv, OneHolder
    <2>2. \A p, q \in Procs : \A f \in Tokens : Holds(p, f)' /\ Holds(q, f)' => p = q
        BY DEF IInv, OneHolder, RequestsKeep
    <2>3. \A t \in Tokens, p \in Procs : Live(t)' => ~Holds(p, family[t])'
        <3> SUFFICES ASSUME NEW t \in Tokens, NEW p \in Procs, Live(t)' PROVE ~Holds(p, family[t])'
            OBVIOUS
        <3>1. family[t] \in Tokens
            BY <1>1 DEF IInv, EntryOK, Live, TypeOK, MaybeToken
        <3> QED
            BY <1>1, <3>1 DEF IInv, OneHolder, RequestsKeep
    <2> QED
        BY <2>1, <2>2, <2>3 DEF OneHolder
<1> QED
    BY <1>2, <1>3, <1>4 DEF IInv, RequestsKeep

\* What a step of a request does to the control of the requests.
LEMMA MovesOne ==
    ASSUME TypeOK, NEW p \in Procs, NEW label, NEW r, GotoWith(p, label, r)
    PROVE  /\ pc'[p] = label /\ req'[p] = r
           /\ \A q \in Procs \ {p} : pc'[q] = pc[q] /\ req'[q] = req[q]
           /\ r \in Request /\ label \in Labels => pc' \in [Procs -> Labels] /\ req' \in [Procs -> Request]
BY DEF GotoWith, Goto, TypeOK

\* A step that moves only the label of a request keeps the types of the locals.
LEMMA KeepsLocals ==
    ASSUME TypeOK, NEW p \in Procs, NEW label, Goto(p, label)
    PROVE  GotoWith(p, label, req[p]) /\ UNCHANGED req
BY DEF Goto, GotoWith, TypeOK

\* The step of one request that generates no token and takes none.
LEMMA Move ==
    ASSUME IInv, TypeOK', NEW p \in Procs, NEW label, NEW r, GotoWith(p, label, r),
           UNCHANGED family, EntriesDrop, RequestOK(p)',
           label \in {"user", "save"} => label = "save" /\ pc[p] = "user" /\ r = req[p]
    PROVE  IInv'
<1>1. TypeOK
    BY DEF IInv
<1>2. /\ pc'[p] = label /\ req'[p] = r
      /\ \A q \in Procs \ {p} : pc'[q] = pc[q] /\ req'[q] = req[q]
    BY <1>1, MovesOne
<1>3. ASSUME NEW q \in Procs PROVE RequestOK(q)'
    <2>1. CASE q = p
        BY <2>1
    <2>2. CASE q # p
        BY <1>2, <2>2 DEF IInv, RequestOK
    <2> QED
        BY <2>1, <2>2
<1>4. ASSUME NEW q \in Procs, NEW f \in Tokens, Holds(q, f)' PROVE Holds(q, f)
    BY <1>2, <1>4 DEF Holds
<1> QED
    BY <1>3, <1>4, Frame DEF RequestsKeep

\* A request that is idle neither sweeps nor holds a family.
LEMMA IdleRequest ==
    ASSUME TypeOK, NEW p \in Procs, Finish(p)
    PROVE  GotoWith(p, "idle", NoRequest) /\ RequestOK(p)'
<1>1. pc'[p] = "idle" /\ req'[p] = NoRequest
    BY MovesOne DEF Finish
<1> QED
    BY <1>1 DEF Finish, RequestOK, NoRequest

\* A request that ends, and whatever it drops from the tables.
LEMMA FinishOK ==
    ASSUME IInv, NEW p \in Procs, Finish(p), UNCHANGED <<now, family, parent, birth, revoking>>,
           user' \in [Users -> {"active", "disabled", "gone"}],
           EntriesDrop, refresh' \in [Tokens -> Entry], idx' \subseteq Users \X Tokens,
           marker' = marker, revokedAt' \in [Users -> Nat], handed' \subseteq Tokens
    PROVE  IInv'
<1>1. TypeOK
    BY DEF IInv
<1>2. GotoWith(p, "idle", NoRequest) /\ RequestOK(p)'
    BY <1>1, IdleRequest
<1>3. "idle" \in Labels
    BY DEF Labels
<1>4. TypeOK'
    BY <1>1, <1>2, <1>3, EmptyValues, MovesOne DEF TypeOK
<1> QED
    BY <1>2, <1>4, Move

\* A request that goes on and touches no table but the index, the markers and the marks of
\* revocation.
LEMMA GoOnOK ==
    ASSUME IInv, NEW p \in Procs, NEW label \in Labels, NEW r \in Request, GotoWith(p, label, r),
           UNCHANGED <<now, family, parent, birth, handed>>,
           EntriesDrop, refresh' \in [Tokens -> Entry],
           user' \in [Users -> {"active", "disabled", "gone"}], idx' \subseteq Users \X Tokens,
           marker' \in [Tokens -> Marker], revokedAt' \in [Users -> Nat], revoking' \subseteq Tokens,
           RequestOK(p)',
           label \in {"user", "save"} => label = "save" /\ pc[p] = "user" /\ r = req[p]
    PROVE  IInv'
<1>1. TypeOK
    BY DEF IInv
<1>2. TypeOK'
    BY <1>1, MovesOne DEF TypeOK
<1> QED
    BY <1>2, Move

(***************************************************************************)
(* One lemma per action.                                                   *)
(***************************************************************************)
\* Leaving the refresh table alone drops nothing.
LEMMA NoDrop == ASSUME TypeOK, UNCHANGED refresh PROVE EntriesDrop /\ refresh' \in [Tokens -> Entry]
BY DEF TypeOK, EntriesDrop

\* Deleting or expiring an entry of the refresh table drops at most that entry.
LEMMA Drop ==
    ASSUME TypeOK, NEW t, refresh' = [refresh EXCEPT ![t] = Absent]
    PROVE  EntriesDrop /\ refresh' \in [Tokens -> Entry]
BY EmptyValues DEF TypeOK, EntriesDrop

\* A change of one local of one request keeps the types of the locals.
LEMMA SetField ==
    ASSUME NEW r \in Request
    PROVE  /\ \A u \in MaybeUser : [r EXCEPT !.user = u] \in Request
           /\ \A t \in MaybeToken : [r EXCEPT !.tok = t] \in Request
           /\ \A t \in MaybeToken : [r EXCEPT !.new = t] \in Request
           /\ \A w \in Purposes : [r EXCEPT !.why = w] \in Request
           /\ \A l \in SUBSET Tokens : [r EXCEPT !.list = l] \in Request
           /\ \A u \in MaybeUser, i \in Nat, a \in Nat, v \in 0..2 :
                [r EXCEPT !.user = u, !.issued = i, !.at = a, !.rev = v] \in Request
<1>1. \A u \in MaybeUser : [r EXCEPT !.user = u] \in Request
    BY DEF Request
<1>2. \A t \in MaybeToken : [r EXCEPT !.tok = t] \in Request
    BY DEF Request
<1>3. \A t \in MaybeToken : [r EXCEPT !.new = t] \in Request
    BY DEF Request
<1>4. \A w \in Purposes : [r EXCEPT !.why = w] \in Request
    BY DEF Request
<1>5. \A l \in SUBSET Tokens : [r EXCEPT !.list = l] \in Request
    BY DEF Request
<1>6. \A u \in MaybeUser, i \in Nat, a \in Nat, v \in 0..2 :
          [r EXCEPT !.user = u, !.issued = i, !.at = a, !.rev = v] \in Request
    BY DEF Request
<1> QED
    BY <1>1, <1>2, <1>3, <1>4, <1>5, <1>6

\* handle_code_exchange: the grant starts with a token and a family of its own.
LEMMA BeginGrantOK == ASSUME IInv, NEW p \in Procs, NEW u \in Users, BeginGrant(p, u) PROVE IInv'
<1> DEFINE r == [NoRequest EXCEPT !.user = u]
<1>1. TypeOK
    BY DEF IInv
<1>2. GotoWith(p, "grant", r)
    BY DEF BeginGrant
<1>3. r \in Request /\ r.user \in Users /\ r.tok = NoToken
    <2>1. r \in Request
        BY EmptyValues, SetField DEF MaybeUser
    <2>2. r.user \in Users /\ r.tok = NoToken
        BY DEF NoRequest
    <2> QED
        BY <2>1, <2>2
<1>4. pc'[p] = "grant" /\ req'[p] = r
    BY <1>1, <1>2, MovesOne
<1>5. RequestOK(p)'
    BY <1>3, <1>4 DEF RequestOK
<1>6. "grant" \in Labels
    BY DEF Labels
<1> QED
    BY <1>1, <1>2, <1>3, <1>5, <1>6, NoDrop, GoOnOK DEF BeginGrant, TypeOK, kv, history

\* The locals with which delete_user_refresh_tokens starts.
LEMMA SweepRequest ==
    ASSUME NEW u \in MaybeUser, NEW t \in MaybeToken, NEW why \in Purposes
    PROVE  [Sweep(u, t) EXCEPT !.why = why] \in Request /\ Sweep(u, t) \in Request
<1> DEFINE q == [NoRequest EXCEPT !.user = u]
<1>1. q \in Request
    BY EmptyValues, SetField DEF MaybeUser
<1>2. [q EXCEPT !.tok = t] \in Request
    BY <1>1, SetField
<1>3. Sweep(u, t) = [q EXCEPT !.tok = t]
    BY DEF Sweep, NoRequest
<1>4. [Sweep(u, t) EXCEPT !.why = why] \in Request
    BY <1>2, <1>3, SetField
<1> QED
    BY <1>2, <1>3, <1>4

\* A request sent to list the index of a user keeps the invariant.
LEMMA ToList ==
    ASSUME IInv, NEW p \in Procs, NEW r \in Request, GotoWith(p, "list", r),
           UNCHANGED <<now, refresh, idx, marker, history>>,
           user' \in [Users -> {"active", "disabled", "gone"}], revokedAt' \in [Users -> Nat]
    PROVE  IInv'
<1>1. TypeOK
    BY DEF IInv
<1>2. pc'[p] = "list"
    BY <1>1, MovesOne
<1>3. RequestOK(p)'
    BY <1>2 DEF RequestOK
<1>4. "list" \in Labels
    BY DEF Labels
<1> QED
    BY <1>1, <1>3, <1>4, NoDrop, GoOnOK DEF TypeOK, history

\* handle_logout, revoke_sessions: the sweep of a user begins.
LEMMA BeginSweepOK ==
    ASSUME IInv, NEW p \in Procs, NEW u \in Users, NEW why \in {"", "delete"}, BeginSweep(p, u, why)
    PROVE  IInv'
<1>1. [Sweep(u, NoToken) EXCEPT !.why = why] \in Request
    BY SweepRequest DEF MaybeUser, MaybeToken, Purposes
<1> QED
    BY <1>1, ToList DEF BeginSweep, kv, IInv, TypeOK

\* SCIM active=false disables the user and sweeps.
LEMMA DisableUserOK ==
    ASSUME IInv, NEW p \in Procs, NEW u \in Users, DisableUser(p, u) PROVE IInv'
<1>1. Sweep(u, NoToken) \in Request
    BY SweepRequest DEF MaybeUser, MaybeToken, Purposes
<1> QED
    BY <1>1, ToList DEF DisableUser, IInv, TypeOK

\* handle_refresh: reading the entry and its revision takes nothing.
LEMMA PresentRefreshOK ==
    ASSUME IInv, NEW p \in Procs, NEW t \in Tokens, PresentRefresh(p, t) PROVE IInv'
<1> DEFINE e == refresh[t]
           r == [NoRequest EXCEPT !.tok = t]
           c == [r EXCEPT !.user = e.user, !.issued = e.issued, !.at = now, !.rev = e.rev]
<1>1. TypeOK /\ e \in Entry /\ EntryOK(t) /\ now \in Nat
    BY DEF IInv, TypeOK
<1>2. r \in Request /\ c \in Request
    <2>1. r \in Request
        BY EmptyValues, SetField DEF MaybeToken
    <2>2. e.user \in MaybeUser /\ e.issued \in Nat /\ e.rev \in 0..2
        BY <1>1 DEF Entry
    <2>3. c \in Request
        BY <1>1, <2>1, <2>2, SetField
    <2> QED
        BY <2>1, <2>3
<1>3. {"consume", "forget", "marker"} \subseteq Labels
    BY DEF Labels
<1>4. CASE Live(t) /\ GotoWith(p, "consume", c)
    <2>1. pc'[p] = "consume" /\ req'[p] = c
        BY <1>1, <1>4, MovesOne
    <2>2. c.tok = t /\ c.user = e.user /\ c.rev = e.rev
        BY DEF NoRequest
    <2>3. e.user \in Users /\ e.rev = 1 /\ family[t] # NoToken
        BY <1>1, <1>4 DEF EntryOK, Live
    <2>4. RequestOK(p)'
        BY <2>1, <2>2, <2>3 DEF RequestOK, PresentRefresh, history
    <2> QED
        BY <1>1, <1>2, <1>3, <1>4, <2>4, NoDrop, GoOnOK DEF PresentRefresh, TypeOK, kv, history
<1>5. CASE GotoWith(p, "forget", r)
    <2>1. pc'[p] = "forget" /\ req'[p] = r
        BY <1>1, <1>5, MovesOne
    <2>2. RequestOK(p)'
        BY <2>1 DEF RequestOK, NoRequest
    <2> QED
        BY <1>1, <1>2, <1>3, <1>5, <2>2, NoDrop, GoOnOK DEF PresentRefresh, TypeOK, kv, history
<1>6. CASE GotoWith(p, "marker", r)
    <2>1. pc'[p] = "marker" /\ req'[p] = r
        BY <1>1, <1>6, MovesOne
    <2>2. RequestOK(p)'
        BY <2>1 DEF RequestOK, NoRequest
    <2> QED
        BY <1>1, <1>2, <1>3, <1>6, <2>2, NoDrop, GoOnOK DEF PresentRefresh, TypeOK, kv, history
<1> QED
    BY <1>4, <1>5, <1>6 DEF PresentRefresh

\* handle_revoke: a token is retired at the request of its client.
LEMMA BeginRevokeOK ==
    ASSUME IInv, NEW p \in Procs, NEW t \in Tokens, BeginRevoke(p, t) PROVE IInv'
<1> DEFINE r == [NoRequest EXCEPT !.tok = t]
<1>1. TypeOK
    BY DEF IInv
<1>2. r \in Request
    BY EmptyValues, SetField DEF MaybeToken
<1>3. pc'[p] = "forget" /\ req'[p] = r
    BY <1>1, MovesOne DEF BeginRevoke
<1>4. RequestOK(p)'
    BY <1>3 DEF RequestOK, NoRequest
<1>5. "forget" \in Labels
    BY DEF Labels
<1> QED
    BY <1>1, <1>2, <1>4, <1>5, NoDrop, GoOnOK DEF BeginRevoke, TypeOK, kv

\* A request that ends without touching a table keeps the invariant.
LEMMA QuietFinish ==
    ASSUME IInv, NEW p \in Procs, Finish(p), UNCHANGED <<now, kv, history>> PROVE IInv'
BY NoDrop, FinishOK DEF IInv, TypeOK, kv, history

\* handle_refresh: the reading of the user either ends the request or goes on.
LEMMA LoadUserOK == ASSUME IInv, NEW p \in Procs, LoadUser(p) PROVE IInv'
<1>1. TypeOK /\ RequestOK(p) /\ pc[p] = "user" /\ req[p] \in Request
    BY DEF IInv, LoadUser, At, TypeOK
<1>2. CASE Goto(p, "save")
    <2>1. GotoWith(p, "save", req[p])
        BY <1>1, <1>2, KeepsLocals
    <2>2. pc'[p] = "save" /\ req'[p] = req[p]
        BY <1>1, <2>1, MovesOne
    <2>3. RequestOK(p)'
        BY <1>1, <2>2 DEF RequestOK, LoadUser, history
    <2>4. "save" \in Labels
        BY DEF Labels
    <2> QED
        BY <1>1, <2>1, <2>3, <2>4, NoDrop, GoOnOK DEF LoadUser, TypeOK, kv, history
<1>3. CASE GotoWith(p, "list", Sweep(req[p].user, NoToken))
    <2>1. Sweep(req[p].user, NoToken) \in Request
        BY <1>1, SweepRequest DEF RequestOK, MaybeUser, MaybeToken, Purposes
    <2> QED
        BY <1>3, <2>1, ToList DEF LoadUser, kv, IInv, TypeOK
<1>4. CASE Finish(p)
    BY <1>4, QuietFinish DEF LoadUser
<1> QED
    BY <1>2, <1>3, <1>4 DEF LoadUser

\* The CAS: the family had a live token, so nobody held it; now this request does.
LEMMA ConsumeOK == ASSUME IInv, NEW p \in Procs, Consume(p) PROVE IInv'
<1> DEFINE t == req[p].tok
           c == Consumed(refresh[t], now + MarkerTTL)
<1>1. TypeOK /\ RequestOK(p) /\ OneHolder /\ FamilyRooted
    BY DEF IInv
<1>2. t \in Tokens /\ req[p].user \in Users /\ family[t] # NoToken /\ req[p].rev = 1
    BY <1>1 DEF RequestOK, Consume, At
<1>3. Live(t) /\ refresh[t].rev = 1
    BY <1>2 DEF IInv, EntryOK, Consume, RevisionMatches
<1>4. refresh' = [refresh EXCEPT ![t] = c] /\ c.st = "consumed" /\ c.rev = 2
    BY <1>3 DEF Consume, Consumed
<1>5. c \in Entry
    BY <1>1, <1>2, <1>3, TimeAssumption DEF Consumed, Entry, TypeOK, MaybeUser
<1>6. GotoWith(p, "user", req[p]) /\ UNCHANGED <<req, family>>
    BY <1>1, KeepsLocals DEF Consume, history
<1>7. /\ pc'[p] = "user" /\ req'[p] = req[p]
      /\ \A q \in Procs \ {p} : pc'[q] = pc[q] /\ req'[q] = req[q]
    BY <1>1, <1>6, MovesOne
<1>8. TypeOK'
    <2>1. req[p] \in Request /\ "user" \in Labels
        BY <1>1 DEF TypeOK, Labels
    <2>2. pc' \in [Procs -> Labels] /\ req' \in [Procs -> Request]
        BY <1>1, <1>6, <2>1, MovesOne
    <2>3. refresh' \in [Tokens -> Entry]
        BY <1>1, <1>4, <1>5 DEF TypeOK
    <2> QED
        BY <1>1, <2>2, <2>3 DEF Consume, TypeOK, history
<1>9. ASSUME NEW q \in Procs PROVE RequestOK(q)'
    <2>1. CASE q = p
        BY <1>2, <1>6, <1>7, <2>1 DEF RequestOK
    <2>2. CASE q # p
        BY <1>6, <1>7, <2>2 DEF IInv, RequestOK
    <2> QED
        BY <2>1, <2>2
<1>10. ASSUME NEW s \in Tokens PROVE EntryOK(s)' /\ (Live(s)' => Live(s) /\ s # t)
    <2>1. CASE s = t
        BY <1>1, <1>2, <1>4, <1>6, <2>1 DEF EntryOK, Live, TypeOK
    <2>2. CASE s # t
        <3>1. refresh'[s] = refresh[s]
            BY <1>1, <1>4, <2>2 DEF TypeOK
        <3> QED
            BY <1>6, <2>2, <3>1 DEF IInv, EntryOK, Live
    <2> QED
        BY <2>1, <2>2
<1>11. FamilyRooted'
    BY <1>1, <1>6 DEF FamilyRooted
<1>12. family[t] \in Tokens /\ \A q \in Procs : ~Holds(q, family[t])
    BY <1>1, <1>2, <1>3 DEF OneHolder, TypeOK, MaybeToken
<1>13. ASSUME NEW q \in Procs, NEW f \in Tokens, Holds(q, f)'
       PROVE  Holds(q, f) \/ (q = p /\ f = family[t])
    BY <1>6, <1>7, <1>13 DEF Holds
<1>14. OneHolder'
    <2>1. ASSUME NEW r \in Tokens, NEW s \in Tokens, Live(r)', Live(s)', family'[r] = family'[s]
          PROVE  r = s
        BY <1>1, <1>6, <1>10, <2>1 DEF OneHolder
    <2>2. ASSUME NEW q \in Procs, NEW r \in Procs, NEW f \in Tokens, Holds(q, f)', Holds(r, f)'
          PROVE  q = r
        BY <1>1, <1>12, <1>13, <2>2 DEF OneHolder
    <2>3. ASSUME NEW s \in Tokens, NEW q \in Procs, Live(s)' PROVE ~Holds(q, family[s])'
        <3>1. Live(s) /\ s # t /\ family'[s] = family[s]
            BY <1>6, <1>10, <2>3
        <3>2. family[s] # family[t] /\ ~Holds(q, family[s])
            BY <1>1, <1>2, <1>3, <3>1 DEF OneHolder
        <3>3. family[s] \in Tokens
            BY <3>1 DEF IInv, EntryOK, Live, TypeOK, MaybeToken
        <3> QED
            BY <1>13, <3>1, <3>2, <3>3
    <2> QED
        BY <2>1, <2>2, <2>3 DEF OneHolder
<1> QED
    BY <1>8, <1>9, <1>10, <1>11, <1>14 DEF IInv

\* The write of a new token n into family f, which nobody else holds.
LEMMA SaveOK ==
    ASSUME IInv, NEW p \in Procs, NEW n \in Tokens, NEW f \in Tokens, NEW u \in Users,
           NEW i \in Nat, NEW x \in Nat, NEW r \in Request,
           family[n] = NoToken,
           f = n \/ (family[f] = f /\ Holds(p, f)),
           refresh' = [refresh EXCEPT ![n] = LiveEntry(u, i, x)],
           family' = [family EXCEPT ![n] = f],
           GotoWith(p, "index", r),
           r.user \in Users, r.new = n, r.tok # NoToken => family[r.tok] # NoToken,
           UNCHANGED <<now, user, idx, marker, revokedAt, handed, revoking>>,
           birth' \in [Tokens -> Nat], parent' \in [Tokens -> MaybeToken]
    PROVE  IInv'
<1> DEFINE e == LiveEntry(u, i, x)
<1>1. TypeOK /\ OneHolder /\ FamilyRooted
    BY DEF IInv
<1>2. e \in Entry /\ e.st = "live" /\ e.rev = 1 /\ e.user = u
    BY DEF LiveEntry, Entry, MaybeUser
<1>3. /\ pc'[p] = "index" /\ req'[p] = r
      /\ \A q \in Procs \ {p} : pc'[q] = pc[q] /\ req'[q] = req[q]
    BY <1>1, MovesOne
<1>4. f # NoToken /\ n # NoToken
    BY NoValueAssumption
<1>5. family'[n] = f /\ \A t \in Tokens \ {n} : family'[t] = family[t] /\ refresh'[t] = refresh[t]
    BY <1>1 DEF TypeOK
<1>6. refresh'[n] = e
    BY <1>1 DEF TypeOK
<1>7. TypeOK'
    <2>1. pc' \in [Procs -> Labels] /\ req' \in [Procs -> Request]
        BY <1>1, MovesOne DEF Labels
    <2>2. refresh' \in [Tokens -> Entry] /\ family' \in [Tokens -> MaybeToken]
        BY <1>1, <1>2 DEF TypeOK, MaybeToken
    <2> QED
        BY <1>1, <2>1, <2>2 DEF TypeOK
<1>8. ASSUME NEW t, family[t] # NoToken, t \in MaybeToken PROVE family'[t] # NoToken
    BY <1>1, <1>4, <1>8 DEF TypeOK, MaybeToken
<1>9. ASSUME NEW q \in Procs PROVE RequestOK(q)'
    <2>1. CASE q = p
        <3>1. r.tok \in MaybeToken
            BY DEF Request
        <3> QED
            BY <1>3, <1>8, <2>1, <3>1 DEF RequestOK
    <2>2. CASE q # p
        <3>1. RequestOK(q) /\ req[q].tok \in MaybeToken /\ pc'[q] = pc[q] /\ req'[q] = req[q]
            BY <1>1, <1>3, <2>2 DEF IInv, TypeOK, Request
        <3> QED
            BY <1>8, <3>1 DEF RequestOK
    <2> QED
        BY <2>1, <2>2
<1>10. ASSUME NEW t \in Tokens PROVE EntryOK(t)'
    <2>1. CASE t = n
        BY <1>2, <1>4, <1>5, <1>6, <2>1 DEF EntryOK, Live
    <2>2. CASE t # n
        BY <1>5, <2>2 DEF IInv, EntryOK, Live
    <2> QED
        BY <2>1, <2>2
<1>11. FamilyRooted'
    <2> SUFFICES ASSUME NEW t \in Tokens, family'[t] # NoToken PROVE family'[family'[t]] = family'[t]
        BY DEF FamilyRooted
    <2>1. CASE t = n
        BY <1>5, <1>4, <2>1
    <2>2. CASE t # n
        <3>1. family'[t] = family[t] /\ family[family[t]] = family[t] /\ family[t] \in Tokens
            BY <1>1, <1>5, <2>2 DEF FamilyRooted, TypeOK, MaybeToken
        <3>2. family[t] # n
            BY <1>4, <2>2, <1>5, <3>1
        <3> QED
            BY <1>5, <3>1, <3>2
    <2> QED
        BY <2>1, <2>2
\* No live token and no other request was in family f.
<1>12. \A t \in Tokens : Live(t) => family[t] # f /\ t # n
    <2> SUFFICES ASSUME NEW t \in Tokens, Live(t) PROVE family[t] # f /\ t # n
        OBVIOUS
    <2>1. family[t] # NoToken /\ family[t] \in Tokens /\ family[family[t]] = family[t]
        BY <1>1 DEF IInv, EntryOK, Live, FamilyRooted, TypeOK, MaybeToken
    <2>2. CASE f = n
        BY <2>1, <2>2
    <2>3. CASE Holds(p, f)
        BY <1>1, <2>1, <2>3 DEF OneHolder
    <2> QED
        BY <2>1, <2>2, <2>3
<1>13. ASSUME NEW q \in Procs, NEW g \in Tokens, Holds(q, g)'
       PROVE  Holds(q, g) /\ q # p
    <2>1. q # p
        BY <1>3, <1>13 DEF Holds
    <2>2. pc'[q] = pc[q] /\ req'[q] = req[q] /\ pc[q] \in {"user", "save"}
        BY <1>3, <1>13, <2>1 DEF Holds
    <2>3. req[q].tok \in Tokens /\ family[req[q].tok] # NoToken
        BY <2>2 DEF IInv, RequestOK
    <2>4. family'[req[q].tok] = family[req[q].tok]
        BY <1>5, <2>3
    <2> QED
        BY <1>13, <2>1, <2>2, <2>4 DEF Holds
<1>14. ASSUME NEW q \in Procs, q # p PROVE ~Holds(q, f)
    <2>1. CASE f = n
        <3>1. ASSUME Holds(q, f) PROVE FALSE
            <4>1. req[q].tok \in Tokens /\ family[req[q].tok] # NoToken /\ family[req[q].tok] = n
                BY <2>1, <3>1 DEF IInv, RequestOK, Holds
            <4> QED
                BY <1>1, <1>4, <4>1 DEF FamilyRooted
        <3> QED
            BY <3>1
    <2>2. CASE Holds(p, f)
        BY <1>1, <1>14, <2>2 DEF OneHolder
    <2> QED
        BY <2>1, <2>2
<1>15. ASSUME NEW t \in Tokens, Live(t)' PROVE t = n \/ (Live(t) /\ family'[t] = family[t])
    BY <1>5, <1>15 DEF Live
<1>16. OneHolder'
    <2>1. ASSUME NEW s \in Tokens, NEW t \in Tokens, Live(s)', Live(t)', family'[s] = family'[t]
          PROVE  s = t
        BY <1>1, <1>5, <1>12, <1>15, <2>1 DEF OneHolder
    <2>2. ASSUME NEW q \in Procs, NEW s \in Procs, NEW g \in Tokens, Holds(q, g)', Holds(s, g)'
          PROVE  q = s
        BY <1>1, <1>13, <2>2 DEF OneHolder
    <2>3. ASSUME NEW t \in Tokens, NEW q \in Procs, Live(t)' PROVE ~Holds(q, family[t])'
        <3>1. CASE t = n
            BY <1>5, <1>13, <1>14, <3>1 DEF Holds
        <3>2. CASE Live(t) /\ family'[t] = family[t]
            <4>1. family[t] \in Tokens
                BY <3>2 DEF IInv, EntryOK, Live, TypeOK, MaybeToken
            <4> QED
                BY <1>1, <1>13, <3>2, <4>1 DEF OneHolder
        <3> QED
            BY <1>15, <2>3, <3>1, <3>2
    <2> QED
        BY <2>1, <2>2, <2>3 DEF OneHolder
<1> QED
    BY <1>7, <1>9, <1>10, <1>11, <1>16 DEF IInv

\* handle_code_exchange: the first token of a family.
LEMMA SaveGrantedOK ==
    ASSUME IInv, NEW p \in Procs, NEW n \in Tokens, SaveGranted(p, n) PROVE IInv'
<1> DEFINE r == [req[p] EXCEPT !.new = n]
<1>1. TypeOK /\ RequestOK(p) /\ req[p] \in Request
    BY DEF IInv, TypeOK
<1>2. r \in Request
    BY <1>1, SetField DEF MaybeToken
<1>3. r.user = req[p].user /\ r.new = n /\ r.tok = req[p].tok
    BY <1>1 DEF Request
<1>4. req[p].user \in Users
    BY <1>1 DEF RequestOK, SaveGranted, At
<1>5. now \in Nat /\ now + IdleTTL \in Nat
    BY <1>1, TimeAssumption DEF TypeOK
<1>6. r.tok # NoToken => family[r.tok] # NoToken
    BY <1>1, <1>3 DEF RequestOK, SaveGranted, At
<1>7. birth' \in [Tokens -> Nat] /\ parent' \in [Tokens -> MaybeToken]
    BY <1>1, <1>5 DEF TypeOK, SaveGranted
<1>8. GotoWith(p, "index", r) /\ family[n] = NoToken /\ family' = [family EXCEPT ![n] = n]
      /\ refresh' = [refresh EXCEPT ![n] = LiveEntry(req[p].user, now, now + IdleTTL)]
      /\ UNCHANGED <<now, user, idx, marker, revokedAt, handed, revoking>>
    BY DEF SaveGranted
<1> QED
    BY <1>2, <1>3, <1>4, <1>5, <1>6, <1>7, <1>8, SaveOK

\* handle_refresh: the successor of the token that the request consumed.
LEMMA SaveRotatedOK ==
    ASSUME IInv, NEW p \in Procs, NEW n \in Tokens, SaveRotated(p, n) PROVE IInv'
<1> DEFINE q == req[p]
           r == [q EXCEPT !.new = n]
           f == family[q.tok]
           i == FamilyIssuedAt(q)
           x == Min2(q.at + IdleTTL, i + AbsMax)
<1>1. TypeOK /\ RequestOK(p) /\ q \in Request /\ pc[p] = "save"
    BY DEF IInv, TypeOK, SaveRotated, At
<1>2. r \in Request
    BY <1>1, SetField DEF MaybeToken
<1>3. r.user = q.user /\ r.new = n /\ r.tok = q.tok
    BY <1>1 DEF Request
<1>4. q.user \in Users /\ q.tok \in Tokens /\ f # NoToken
    BY <1>1 DEF RequestOK
<1>5. i \in Nat /\ x \in Nat
    BY <1>1, TimeAssumption DEF FamilyIssuedAt, Min2, Request
<1>6. f \in Tokens /\ family[f] = f /\ Holds(p, f)
    BY <1>1, <1>4 DEF IInv, FamilyRooted, TypeOK, MaybeToken, Holds
<1>7. birth' \in [Tokens -> Nat] /\ parent' \in [Tokens -> MaybeToken]
    BY <1>1, <1>4 DEF TypeOK, SaveRotated, MaybeToken
<1>8. GotoWith(p, "index", r) /\ family[n] = NoToken /\ family' = [family EXCEPT ![n] = f]
      /\ refresh' = [refresh EXCEPT ![n] = LiveEntry(q.user, i, x)]
      /\ UNCHANGED <<now, user, idx, marker, revokedAt, handed, revoking>>
    BY DEF SaveRotated
<1>9. r.user \in Users /\ (r.tok # NoToken => family[r.tok] # NoToken)
    BY <1>3, <1>4
<1> HIDE DEF q, r, f, i, x
<1>10. q.user \in Users /\ f \in Tokens /\ family[f] = f /\ Holds(p, f) /\ r.new = n
    BY <1>3, <1>4, <1>6
<1> QED
    BY <1>2, <1>5, <1>7, <1>8, <1>9, <1>10, SaveOK

\* save_refresh_token: the index keys.
LEMMA IndexTokenOK == ASSUME IInv, NEW p \in Procs, IndexToken(p) PROVE IInv'
<1>1. TypeOK /\ RequestOK(p) /\ pc[p] = "index" /\ req[p] \in Request
    BY DEF IInv, TypeOK, IndexToken, At
<1>2. req[p].user \in Users /\ req[p].new \in Tokens
    BY <1>1 DEF RequestOK
<1>3. idx' \subseteq Users \X Tokens
    BY <1>1, <1>2 DEF IndexToken, IndexKeys, TypeOK
<1>4. CASE Finish(p) /\ Respond(p)
    <2>1. handed' \subseteq Tokens
        BY <1>1, <1>2, <1>4 DEF Respond, TypeOK
    <2> QED
        BY <1>1, <1>3, <1>4, <2>1, NoDrop, FinishOK DEF IndexToken, TypeOK
<1>5. CASE req[p].tok # NoToken /\ Goto(p, "retire") /\ UNCHANGED handed
    <2>1. GotoWith(p, "retire", req[p])
        BY <1>1, <1>5, KeepsLocals
    <2>2. pc'[p] = "retire" /\ req'[p] = req[p] /\ UNCHANGED family
        BY <1>1, <2>1, MovesOne DEF IndexToken
    <2>3. req[p].tok \in Tokens /\ family[req[p].tok] # NoToken
        BY <1>1, <1>5 DEF RequestOK, Request, MaybeToken
    <2>4. RequestOK(p)'
        BY <1>2, <2>2, <2>3 DEF RequestOK
    <2>5. "retire" \in Labels
        BY DEF Labels
    <2> QED
        BY <1>1, <1>3, <1>5, <2>1, <2>4, <2>5, NoDrop, GoOnOK DEF IndexToken, TypeOK
<1> QED
    BY <1>4, <1>5 DEF IndexToken

\* mark_refresh_consumed: the consumed: key.
LEMMA RetireTokenOK == ASSUME IInv, NEW p \in Procs, RetireToken(p) PROVE IInv'
<1> DEFINE r == [req[p] EXCEPT !.why = "rotate"]
           m == [user |-> req[p].user, until |-> now + MarkerTTL]
<1>1. TypeOK /\ RequestOK(p) /\ pc[p] = "retire" /\ req[p] \in Request
    BY DEF IInv, TypeOK, RetireToken, At
<1>2. r \in Request
    BY <1>1, SetField DEF Purposes
<1>3. m \in Marker
    BY <1>1, TimeAssumption DEF TypeOK, Marker, Request
<1>4. GotoWith(p, "forget", r) /\ marker' = [marker EXCEPT ![req[p].tok] = m]
    BY DEF RetireToken
<1>5. pc'[p] = "forget" /\ req'[p] = r
    BY <1>1, <1>4, MovesOne
<1>6. r.new \in Tokens
    BY <1>1 DEF RequestOK, Request
<1>7. RequestOK(p)'
    BY <1>5, <1>6 DEF RequestOK
<1>8. marker' \in [Tokens -> Marker]
    BY <1>1, <1>3, <1>4 DEF TypeOK
<1>9. "forget" \in Labels
    BY DEF Labels
<1> QED
    BY <1>1, <1>2, <1>4, <1>7, <1>8, <1>9, NoDrop, GoOnOK DEF RetireToken, TypeOK, history

\* delete_refresh_token: the index key.
LEMMA ForgetIndexOK == ASSUME IInv, NEW p \in Procs, ForgetIndex(p) PROVE IInv'
<1>1. TypeOK /\ RequestOK(p) /\ pc[p] = "forget" /\ req[p] \in Request
    BY DEF IInv, TypeOK, ForgetIndex, At
<1>2. GotoWith(p, "erase", req[p]) /\ UNCHANGED req
    BY <1>1, KeepsLocals DEF ForgetIndex
<1>3. pc'[p] = "erase" /\ req'[p] = req[p]
    BY <1>1, <1>2, MovesOne
<1>4. RequestOK(p)'
    BY <1>1, <1>3 DEF RequestOK
<1>5. idx' \subseteq Users \X Tokens
    BY <1>1 DEF ForgetIndex, TypeOK
<1>6. "erase" \in Labels
    BY DEF Labels
<1> QED
    BY <1>1, <1>2, <1>4, <1>5, <1>6, NoDrop, GoOnOK DEF ForgetIndex, TypeOK, history

\* delete_refresh_token: the entry.
LEMMA EraseTokenOK == ASSUME IInv, NEW p \in Procs, EraseToken(p) PROVE IInv'
<1>1. TypeOK /\ RequestOK(p) /\ pc[p] = "erase"
    BY DEF IInv, EraseToken, At
<1>2. handed' \subseteq Tokens
    BY <1>1 DEF EraseToken, Respond, RequestOK, TypeOK
<1>3. EntriesDrop /\ refresh' \in [Tokens -> Entry]
    BY <1>1, Drop DEF EraseToken
<1> QED
    BY <1>1, <1>2, <1>3, FinishOK DEF EraseToken, TypeOK

\* A replay that is recognised turns into a revocation of the user.
LEMMA ToRevoke ==
    ASSUME IInv, NEW p \in Procs, NEW u \in MaybeUser,
           GotoWith(p, "revoke", [req[p] EXCEPT !.user = u]), UNCHANGED <<now, kv, history>>
    PROVE  IInv'
<1>1. TypeOK /\ req[p] \in Request
    BY DEF IInv, TypeOK
<1>2. [req[p] EXCEPT !.user = u] \in Request
    BY <1>1, SetField
<1>3. pc'[p] = "revoke"
    BY <1>1, MovesOne
<1>4. RequestOK(p)'
    BY <1>3 DEF RequestOK
<1>5. "revoke" \in Labels
    BY DEF Labels
<1> QED
    BY <1>1, <1>2, <1>4, <1>5, NoDrop, GoOnOK DEF TypeOK, kv, history

\* get_consumed_refresh: the consumed: key.
LEMMA ReadMarkerOK == ASSUME IInv, NEW p \in Procs, ReadMarker(p) PROVE IInv'
<1>1. TypeOK /\ RequestOK(p) /\ pc[p] = "marker" /\ req[p] \in Request
    BY DEF IInv, TypeOK, ReadMarker, At
<1>2. req[p].tok \in Tokens
    BY <1>1 DEF RequestOK
<1>3. marker[req[p].tok].user \in MaybeUser
    BY <1>1, <1>2 DEF TypeOK, Marker
<1>4. CASE GotoWith(p, "revoke", [req[p] EXCEPT !.user = marker[req[p].tok].user])
    BY <1>3, <1>4, ToRevoke DEF ReadMarker
<1>5. CASE Goto(p, "entry")
    <2>1. GotoWith(p, "entry", req[p])
        BY <1>1, <1>5, KeepsLocals
    <2>2. pc'[p] = "entry" /\ req'[p] = req[p]
        BY <1>1, <2>1, MovesOne
    <2>3. RequestOK(p)'
        BY <1>2, <2>2 DEF RequestOK
    <2>4. "entry" \in Labels
        BY DEF Labels
    <2> QED
        BY <1>1, <2>1, <2>3, <2>4, NoDrop, GoOnOK DEF ReadMarker, TypeOK, kv, history
<1> QED
    BY <1>4, <1>5 DEF ReadMarker

\* get_consumed_refresh: the entry, as a marker.
LEMMA ReadEntryOK == ASSUME IInv, NEW p \in Procs, ReadEntry(p) PROVE IInv'
<1>1. TypeOK /\ RequestOK(p) /\ pc[p] = "entry"
    BY DEF IInv, ReadEntry, At
<1>2. refresh[req[p].tok].user \in MaybeUser
    BY <1>1 DEF RequestOK, TypeOK, Entry
<1> QED
    BY <1>2, ToRevoke, QuietFinish DEF ReadEntry

\* Recording the user of a revocation keeps the types.
LEMMA MarkUser ==
    ASSUME TypeOK, NEW u PROVE [revokedAt EXCEPT ![u] = now] \in [Users -> Nat]
BY DEF TypeOK

\* handle_refresh: revoked_at is written before the sweep.
LEMMA RevokeUserOK == ASSUME IInv, NEW p \in Procs, RevokeUser(p) PROVE IInv'
<1>1. TypeOK /\ req[p] \in Request
    BY DEF IInv, TypeOK
<1>2. Sweep(req[p].user, req[p].tok) \in Request
    <2>1. req[p].user \in MaybeUser /\ req[p].tok \in MaybeToken
        BY <1>1 DEF Request
    <2> QED
        BY <2>1, SweepRequest DEF Purposes
<1> QED
    BY <1>1, <1>2, MarkUser, ToList DEF RevokeUser, TypeOK

\* delete_user_refresh_tokens: the listing of the index.
LEMMA ListTokensOK == ASSUME IInv, NEW p \in Procs, ListTokens(p) PROVE IInv'
<1> DEFINE r == [req[p] EXCEPT !.list = {t \in Tokens : <<req[p].user, t>> \in idx}]
<1>1. TypeOK /\ req[p] \in Request
    BY DEF IInv, TypeOK
<1>2. r \in Request
    BY <1>1, SetField
<1>3. GotoWith(p, "sweep", r)
    BY DEF ListTokens
<1>4. pc'[p] = "sweep"
    BY <1>1, <1>3, MovesOne
<1>5. RequestOK(p)'
    BY <1>4 DEF RequestOK
<1>6. "sweep" \in Labels
    BY DEF Labels
<1> QED
    BY <1>1, <1>2, <1>3, <1>5, <1>6, NoDrop, GoOnOK DEF ListTokens, TypeOK, kv, history

\* delete_user_refresh_tokens: one entry deleted.
LEMMA SweepEntryOK ==
    ASSUME IInv, NEW p \in Procs, NEW t \in Tokens, SweepEntry(p, t) PROVE IInv'
<1> DEFINE r == [req[p] EXCEPT !.new = t]
<1>1. TypeOK /\ req[p] \in Request
    BY DEF IInv, TypeOK
<1>2. r \in Request
    BY <1>1, SetField DEF MaybeToken
<1>3. GotoWith(p, "unindex", r)
    BY DEF SweepEntry
<1>4. pc'[p] = "unindex"
    BY <1>1, <1>3, MovesOne
<1>5. RequestOK(p)'
    BY <1>4 DEF RequestOK
<1>6. "unindex" \in Labels
    BY DEF Labels
<1>7. EntriesDrop /\ refresh' \in [Tokens -> Entry]
    BY <1>1, Drop DEF SweepEntry
<1> QED
    BY <1>1, <1>2, <1>3, <1>5, <1>6, <1>7, GoOnOK DEF SweepEntry, TypeOK, history

\* delete_user_refresh_tokens: one index key deleted.
LEMMA SweepIndexOK == ASSUME IInv, NEW p \in Procs, SweepIndex(p) PROVE IInv'
<1> DEFINE r == [req[p] EXCEPT !.list = req[p].list \ {req[p].new}]
<1>1. TypeOK /\ req[p] \in Request
    BY DEF IInv, TypeOK
<1>2. req[p].list \ {req[p].new} \in SUBSET Tokens
    BY <1>1 DEF Request
<1>3. r \in Request
    BY <1>1, <1>2, SetField
<1>4. GotoWith(p, "sweep", r)
    BY DEF SweepIndex
<1>5. pc'[p] = "sweep"
    BY <1>1, <1>4, MovesOne
<1>6. RequestOK(p)'
    BY <1>5 DEF RequestOK
<1>7. "sweep" \in Labels
    BY DEF Labels
<1>8. idx' \subseteq Users \X Tokens
    BY <1>1 DEF SweepIndex, TypeOK
<1> QED
    BY <1>1, <1>3, <1>4, <1>6, <1>7, <1>8, NoDrop, GoOnOK DEF SweepIndex, TypeOK, history

\* revoke_user_sessions: the sweep ends.
LEMMA FinishSweepOK == ASSUME IInv, NEW p \in Procs, FinishSweep(p) PROVE IInv'
<1>1. TypeOK /\ req[p] \in Request
    BY DEF IInv, TypeOK
<1>2. revokedAt' \in [Users -> Nat]
    BY <1>1, MarkUser DEF FinishSweep
<1>3. CASE Goto(p, "erase_user")
    <2>1. GotoWith(p, "erase_user", req[p])
        BY <1>1, <1>3, KeepsLocals
    <2>2. pc'[p] = "erase_user"
        BY <1>1, <2>1, MovesOne
    <2>3. RequestOK(p)'
        BY <2>2 DEF RequestOK
    <2>4. "erase_user" \in Labels
        BY DEF Labels
    <2> QED
        BY <1>1, <1>2, <2>1, <2>3, <2>4, NoDrop, GoOnOK DEF FinishSweep, TypeOK, history
<1>4. CASE Finish(p)
    BY <1>1, <1>2, <1>4, NoDrop, FinishOK DEF FinishSweep, TypeOK, history
<1> QED
    BY <1>3, <1>4 DEF FinishSweep

\* delete_user of the management API removes the record of a user.
LEMMA EraseUserOK == ASSUME IInv, NEW p \in Procs, EraseUser(p) PROVE IInv'
<1>1. TypeOK
    BY DEF IInv
<1>2. user' \in [Users -> {"active", "disabled", "gone"}]
    BY <1>1 DEF EraseUser, TypeOK
<1> QED
    BY <1>1, <1>2, NoDrop, FinishOK DEF EraseUser, TypeOK, history

\* Steps of the environment and stuttering leave the requests and the families alone.
LEMMA EnvironmentOK ==
    ASSUME IInv, TypeOK', UNCHANGED <<pc, req, family>>, EntriesDrop PROVE IInv'
<1>1. RequestsKeep
    BY DEF IInv, RequestsKeep, RequestOK, Holds
<1> QED
    BY <1>1, Frame

\* The store drops an expired key.
LEMMA ExpireKeyOK == ASSUME IInv, NEW t \in Tokens, ExpireKey(t) PROVE IInv'
<1>1. TypeOK
    BY DEF IInv
<1>2. refresh' = [refresh EXCEPT ![t] = Absent] \/ UNCHANGED refresh
    BY DEF ExpireKey
<1>3. EntriesDrop /\ refresh' \in [Tokens -> Entry]
    BY <1>1, <1>2, Drop, NoDrop
<1>4. marker' \in [Tokens -> Marker]
    <2>1. [marker[t] EXCEPT !.user = NoUser] \in Marker
        BY <1>1 DEF TypeOK, Marker, MaybeUser
    <2> QED
        BY <1>1, <2>1 DEF ExpireKey, TypeOK
<1>5. TypeOK'
    BY <1>1, <1>3, <1>4 DEF ExpireKey, TypeOK, history
<1> QED
    BY <1>3, <1>5, EnvironmentOK DEF ExpireKey, history

\* The clock takes nothing.
LEMMA TickOK == ASSUME IInv, Tick \/ UNCHANGED vars PROVE IInv'
<1>1. TypeOK'
    BY DEF IInv, TypeOK, Tick, vars, kv, history
<1>2. EntriesDrop
    BY DEF EntriesDrop, Tick, vars, kv
<1> QED
    BY <1>1, <1>2, EnvironmentOK DEF Tick, vars, history

\* activate_user writes the status of a user.
LEMMA ActivateUserOK == ASSUME IInv, NEW u \in Users, ActivateUser(u) PROVE IInv'
<1>1. TypeOK'
    BY DEF IInv, TypeOK, ActivateUser, history
<1>2. EntriesDrop
    BY DEF EntriesDrop, ActivateUser
<1> QED
    BY <1>1, <1>2, EnvironmentOK DEF ActivateUser, history

(***************************************************************************)
(* The theorems.                                                           *)
(***************************************************************************)
\* Every handler step keeps the invariant.
LEMMA HandlerOK == ASSUME IInv, NEW p \in Procs, Handler(p) PROVE IInv'
<1>1. CASE \E u \in Users : BeginGrant(p, u) \/ DisableUser(p, u)
    BY <1>1, BeginGrantOK, DisableUserOK
<1>2. CASE \E u \in Users, why \in {"", "delete"} : BeginSweep(p, u, why)
    BY <1>2, BeginSweepOK
<1>3. CASE \E t \in Tokens : PresentRefresh(p, t) \/ BeginRevoke(p, t)
                             \/ SaveGranted(p, t) \/ SaveRotated(p, t) \/ SweepEntry(p, t)
    BY <1>3, PresentRefreshOK, BeginRevokeOK, SaveGrantedOK, SaveRotatedOK, SweepEntryOK
<1>4. CASE Consume(p) \/ LoadUser(p) \/ IndexToken(p) \/ RetireToken(p) \/ ForgetIndex(p)
           \/ EraseToken(p)
    BY <1>4, ConsumeOK, LoadUserOK, IndexTokenOK, RetireTokenOK, ForgetIndexOK, EraseTokenOK
<1>5. CASE ReadMarker(p) \/ ReadEntry(p) \/ RevokeUser(p) \/ ListTokens(p) \/ SweepIndex(p)
           \/ FinishSweep(p) \/ EraseUser(p)
    BY <1>5, ReadMarkerOK, ReadEntryOK, RevokeUserOK, ListTokensOK, SweepIndexOK, FinishSweepOK,
       EraseUserOK
<1>6. CASE ConsumeConflict(p) \/ Crash(p)
    BY <1>6, QuietFinish DEF ConsumeConflict, Crash
<1> QED
    BY <1>1, <1>2, <1>3, <1>4, <1>5, <1>6 DEF Handler

\* Every step of every request keeps the invariant.
LEMMA NextOK == IInv /\ [Next]_vars => IInv'
<1> SUFFICES ASSUME IInv, [Next]_vars PROVE IInv'
    OBVIOUS
<1>1. CASE \E p \in Procs : Handler(p)
    BY <1>1, HandlerOK
<1>2. CASE \E u \in Users : ActivateUser(u)
    BY <1>2, ActivateUserOK
<1>3. CASE \E t \in Tokens : ExpireKey(t)
    BY <1>3, ExpireKeyOK
<1>4. CASE Tick \/ UNCHANGED vars
    BY <1>4, TickOK
<1> QED
    BY <1>1, <1>2, <1>3, <1>4 DEF Next

\* IInv is an invariant: every interleaving of token.rs's refresh, replay and revocation
\* handlers keeps it.
THEOREM Invariance == Spec => []IInv
<1>1. Init => IInv
    BY InitOK
<1>2. IInv /\ [Next]_vars => IInv'
    BY NextOK
<1> QED
    BY <1>1, <1>2, PTL DEF Spec

\* The state of the token endpoint is always well typed.
THEOREM TypeCorrect == Spec => []TypeOK
<1>1. IInv => TypeOK
    BY DEF IInv
<1> QED
    BY <1>1, Invariance, PTL

\* Rotation never forks a family: for any number of users, tokens and concurrent requests, at
\* most one token of a family is live or about to be written (handle_refresh's CAS).
THEOREM RotationNeverForks == Spec => []OneHolder
<1>1. IInv => OneHolder
    BY DEF IInv
<1> QED
    BY <1>1, Invariance, PTL

(***************************************************************************)
(* Rotation implements the abstract family of TokenFamily.                 *)
(***************************************************************************)
\* A family has a live token; a request is rotating it.
HasLive(f) == \E t \in Tokens : Live(t) /\ family[t] = f
HasHolder(f) == \E p \in Procs : Holds(p, f)

\* The refinement mapping.
States == [f \in Tokens |-> FamilyState(f)]

\* This step leaves the state of every family but f alone.
Elsewhere(f) == \A g \in Tokens \ {f} : FamilyState(g)' = FamilyState(g)

\* The states of the families after a step that moves at most family f.
LEMMA OneMoves ==
    ASSUME NEW f \in Tokens, Elsewhere(f)
    PROVE  States' = [States EXCEPT ![f] = FamilyState(f)'] /\ States[f] = FamilyState(f)
BY DEF States, Elsewhere

\* Every step of the specification maps to a step of the abstract family or to none.
LEMMA AbstractStep ==
    ASSUME NEW f \in Tokens, Elsewhere(f),
           \/ FamilyState(f)' = FamilyState(f)
           \/ FamilyState(f) = "none" /\ FamilyState(f)' = "current"
           \/ FamilyState(f) = "current" /\ FamilyState(f)' = "taken"
           \/ FamilyState(f) = "taken" /\ FamilyState(f)' = "current"
           \/ FamilyState(f) \in {"current", "taken"} /\ FamilyState(f)' = "dead"
    PROVE  [TF!Next]_States
<1>1. States' = [States EXCEPT ![f] = FamilyState(f)'] /\ States[f] = FamilyState(f)
    BY OneMoves
<1>2. CASE FamilyState(f)' = FamilyState(f)
    BY <1>1, <1>2 DEF States
<1>3. CASE FamilyState(f) = "none" /\ FamilyState(f)' = "current"
    BY <1>1, <1>3 DEF TF!Next, TF!Grant, TF!Move, States
<1>4. CASE FamilyState(f) = "current" /\ FamilyState(f)' = "taken"
    BY <1>1, <1>4 DEF TF!Next, TF!Take, TF!Move, States
<1>5. CASE FamilyState(f) = "taken" /\ FamilyState(f)' = "current"
    BY <1>1, <1>5 DEF TF!Next, TF!Hand, TF!Move, States
<1>6. CASE FamilyState(f) \in {"current", "taken"} /\ FamilyState(f)' = "dead"
    BY <1>1, <1>6 DEF TF!Next, TF!Die, TF!Move, States
<1> QED
    BY <1>2, <1>3, <1>4, <1>5, <1>6

\* Nothing that makes the state of a family has changed.
LEMMA SameFamilies ==
    ASSUME UNCHANGED <<refresh, family>>, \A q \in Procs : \A f \in Tokens : Holds(q, f)' <=> Holds(q, f)
    PROVE  \A f \in Tokens : FamilyState(f)' = FamilyState(f)
BY DEF FamilyState, Live

\* Then the abstract families stutter.
LEMMA Stutter ==
    ASSUME \A f \in Tokens : FamilyState(f)' = FamilyState(f) PROVE [TF!Next]_States
BY DEF States

\* The state of a family, told by who has its token.
LEMMA StateIs ==
    ASSUME NEW f \in Tokens
    PROVE  FamilyState(f) = IF family[f] # f THEN "none" ELSE IF HasLive(f) THEN "current"
                            ELSE IF HasHolder(f) THEN "taken" ELSE "dead"
BY DEF FamilyState, HasLive, HasHolder

\* A live token makes its family current, and nobody holds the family.
LEMMA LiveFamily ==
    ASSUME IInv, NEW t \in Tokens, Live(t)
    PROVE  /\ family[t] \in Tokens /\ family[family[t]] = family[t] /\ FamilyState(family[t]) = "current"
           /\ \A p \in Procs : ~Holds(p, family[t])
           /\ \A s \in Tokens : Live(s) /\ family[s] = family[t] => s = t
<1>1. family[t] # NoToken /\ family[t] \in Tokens /\ family[family[t]] = family[t]
    BY DEF IInv, EntryOK, Live, FamilyRooted, TypeOK, MaybeToken
<1>2. HasLive(family[t])
    BY DEF HasLive
<1>3. FamilyState(family[t]) = "current"
    BY <1>1, <1>2, StateIs
<1> QED
    BY <1>1, <1>3 DEF IInv, OneHolder

\* A request that holds a family has taken its token, and nobody else has.
LEMMA HeldFamily ==
    ASSUME IInv, NEW p \in Procs, pc[p] \in {"user", "save"}
    PROVE  LET f == family[req[p].tok]
           IN /\ f \in Tokens /\ family[f] = f /\ Holds(p, f) /\ FamilyState(f) = "taken"
              /\ \A q \in Procs : Holds(q, f) => q = p
              /\ ~HasLive(f)
<1> DEFINE f == family[req[p].tok]
<1>1. req[p].tok \in Tokens /\ f # NoToken
    BY DEF IInv, RequestOK
<1>2. f \in Tokens /\ family[f] = f /\ Holds(p, f)
    BY <1>1 DEF IInv, TypeOK, FamilyRooted, MaybeToken, Holds
<1>3. ~HasLive(f) /\ \A q \in Procs : Holds(q, f) => q = p
    BY <1>2 DEF IInv, OneHolder, HasLive
<1>4. HasHolder(f)
    BY <1>2 DEF HasHolder
<1>5. FamilyState(f) = "taken"
    BY <1>2, <1>3, <1>4, StateIs
<1> QED
    BY <1>2, <1>3, <1>5

\* A step that deletes or expires one entry kills the family of a live one.
LEMMA DropKills ==
    ASSUME IInv, NEW t \in Tokens, refresh' = [refresh EXCEPT ![t] = Absent], UNCHANGED family,
           \A q \in Procs : \A f \in Tokens : Holds(q, f)' <=> Holds(q, f)
    PROVE  [TF!Next]_States
<1>1. \A s \in Tokens : Live(s)' <=> Live(s) /\ s # t
    BY DEF IInv, TypeOK, Live, Absent
<1>2. \A g \in Tokens : HasHolder(g)' <=> HasHolder(g)
    BY DEF HasHolder
<1>3. CASE Live(t)
    <2> DEFINE f == family[t]
    <2>1. /\ f \in Tokens /\ family[f] = f /\ FamilyState(f) = "current"
          /\ ~HasHolder(f) /\ \A s \in Tokens : Live(s) /\ family[s] = f => s = t
        BY <1>3, LiveFamily DEF HasHolder
    <2>2. ~HasLive(f)' /\ \A g \in Tokens \ {f} : HasLive(g)' <=> HasLive(g)
        BY <1>1, <2>1 DEF HasLive
    <2>3. FamilyState(f)' = "dead"
        BY <1>2, <2>1, <2>2 DEF FamilyState, HasLive, HasHolder
    <2>4. Elsewhere(f)
        BY <1>2, <2>2 DEF Elsewhere, FamilyState, HasLive, HasHolder
    <2> QED
        BY <2>1, <2>3, <2>4, AbstractStep
<1>4. CASE ~Live(t)
    <2>1. \A g \in Tokens : HasLive(g)' <=> HasLive(g)
        BY <1>1, <1>4 DEF HasLive
    <2>2. \A g \in Tokens : FamilyState(g)' = FamilyState(g)
        BY <1>2, <2>1 DEF FamilyState, HasLive, HasHolder
    <2> QED
        BY <2>2, Stutter
<1> QED
    BY <1>3, <1>4

\* A request that neither takes a family nor lets one go.
LEMMA NoHolding ==
    ASSUME TypeOK, NEW p \in Procs, UNCHANGED family,
           \A q \in Procs \ {p} : pc'[q] = pc[q] /\ req'[q] = req[q],
           \/ pc[p] \notin {"user", "save"} /\ pc'[p] \notin {"user", "save"}
           \/ pc[p] = "user" /\ pc'[p] = "save" /\ req'[p] = req[p]
    PROVE  \A q \in Procs : \A f \in Tokens : Holds(q, f)' <=> Holds(q, f)
BY DEF Holds

\* A request that gives up the family it holds kills it.
LEMMA ReleaseKills ==
    ASSUME IInv, NEW p \in Procs, UNCHANGED <<refresh, family>>, pc'[p] \notin {"user", "save"},
           \A q \in Procs \ {p} : pc'[q] = pc[q] /\ req'[q] = req[q]
    PROVE  [TF!Next]_States
<1>1. \A g \in Tokens : HasLive(g)' <=> HasLive(g)
    BY DEF HasLive, Live
<1>2. CASE pc[p] \in {"user", "save"}
    <2>1. PICK f \in Tokens :
             /\ f = family[req[p].tok] /\ family[f] = f /\ FamilyState(f) = "taken"
             /\ (\A q \in Procs : Holds(q, f) => q = p) /\ ~HasLive(f)
        BY <1>2, HeldFamily
    <2>2. \A g \in Tokens : HasHolder(g)' <=> HasHolder(g) /\ g # f
        BY <1>2, <2>1 DEF HasHolder, Holds
    <2>3. FamilyState(f)' = "dead"
        BY <1>1, <2>1, <2>2 DEF FamilyState, HasLive, HasHolder
    <2>4. Elsewhere(f)
        BY <1>1, <2>2 DEF Elsewhere, FamilyState, HasLive, HasHolder
    <2> QED
        BY <2>1, <2>3, <2>4, AbstractStep
<1>3. CASE pc[p] \notin {"user", "save"}
    <2>1. \A q \in Procs : \A f \in Tokens : Holds(q, f)' <=> Holds(q, f)
        BY <1>3, NoHolding DEF IInv
    <2> QED
        BY <2>1, SameFamilies, Stutter
<1> QED
    BY <1>2, <1>3

\* The CAS takes the token of a current family.
LEMMA ConsumeTakes == ASSUME IInv, NEW p \in Procs, Consume(p) PROVE [TF!Next]_States
<1> DEFINE t == req[p].tok
<1>1. TypeOK /\ t \in Tokens /\ Live(t) /\ UNCHANGED family
    <2>1. TypeOK /\ t \in Tokens /\ req[p].rev = 1
        BY DEF IInv, RequestOK, Consume, At
    <2> QED
        BY <2>1 DEF IInv, EntryOK, Consume, RevisionMatches, history
<1>2. PICK f \in Tokens :
         /\ f = family[t] /\ family[f] = f /\ FamilyState(f) = "current"
         /\ (\A q \in Procs : ~Holds(q, f)) /\ \A s \in Tokens : Live(s) /\ family[s] = f => s = t
    BY <1>1, LiveFamily
<1>3. pc'[p] = "user" /\ req' = req /\ \A q \in Procs \ {p} : pc'[q] = pc[q]
    BY <1>1, KeepsLocals DEF Consume, GotoWith, TypeOK
<1>4. \A s \in Tokens : Live(s)' <=> Live(s) /\ s # t
    BY <1>1 DEF Consume, Consumed, Live, TypeOK
<1>5. ~HasLive(f)' /\ \A g \in Tokens \ {f} : HasLive(g)' <=> HasLive(g)
    BY <1>1, <1>2, <1>4 DEF HasLive
<1>6. HasHolder(f)' /\ \A g \in Tokens \ {f} : HasHolder(g)' <=> HasHolder(g)
    <2>1. pc[p] = "consume"
        BY DEF Consume, At
    <2> QED
        BY <1>1, <1>2, <1>3, <2>1 DEF HasHolder, Holds
<1>7. FamilyState(f)' = "taken"
    BY <1>1, <1>2, <1>5, <1>6 DEF FamilyState, HasLive, HasHolder
<1>8. Elsewhere(f)
    BY <1>1, <1>5, <1>6 DEF Elsewhere, FamilyState, HasLive, HasHolder
<1> QED
    BY <1>2, <1>7, <1>8, AbstractStep

\* Writing token n into family f, which p holds or n founds, makes f current.
LEMMA SaveHands ==
    ASSUME IInv, NEW p \in Procs, NEW n \in Tokens, NEW f \in Tokens, NEW e,
           family[n] = NoToken, e.st = "live",
           \/ f = n /\ pc[p] \notin {"user", "save"}
           \/ pc[p] \in {"user", "save"} /\ f = family[req[p].tok],
           refresh' = [refresh EXCEPT ![n] = e], family' = [family EXCEPT ![n] = f],
           pc'[p] = "index", \A q \in Procs \ {p} : pc'[q] = pc[q] /\ req'[q] = req[q]
    PROVE  [TF!Next]_States
<1>1. TypeOK /\ n # NoToken
    BY NoValueAssumption DEF IInv
<1>2. /\ family'[n] = f /\ Live(n)' /\ ~Live(n)
      /\ \A t \in Tokens \ {n} : family'[t] = family[t] /\ (Live(t)' <=> Live(t))
    BY <1>1 DEF TypeOK, Live, IInv, EntryOK
<1>3. f # n => family[f] = f
    BY HeldFamily
<1>4. family'[f] = f /\ HasLive(f)' /\ FamilyState(f)' = "current"
    BY <1>2, <1>3 DEF HasLive, FamilyState
<1>5. \A g \in Tokens \ {f} : HasLive(g)' <=> HasLive(g)
    BY <1>2 DEF HasLive
<1>6. ASSUME NEW q \in Procs \ {p}, NEW g \in Tokens PROVE Holds(q, g)' <=> Holds(q, g)
    <2>1. pc[q] \in {"user", "save"} => req[q].tok \in Tokens \ {n}
        BY DEF IInv, RequestOK
    <2> QED
        BY <1>2, <2>1 DEF Holds
<1>7. \A g \in Tokens \ {f} : HasHolder(g)' <=> HasHolder(g)
    <2>1. \A g \in Tokens \ {f} : ~Holds(p, g) /\ ~Holds(p, g)'
        BY DEF Holds
    <2> QED
        BY <1>6, <2>1 DEF HasHolder
<1>8. Elsewhere(f)
    <2> SUFFICES ASSUME NEW g \in Tokens \ {f} PROVE FamilyState(g)' = FamilyState(g)
        BY DEF Elsewhere
    <2>1. CASE g = n
        BY <1>1, <1>2, <2>1 DEF FamilyState
    <2>2. CASE g # n
        BY <1>2, <1>5, <1>7, <2>2 DEF FamilyState, HasLive, HasHolder
    <2> QED
        BY <2>1, <2>2
<1>9. FamilyState(f) = "none" \/ FamilyState(f) = "taken"
    <2>1. CASE f = n
        BY <1>1, <2>1 DEF FamilyState
    <2>2. CASE f # n
        BY <2>2, HeldFamily
    <2> QED
        BY <2>1, <2>2
<1> QED
    BY <1>4, <1>8, <1>9, AbstractStep

\* What a step that names the next label and the next locals does to the control.
LEMMA Moves ==
    ASSUME TypeOK, NEW p \in Procs, NEW label,
           Goto(p, label) \/ (\E r : GotoWith(p, label, r))
    PROVE  pc'[p] = label /\ \A q \in Procs \ {p} : pc'[q] = pc[q] /\ req'[q] = req[q]
BY DEF Goto, GotoWith, TypeOK

\* A request that goes on to a step at which it holds no family.
LEMMA GoesOn ==
    ASSUME IInv, NEW p \in Procs, NEW label, label \notin {"user", "save"}, UNCHANGED <<refresh, family>>,
           Goto(p, label) \/ (\E r : GotoWith(p, label, r))
    PROVE  [TF!Next]_States
<1>1. pc'[p] = label /\ \A q \in Procs \ {p} : pc'[q] = pc[q] /\ req'[q] = req[q]
    BY Moves DEF IInv
<1> QED
    BY <1>1, ReleaseKills

\* Each step of a request is a step of at most one family.
LEMMA HandlerRefines == ASSUME IInv, NEW p \in Procs, Handler(p) PROVE [TF!Next]_States
<1>1. TypeOK /\ RequestOK(p)
    BY DEF IInv
<1>2. ASSUME NEW u \in Users, BeginGrant(p, u) \/ DisableUser(p, u) PROVE [TF!Next]_States
    <2>1. UNCHANGED <<refresh, family>>
        BY <1>2 DEF BeginGrant, DisableUser, kv, history
    <2>2. (\E r : GotoWith(p, "grant", r)) \/ (\E r : GotoWith(p, "list", r))
        BY <1>2 DEF BeginGrant, DisableUser
    <2> QED
        BY <2>1, <2>2, GoesOn
<1>3. ASSUME NEW u \in Users, NEW why, BeginSweep(p, u, why) PROVE [TF!Next]_States
    <2>1. UNCHANGED <<refresh, family>>
        BY <1>3 DEF BeginSweep, kv, history
    <2>2. \E r : GotoWith(p, "list", r)
        BY <1>3 DEF BeginSweep
    <2> QED
        BY <2>1, <2>2, GoesOn
<1>4. ASSUME NEW t \in Tokens, PresentRefresh(p, t) \/ BeginRevoke(p, t) PROVE [TF!Next]_States
    <2>1. UNCHANGED <<refresh, family>>
        BY <1>4 DEF PresentRefresh, BeginRevoke, kv, history
    <2>2. (\E r : GotoWith(p, "consume", r)) \/ (\E r : GotoWith(p, "forget", r))
          \/ (\E r : GotoWith(p, "marker", r))
        BY <1>4 DEF PresentRefresh, BeginRevoke
    <2> QED
        BY <2>1, <2>2, GoesOn
<1>5. ASSUME NEW t \in Tokens, SaveGranted(p, t) PROVE [TF!Next]_States
    <2>1. pc'[p] = "index" /\ (\A q \in Procs \ {p} : pc'[q] = pc[q] /\ req'[q] = req[q])
          /\ pc[p] = "grant"
        BY <1>1, <1>5, Moves DEF SaveGranted, At
    <2>2. LiveEntry(req[p].user, now, now + IdleTTL).st = "live"
        BY DEF LiveEntry
    <2> QED
        BY <1>5, <2>1, <2>2, SaveHands DEF SaveGranted
<1>6. ASSUME NEW t \in Tokens, SaveRotated(p, t) PROVE [TF!Next]_States
    <2> DEFINE r == req[p]
               e == LiveEntry(r.user, FamilyIssuedAt(r), Min2(r.at + IdleTTL, FamilyIssuedAt(r) + AbsMax))
    <2>1. pc'[p] = "index" /\ (\A q \in Procs \ {p} : pc'[q] = pc[q] /\ req'[q] = req[q])
          /\ pc[p] = "save"
        BY <1>1, <1>6, Moves DEF SaveRotated, At
    <2>2. e.st = "live"
        BY DEF LiveEntry
    <2>3. family[req[p].tok] \in Tokens
        BY <2>1, HeldFamily
    <2>4. refresh' = [refresh EXCEPT ![t] = e] /\ family[t] = NoToken
          /\ family' = [family EXCEPT ![t] = family[req[p].tok]]
        BY <1>6 DEF SaveRotated
    <2> HIDE DEF e
    <2> QED
        BY <2>1, <2>2, <2>3, <2>4, SaveHands
<1>7. ASSUME NEW t \in Tokens, SweepEntry(p, t) PROVE [TF!Next]_States
    <2>1. pc'[p] = "unindex" /\ (\A q \in Procs \ {p} : pc'[q] = pc[q] /\ req'[q] = req[q])
          /\ pc[p] = "sweep"
        BY <1>1, <1>7, Moves DEF SweepEntry, At
    <2>2. refresh' = [refresh EXCEPT ![t] = Absent] /\ UNCHANGED family
        BY <1>7 DEF SweepEntry, history
    <2>3. \A q \in Procs : \A f \in Tokens : Holds(q, f)' <=> Holds(q, f)
        BY <1>1, <2>1, <2>2, NoHolding
    <2> QED
        BY <2>2, <2>3, DropKills
<1>8. CASE EraseToken(p)
    <2>1. pc'[p] = "idle" /\ (\A q \in Procs \ {p} : pc'[q] = pc[q] /\ req'[q] = req[q])
          /\ pc[p] = "erase"
        BY <1>1, <1>8, Moves DEF EraseToken, At, Finish
    <2>2. refresh' = [refresh EXCEPT ![req[p].tok] = Absent] /\ UNCHANGED family
        BY <1>8 DEF EraseToken
    <2>3. \A q \in Procs : \A f \in Tokens : Holds(q, f)' <=> Holds(q, f)
        BY <1>1, <2>1, <2>2, NoHolding
    <2>4. CASE req[p].tok \in Tokens
        BY <2>2, <2>3, <2>4, DropKills
    <2>5. CASE req[p].tok \notin Tokens
        <3>1. refresh' = refresh
            BY <1>1, <2>2, <2>5 DEF TypeOK
        <3> QED
            BY <2>2, <2>3, <3>1, SameFamilies, Stutter
    <2> QED
        BY <2>4, <2>5
<1>9. CASE Consume(p)
    BY <1>9, ConsumeTakes
<1>10. CASE LoadUser(p)
    <2>1. pc[p] = "user" /\ UNCHANGED <<refresh, family>>
        BY <1>10 DEF LoadUser, At, kv, history
    <2>2. CASE Goto(p, "save")
        <3>1. pc'[p] = "save" /\ req'[p] = req[p] /\ \A q \in Procs \ {p} : pc'[q] = pc[q] /\ req'[q] = req[q]
            BY <1>1, <2>2, KeepsLocals, MovesOne
        <3>2. \A q \in Procs : \A f \in Tokens : Holds(q, f)' <=> Holds(q, f)
            BY <1>1, <2>1, <3>1, NoHolding
        <3> QED
            BY <2>1, <3>2, SameFamilies, Stutter
    <2>3. CASE GotoWith(p, "list", Sweep(req[p].user, NoToken)) \/ Finish(p)
        <3>1. (\E r : GotoWith(p, "list", r)) \/ (\E r : GotoWith(p, "idle", r))
            BY <2>3 DEF Finish
        <3> QED
            BY <2>1, <3>1, GoesOn
    <2> QED
        BY <1>10, <2>2, <2>3 DEF LoadUser
<1>11. CASE ConsumeConflict(p) \/ Crash(p)
    <2>1. UNCHANGED <<refresh, family>> /\ \E r : GotoWith(p, "idle", r)
        BY <1>11 DEF ConsumeConflict, Crash, Finish, kv, history
    <2> QED
        BY <2>1, GoesOn
<1>12. CASE IndexToken(p) \/ RetireToken(p) \/ ForgetIndex(p)
    <2>1. UNCHANGED <<refresh, family>>
        BY <1>12 DEF IndexToken, RetireToken, ForgetIndex, history
    <2>2. \/ (\E r : GotoWith(p, "idle", r)) \/ (\E r : GotoWith(p, "forget", r))
          \/ Goto(p, "retire") \/ Goto(p, "erase")
        BY <1>12 DEF IndexToken, RetireToken, ForgetIndex, Finish
    <2> QED
        BY <2>1, <2>2, GoesOn
<1>13. CASE ReadMarker(p) \/ ReadEntry(p) \/ RevokeUser(p) \/ ListTokens(p)
    <2>1. UNCHANGED <<refresh, family>>
        BY <1>13 DEF ReadMarker, ReadEntry, RevokeUser, ListTokens, kv, history
    <2>2. \/ (\E r : GotoWith(p, "revoke", r)) \/ Goto(p, "entry")
          \/ (\E r : GotoWith(p, "idle", r)) \/ (\E r : GotoWith(p, "list", r))
          \/ (\E r : GotoWith(p, "sweep", r))
        BY <1>13 DEF ReadMarker, ReadEntry, RevokeUser, ListTokens, Finish
    <2> QED
        BY <2>1, <2>2, GoesOn
<1>14. CASE SweepIndex(p) \/ FinishSweep(p) \/ EraseUser(p)
    <2>1. UNCHANGED <<refresh, family>>
        BY <1>14 DEF SweepIndex, FinishSweep, EraseUser, history
    <2>2. \/ (\E r : GotoWith(p, "sweep", r)) \/ Goto(p, "erase_user")
          \/ (\E r : GotoWith(p, "idle", r))
        BY <1>14 DEF SweepIndex, FinishSweep, EraseUser, Finish
    <2> QED
        BY <2>1, <2>2, GoesOn
<1> QED
    BY <1>2, <1>3, <1>4, <1>5, <1>6, <1>7, <1>8, <1>9, <1>10, <1>11, <1>12, <1>13, <1>14 DEF Handler

\* Each step of the system is a step of at most one family.
LEMMA NextRefines == IInv /\ [Next]_vars => [TF!Next]_States
<1> SUFFICES ASSUME IInv, [Next]_vars PROVE [TF!Next]_States
    OBVIOUS
<1>1. CASE \E p \in Procs : Handler(p)
    BY <1>1, HandlerRefines
<1>2. ASSUME NEW t \in Tokens, ExpireKey(t) PROVE [TF!Next]_States
    <2>1. UNCHANGED family /\ \A q \in Procs : \A f \in Tokens : Holds(q, f)' <=> Holds(q, f)
        BY <1>2 DEF ExpireKey, Holds, history
    <2> QED
        BY <1>2, <2>1, DropKills, SameFamilies, Stutter DEF ExpireKey
<1>3. CASE (\E u \in Users : ActivateUser(u)) \/ Tick \/ UNCHANGED vars
    <2>1. UNCHANGED <<refresh, family, pc, req>>
        BY <1>3 DEF ActivateUser, Tick, vars, kv, history
    <2>2. \A q \in Procs : \A f \in Tokens : Holds(q, f)' <=> Holds(q, f)
        BY <2>1 DEF Holds
    <2> QED
        BY <2>1, <2>2, SameFamilies, Stutter
<1> QED
    BY <1>1, <1>2, <1>3 DEF Next

\* With no token generated, every abstract family is yet to be granted.
LEMMA InitRefines == Init => TF!Init
BY NoValueAssumption DEF Init, TF!Init, FamilyState

\* token.rs at the grain of single store operations implements TokenFamily: no interleaving of
\* refreshes, replays, revocations, crashes and expiries revives a dead family or gives it a
\* second usable token, for any number of users, tokens and requests.
THEOREM RefinesTokenFamily == Spec => ImplementsTokenFamily
<1>1. Init => TF!Init
    BY InitRefines
<1>2. IInv /\ [Next]_vars => [TF!Next]_States
    BY NextRefines
<1> QED
    BY <1>1, <1>2, Invariance, PTL DEF Spec, ImplementsTokenFamily, TF!Spec, States

(***************************************************************************)
(* What the history says: lifetimes, replays and the index.                *)
(***************************************************************************)
Generated(t) == family[t] # NoToken

\* delete_user_refresh_tokens would find t if it is still accepted.
Findable(t) == Live(t) /\ Unexpired(t) /\ t \notin revoking => <<refresh[t].user, t>> \in idx

\* Presenting t is recognised as a replay, or its marker has had its time.
Marked(t) == marker[t].user # NoUser \/ (0 < marker[t].until /\ marker[t].until <= now)

\* The request has generated a token that the client does not hold yet.
Carries(p) == \/ pc[p] \in {"index", "retire"}
              \/ pc[p] \in {"forget", "erase"} /\ req[p].why = "rotate"

\* What a request knows of the history of its token ...
OldTokenOK(p) ==
    LET r == req[p] IN
    /\ pc[p] \in {"consume", "user", "save"} => r.issued = birth[family[r.tok]]
    /\ pc[p] = "consume" => r.at <= r.issued + AbsMax
    /\ pc[p] \in {"user", "save", "retire"} => ~Live(r.tok)
    /\ pc[p] = "index" /\ r.tok # NoToken => ~Live(r.tok)
    /\ pc[p] \in {"forget", "erase"} => r.tok \in Tokens /\ Generated(r.tok)
    /\ pc[p] = "forget" /\ Live(r.tok) => ~Unexpired(r.tok) \/ r.tok \in revoking

\* ... of the token it generated ...
NewTokenOK(p) ==
    LET r == req[p] IN
    /\ Carries(p) => /\ r.new \in Tokens /\ Generated(r.new) /\ r.new \notin handed
                     /\ parent[r.new] = r.tok
    /\ pc[p] = "index" /\ Live(r.new) => refresh[r.new].user = r.user
    /\ Carries(p) /\ pc[p] # "index" => Findable(r.new)
    /\ Carries(p) /\ pc[p] \in {"forget", "erase"} => Marked(r.tok)

\* ... and of the tokens it sweeps.
SweepOK(p) ==
    /\ pc[p] \in {"sweep", "unindex"} => \A t \in req[p].list : Generated(t)
    /\ pc[p] = "unindex" => req[p].new \in Tokens /\ Generated(req[p].new) /\ ~Live(req[p].new)

TokenOK(t) ==
    /\ ~Generated(t) => parent[t] = NoToken /\ t \notin handed /\ \A u \in Users : <<u, t>> \notin idx
    /\ Live(t) => refresh[t].issued = birth[family[t]]
    /\ t \in handed => Findable(t) /\ (parent[t] # NoToken => Marked(parent[t]))
    /\ marker[t].user # NoUser => marker[t].until > 0

OneCarrier == \A p, q \in Procs : Carries(p) /\ Carries(q) /\ req[p].new = req[q].new => p = q

HInv ==
    /\ IInv
    /\ now > 0
    /\ \A p \in Procs : OldTokenOK(p) /\ NewTokenOK(p) /\ SweepOK(p)
    /\ \A t \in Tokens : TokenOK(t)
    /\ OneCarrier

\* This step only adds to the history, revives no token, takes back no mark and takes from the
\* index only tokens that are dead, expired or being revoked.
Grows ==
    /\ now <= now' /\ revoking \subseteq revoking'
    /\ \A t \in Tokens : Generated(t) =>
          /\ family'[t] = family[t] /\ parent'[t] = parent[t] /\ birth'[t] = birth[t]
          /\ Live(t)' => Live(t) /\ refresh'[t] = refresh[t]
    /\ \A t \in Tokens : Marked(t) => Marked(t)'
    /\ \A u \in Users, t \in Tokens :
          <<u, t>> \in idx /\ Live(t) /\ Unexpired(t) /\ t \notin revoking => <<u, t>> \in idx'

\* What the step says of one token that was generated before it.
LEMMA TokenKeeps ==
    ASSUME HInv, IInv', Grows, NEW t \in Tokens, Generated(t)
    PROVE  /\ Generated(t)' /\ family'[t] = family[t] /\ parent'[t] = parent[t]
           /\ family[t] \in Tokens /\ birth'[family'[t]] = birth[family[t]]
           /\ Live(t)' => Live(t) /\ refresh'[t] = refresh[t]
           /\ Unexpired(t)' /\ Live(t)' => Unexpired(t)
           /\ Findable(t) => Findable(t)'
<1>1. /\ Generated(t)' /\ family'[t] = family[t] /\ parent'[t] = parent[t]
      /\ Live(t)' => Live(t) /\ refresh'[t] = refresh[t]
    BY DEF Grows, Generated
<1>2. family[t] \in Tokens /\ Generated(family[t])
    BY DEF HInv, IInv, FamilyRooted, Generated, TypeOK, MaybeToken
<1>3. birth'[family'[t]] = birth[family[t]]
    BY <1>1, <1>2 DEF Grows
<1>4. Unexpired(t)' /\ Live(t)' => Unexpired(t)
    <2>1. now \in Nat /\ now' \in Nat /\ now <= now'
          /\ refresh[t].expires \in Nat /\ refresh[t].issued \in Nat /\ AbsMax \in Nat
        BY TimeAssumption DEF HInv, IInv, TypeOK, Entry, Grows
    <2> QED
        BY <1>1, <2>1 DEF Unexpired
<1>5. Findable(t) => Findable(t)'
    <2>1. Live(t) => refresh[t].user \in Users
        BY DEF HInv, IInv, EntryOK
    <2> QED
        BY <1>1, <1>4, <2>1 DEF Findable, Grows
<1> QED
    BY <1>1, <1>2, <1>3, <1>4, <1>5

\* Requests that do not move keep what they know of the history.
LEMMA OthersRemember ==
    ASSUME HInv, IInv', Grows, NEW q \in Procs, pc'[q] = pc[q], req'[q] = req[q],
           Carries(q) => req[q].new \notin handed'
    PROVE  OldTokenOK(q)' /\ NewTokenOK(q)' /\ SweepOK(q)' /\ (Carries(q)' <=> Carries(q))
<1> DEFINE r == req[q]
<1>1. OldTokenOK(q) /\ NewTokenOK(q) /\ SweepOK(q) /\ RequestOK(q) /\ TypeOK /\ r \in Request
    BY DEF HInv, IInv, TypeOK
<1>2. Carries(q)' <=> Carries(q)
    BY DEF Carries
<1>3. OldTokenOK(q)'
    <2>1. ASSUME pc[q] \in {"consume", "user", "save", "retire", "forget", "erase"} \/ (pc[q] = "index" /\ r.tok # NoToken)
          PROVE  /\ r.tok \in Tokens /\ Generated(r.tok)
        BY <1>1, <2>1 DEF RequestOK, OldTokenOK, Generated, Request, MaybeToken
    <2>2. pc[q] \in {"consume", "user", "save"} => r.issued = birth'[family'[r.tok]]
        BY <1>1, <2>1, TokenKeeps DEF OldTokenOK
    <2>3. pc[q] \in {"user", "save", "retire"} \/ (pc[q] = "index" /\ r.tok # NoToken) => ~Live(r.tok)'
        BY <1>1, <2>1, TokenKeeps DEF OldTokenOK
    <2>4. pc[q] \in {"forget", "erase"} => r.tok \in Tokens /\ Generated(r.tok)'
        BY <2>1, TokenKeeps
    <2>5. pc[q] = "forget" /\ Live(r.tok)' => ~Unexpired(r.tok)' \/ r.tok \in revoking'
        BY <1>1, <2>1, TokenKeeps DEF OldTokenOK, Grows
    <2> QED
        BY <1>1, <2>2, <2>3, <2>4, <2>5 DEF OldTokenOK, Live, Generated, Unexpired
<1>4. NewTokenOK(q)'
    <2>1. CASE ~Carries(q)
        BY <1>2, <2>1 DEF NewTokenOK, Carries
    <2>2. CASE Carries(q)
        <3>1. r.new \in Tokens /\ Generated(r.new)
            BY <1>1, <2>2 DEF NewTokenOK
        <3>2. Generated(r.new)' /\ parent'[r.new] = r.tok
            BY <1>1, <2>2, <3>1, TokenKeeps DEF NewTokenOK
        <3>3. pc[q] = "index" /\ Live(r.new)' => refresh'[r.new].user = r.user
            BY <1>1, <3>1, TokenKeeps DEF NewTokenOK
        <3>4. pc[q] # "index" => Findable(r.new)'
            BY <1>1, <2>2, <3>1, TokenKeeps DEF NewTokenOK
        <3>5. pc[q] \in {"forget", "erase"} => Marked(r.tok)'
            BY <1>1, <2>2 DEF OldTokenOK, NewTokenOK, Grows
        <3> QED
            BY <1>2, <2>2, <3>1, <3>2, <3>3, <3>4, <3>5 DEF NewTokenOK, Live, Generated, Findable, Marked, Unexpired
    <2> QED
        BY <2>1, <2>2
<1>5. SweepOK(q)'
    <2>1. r.list \subseteq Tokens
        BY <1>1 DEF Request
    <2>2. pc[q] \in {"sweep", "unindex"} => \A t \in r.list : Generated(t)'
        BY <1>1, <2>1, TokenKeeps DEF SweepOK
    <2>3. pc[q] = "unindex" => r.new \in Tokens /\ Generated(r.new)' /\ ~Live(r.new)'
        BY <1>1, TokenKeeps DEF SweepOK
    <2> QED
        BY <2>2, <2>3 DEF SweepOK, Generated, Live
<1> QED
    BY <1>2, <1>3, <1>4, <1>5

\* Steps that generate no token keep what is known of the tokens.
LEMMA TokensRemember ==
    ASSUME HInv, IInv', Grows, UNCHANGED <<family, parent, birth>>,
           \A u \in Users, t \in Tokens : <<u, t>> \in idx' => <<u, t>> \in idx \/ Generated(t),
           \A t \in Tokens : marker'[t].user # NoUser => marker'[t].until > 0,
           \A t \in handed' \ handed : Generated(t) /\ Findable(t)' /\ (parent[t] # NoToken => Marked(parent[t])')
    PROVE  \A t \in Tokens : TokenOK(t)'
<1> SUFFICES ASSUME NEW t \in Tokens PROVE TokenOK(t)'
    OBVIOUS
<1>1. TokenOK(t) /\ TypeOK
    BY DEF HInv, IInv
<1>2. CASE ~Generated(t)
    <2>1. ~Live(t)'
        BY <1>2 DEF IInv, EntryOK, Live, Generated
    <2> QED
        BY <1>1, <1>2, <2>1 DEF TokenOK, Generated
<1>3. CASE Generated(t)
    <2>1. Live(t)' => refresh'[t].issued = birth'[family'[t]]
        BY <1>1, <1>3, TokenKeeps DEF TokenOK
    <2>2. t \in handed => Findable(t)' /\ (parent[t] # NoToken => Marked(parent[t])')
        <3>1. parent[t] \in MaybeToken
            BY <1>1 DEF TypeOK
        <3>2. parent[t] # NoToken /\ Marked(parent[t]) => Marked(parent[t])'
            BY <3>1 DEF Grows, MaybeToken, Marked
        <3> QED
            BY <1>1, <1>3, <3>2, TokenKeeps DEF TokenOK
    <2> QED
        BY <1>3, <2>1, <2>2 DEF TokenOK, Generated
<1> QED
    BY <1>2, <1>3

\* The step of one request that generates no token.
LEMMA Remember ==
    ASSUME HInv, IInv', Grows, UNCHANGED <<family, parent, birth>>,
           NEW p \in Procs, NEW label, NEW r, GotoWith(p, label, r),
           \A u \in Users, t \in Tokens : <<u, t>> \in idx' => <<u, t>> \in idx \/ Generated(t),
           \A t \in Tokens : marker'[t].user # NoUser => marker'[t].until > 0,
           \/ UNCHANGED handed
           \/ \E n, t : /\ n = req[p].new /\ t = req[p].tok /\ Carries(p) /\ label = "idle"
                        /\ handed' = handed \cup {n} /\ Findable(n)' /\ (t # NoToken => Marked(t)'),
           OldTokenOK(p)', NewTokenOK(p)', SweepOK(p)',
           Carries(p)' => Carries(p) /\ r.new = req[p].new
    PROVE  HInv'
<1>1. /\ pc'[p] = label /\ req'[p] = r
      /\ \A q \in Procs \ {p} : pc'[q] = pc[q] /\ req'[q] = req[q]
    BY MovesOne DEF HInv, IInv
<1>2. now' > 0
    <2>1. now \in Nat /\ now' \in Nat
        BY DEF HInv, IInv, TypeOK
    <2> QED
        BY <2>1 DEF HInv, Grows
<1>3. Carries(p) => req[p].new \in Tokens /\ Generated(req[p].new) /\ parent[req[p].new] = req[p].tok
    BY DEF HInv, NewTokenOK
<1>4. ASSUME NEW q \in Procs \ {p}
      PROVE  OldTokenOK(q)' /\ NewTokenOK(q)' /\ SweepOK(q)' /\ (Carries(q)' <=> Carries(q))
    <2>1. Carries(q) => req[q].new \notin handed'
        BY DEF HInv, NewTokenOK, OneCarrier
    <2> QED
        BY <1>1, <2>1, OthersRemember
<1>5. \A t \in Tokens : TokenOK(t)'
    <2>1. \A t \in handed' \ handed :
             Generated(t) /\ Findable(t)' /\ (parent[t] # NoToken => Marked(parent[t])')
        <3> SUFFICES ASSUME NEW t \in handed' \ handed
                     PROVE  Generated(t) /\ Findable(t)' /\ (parent[t] # NoToken => Marked(parent[t])')
            OBVIOUS
        <3>1. PICK k : /\ t = req[p].new /\ k = req[p].tok /\ Carries(p)
                       /\ Findable(t)' /\ (k # NoToken => Marked(k)')
            OBVIOUS
        <3>2. Generated(t) /\ parent[t] = k
            BY <1>3, <3>1
        <3> QED
            BY <3>1, <3>2 DEF Marked
    <2> QED
        BY <2>1, TokensRemember
<1>6. OneCarrier'
    BY <1>1, <1>4 DEF HInv, OneCarrier
<1> QED
    BY <1>2, <1>4, <1>5, <1>6 DEF HInv

\* Steps that change neither the tables of tokens nor their index.
LEMMA QuietGrows ==
    ASSUME HInv, UNCHANGED <<now, refresh, idx, marker, family, parent, birth>>, revoking \subseteq revoking'
    PROVE  Grows /\ \A t \in Tokens : marker'[t].user # NoUser => marker'[t].until > 0
<1>1. now \in Nat
    BY DEF HInv, IInv, TypeOK
<1>2. Grows
    BY <1>1 DEF Grows, Live, Marked
<1> QED
    BY <1>2 DEF HInv, TokenOK

\* Steps that drop entries.
LEMMA DropGrows ==
    ASSUME HInv, UNCHANGED <<now, idx, marker, family, parent, birth, revoking>>, EntriesDrop
    PROVE  Grows /\ \A t \in Tokens : marker'[t].user # NoUser => marker'[t].until > 0
<1>1. now \in Nat
    BY DEF HInv, IInv, TypeOK
<1>2. \A t \in Tokens : Live(t)' => Live(t) /\ refresh'[t] = refresh[t]
    BY DEF EntriesDrop, Live, Absent
<1>3. Grows
    BY <1>1, <1>2 DEF Grows, Marked
<1> QED
    BY <1>3 DEF HInv, TokenOK

\* At these steps a request needs nothing from the history.
Forgetful == {"idle", "grant", "marker", "entry", "revoke", "list", "erase_user"}

\* Whatever the tables hold.
LEMMA ForgetfulOK ==
    ASSUME NEW p \in Procs, pc'[p] \in Forgetful
    PROVE  OldTokenOK(p)' /\ NewTokenOK(p)' /\ SweepOK(p)' /\ ~Carries(p)'
BY DEF Forgetful, OldTokenOK, NewTokenOK, SweepOK, Carries

\* A request that goes on to such a step without touching the tables of tokens.
LEMMA Quiet ==
    ASSUME HInv, IInv', NEW p \in Procs, NEW label \in Forgetful, NEW r, GotoWith(p, label, r),
           UNCHANGED <<now, refresh, idx, marker, family, parent, birth, handed, revoking>>
    PROVE  HInv'
<1>1. pc'[p] \in Forgetful
    BY MovesOne DEF HInv, IInv
<1>2. OldTokenOK(p)' /\ NewTokenOK(p)' /\ SweepOK(p)' /\ ~Carries(p)'
    BY <1>1, ForgetfulOK
<1>3. Grows /\ \A t \in Tokens : marker'[t].user # NoUser => marker'[t].until > 0
    BY QuietGrows
<1> QED
    BY <1>2, <1>3, Remember

\* A request that ends, or goes on without its token: no table of tokens is touched.
LEMMA QuietOK ==
    ASSUME HInv, IInv', NEW p \in Procs,
           \/ \E u \in Users : BeginGrant(p, u) \/ DisableUser(p, u)
           \/ \E u \in Users, why \in {"", "delete"} : BeginSweep(p, u, why)
           \/ ConsumeConflict(p) \/ Crash(p) \/ ReadMarker(p) \/ ReadEntry(p) \/ RevokeUser(p)
           \/ FinishSweep(p) \/ EraseUser(p)
    PROVE  HInv'
<1>1. TypeOK
    BY DEF HInv, IInv
<1>2. UNCHANGED <<now, refresh, idx, marker, family, parent, birth, handed, revoking>>
    BY DEF BeginGrant, DisableUser, BeginSweep, ConsumeConflict, Crash, ReadMarker, ReadEntry, RevokeUser,
           FinishSweep, EraseUser, kv, history
<1>3. \/ (\E r : GotoWith(p, "idle", r)) \/ (\E r : GotoWith(p, "grant", r)) \/ (\E r : GotoWith(p, "list", r))
      \/ (\E r : GotoWith(p, "revoke", r)) \/ Goto(p, "entry")
      \/ Goto(p, "erase_user")
    BY DEF BeginGrant, DisableUser, BeginSweep, ConsumeConflict, Crash, ReadMarker, ReadEntry, RevokeUser,
           FinishSweep, EraseUser, Finish
<1>4. \A label : Goto(p, label) => GotoWith(p, label, req[p])
    BY <1>1, KeepsLocals
<1>5. \E label \in Forgetful : \E r : GotoWith(p, label, r)
    BY <1>3, <1>4 DEF Forgetful
<1> QED
    BY <1>2, <1>5, Quiet

\* The index and the hands of the clients are as before.
LEMMA SameIndex ==
    ASSUME idx' \subseteq idx
    PROVE  \A u \in Users, t \in Tokens : <<u, t>> \in idx' => <<u, t>> \in idx \/ Generated(t)
OBVIOUS

\* handle_refresh: the lifetime of the family is checked on what is read.
LEMMA PresentRefreshRemembers ==
    ASSUME HInv, IInv', NEW p \in Procs, NEW t \in Tokens, PresentRefresh(p, t) PROVE HInv'
<1> DEFINE e == refresh[t]
           r == [NoRequest EXCEPT !.tok = t]
           c == [r EXCEPT !.user = e.user, !.issued = e.issued, !.at = now, !.rev = e.rev]
<1>1. TypeOK /\ TokenOK(t) /\ t \in handed
      /\ UNCHANGED <<now, refresh, idx, marker, family, parent, birth, handed, revoking>>
    BY DEF HInv, IInv, PresentRefresh, kv, history
<1>2. Generated(t) /\ Grows /\ (\A s \in Tokens : marker'[s].user # NoUser => marker'[s].until > 0) /\ idx' \subseteq idx
    BY <1>1, QuietGrows DEF TokenOK
<1>3. r.tok = t /\ r.why = "" /\ c.tok = t /\ c.issued = e.issued /\ c.at = now
    BY DEF NoRequest
<1>4. CASE Live(t) /\ Unexpired(t) /\ GotoWith(p, "consume", c)
    <2>1. pc'[p] = "consume" /\ req'[p] = c
        BY <1>1, <1>4, MovesOne
    <2>2. e.issued = birth[family[t]] /\ now <= e.issued + AbsMax
        BY <1>1, <1>4 DEF TokenOK, Unexpired
    <2> HIDE DEF c
    <2>3. OldTokenOK(p)' /\ NewTokenOK(p)' /\ SweepOK(p)' /\ ~Carries(p)'
        BY <1>1, <1>3, <2>1, <2>2 DEF OldTokenOK, NewTokenOK, SweepOK, Carries
    <2> QED
        BY <1>1, <1>2, <1>4, <2>3, SameIndex, Remember
<1>5. CASE ~Unexpired(t) /\ GotoWith(p, "forget", r)
    <2>1. pc'[p] = "forget" /\ req'[p] = r
        BY <1>1, <1>5, MovesOne
    <2> HIDE DEF r
    <2>2. ~Unexpired(t)'
        BY <1>1, <1>5 DEF Unexpired
    <2>3. OldTokenOK(p)' /\ NewTokenOK(p)' /\ SweepOK(p)' /\ ~Carries(p)'
        BY <1>1, <1>2, <1>3, <2>1, <2>2 DEF OldTokenOK, NewTokenOK, SweepOK, Carries, Generated
    <2> QED
        BY <1>1, <1>2, <1>5, <2>3, SameIndex, Remember
<1>6. CASE GotoWith(p, "marker", r)
    BY <1>1, <1>6, Quiet DEF Forgetful
<1> QED
    BY <1>4, <1>5, <1>6 DEF PresentRefresh

\* handle_revoke: the token is marked as being revoked.
LEMMA BeginRevokeRemembers ==
    ASSUME HInv, IInv', NEW p \in Procs, NEW t \in Tokens, BeginRevoke(p, t) PROVE HInv'
<1> DEFINE r == [NoRequest EXCEPT !.tok = t]
<1>1. TypeOK /\ TokenOK(t) /\ t \in handed /\ revoking' = revoking \cup {t} /\ GotoWith(p, "forget", r)
      /\ UNCHANGED <<now, refresh, idx, marker, family, parent, birth, handed>>
    BY DEF HInv, IInv, BeginRevoke, kv, history
<1>2. Generated(t) /\ Grows /\ (\A s \in Tokens : marker'[s].user # NoUser => marker'[s].until > 0) /\ idx' \subseteq idx
    BY <1>1, QuietGrows DEF TokenOK
<1>3. r.tok = t /\ r.why = ""
    BY DEF NoRequest
<1>4. pc'[p] = "forget" /\ req'[p] = r
    BY <1>1, MovesOne
<1> HIDE DEF r
<1>5. OldTokenOK(p)' /\ NewTokenOK(p)' /\ SweepOK(p)' /\ ~Carries(p)'
    BY <1>1, <1>2, <1>3, <1>4 DEF OldTokenOK, NewTokenOK, SweepOK, Carries, Generated
<1> QED
    BY <1>1, <1>2, <1>5, SameIndex, Remember

\* The CAS ends the life of the token; the request keeps the issue time it read.
LEMMA ConsumeRemembers == ASSUME HInv, IInv', NEW p \in Procs, Consume(p) PROVE HInv'
<1> DEFINE t == req[p].tok
<1>1. TypeOK /\ OldTokenOK(p) /\ t \in Tokens /\ pc[p] = "consume"
      /\ UNCHANGED <<now, idx, marker, family, parent, birth, handed, revoking>>
    BY DEF HInv, IInv, RequestOK, Consume, At, history
<1>2. GotoWith(p, "user", req[p]) /\ UNCHANGED req
    BY <1>1, KeepsLocals DEF Consume
<1>3. pc'[p] = "user" /\ req'[p] = req[p]
    BY <1>1, <1>2, MovesOne
<1>4. \A s \in Tokens : Live(s)' => s # t /\ refresh'[s] = refresh[s]
    BY <1>1 DEF Consume, Consumed, Live, TypeOK
<1>5. Grows /\ (\A s \in Tokens : marker'[s].user # NoUser => marker'[s].until > 0) /\ idx' \subseteq idx
    <2>1. now \in Nat
        BY <1>1 DEF TypeOK
    <2>2. Grows
        BY <1>1, <1>4, <2>1 DEF Grows, Live, Marked
    <2> QED
        BY <1>1, <2>2 DEF HInv, TokenOK
<1>6. OldTokenOK(p)' /\ NewTokenOK(p)' /\ SweepOK(p)' /\ ~Carries(p)'
    <2>1. ~Live(t)'
        BY <1>1, <1>2, <1>4
    <2> QED
        BY <1>1, <1>3, <2>1 DEF OldTokenOK, NewTokenOK, SweepOK, Carries, Live
<1> QED
    BY <1>1, <1>2, <1>5, <1>6, SameIndex, Remember

\* handle_refresh: an active user lets the request go on.
LEMMA LoadUserRemembers == ASSUME HInv, IInv', NEW p \in Procs, LoadUser(p) PROVE HInv'
<1>1. TypeOK /\ OldTokenOK(p) /\ pc[p] = "user"
      /\ UNCHANGED <<now, refresh, idx, marker, family, parent, birth, handed, revoking>>
    BY DEF HInv, IInv, LoadUser, At, kv, history
<1>2. CASE Goto(p, "save")
    <2>1. GotoWith(p, "save", req[p])
        BY <1>1, <1>2, KeepsLocals
    <2>2. pc'[p] = "save" /\ req'[p] = req[p]
        BY <1>1, <2>1, MovesOne
    <2>3. Grows /\ (\A s \in Tokens : marker'[s].user # NoUser => marker'[s].until > 0) /\ idx' \subseteq idx
        BY <1>1, QuietGrows
    <2>4. OldTokenOK(p)' /\ NewTokenOK(p)' /\ SweepOK(p)' /\ ~Carries(p)'
        BY <1>1, <2>2 DEF OldTokenOK, NewTokenOK, SweepOK, Carries, Live
    <2> QED
        BY <1>1, <2>1, <2>3, <2>4, SameIndex, Remember
<1>3. CASE GotoWith(p, "list", Sweep(req[p].user, NoToken)) \/ Finish(p)
    BY <1>1, <1>3, Quiet DEF Finish, Forgetful
<1> QED
    BY <1>2, <1>3 DEF LoadUser

\* save_refresh_token's second write: from here on the index finds the new token; a code
\* exchange hands it out.
LEMMA IndexTokenRemembers == ASSUME HInv, IInv', NEW p \in Procs, IndexToken(p) PROVE HInv'
<1>1. TypeOK /\ OldTokenOK(p) /\ NewTokenOK(p) /\ pc[p] = "index" /\ Carries(p)
      /\ UNCHANGED <<now, refresh, marker, family, parent, birth, revoking>>
    BY DEF HInv, IInv, IndexToken, At, Carries
<1>2. PICK n \in Tokens, t \in MaybeToken : n = req[p].new /\ t = req[p].tok /\ Generated(n)
                             /\ (Live(n) => refresh[n].user = req[p].user) /\ parent[n] = t /\ n \notin handed
    BY <1>1 DEF NewTokenOK, TypeOK
<1>3. idx' = idx \cup {<<req[p].user, n>>}
    BY <1>2 DEF IndexToken, IndexKeys
<1>4. Grows
    <2>1. now \in Nat
        BY <1>1 DEF TypeOK
    <2> QED
        BY <1>1, <1>3, <2>1 DEF Grows, Live, Marked
<1>5. Findable(n)'
    BY <1>1, <1>2, <1>3 DEF Findable, Live
<1>6. /\ \A u \in Users, s \in Tokens : <<u, s>> \in idx' => <<u, s>> \in idx \/ Generated(s)
      /\ \A s \in Tokens : marker'[s].user # NoUser => marker'[s].until > 0
    BY <1>1, <1>2, <1>3 DEF HInv, TokenOK
<1>7. CASE t = NoToken /\ Finish(p) /\ Respond(p)
    <2>1. pc'[p] \in Forgetful /\ GotoWith(p, "idle", NoRequest)
        BY <1>1, <1>7, MovesOne DEF Finish, Forgetful
    <2>2. OldTokenOK(p)' /\ NewTokenOK(p)' /\ SweepOK(p)' /\ ~Carries(p)'
        BY <2>1, ForgetfulOK
    <2>3. UNCHANGED handed \/ handed' = handed \cup {n}
        BY <1>2, <1>7 DEF Respond
    <2> QED
        BY <1>1, <1>2, <1>4, <1>5, <1>6, <1>7, <2>1, <2>2, <2>3, Remember
<1>8. CASE t # NoToken /\ Goto(p, "retire") /\ UNCHANGED handed
    <2>1. GotoWith(p, "retire", req[p])
        BY <1>1, <1>8, KeepsLocals
    <2>2. pc'[p] = "retire" /\ req'[p] = req[p]
        BY <1>1, <2>1, MovesOne
    <2>3. ~Live(t)'
        BY <1>1, <1>2, <1>8 DEF OldTokenOK, Live
    <2>4. OldTokenOK(p)' /\ SweepOK(p)'
        BY <1>2, <2>2, <2>3 DEF OldTokenOK, SweepOK, Live
    <2>5. NewTokenOK(p)'
        BY <1>1, <1>2, <1>5, <1>8, <2>2 DEF NewTokenOK, Carries, Generated, Findable, Live, Unexpired
    <2> QED
        BY <1>1, <1>4, <1>6, <1>8, <2>1, <2>4, <2>5, Remember
<1> QED
    BY <1>2, <1>7, <1>8 DEF IndexToken

\* mark_refresh_consumed precedes the deletion of the entry.
LEMMA RetireTokenRemembers == ASSUME HInv, IInv', NEW p \in Procs, RetireToken(p) PROVE HInv'
<1> DEFINE r == [req[p] EXCEPT !.why = "rotate"]
           m == [user |-> req[p].user, until |-> now + MarkerTTL]
<1>1. TypeOK /\ OldTokenOK(p) /\ NewTokenOK(p) /\ RequestOK(p) /\ pc[p] = "retire" /\ Carries(p)
      /\ UNCHANGED <<now, refresh, idx, family, parent, birth, handed, revoking>>
      /\ req[p] \in Request /\ GotoWith(p, "forget", r)
    BY DEF HInv, IInv, TypeOK, RetireToken, At, Carries, history
<1>2. PICK t \in Tokens, n \in Tokens :
         t = req[p].tok /\ n = req[p].new /\ Generated(t) /\ req[p].user \in Users /\ ~Live(t)
         /\ Generated(n) /\ parent[n] = t /\ n \notin handed /\ Findable(n)
    BY <1>1 DEF RequestOK, OldTokenOK, NewTokenOK, Generated
<1>3. r.tok = t /\ r.new = n /\ r.why = "rotate"
    BY <1>1, <1>2 DEF Request
<1>4. marker' = [marker EXCEPT ![t] = m] /\ m.user # NoUser /\ m.until > 0
    <2>1. now \in Nat /\ now > 0 /\ MarkerTTL \in Nat
        BY <1>1, TimeAssumption DEF TypeOK, HInv
    <2> QED
        BY <1>2, <2>1, NoValueAssumption DEF RetireToken
<1>5. \A s \in Tokens : marker'[s] = IF s = t THEN m ELSE marker[s]
    BY <1>1, <1>4 DEF TypeOK
<1> HIDE DEF r, m
<1>6. pc'[p] = "forget" /\ req'[p] = r
    BY <1>1, MovesOne
<1>7. /\ Grows /\ Marked(t)' /\ idx' \subseteq idx
      /\ \A s \in Tokens : marker'[s].user # NoUser => marker'[s].until > 0
    <2>1. now \in Nat /\ Marked(t)'
        BY <1>1, <1>4, <1>5 DEF TypeOK, Marked
    <2>2. \A s \in Tokens : Marked(s) => Marked(s)'
        BY <1>1, <1>4, <1>5 DEF Marked
    <2>3. Grows
        BY <1>1, <2>1, <2>2 DEF Grows, Live
    <2> QED
        BY <1>1, <1>4, <1>5, <2>1, <2>3 DEF HInv, TokenOK
<1>8. OldTokenOK(p)' /\ SweepOK(p)'
    BY <1>1, <1>2, <1>3, <1>6 DEF OldTokenOK, SweepOK, Generated, Live
<1>9. NewTokenOK(p)'
    BY <1>1, <1>2, <1>3, <1>6, <1>7 DEF NewTokenOK, Carries, Generated, Findable, Live, Unexpired, Marked
<1> QED
    BY <1>1, <1>2, <1>3, <1>7, <1>8, <1>9, SameIndex, Remember

\* delete_refresh_token: the index key of a token that is expired or revoked goes first.
LEMMA ForgetIndexRemembers == ASSUME HInv, IInv', NEW p \in Procs, ForgetIndex(p) PROVE HInv'
<1>1. TypeOK /\ OldTokenOK(p) /\ NewTokenOK(p) /\ pc[p] = "forget"
      /\ UNCHANGED <<now, refresh, marker, family, parent, birth, handed, revoking>>
    BY DEF HInv, IInv, ForgetIndex, At, history
<1>2. GotoWith(p, "erase", req[p]) /\ UNCHANGED req
    BY <1>1, KeepsLocals DEF ForgetIndex
<1>3. pc'[p] = "erase" /\ req'[p] = req[p]
    BY <1>1, <1>2, MovesOne
<1>4. PICK t \in Tokens : t = req[p].tok /\ Generated(t) /\ (Live(t) => ~Unexpired(t) \/ t \in revoking)
    BY <1>1 DEF OldTokenOK
<1>5. idx' = IF Live(t) THEN idx \ {<<refresh[t].user, t>>} ELSE idx
    BY <1>4 DEF ForgetIndex
<1>6. Grows /\ idx' \subseteq idx /\ \A s \in Tokens : marker'[s].user # NoUser => marker'[s].until > 0
    <2>1. now \in Nat
        BY <1>1 DEF TypeOK
    <2>2. Grows
        BY <1>1, <1>4, <1>5, <2>1 DEF Grows, Live, Marked
    <2> QED
        BY <1>1, <1>5, <2>2 DEF HInv, TokenOK
<1>7. OldTokenOK(p)' /\ SweepOK(p)'
    BY <1>1, <1>3, <1>4 DEF OldTokenOK, SweepOK, Generated
<1>8. NewTokenOK(p)' /\ (Carries(p)' <=> Carries(p))
    <2>1. Carries(p)' <=> Carries(p)
        BY <1>1, <1>3 DEF Carries
    <2>2. CASE ~Carries(p)
        BY <1>3, <2>1, <2>2 DEF NewTokenOK
    <2>3. CASE Carries(p)
        <3>1. PICK n \in Tokens : n = req[p].new /\ Generated(n) /\ n \notin handed /\ parent[n] = t
                                  /\ Findable(n) /\ Marked(t)
            BY <1>1, <1>4, <2>3 DEF NewTokenOK
        <3>2. Findable(n)' /\ Marked(t)' /\ Generated(n)' /\ n \notin handed' /\ parent'[n] = t
            BY <1>1, <1>4, <1>6, <3>1, TokenKeeps DEF Grows
        <3> QED
            BY <1>1, <1>3, <1>4, <2>1, <2>3, <3>1, <3>2 DEF NewTokenOK
    <2> QED
        BY <2>1, <2>2, <2>3
<1> QED
    BY <1>1, <1>2, <1>6, <1>7, <1>8, SameIndex, Remember

\* delete_refresh_token: the entry goes; a rotation then answers with the new token.
LEMMA EraseTokenRemembers == ASSUME HInv, IInv', NEW p \in Procs, EraseToken(p) PROVE HInv'
<1>1. TypeOK /\ NewTokenOK(p) /\ pc[p] = "erase" /\ GotoWith(p, "idle", NoRequest)
      /\ UNCHANGED <<now, idx, marker, family, parent, birth, revoking>>
    BY DEF HInv, IInv, EraseToken, At, Finish
<1>2. EntriesDrop
    BY <1>1, Drop DEF EraseToken
<1>3. Grows /\ idx' \subseteq idx /\ \A s \in Tokens : marker'[s].user # NoUser => marker'[s].until > 0
    BY <1>1, <1>2, DropGrows
<1>4. OldTokenOK(p)' /\ NewTokenOK(p)' /\ SweepOK(p)' /\ ~Carries(p)'
    <2>1. pc'[p] \in Forgetful
        BY <1>1, MovesOne DEF Forgetful
    <2> QED
        BY <2>1, ForgetfulOK
<1>5. CASE UNCHANGED handed
    BY <1>1, <1>3, <1>4, <1>5, SameIndex, Remember
<1>6. CASE req[p].why = "rotate" /\ handed' = handed \cup {req[p].new}
    <2>1. Carries(p)
        BY <1>1, <1>6 DEF Carries
    <2>2. PICK n \in Tokens, t \in MaybeToken : n = req[p].new /\ t = req[p].tok /\ Generated(n) /\ Findable(n) /\ Marked(t)
        <3>1. req[p].tok \in MaybeToken
            BY DEF HInv, IInv, TypeOK, Request
        <3> QED
            BY <1>1, <2>1, <3>1 DEF NewTokenOK
    <2>3. Findable(n)' /\ Marked(t)'
        BY <1>1, <1>3, <2>2, TokenKeeps DEF Marked
    <2> QED
        BY <1>1, <1>3, <1>4, <1>6, <2>1, <2>2, <2>3, SameIndex, Remember
<1> QED
    BY <1>5, <1>6 DEF EraseToken, Respond

\* delete_user_refresh_tokens: what the index lists was generated.
LEMMA ListTokensRemembers == ASSUME HInv, IInv', NEW p \in Procs, ListTokens(p) PROVE HInv'
<1> DEFINE l == {t \in Tokens : <<req[p].user, t>> \in idx}
           r == [req[p] EXCEPT !.list = l]
<1>1. TypeOK /\ req[p] \in Request /\ GotoWith(p, "sweep", r)
      /\ UNCHANGED <<now, refresh, idx, marker, family, parent, birth, handed, revoking>>
    BY DEF HInv, IInv, TypeOK, ListTokens, kv, history
<1>2. Grows /\ (\A s \in Tokens : marker'[s].user # NoUser => marker'[s].until > 0) /\ idx' \subseteq idx
    BY <1>1, QuietGrows
<1>3. \A t \in l : t \in Tokens /\ Generated(t)
    <2> SUFFICES ASSUME NEW t \in l PROVE Generated(t)
        OBVIOUS
    <2>1. t \in Tokens /\ <<req[p].user, t>> \in idx /\ req[p].user \in Users
        BY <1>1 DEF TypeOK
    <2> QED
        BY <2>1 DEF HInv, TokenOK
<1>4. r.list = l
    BY <1>1 DEF Request
<1>5. pc'[p] = "sweep" /\ req'[p] = r
    BY <1>1, MovesOne
<1> HIDE DEF r, l
<1>6. OldTokenOK(p)' /\ NewTokenOK(p)' /\ SweepOK(p)' /\ ~Carries(p)'
    BY <1>1, <1>3, <1>4, <1>5 DEF OldTokenOK, NewTokenOK, SweepOK, Carries, Generated
<1> QED
    BY <1>1, <1>2, <1>6, SameIndex, Remember

\* delete_user_refresh_tokens: the entry goes before its index key.
LEMMA SweepEntryRemembers ==
    ASSUME HInv, IInv', NEW p \in Procs, NEW t \in Tokens, SweepEntry(p, t) PROVE HInv'
<1> DEFINE r == [req[p] EXCEPT !.new = t]
<1>1. TypeOK /\ req[p] \in Request /\ SweepOK(p) /\ pc[p] = "sweep" /\ t \in req[p].list
      /\ GotoWith(p, "unindex", r) /\ refresh' = [refresh EXCEPT ![t] = Absent]
      /\ UNCHANGED <<now, idx, marker, family, parent, birth, handed, revoking>>
    BY DEF HInv, IInv, TypeOK, SweepEntry, At, history
<1>2. EntriesDrop
    BY <1>1, Drop
<1>3. Grows /\ idx' \subseteq idx /\ \A s \in Tokens : marker'[s].user # NoUser => marker'[s].until > 0
    BY <1>1, <1>2, DropGrows
<1>4. r.list = req[p].list /\ r.new = t
    BY <1>1 DEF Request
<1>5. pc'[p] = "unindex" /\ req'[p] = r
    BY <1>1, MovesOne
<1>6. ~Live(t)'
    BY <1>1 DEF TypeOK, Live, Absent
<1> HIDE DEF r
<1>7. OldTokenOK(p)' /\ NewTokenOK(p)' /\ SweepOK(p)' /\ ~Carries(p)'
    BY <1>1, <1>4, <1>5, <1>6 DEF OldTokenOK, NewTokenOK, SweepOK, Carries, Generated, Live
<1> QED
    BY <1>1, <1>3, <1>7, SameIndex, Remember

\* delete_user_refresh_tokens: the index key of a token that is dead.
LEMMA SweepIndexRemembers == ASSUME HInv, IInv', NEW p \in Procs, SweepIndex(p) PROVE HInv'
<1> DEFINE r == [req[p] EXCEPT !.list = req[p].list \ {req[p].new}]
<1>1. TypeOK /\ req[p] \in Request /\ SweepOK(p) /\ pc[p] = "unindex" /\ GotoWith(p, "sweep", r)
      /\ UNCHANGED <<now, refresh, marker, family, parent, birth, handed, revoking>>
    BY DEF HInv, IInv, TypeOK, SweepIndex, At, history
<1>2. PICK n \in Tokens : n = req[p].new /\ ~Live(n)
    BY <1>1 DEF SweepOK
<1>3. idx' = idx \ {<<req[p].user, n>>}
    BY <1>2 DEF SweepIndex
<1>4. Grows /\ idx' \subseteq idx /\ \A s \in Tokens : marker'[s].user # NoUser => marker'[s].until > 0
    <2>1. now \in Nat
        BY <1>1 DEF TypeOK
    <2>2. Grows
        BY <1>1, <1>2, <1>3, <2>1 DEF Grows, Live, Marked
    <2> QED
        BY <1>1, <1>3, <2>2 DEF HInv, TokenOK
<1>5. r.list \subseteq req[p].list
    BY <1>1 DEF Request
<1>6. pc'[p] = "sweep" /\ req'[p] = r
    BY <1>1, MovesOne
<1> HIDE DEF r
<1>7. OldTokenOK(p)' /\ NewTokenOK(p)' /\ SweepOK(p)' /\ ~Carries(p)'
    BY <1>1, <1>5, <1>6 DEF OldTokenOK, NewTokenOK, SweepOK, Carries, Generated
<1> QED
    BY <1>1, <1>4, <1>7, SameIndex, Remember

\* The write of a new token n of family f, issued when the family was.
LEMMA SaveRemembers ==
    ASSUME HInv, IInv', NEW p \in Procs, NEW n \in Tokens, NEW f \in Tokens, NEW e \in Entry, NEW r \in Request,
           family[n] = NoToken, refresh' = [refresh EXCEPT ![n] = e], family' = [family EXCEPT ![n] = f],
           e.user = r.user, e.issued = birth'[f],
           GotoWith(p, "index", r), r.new = n, parent'[n] = r.tok,
           \A t \in Tokens \ {n} : parent'[t] = parent[t] /\ birth'[t] = birth[t],
           r.tok # NoToken => r.tok \in Tokens /\ Generated(r.tok) /\ ~Live(r.tok),
           UNCHANGED <<now, idx, marker, handed, revoking>>
    PROVE  HInv'
<1>1. TypeOK /\ TokenOK(n) /\ ~Generated(n)
    BY DEF HInv, IInv, Generated
<1>2. /\ family'[n] = f /\ refresh'[n] = e
      /\ \A t \in Tokens \ {n} : family'[t] = family[t] /\ refresh'[t] = refresh[t]
    BY <1>1 DEF TypeOK
<1>3. Generated(n)' /\ n \notin handed
    BY <1>1, <1>2, NoValueAssumption DEF Generated, TokenOK
<1>4. Grows
    <2>1. now \in Nat
        BY <1>1 DEF TypeOK
    <2> QED
        BY <1>1, <1>2, <2>1 DEF Grows, Live, Marked
<1>5. /\ pc'[p] = "index" /\ req'[p] = r
      /\ \A q \in Procs \ {p} : pc'[q] = pc[q] /\ req'[q] = req[q]
    BY <1>1, MovesOne
<1>6. OldTokenOK(p)' /\ NewTokenOK(p)' /\ SweepOK(p)'
    <2>1. r.tok # NoToken => ~Live(r.tok)'
        <3>1. ASSUME r.tok # NoToken PROVE refresh'[r.tok] = refresh[r.tok]
            BY <1>1, <1>2, <3>1
        <3> QED
            BY <3>1, <1>5 DEF Live
    <2>2. OldTokenOK(p)' /\ SweepOK(p)'
        BY <1>5, <2>1 DEF OldTokenOK, SweepOK, Live
    <2>3. NewTokenOK(p)'
        BY <1>2, <1>3, <1>5 DEF NewTokenOK, Carries, Generated
    <2> QED
        BY <2>2, <2>3
<1>7. ASSUME NEW q \in Procs \ {p}
      PROVE  /\ OldTokenOK(q)' /\ NewTokenOK(q)' /\ SweepOK(q)' /\ (Carries(q)' <=> Carries(q))
             /\ Carries(q) => req[q].new # n
    <2>1. Carries(q) => req[q].new \notin handed /\ Generated(req[q].new)
        BY DEF HInv, NewTokenOK
    <2> QED
        BY <1>1, <1>4, <1>5, <2>1, OthersRemember
<1>8. ASSUME NEW t \in Tokens PROVE TokenOK(t)'
    <2>1. CASE t = n
        BY <1>1, <1>2, <1>3, <2>1 DEF TokenOK
    <2>2. CASE t # n /\ ~Generated(t)
        <3>1. ~Live(t)'
            BY <1>2, <2>2 DEF IInv, EntryOK, Live, Generated
        <3> QED
            BY <1>2, <2>2, <3>1 DEF HInv, TokenOK, Generated
    <2>3. CASE t # n /\ Generated(t)
        <3>1. TokenOK(t) /\ parent[t] \in MaybeToken
            BY <1>1 DEF HInv, TypeOK
        <3>2. /\ Generated(t)' /\ parent'[t] = parent[t] /\ birth'[family'[t]] = birth[family[t]]
              /\ Live(t)' => Live(t) /\ refresh'[t] = refresh[t]
              /\ Findable(t) => Findable(t)'
            BY <1>4, <2>3, TokenKeeps
        <3>3. t \in handed => Findable(t)' /\ (parent[t] # NoToken => Marked(parent[t])')
            BY <3>1, <3>2 DEF TokenOK, Marked
        <3> QED
            BY <3>1, <3>2, <3>3 DEF TokenOK, Marked
    <2> QED
        BY <2>1, <2>2, <2>3
<1>9. OneCarrier'
    BY <1>5, <1>7 DEF HInv, OneCarrier
<1>10. now' > 0
    BY DEF HInv
<1> QED
    BY <1>6, <1>7, <1>8, <1>9, <1>10 DEF HInv

\* handle_code_exchange: a family is born now.
LEMMA SaveGrantedRemembers ==
    ASSUME HInv, IInv', NEW p \in Procs, NEW n \in Tokens, SaveGranted(p, n) PROVE HInv'
<1> DEFINE r == [req[p] EXCEPT !.new = n]
           e == LiveEntry(req[p].user, now, now + IdleTTL)
<1>1. TypeOK /\ TokenOK(n) /\ req[p] \in Request /\ req[p].tok = NoToken
    BY DEF HInv, IInv, TypeOK, SaveGranted, At, RequestOK
<1>2. r.new = n /\ r.tok = NoToken /\ r.user = req[p].user
    BY <1>1 DEF Request
<1>3. e.user = req[p].user /\ e.issued = now
    BY DEF LiveEntry
<1>4. /\ family[n] = NoToken /\ refresh' = [refresh EXCEPT ![n] = e] /\ family' = [family EXCEPT ![n] = n]
      /\ birth' = [birth EXCEPT ![n] = now] /\ GotoWith(p, "index", r)
      /\ UNCHANGED <<now, idx, marker, parent, handed, revoking>>
    BY DEF SaveGranted
<1>5. birth'[n] = now /\ \A t \in Tokens \ {n} : birth'[t] = birth[t]
    BY <1>1, <1>4 DEF TypeOK
<1>6. parent'[n] = NoToken
    BY <1>1, <1>4 DEF TokenOK, Generated
<1>7. r \in Request /\ e \in Entry
    <2>1. now \in Nat /\ now + IdleTTL \in Nat /\ req[p].user \in MaybeUser
        BY <1>1, TimeAssumption DEF TypeOK, Request
    <2>2. e \in Entry
        BY <2>1 DEF LiveEntry, Entry
    <2>3. r \in Request
        BY <1>1, SetField DEF MaybeToken
    <2> QED
        BY <2>2, <2>3
<1> HIDE DEF r, e
<1>8. e.user = r.user /\ e.issued = birth'[n] /\ parent'[n] = r.tok
    BY <1>2, <1>3, <1>5, <1>6
<1>9. \A t \in Tokens \ {n} : parent'[t] = parent[t] /\ birth'[t] = birth[t]
    BY <1>4, <1>5
<1>10. r.tok # NoToken => r.tok \in Tokens /\ Generated(r.tok) /\ ~Live(r.tok)
    BY <1>2
<1> QED
    BY <1>2, <1>4, <1>7, <1>8, <1>9, <1>10, SaveRemembers

\* handle_refresh: the issue time is carried forward.
LEMMA SaveRotatedRemembers ==
    ASSUME HInv, IInv', NEW p \in Procs, NEW n \in Tokens, SaveRotated(p, n) PROVE HInv'
<1> DEFINE q == req[p]
           r == [q EXCEPT !.new = n]
           e == LiveEntry(q.user, FamilyIssuedAt(q), Min2(q.at + IdleTTL, FamilyIssuedAt(q) + AbsMax))
<1>1. TypeOK /\ TokenOK(n) /\ q \in Request /\ OldTokenOK(p) /\ RequestOK(p) /\ pc[p] = "save"
    BY DEF HInv, IInv, TypeOK, SaveRotated, At
<1>2. r.new = n /\ r.tok = q.tok /\ r.user = q.user
    BY <1>1 DEF Request
<1>3. e.user = q.user /\ e.issued = q.issued
    BY DEF LiveEntry, FamilyIssuedAt
<1>4. PICK f \in Tokens : f = family[q.tok]
    BY <1>1, HeldFamily DEF HInv
<1>5. /\ family[n] = NoToken /\ refresh' = [refresh EXCEPT ![n] = e] /\ family' = [family EXCEPT ![n] = f]
      /\ parent' = [parent EXCEPT ![n] = q.tok] /\ GotoWith(p, "index", r)
      /\ UNCHANGED <<now, idx, marker, birth, handed, revoking>>
    BY <1>4 DEF SaveRotated
<1>6. q.issued = birth[f] /\ q.tok \in Tokens /\ Generated(q.tok) /\ ~Live(q.tok)
    BY <1>1, <1>4 DEF OldTokenOK, RequestOK, Generated
<1>7. parent'[n] = q.tok /\ \A t \in Tokens \ {n} : parent'[t] = parent[t] /\ birth'[t] = birth[t]
    BY <1>1, <1>5 DEF TypeOK
<1>8. birth'[f] = q.issued
    BY <1>5, <1>6
<1>9. r \in Request /\ e \in Entry
    <2>1. FamilyIssuedAt(q) \in Nat /\ Min2(q.at + IdleTTL, FamilyIssuedAt(q) + AbsMax) \in Nat
        BY <1>1, TimeAssumption DEF FamilyIssuedAt, Min2, Request
    <2>2. q.user \in MaybeUser
        BY <1>1 DEF Request
    <2>3. e \in Entry
        <3> HIDE DEF q
        <3> QED
            BY <2>1, <2>2 DEF LiveEntry, Entry
    <2> QED
        BY <1>1, <2>3, SetField DEF MaybeToken
<1> HIDE DEF q, r, e
<1>10. e.user = r.user /\ e.issued = birth'[f] /\ parent'[n] = r.tok
    BY <1>2, <1>3, <1>7, <1>8
<1>11. r.tok # NoToken => r.tok \in Tokens /\ Generated(r.tok) /\ ~Live(r.tok)
    BY <1>2, <1>6
<1> QED
    BY <1>2, <1>5, <1>7, <1>9, <1>10, <1>11, SaveRemembers

\* Steps of the environment.
LEMMA EnvironmentRemembers ==
    ASSUME HInv, IInv', Grows, UNCHANGED <<pc, req, idx, family, parent, birth, handed>>,
           \A t \in Tokens : marker'[t].user # NoUser => marker'[t].until > 0
    PROVE  HInv'
<1>1. ASSUME NEW q \in Procs
      PROVE  OldTokenOK(q)' /\ NewTokenOK(q)' /\ SweepOK(q)' /\ (Carries(q)' <=> Carries(q))
    <2>1. Carries(q) => req[q].new \notin handed'
        BY DEF HInv, NewTokenOK
    <2> QED
        BY <2>1, OthersRemember
<1>2. \A t \in Tokens : TokenOK(t)'
    BY TokensRemember
<1>3. OneCarrier'
    BY <1>1 DEF HInv, OneCarrier
<1>4. now' > 0
    <2>1. now \in Nat /\ now' \in Nat /\ now > 0 /\ now <= now'
        BY DEF HInv, IInv, TypeOK, Grows
    <2> QED
        BY <2>1
<1> QED
    BY <1>1, <1>2, <1>3, <1>4 DEF HInv

\* A marker that reaches its TTL has had its time.
LEMMA ExpireKeyRemembers == ASSUME HInv, IInv', NEW t \in Tokens, ExpireKey(t) PROVE HInv'
<1>1. TypeOK /\ UNCHANGED <<now, pc, req, idx, family, parent, birth, handed, revoking>>
    BY DEF HInv, IInv, ExpireKey, history
<1>2. CASE refresh' = [refresh EXCEPT ![t] = Absent] /\ UNCHANGED marker
    <2>1. EntriesDrop
        BY <1>1, <1>2, Drop
    <2>2. Grows /\ \A s \in Tokens : marker'[s].user # NoUser => marker'[s].until > 0
        BY <1>1, <1>2, <2>1, DropGrows
    <2> QED
        BY <1>1, <2>2, EnvironmentRemembers
<1>3. CASE /\ marker[t].user # NoUser /\ now >= marker[t].until
           /\ marker' = [marker EXCEPT ![t].user = NoUser] /\ UNCHANGED refresh
    <2>1. marker[t] \in Marker /\ now \in Nat /\ marker[t].until > 0
        BY <1>1, <1>3 DEF TypeOK, HInv, TokenOK
    <2>2. /\ marker'[t] = [marker[t] EXCEPT !.user = NoUser]
          /\ \A s \in Tokens \ {t} : marker'[s] = marker[s]
        BY <1>1, <1>3 DEF TypeOK
    <2>3. marker'[t].user = NoUser /\ marker'[t].until = marker[t].until
        BY <2>1, <2>2 DEF Marker
    <2>4. Marked(t)'
        BY <1>1, <1>3, <2>1, <2>3 DEF Marked, Marker
    <2>5. \A s \in Tokens : Marked(s) => Marked(s)'
        BY <1>1, <2>2, <2>4 DEF Marked
    <2>6. Grows
        BY <1>1, <1>3, <2>1, <2>5 DEF Grows, Live
    <2>7. \A s \in Tokens : marker'[s].user # NoUser => marker'[s].until > 0
        BY <2>2, <2>3 DEF HInv, TokenOK
    <2> QED
        BY <1>1, <2>6, <2>7, EnvironmentRemembers
<1> QED
    BY <1>2, <1>3 DEF ExpireKey

\* Time takes back no mark: a marker is there, or its time was over before.
LEMMA TickRemembers == ASSUME HInv, IInv', Tick PROVE HInv'
<1>1. /\ TypeOK /\ now' = now + 1
      /\ UNCHANGED <<refresh, marker, pc, req, idx, family, parent, birth, handed, revoking>>
    BY DEF HInv, IInv, Tick, kv, history
<1>2. now \in Nat /\ marker \in [Tokens -> Marker]
    BY <1>1 DEF TypeOK
<1>3. \A t \in Tokens : Marked(t) => Marked(t)'
    BY <1>1, <1>2 DEF Marked, Marker
<1>4. Grows
    BY <1>1, <1>2, <1>3 DEF Grows, Live
<1>5. \A t \in Tokens : marker'[t].user # NoUser => marker'[t].until > 0
    BY <1>1 DEF HInv, TokenOK
<1> QED
    BY <1>1, <1>4, <1>5, EnvironmentRemembers

\* The users table is not the tokens' concern.
LEMMA StillRemembers ==
    ASSUME HInv, IInv', (\E u \in Users : ActivateUser(u)) \/ UNCHANGED vars PROVE HInv'
<1>1. UNCHANGED <<now, refresh, marker, pc, req, idx, family, parent, birth, handed, revoking>>
    BY DEF ActivateUser, vars, kv, history
<1> QED
    BY <1>1, QuietGrows, EnvironmentRemembers

\* Every handler step keeps the history.
LEMMA HandlerRemembers == ASSUME HInv, IInv', NEW p \in Procs, Handler(p) PROVE HInv'
<1>1. CASE \E t \in Tokens : PresentRefresh(p, t) \/ BeginRevoke(p, t)
                             \/ SaveGranted(p, t) \/ SaveRotated(p, t) \/ SweepEntry(p, t)
    BY <1>1, PresentRefreshRemembers, BeginRevokeRemembers, SaveGrantedRemembers,
       SaveRotatedRemembers, SweepEntryRemembers
<1>2. CASE Consume(p) \/ LoadUser(p) \/ IndexToken(p) \/ RetireToken(p) \/ ForgetIndex(p)
           \/ EraseToken(p)
    BY <1>2, ConsumeRemembers, LoadUserRemembers, IndexTokenRemembers, RetireTokenRemembers,
       ForgetIndexRemembers, EraseTokenRemembers
<1>3. CASE ListTokens(p) \/ SweepIndex(p)
    BY <1>3, ListTokensRemembers, SweepIndexRemembers
<1>4. CASE \/ \E u \in Users : BeginGrant(p, u) \/ DisableUser(p, u)
           \/ \E u \in Users, why \in {"", "delete"} : BeginSweep(p, u, why)
           \/ ConsumeConflict(p) \/ Crash(p) \/ ReadMarker(p) \/ ReadEntry(p) \/ RevokeUser(p)
           \/ FinishSweep(p) \/ EraseUser(p)
    BY <1>4, QuietOK
<1> QED
    BY <1>1, <1>2, <1>3, <1>4 DEF Handler

\* Every step keeps the history.
LEMMA NextRemembers == HInv /\ [Next]_vars => HInv'
<1> SUFFICES ASSUME HInv, [Next]_vars PROVE HInv'
    OBVIOUS
<1>1. IInv'
    BY NextOK DEF HInv
<1>2. CASE \E p \in Procs : Handler(p)
    BY <1>1, <1>2, HandlerRemembers
<1>3. CASE \E t \in Tokens : ExpireKey(t)
    BY <1>1, <1>3, ExpireKeyRemembers
<1>4. CASE Tick
    BY <1>1, <1>4, TickRemembers
<1>5. CASE (\E u \in Users : ActivateUser(u)) \/ UNCHANGED vars
    BY <1>1, <1>5, StillRemembers
<1> QED
    BY <1>2, <1>3, <1>4, <1>5 DEF Next

\* There is nothing to remember at the start.
LEMMA InitRemembers == Init => HInv
<1> SUFFICES ASSUME Init PROVE HInv
    OBVIOUS
<1>1. IInv /\ now > 0
    BY InitOK DEF Init
<1>2. \A p \in Procs : pc[p] = "idle"
    BY DEF Init
<1>3. \A p \in Procs : OldTokenOK(p) /\ NewTokenOK(p) /\ SweepOK(p) /\ ~Carries(p)
    BY <1>2 DEF OldTokenOK, NewTokenOK, SweepOK, Carries
<1>4. \A t \in Tokens : TokenOK(t)
    BY DEF Init, TokenOK, Live, Absent
<1> QED
    BY <1>1, <1>3, <1>4 DEF HInv, OneCarrier

\* HInv is an invariant: what the handlers of token.rs know of the past of a token is so.
THEOREM HistoryInvariance == Spec => []HInv
<1> QED
    BY InitRemembers, NextRemembers, PTL DEF Spec

\* handle_refresh carries issued_at forward, so that no token of a family is accepted more than
\* AbsMax after its grant, however often and by however many requests at once it is rotated.
THEOREM LifetimeIsBounded == Spec => []LifetimeBounded
<1>1. HInv => LifetimeBounded
    BY DEF HInv, OldTokenOK, LifetimeBounded, At
<1> QED
    BY <1>1, HistoryInvariance, PTL

\* A client that holds the successor of a token can only have it because the consumed: key of
\* the old one was written: a replay is recognised for as long as the key lives, whatever
\* crashed, expired or was revoked in between.
THEOREM ReplaysAreDetectable == Spec => []ReplayDetectable
<1>1. HInv => ReplayDetectable
    BY DEF HInv, IInv, TypeOK, TokenOK, Marked, ReplayDetectable
<1> QED
    BY <1>1, HistoryInvariance, PTL

\* delete_user_refresh_tokens, which works from the index, misses no token that a client holds
\* and handle_refresh would accept, except one whose revocation is under way.
THEOREM SweepsFindTokens == Spec => []HandedIsIndexed
<1>1. HInv => HandedIsIndexed
    BY DEF HInv, IInv, TypeOK, TokenOK, Findable, HandedIsIndexed
<1> QED
    BY <1>1, HistoryInvariance, PTL
============================================================================
