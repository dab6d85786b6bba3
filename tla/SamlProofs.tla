----------------------------- MODULE SamlProofs -----------------------------
(***************************************************************************)
(* Theorems about Saml for any number of handlers, service providers,      *)
(* authentication requests and login flows, and every choice of lifetimes. *)
(***************************************************************************)
EXTENDS Saml, TLAPS

RingSteps == {"ring", "init", "initpointer", "reread"}
Thens == {"publish", "key", "receive", "sign"}
Request == [route: Routes, then: Thens \cup {"none"}, sp: Sps \cup {None}, authn: AuthnRequests \cup {None},
            session: Sessions \cup {None}, ring: [version: Nat, key: Procs \cup {None}],
            value: {"none", "enabled", "disabled"}]

\* The ring that a request has read is still the ring of that version.
Current(ring) == /\ ring.version \in Versions /\ pointer[ring.version].made
                 /\ ring.key = key[ring.version]

\* The request is on its way to the check of an authentication request's age.
Arriving(l, r) == l = "receive" \/ (l \in RingSteps /\ r.then = "receive")

\* What a request p with locals r knows when it is about to take step l.
ReqOK(p, l, r) ==
    /\ l \in RingSteps => r.then \in Thens
    /\ l = "lock" => r.then = "key" /\ r.route = "rotate"
    /\ l \in {"consume", "resume"} => r.route = "resume" /\ r.then = "receive" /\ r.session \in Sessions
    /\ Arriving(l, r) => r.route \in {"sso", "resume"}
    /\ l = "reserve" \/ (Arriving(l, r) /\ r.route = "sso") =>
          r.sp \in Sps /\ r.authn \in AuthnRequests /\ IssueInstant[r.authn] <= now
    /\ l = "initpointer" => key[1] = p
    /\ l \in {"receive", "key", "pointer", "publish", "sign"} => Current(r.ring)
    /\ l = "pointer" /\ r.ring.version + 1 \in Versions => key[r.ring.version + 1] # None
    /\ l = "put" => r.value # "none"
RequestOK(p) == ReqOK(p, pc[p], req[p])

\* A request at step l with locals r may still answer the authentication request that it names.
Answering(l, r) ==
    \/ l \in {"hooks", "save", "resume", "sign"}
    \/ l \in RingSteps /\ (r.then = "sign" \/ r.route = "resume")
    \/ l = "receive" /\ r.route = "resume"
Carries(p, x) == Answering(pc[p], req[p]) /\ <<req[p].sp, req[p].authn>> = x

\* A login flow that may still answer it.
Keeps(s, x) == session[s].st \in {"open", "claimed"} /\ <<session[s].sp, session[s].authn>> = x

\* The reservation outlives the age at which the request is refused.
Reserved(x) == reserved[x] >= IssueInstant[x[2]] + MaxAge /\ reserved[x] > 0

\* At most one request or flow may still answer x, and none once it is answered; this is claimed of
\* the requests that no handler reserved again past their age.
TicketOK(x) ==
    /\ \A p \in Procs : Carries(p, x) => answered[x] = 0 /\ Reserved(x) /\ \A s \in Sessions : ~Keeps(s, x)
    /\ \A s \in Sessions : Keeps(s, x) => answered[x] = 0 /\ Reserved(x)
    /\ \A p, q \in Procs : Carries(p, x) /\ Carries(q, x) => p = q
    /\ \A s, t \in Sessions : Keeps(s, x) /\ Keeps(t, x) => s = t
    /\ answered[x] <= 1 /\ (answered[x] > 0 => Reserved(x))

\* There is a newest pointer.
HasNewest == Pointers # {} => \E v \in Pointers : \A w \in Pointers : w <= v

TypeInv == TypeOK /\ req \in [Procs -> Request]
Tickets == \A x \in (Sps \X AuthnRequests) \ late : TicketOK(x)

IInv ==
    /\ TypeInv
    /\ RingComplete /\ HasNewest
    /\ \A p \in Procs : RequestOK(p)
    /\ Tickets

LEMMA NoRequestOK == NoRequest \in Request
BY SamlAssumption DEF NoRequest, NoRing, Request, Routes

\* The step of request p.
LEMMA MovesOne ==
    ASSUME TypeInv, NEW p \in Procs, NEW label, NEW r, GotoWith(p, label, r)
    PROVE  /\ pc'[p] = label /\ req'[p] = r
           /\ \A q \in Procs \ {p} : pc'[q] = pc[q] /\ req'[q] = req[q]
BY DEF TypeInv, TypeOK, GotoWith

\* Nothing that a request knows is taken back: keys and pointers are only created.
Grows ==
    /\ \A v \in Versions : /\ key[v] # None => key'[v] = key[v]
                           /\ pointer[v].made => pointer'[v].made
    /\ now <= now'

LEMMA OthersKnow ==
    ASSUME IInv, TypeInv', Grows, NEW q \in Procs, pc'[q] = pc[q], req'[q] = req[q]
    PROVE  RequestOK(q)'
<1> DEFINE l == pc[q]
           r == req[q]
<1>1. ReqOK(q, l, r) /\ r \in Request /\ l \in Labels /\ now \in Nat /\ now' \in Nat /\ q # None /\ now <= now'
    BY SamlAssumption DEF IInv, RequestOK, TypeInv, TypeOK, Grows
<1>2. 1 \in Versions
    BY SamlAssumption DEF Versions
<1>3. l \in {"receive", "key", "pointer", "publish", "sign"} =>
         r.ring.version \in Versions /\ pointer'[r.ring.version].made /\ r.ring.key = key'[r.ring.version]
    BY <1>1 DEF ReqOK, Current, Grows, IInv, RingComplete, PointersKeyed, Pointers
<1>4. l = "initpointer" => key'[1] = q
    BY <1>1, <1>2 DEF ReqOK, Grows
<1>5. l = "pointer" /\ r.ring.version + 1 \in Versions => key'[r.ring.version + 1] # None
    BY <1>1 DEF ReqOK, Grows
<1>6. l = "reserve" \/ (Arriving(l, r) /\ r.route = "sso") =>
         r.sp \in Sps /\ r.authn \in AuthnRequests /\ IssueInstant[r.authn] <= now'
    <2>1. r.authn \in AuthnRequests => IssueInstant[r.authn] \in Nat
        BY SamlAssumption
    <2> QED
        BY <1>1, <2>1 DEF ReqOK
<1> QED
    BY <1>1, <1>3, <1>4, <1>5, <1>6 DEF RequestOK, ReqOK, Current, Arriving

\* A request that is not between the writes of a key and its pointer.
Settled(p) == pc[p] \notin {"initpointer", "pointer"}

LEMMA SettledPoints == ASSUME NEW p \in Procs, Settled(p) PROVE Pointing(p) = {}
BY DEF Settled, Pointing, At

\* The ring stays whole when nothing is written to it, and a writer that goes leaves its version behind.
LEMMA SameRing ==
    ASSUME IInv, UNCHANGED <<key, pointer>>, orphaned \subseteq orphaned',
           \A q \in Procs : Pointing(q) \subseteq Pointing(q)' \cup orphaned'
    PROVE  RingComplete' /\ HasNewest'
<1>1. PointersKeyed' /\ HasNewest'
    BY DEF IInv, RingComplete, PointersKeyed, HasNewest, Pointers
<1>2. KeysPointed'
    <2> SUFFICES ASSUME NEW v \in Versions, key'[v] # None, ~pointer'[v].made, v \notin orphaned'
                 PROVE  \E q \in Procs : v \in Pointing(q)'
        BY DEF KeysPointed
    <2>1. PICK q \in Procs : v \in Pointing(q)
        BY DEF IInv, RingComplete, KeysPointed
    <2> QED
        BY <2>1
<1> QED
    BY <1>1, <1>2 DEF RingComplete

\* Fewer requests and flows may answer, and no answer is sent.
LEMMA TicketsKeep ==
    ASSUME IInv, UNCHANGED <<reserved, answered, late>>,
           \A x \in Sps \X AuthnRequests : /\ \A q \in Procs : Carries(q, x)' => Carries(q, x)
                                           /\ \A s \in Sessions : Keeps(s, x)' => Keeps(s, x)
    PROVE  Tickets'
<1> SUFFICES ASSUME NEW x \in (Sps \X AuthnRequests) \ late PROVE TicketOK(x)'
    BY DEF Tickets
<1>1. TicketOK(x) /\ (Reserved(x)' <=> Reserved(x))
    BY DEF IInv, Tickets, Reserved
<1> HIDE DEF Carries, Keeps, Reserved
<1> QED
    BY <1>1 DEF TicketOK

\* The step of a request that writes neither the ring nor reservations nor flows.
LEMMA MoveOK ==
    ASSUME IInv, NEW p \in Procs, NEW label \in Labels, NEW r \in Request, GotoWith(p, label, r),
           UNCHANGED <<now, key, pointer, reserved, session, answered, late>>,
           orphaned' = orphaned \cup Pointing(p),
           sp' \in [Sps -> SpStates], lock' \in Nat,
           requests' \in 0..MaxRequests, crashes' \in 0..MaxCrashes,
           ReqOK(p, label, r),
           Answering(label, r) => Answering(pc[p], req[p]) /\ r.sp = req[p].sp /\ r.authn = req[p].authn
    PROVE  IInv'
<1>1. /\ TypeInv /\ pc'[p] = label /\ req'[p] = r
      /\ \A q \in Procs \ {p} : pc'[q] = pc[q] /\ req'[q] = req[q]
    BY MovesOne DEF IInv
<1>2. TypeInv'
    <2>1. req' \in [Procs -> Request] /\ pc' \in [Procs -> Labels]
        BY <1>1 DEF TypeInv, TypeOK, GotoWith
    <2>2. \A q \in Procs : req'[q].route \in Routes
        BY <2>1 DEF Request
    <2>3. orphaned' \subseteq Nat
        <3>1. orphaned \subseteq Nat /\ req[p].ring.version + 1 \in Nat
            BY <1>1 DEF TypeInv, TypeOK, Request
        <3>2. Pointing(p) \subseteq Nat
            BY <3>1 DEF Pointing
        <3> QED
            BY <3>1, <3>2
    <2> QED
        BY <1>1, <2>1, <2>2, <2>3 DEF TypeInv, TypeOK
<1>3. Grows
    <2>1. now \in Nat
        BY <1>1 DEF TypeInv, TypeOK
    <2> QED
        BY <2>1 DEF Grows
<1>4. RequestOK(p)'
    BY <1>1 DEF RequestOK, ReqOK, Current, Fresh
<1>5. \A q \in Procs : RequestOK(q)'
    BY <1>1, <1>2, <1>3, <1>4, OthersKnow
<1>6. Tickets'
    <2> SUFFICES ASSUME NEW x \in Sps \X AuthnRequests
                 PROVE  /\ \A q \in Procs : Carries(q, x)' => Carries(q, x)
                        /\ \A s \in Sessions : Keeps(s, x)' => Keeps(s, x)
        BY TicketsKeep
    <2> QED
        BY <1>1 DEF Carries, Keeps
<1>7. \A q \in Procs : Pointing(q) \subseteq Pointing(q)' \cup orphaned'
    BY <1>1 DEF Pointing, At
<1> QED
    BY <1>2, <1>5, <1>6, <1>7, SameRing DEF IInv

\* The step that ends a request.
LEMMA FinishOK ==
    ASSUME IInv, NEW p \in Procs, Finish(p), UNCHANGED <<now, key, pointer, reserved, session, answered, late>>,
           orphaned' = orphaned \cup Pointing(p),
           sp' \in [Sps -> SpStates], lock' \in Nat,
           requests' \in 0..MaxRequests, crashes' \in 0..MaxCrashes
    PROVE  IInv'
<1>1. "idle" \in Labels /\ NoRequest \in Request /\ GotoWith(p, "idle", NoRequest)
    BY NoRequestOK DEF Labels, Finish
<1>2. ReqOK(p, "idle", NoRequest) /\ ~Answering("idle", NoRequest)
    BY DEF ReqOK, Answering, Arriving, RingSteps
<1> QED
    BY <1>1, <1>2, MoveOK

\* The values of the tables that most steps leave alone.
LEMMA Same ==
    ASSUME IInv, UNCHANGED <<sp, lock, requests, crashes>>
    PROVE  /\ sp' \in [Sps -> SpStates] /\ lock' \in Nat
           /\ requests' \in 0..MaxRequests /\ crashes' \in 0..MaxCrashes
BY DEF IInv, TypeInv, TypeOK

\* The first step of a request.
LEMMA StartOK ==
    ASSUME IInv, NEW p \in Procs, NEW label \in Labels, NEW r \in Request, Start(p, label, r),
           UNCHANGED <<now, sp, key, pointer, lock, reserved, session, crashes, answered, late, orphaned>>,
           ReqOK(p, label, r), ~Answering(label, r)
    PROVE  IInv'
<1>1. GotoWith(p, label, r) /\ requests' \in 0..MaxRequests
    BY SamlAssumption DEF Start, IInv, TypeInv, TypeOK
<1>2. sp' \in [Sps -> SpStates] /\ lock' \in Nat /\ crashes' \in 0..MaxCrashes
    BY DEF IInv, TypeInv, TypeOK
<1>3. orphaned' = orphaned \cup Pointing(p)
    BY SettledPoints DEF Start, At, Settled
<1> QED
    BY <1>1, <1>2, <1>3, MoveOK

\* Metadata and rotation.
LEMMA BeginRingOK ==
    ASSUME IInv, NEW p \in Procs, BeginMetadata(p) \/ BeginRotate(p) PROVE IInv'
<1> DEFINE m == [NoRequest EXCEPT !.route = "metadata", !.then = "publish"]
           k == [NoRequest EXCEPT !.route = "rotate", !.then = "key"]
<1>1. m \in Request /\ m.then = "publish" /\ m.route = "metadata"
    BY NoRequestOK DEF Request, Routes, Thens, NoRequest
<1>2. k \in Request /\ k.then = "key" /\ k.route = "rotate"
    BY NoRequestOK DEF Request, Routes, Thens, NoRequest
<1>3. CASE BeginMetadata(p)
    <2>1. Start(p, "ring", m) /\ UNCHANGED <<now, sp, key, pointer, lock, reserved, session, crashes, answered, late, orphaned>>
        BY <1>3 DEF BeginMetadata
    <2> HIDE DEF m
    <2>2. "ring" \in Labels /\ ReqOK(p, "ring", m) /\ ~Answering("ring", m)
        BY <1>1 DEF Labels, ReqOK, Answering, Arriving, RingSteps, Thens
    <2> QED
        BY <1>1, <2>1, <2>2, StartOK
<1>4. CASE BeginRotate(p)
    <2>1. Start(p, "lock", k) /\ UNCHANGED <<now, sp, key, pointer, lock, reserved, session, crashes, answered, late, orphaned>>
        BY <1>4 DEF BeginRotate
    <2> HIDE DEF k
    <2>2. "lock" \in Labels /\ ReqOK(p, "lock", k) /\ ~Answering("lock", k)
        BY <1>2 DEF Labels, ReqOK, Answering, Arriving, RingSteps, Thens
    <2> QED
        BY <1>2, <2>1, <2>2, StartOK
<1> QED
    BY <1>3, <1>4

\* start: the request that a service provider issued.
LEMMA BeginSsoOK ==
    ASSUME IInv, NEW p \in Procs, NEW s \in Sps, NEW a \in AuthnRequests, BeginSso(p, s, a) PROVE IInv'
<1> DEFINE r == [NoRequest EXCEPT !.route = "sso", !.then = "receive", !.sp = s, !.authn = a]
<1>1. r \in Request /\ r.then = "receive" /\ r.route = "sso" /\ r.sp = s /\ r.authn = a
    BY NoRequestOK DEF Request, Routes, Thens, NoRequest
<1>2. Start(p, "ring", r) /\ UNCHANGED <<now, sp, key, pointer, lock, reserved, session, crashes, answered, late, orphaned>>
      /\ IssueInstant[a] <= now
    BY DEF BeginSso
<1> HIDE DEF r
<1>3. "ring" \in Labels /\ ReqOK(p, "ring", r) /\ ~Answering("ring", r)
    BY <1>1, <1>2 DEF Labels, ReqOK, Answering, Arriving, RingSteps, Thens
<1> QED
    BY <1>1, <1>2, <1>3, StartOK

\* The management API and the admin panel.
LEMMA BeginSpOK ==
    ASSUME IInv, NEW p \in Procs, NEW s \in Sps,
           \/ BeginCreateSp(p, s) \/ BeginUpdateSp(p, s) \/ BeginDeleteSp(p, s)
           \/ BeginEditSp(p, s) \/ BeginToggleSp(p, s)
    PROVE  IInv'
<1>1. ASSUME NEW v \in {"enabled", "disabled"},
             Start(p, "put", [NoRequest EXCEPT !.route = "admin", !.sp = s, !.value = v]),
             UNCHANGED <<now, sp, key, pointer, lock, reserved, session, crashes, answered, late, orphaned>>
      PROVE  IInv'
    <2> DEFINE r == [NoRequest EXCEPT !.route = "admin", !.sp = s, !.value = v]
    <2>1. r \in Request /\ r.value = v
        BY NoRequestOK DEF Request, Routes, NoRequest
    <2>2. Start(p, "put", r)
        BY <1>1
    <2> HIDE DEF r
    <2>3. "put" \in Labels /\ ReqOK(p, "put", r) /\ ~Answering("put", r)
        BY <2>1 DEF Labels, ReqOK, Answering, Arriving, RingSteps
    <2> QED
        BY <1>1, <2>1, <2>2, <2>3, StartOK
<1>2. CASE BeginDeleteSp(p, s)
    <2> DEFINE r == [NoRequest EXCEPT !.route = "admin", !.sp = s]
    <2>1. r \in Request
        BY NoRequestOK DEF Request, Routes, NoRequest
    <2>2. Start(p, "delete", r) /\ UNCHANGED <<now, sp, key, pointer, lock, reserved, session, crashes, answered, late, orphaned>>
        BY <1>2 DEF BeginDeleteSp
    <2> HIDE DEF r
    <2>3. "delete" \in Labels /\ ReqOK(p, "delete", r) /\ ~Answering("delete", r)
        BY <2>1 DEF Labels, ReqOK, Answering, Arriving, RingSteps
    <2> QED
        BY <2>1, <2>2, <2>3, StartOK
<1>3. CASE BeginCreateSp(p, s)
    BY <1>1, <1>3 DEF BeginCreateSp
<1>4. CASE BeginUpdateSp(p, s)
    BY <1>1, <1>4 DEF BeginUpdateSp
<1>5. CASE BeginEditSp(p, s)
    BY <1>1, <1>5 DEF BeginEditSp, Registered
<1>6. CASE BeginToggleSp(p, s)
    <2>1. PICK v \in {"enabled", "disabled"} : v = IF sp[s] = "enabled" THEN "disabled" ELSE "enabled"
        OBVIOUS
    <2> QED
        BY <1>1, <1>6, <2>1 DEF BeginToggleSp
<1> QED
    BY <1>2, <1>3, <1>4, <1>5, <1>6

\* save_saml_service_provider and delete_saml_service_provider.
LEMMA SaveSpOK == ASSUME IInv, NEW p \in Procs, SaveSp(p) \/ DeleteSp(p) PROVE IInv'
<1>1. UNCHANGED <<now, key, pointer, lock, reserved, session, requests, crashes, answered, late, orphaned>> /\ Finish(p)
    BY DEF SaveSp, DeleteSp
<1>2. TypeInv /\ RequestOK(p) /\ req[p] \in Request
    BY DEF IInv, TypeInv
<1>3. sp' \in [Sps -> SpStates]
    <2>1. CASE SaveSp(p)
        <3>1. req[p].value \in SpStates
            BY <1>2, <2>1 DEF SaveSp, At, RequestOK, ReqOK, Request, SpStates
        <3> QED
            BY <1>2, <2>1, <3>1 DEF SaveSp, TypeInv, TypeOK
    <2>2. CASE DeleteSp(p)
        BY <1>2, <2>2 DEF DeleteSp, TypeInv, TypeOK, SpStates
    <2> QED
        BY <2>1, <2>2
<1>4. lock' \in Nat /\ requests' \in 0..MaxRequests /\ crashes' \in 0..MaxCrashes
    BY <1>1, <1>2 DEF TypeInv, TypeOK
<1>5. orphaned' = orphaned \cup Pointing(p)
    BY <1>1, SettledPoints DEF SaveSp, DeleteSp, At, Settled
<1> QED
    BY <1>1, <1>3, <1>4, <1>5, FinishOK

\* Steps that only end a request.
LEMMA EndOK ==
    ASSUME IInv, NEW p \in Procs, Settled(p), Finish(p),
           UNCHANGED <<now, sp, key, pointer, lock, reserved, session, requests, crashes, answered, late, orphaned>>
    PROVE  IInv'
BY Same, SettledPoints, FinishOK

LEMMA QuietOK ==
    ASSUME IInv, NEW p \in Procs, Publish(p) \/ RefusePassive(p) \/ RefuseResponse(p) \/ Crash(p)
    PROVE  IInv'
<1>1. CASE Crash(p)
    <2>1. crashes' \in 0..MaxCrashes /\ sp' \in [Sps -> SpStates] /\ lock' \in Nat /\ requests' \in 0..MaxRequests
        BY <1>1, SamlAssumption DEF Crash, IInv, TypeInv, TypeOK
    <2> QED
        BY <1>1, <2>1, FinishOK DEF Crash
<1>2. CASE Publish(p) \/ RefusePassive(p) \/ RefuseResponse(p)
    BY <1>2, EndOK DEF Publish, RefusePassive, RefuseResponse, At, Settled
<1> QED
    BY <1>1, <1>2

\* A request that has read the ring goes on with it.
LEMMA Fetched ==
    ASSUME IInv, NEW p \in Procs, pc[p] \in RingSteps, NEW ring \in [version: Nat, key: Procs \cup {None}],
           NEW r, r = [req[p] EXCEPT !.ring = ring]
    PROVE  /\ r \in Request /\ r.then \in Thens /\ r.then = req[p].then /\ r.then \in Labels /\ r.ring = ring
           /\ Current(ring) => ReqOK(p, r.then, r)
           /\ Answering(r.then, r) => Answering(pc[p], req[p]) /\ r.sp = req[p].sp /\ r.authn = req[p].authn
<1>1. req[p] \in Request /\ ReqOK(p, pc[p], req[p])
    BY DEF IInv, TypeInv, RequestOK
<1>2. r \in Request
    BY <1>1 DEF Request
<1>3. /\ r.then = req[p].then /\ r.route = req[p].route /\ r.ring = ring
      /\ r.sp = req[p].sp /\ r.authn = req[p].authn
    BY <1>1 DEF Request
<1>4. r.then \in Thens /\ r.then \in Labels /\ r.then \notin RingSteps
    BY <1>1, <1>3 DEF ReqOK, Thens, Labels, RingSteps
<1>5. Current(ring) => ReqOK(p, r.then, r)
    BY <1>1, <1>3, <1>4 DEF ReqOK, Arriving, Thens
<1>6. Answering(r.then, r) => Answering(pc[p], req[p])
    BY <1>3, <1>4 DEF Answering, Thens
<1> QED
    BY <1>2, <1>3, <1>4, <1>5, <1>6

\* The ring that is read.
LEMMA RingIs ==
    ASSUME IInv, Pointers # {}
    PROVE  /\ Newest \in Pointers /\ \A v \in Pointers : v <= Newest
           /\ Current(Ring) /\ Ring \in [version: Nat, key: Procs \cup {None}]
<1>1. Newest \in Pointers /\ \A v \in Pointers : v <= Newest
    BY DEF IInv, HasNewest, Newest
<1>2. Newest \in Versions /\ pointer[Newest].made /\ Newest \in Nat
    BY <1>1, SamlAssumption DEF Pointers, Versions
<1>3. key[Newest] \in Procs \cup {None}
    BY <1>2 DEF IInv, TypeInv, TypeOK
<1> QED
    BY <1>1, <1>2, <1>3 DEF Ring, Current

\* A request that goes on with the same locals.
LEMMA GoOnOK ==
    ASSUME IInv, NEW p \in Procs, Settled(p), NEW label \in Labels, Goto(p, label),
           UNCHANGED <<now, sp, key, pointer, reserved, session, requests, crashes, answered, late, orphaned>>, lock' \in Nat,
           ReqOK(p, label, req[p]), Answering(label, req[p]) => Answering(pc[p], req[p])
    PROVE  IInv'
<1>1. /\ req[p] \in Request /\ sp' \in [Sps -> SpStates]
      /\ requests' \in 0..MaxRequests /\ crashes' \in 0..MaxCrashes
    BY DEF IInv, TypeInv, TypeOK
<1> QED
    BY <1>1, SettledPoints, MoveOK DEF Goto

LEMMA FailOK ==
    ASSUME IInv, NEW p \in Procs, Settled(p), Fail(p),
           UNCHANGED <<now, sp, key, pointer, lock, reserved, session, requests, crashes, answered, late, orphaned>>
    PROVE  IInv'
<1>1. CASE Finish(p)
    BY <1>1, EndOK
<1>2. CASE Goto(p, "release")
    <2>1. "release" \in Labels /\ ReqOK(p, "release", req[p]) /\ ~Answering("release", req[p]) /\ lock' \in Nat
        BY DEF Labels, ReqOK, Answering, Arriving, RingSteps, IInv, TypeInv, TypeOK
    <2> QED
        BY <1>2, <2>1, GoOnOK
<1> QED
    BY <1>1, <1>2 DEF Fail

LEMMA UseRingOK ==
    ASSUME IInv, NEW p \in Procs, pc[p] \in RingSteps, Settled(p), Pointers # {}, UseRing(p),
           UNCHANGED <<now, sp, key, pointer, lock, reserved, session, requests, crashes, answered, late, orphaned>>
    PROVE  IInv'
<1>1. CASE Fail(p)
    BY <1>1, FailOK
<1>2. CASE GotoWith(p, req[p].then, [req[p] EXCEPT !.ring = Ring])
    <2>1. PICK r : r = [req[p] EXCEPT !.ring = Ring]
        OBVIOUS
    <2>2. GotoWith(p, r.then, r) /\ r \in Request /\ r.then \in Labels /\ ReqOK(p, r.then, r)
          /\ (Answering(r.then, r) => Answering(pc[p], req[p]) /\ r.sp = req[p].sp /\ r.authn = req[p].authn)
        BY <1>2, <2>1, RingIs, Fetched
    <2> QED
        BY <2>2, Same, SettledPoints, MoveOK
<1> QED
    BY <1>1, <1>2 DEF UseRing

\* ensure_key_ring, and its second reading after another instance won the race to initialize.
LEMMA ReadRingOK == ASSUME IInv, NEW p \in Procs, ReadRing(p) \/ RereadRing(p) PROVE IInv'
<1>1. /\ pc[p] \in RingSteps /\ Settled(p)
      /\ UNCHANGED <<now, sp, key, pointer, lock, reserved, session, requests, crashes, answered, late, orphaned>>
    BY DEF ReadRing, RereadRing, At, RingSteps, Settled
<1>2. CASE Pointers # {} /\ UseRing(p)
    BY <1>1, <1>2, UseRingOK
<1>3. CASE Fail(p)
    BY <1>1, <1>3, FailOK
<1>4. CASE Goto(p, "init") /\ pc[p] = "ring"
    <2>1. ReqOK(p, "ring", req[p]) /\ lock' \in Nat
        BY <1>1, <1>4 DEF IInv, RequestOK, TypeInv, TypeOK
    <2>2. "init" \in Labels /\ ReqOK(p, "init", req[p]) /\ (Answering("init", req[p]) => Answering("ring", req[p]))
        BY <2>1 DEF Labels, ReqOK, Answering, Arriving, RingSteps
    <2> QED
        BY <1>1, <1>4, <2>1, <2>2, GoOnOK
<1> QED
    BY <1>2, <1>3, <1>4 DEF ReadRing, RereadRing, At

\* A step of a request that adds to the ring.
LEMMA RingMoveOK ==
    ASSUME IInv, NEW p \in Procs, NEW label \in Labels, NEW r \in Request, GotoWith(p, label, r),
           UNCHANGED <<now, sp, lock, reserved, session, requests, crashes, answered, late, orphaned>>,
           key' \in [Versions -> Procs \cup {None}],
           pointer' \in [Versions -> [made: BOOLEAN, previous: 0..MaxRequests, grace: Nat]],
           Grows, RingComplete', HasNewest', RequestOK(p)',
           Answering(label, r) => Answering(pc[p], req[p]) /\ r.sp = req[p].sp /\ r.authn = req[p].authn
    PROVE  IInv'
<1>1. /\ TypeInv /\ pc'[p] = label /\ req'[p] = r
      /\ \A q \in Procs \ {p} : pc'[q] = pc[q] /\ req'[q] = req[q]
    BY MovesOne DEF IInv
<1>2. TypeInv'
    <2>1. req' \in [Procs -> Request] /\ pc' \in [Procs -> Labels]
        BY <1>1 DEF TypeInv, TypeOK, GotoWith
    <2>2. \A q \in Procs : req'[q].route \in Routes
        BY <2>1 DEF Request
    <2> QED
        BY <1>1, <2>1, <2>2 DEF TypeInv, TypeOK
<1>3. \A q \in Procs : RequestOK(q)'
    BY <1>1, <1>2, OthersKnow
<1>4. Tickets'
    <2> SUFFICES ASSUME NEW x \in Sps \X AuthnRequests
                 PROVE  /\ \A q \in Procs : Carries(q, x)' => Carries(q, x)
                        /\ \A s \in Sessions : Keeps(s, x)' => Keeps(s, x)
        BY TicketsKeep
    <2> QED
        BY <1>1 DEF Carries, Keeps
<1> QED
    BY <1>2, <1>3, <1>4 DEF IInv

\* kv_create_raw of a version's key, that is there for nobody else to create.
LEMMA CreateKey ==
    ASSUME IInv, NEW p \in Procs, NEW v \in Nat, Vacant(v), key' = [key EXCEPT ![v] = p], UNCHANGED <<now, pointer>>
    PROVE  /\ key' \in [Versions -> Procs \cup {None}] /\ Grows /\ PointersKeyed' /\ HasNewest'
           /\ v \in Versions => key'[v] = p
           /\ \A w \in Versions \ {v} : key'[w] = key[w]
<1>1. TypeInv /\ now \in Nat
    BY DEF IInv, TypeInv, TypeOK
<1>2. /\ key' \in [Versions -> Procs \cup {None}] /\ (v \in Versions => key'[v] = p)
      /\ \A w \in Versions \ {v} : key'[w] = key[w]
      /\ \A w \in Versions : key[w] # None => key'[w] = key[w]
    BY <1>1 DEF TypeInv, TypeOK, Vacant
<1>3. Grows
    BY <1>1, <1>2 DEF Grows
<1>4. PointersKeyed'
    BY <1>2 DEF IInv, RingComplete, PointersKeyed, Pointers
<1>5. HasNewest'
    BY DEF IInv, HasNewest, Pointers
<1> QED
    BY <1>2, <1>3, <1>4, <1>5

\* The writer of a key is the one that is about to create its pointer.
LEMMA KeyIsPointed ==
    ASSUME IInv, NEW p \in Procs, Settled(p), NEW v, UNCHANGED <<pointer, orphaned>>,
           \A w \in Versions \ {v} : key'[w] = key[w], v \in Pointing(p)',
           \A q \in Procs \ {p} : pc'[q] = pc[q] /\ req'[q] = req[q]
    PROVE  KeysPointed'
<1> SUFFICES ASSUME NEW w \in Versions, key'[w] # None, ~pointer'[w].made, w \notin orphaned'
             PROVE  \E q \in Procs : w \in Pointing(q)'
    BY DEF KeysPointed
<1>1. CASE w = v
    BY <1>1
<1>2. CASE w # v
    <2>1. PICK q \in Procs : w \in Pointing(q)
        BY <1>2 DEF IInv, RingComplete, KeysPointed
    <2>2. q # p
        BY <2>1, SettledPoints
    <2>3. Pointing(q)' = Pointing(q)
        BY <2>2 DEF Pointing, At
    <2> QED
        BY <2>1, <2>3
<1> QED
    BY <1>1, <1>2

\* ensure_key_ring: only one instance creates the first key.
LEMMA InitKeyOK == ASSUME IInv, NEW p \in Procs, InitKey(p) PROVE IInv'
<1>1. /\ pc[p] = "init" /\ ReqOK(p, "init", req[p]) /\ req[p] \in Request /\ lock' \in Nat /\ lock \in Nat
      /\ UNCHANGED <<now, sp, pointer, lock, reserved, session, requests, crashes, answered, late, orphaned>>
    BY DEF InitKey, At, IInv, RequestOK, TypeInv, TypeOK
<1>2. CASE Vacant(1) /\ key' = [key EXCEPT ![1] = p] /\ Goto(p, "initpointer")
    <2>1. /\ key' \in [Versions -> Procs \cup {None}] /\ Grows /\ PointersKeyed' /\ HasNewest'
          /\ key'[1] = p /\ \A w \in Versions \ {1} : key'[w] = key[w]
        <3>1. 1 \in Nat /\ 1 \in Versions
            BY SamlAssumption DEF Versions
        <3> QED
            BY <1>1, <1>2, <3>1, CreateKey
    <2>2. "initpointer" \in Labels /\ GotoWith(p, "initpointer", req[p])
          /\ (Answering("initpointer", req[p]) => Answering("init", req[p]))
        BY <1>2 DEF Labels, Goto, Answering, RingSteps
    <2>3. pc'[p] = "initpointer" /\ req'[p] = req[p]
          /\ \A q \in Procs \ {p} : pc'[q] = pc[q] /\ req'[q] = req[q]
        BY <2>2, MovesOne DEF IInv
    <2>4. RequestOK(p)'
        BY <1>1, <2>1, <2>3 DEF RequestOK, ReqOK, Arriving, RingSteps
    <2>5. pointer' \in [Versions -> [made: BOOLEAN, previous: 0..MaxRequests, grace: Nat]]
        BY <1>1 DEF IInv, TypeInv, TypeOK
    <2>6. Settled(p) /\ 1 \in Pointing(p)'
        BY <1>1, <2>3 DEF Settled, Pointing, At
    <2>7. KeysPointed'
        BY <1>1, <2>1, <2>3, <2>6, KeyIsPointed
    <2> QED
        BY <1>1, <2>1, <2>2, <2>4, <2>5, <2>7, RingMoveOK DEF RingComplete
<1>3. CASE Goto(p, "reread") /\ UNCHANGED key
    <2>1. "reread" \in Labels /\ ReqOK(p, "reread", req[p])
          /\ (Answering("reread", req[p]) => Answering("init", req[p]))
        BY <1>1 DEF Labels, ReqOK, Answering, Arriving, RingSteps
    <2> QED
        BY <1>1, <1>3, <2>1, GoOnOK DEF Settled
<1> QED
    BY <1>2, <1>3 DEF InitKey

\* A pointer is written when its key is there, after its predecessor.
LEMMA CreatePointer ==
    ASSUME IInv, NEW v \in Versions, NEW ptr \in [made: BOOLEAN, previous: 0..MaxRequests, grace: Nat],
           pointer' = [pointer EXCEPT ![v] = ptr], UNCHANGED <<now, key>>, ptr.made, key[v] # None,
           v > 1 => ptr.previous = v - 1 /\ pointer[v - 1].made
    PROVE  /\ pointer' \in [Versions -> [made: BOOLEAN, previous: 0..MaxRequests, grace: Nat]]
           /\ Grows /\ PointersKeyed' /\ HasNewest' /\ pointer'[v].made
<1>1. TypeInv /\ now \in Nat /\ Versions \subseteq Nat \ {0}
    BY SamlAssumption DEF IInv, TypeInv, TypeOK, Versions
<1>2. /\ pointer' \in [Versions -> [made: BOOLEAN, previous: 0..MaxRequests, grace: Nat]]
      /\ pointer'[v] = ptr /\ \A w \in Versions \ {v} : pointer'[w] = pointer[w]
    BY <1>1 DEF TypeInv, TypeOK
<1>3. Grows
    BY <1>1, <1>2 DEF Grows
<1>4. Pointers' = Pointers \cup {v}
    BY <1>2 DEF Pointers
<1>5. ASSUME NEW w \in Pointers'
      PROVE  key'[w] # None /\ (w > 1 => pointer'[w].previous = w - 1 /\ pointer'[w - 1].made)
    <2>1. w \in Versions /\ (w > 1 => w - 1 \in Versions /\ w - 1 # w)
        BY SamlAssumption DEF Pointers, Versions
    <2>2. w > 1 /\ pointer[w - 1].made => pointer'[w - 1].made
        BY <1>2, <2>1
    <2>3. CASE w = v
        BY <1>2, <2>2, <2>3
    <2>4. CASE w # v
        <3>1. w \in Pointers /\ pointer'[w] = pointer[w]
            BY <1>2, <1>4, <2>1, <2>4
        <3> QED
            BY <2>2, <3>1 DEF IInv, RingComplete, PointersKeyed
    <2> QED
        BY <2>3, <2>4
<1>6. PointersKeyed'
    BY <1>5 DEF PointersKeyed
<1>7. HasNewest'
    <2>1. CASE Pointers = {}
        BY <1>1, <1>4, <2>1 DEF HasNewest
    <2>2. CASE Pointers # {}
        <3>1. PICK w \in Pointers : \A u \in Pointers : u <= w
            BY <2>2 DEF IInv, HasNewest
        <3>2. w \in Nat /\ v \in Nat /\ \A u \in Pointers : u \in Nat
            BY <1>1 DEF Pointers
        <3>3. CASE v <= w
            BY <1>4, <3>1, <3>3 DEF HasNewest
        <3>4. CASE w < v
            <4>1. \A u \in Pointers' : u <= v
                BY <1>4, <3>1, <3>2, <3>4
            <4> QED
                BY <1>4, <4>1 DEF HasNewest
        <3> QED
            BY <3>2, <3>3, <3>4
    <2> QED
        BY <2>1, <2>2
<1> QED
    BY <1>2, <1>3, <1>6, <1>7

\* A request that was about to create a pointer, and has done it.
LEMMA PointerMade ==
    ASSUME IInv, NEW p \in Procs, NEW v, UNCHANGED <<key, orphaned>>, Grows,
           Pointing(p) \subseteq {v}, v \in Versions => pointer'[v].made,
           \A q \in Procs \ {p} : pc'[q] = pc[q] /\ req'[q] = req[q]
    PROVE  KeysPointed'
<1> SUFFICES ASSUME NEW w \in Versions, key'[w] # None, ~pointer'[w].made, w \notin orphaned'
             PROVE  \E q \in Procs : w \in Pointing(q)'
    BY DEF KeysPointed
<1>1. PICK q \in Procs : w \in Pointing(q)
    BY DEF IInv, RingComplete, KeysPointed, Grows
<1>2. q # p
    BY <1>1
<1>3. Pointing(q)' = Pointing(q)
    BY <1>2 DEF Pointing, At
<1> QED
    BY <1>1, <1>3

\* ensure_key_ring: the pointer to the key that p created.
LEMMA InitPointerOK == ASSUME IInv, NEW p \in Procs, InitPointer(p) PROVE IInv'
<1>1. /\ pc[p] \in RingSteps /\ pc[p] = "initpointer" /\ key[1] = p /\ p # None
      /\ UNCHANGED <<now, sp, key, lock, reserved, session, requests, crashes, answered, late, orphaned>>
    BY SamlAssumption DEF InitPointer, At, IInv, RequestOK, ReqOK, RingSteps
<1>2. PICK ptr : ptr = [NoPointer EXCEPT !.made = TRUE]
    OBVIOUS
<1>3. ptr \in [made: BOOLEAN, previous: 0..MaxRequests, grace: Nat] /\ ptr.made
    <2>1. MaxRequests \in Nat /\ 0 \in 0..MaxRequests
        BY SamlAssumption
    <2>2. ptr = [made |-> TRUE, previous |-> 0, grace |-> 0]
        BY <1>2 DEF NoPointer
    <2> QED
        BY <2>1, <2>2
<1>4. pointer' = [pointer EXCEPT ![1] = ptr]
    BY <1>2 DEF InitPointer
<1>5. 1 \in Versions /\ ~(1 > 1)
    BY SamlAssumption DEF Versions
<1>6. /\ pointer' \in [Versions -> [made: BOOLEAN, previous: 0..MaxRequests, grace: Nat]]
      /\ Grows /\ PointersKeyed' /\ HasNewest' /\ pointer'[1].made
    BY <1>1, <1>3, <1>4, <1>5, CreatePointer
<1>7. PICK ring : ring = [version |-> 1, key |-> p]
    OBVIOUS
<1>8. PICK r : r = [req[p] EXCEPT !.ring = ring]
    OBVIOUS
<1>9. /\ ring \in [version: Nat, key: Procs \cup {None}] /\ ring.version = 1 /\ ring.key = p
      /\ GotoWith(p, req[p].then, r)
    BY <1>7, <1>8 DEF InitPointer
<1>10. /\ r \in Request /\ r.then \in Thens /\ r.then \in Labels /\ r.ring = ring /\ GotoWith(p, r.then, r)
       /\ (Answering(r.then, r) => Answering(pc[p], req[p]) /\ r.sp = req[p].sp /\ r.authn = req[p].authn)
    BY <1>1, <1>8, <1>9, Fetched
<1>11. pc'[p] = r.then /\ req'[p] = r /\ \A q \in Procs \ {p} : pc'[q] = pc[q] /\ req'[q] = req[q]
    BY <1>10, MovesOne DEF IInv
<1>12. RequestOK(p)'
    <2>1. Current(ring)'
        BY <1>1, <1>5, <1>6, <1>9 DEF Current
    <2>2. req[p] \in Request /\ ReqOK(p, "initpointer", req[p]) /\ r.route = req[p].route /\ r.then = req[p].then
          /\ r.sp = req[p].sp /\ r.authn = req[p].authn
        BY <1>1, <1>8 DEF IInv, TypeInv, RequestOK, Request
    <2> QED
        BY <1>1, <1>10, <1>11, <2>1, <2>2 DEF RequestOK, ReqOK, Arriving, RingSteps, Thens, Current
<1>13. key' \in [Versions -> Procs \cup {None}]
    BY <1>1 DEF IInv, TypeInv, TypeOK
<1>14. Pointing(p) \subseteq {1}
    BY <1>1 DEF Pointing, At
<1>15. KeysPointed'
    BY <1>1, <1>6, <1>11, <1>14, PointerMade
<1> QED
    BY <1>1, <1>6, <1>10, <1>12, <1>13, <1>15, RingMoveOK DEF RingComplete

\* rotate_key_ring: the lock, and its release.
LEMMA LockOK == ASSUME IInv, NEW p \in Procs, AcquireLock(p) \/ ReleaseLock(p) PROVE IInv'
<1>1. /\ UNCHANGED <<now, sp, key, pointer, reserved, session, requests, crashes, answered, late, orphaned>>
      /\ lock \in Nat /\ now + LockTTL \in Nat /\ ReqOK(p, pc[p], req[p]) /\ Settled(p)
    BY SamlAssumption DEF AcquireLock, ReleaseLock, IInv, RequestOK, TypeInv, TypeOK, At, Settled
<1>2. CASE Finish(p) /\ (UNCHANGED lock \/ lock' = 0)
    <2>1. sp' \in [Sps -> SpStates] /\ lock' \in Nat /\ requests' \in 0..MaxRequests /\ crashes' \in 0..MaxCrashes
        BY <1>1, <1>2 DEF IInv, TypeInv, TypeOK
    <2> QED
        BY <1>1, <1>2, <2>1, SettledPoints, FinishOK
<1>3. CASE pc[p] = "lock" /\ lock' = LockUntil /\ Goto(p, "ring")
    <2>1. "ring" \in Labels /\ ReqOK(p, "ring", req[p]) /\ lock' \in Nat
        BY <1>1, <1>3 DEF Labels, ReqOK, Arriving, RingSteps, Thens, LockUntil
    <2>2. ~Answering("ring", req[p])
        BY <1>1, <1>3 DEF ReqOK, Answering, RingSteps
    <2> QED
        BY <1>1, <1>3, <2>1, <2>2, GoOnOK
<1> QED
    BY <1>2, <1>3 DEF AcquireLock, ReleaseLock, At

\* A rotation that lost its way, or is done, lets the lock go.
LEMMA ToRelease ==
    ASSUME IInv, NEW p \in Procs, Settled(p), Goto(p, "release"),
           UNCHANGED <<now, sp, key, pointer, lock, reserved, session, requests, crashes, answered, late, orphaned>>
    PROVE  IInv'
<1>1. "release" \in Labels /\ ReqOK(p, "release", req[p]) /\ ~Answering("release", req[p]) /\ lock' \in Nat
    BY DEF Labels, ReqOK, Answering, Arriving, RingSteps, IInv, TypeInv, TypeOK
<1> QED
    BY <1>1, GoOnOK

\* rotate_key_ring: the key of the next version, which only one rotation creates.
LEMMA SaveKeyOK == ASSUME IInv, NEW p \in Procs, SaveKey(p) PROVE IInv'
<1>1. PICK v \in Nat : v = req[p].ring.version + 1
    BY DEF IInv, TypeInv, Request
<1>2. /\ pc[p] = "key" /\ ReqOK(p, "key", req[p]) /\ req[p] \in Request
      /\ UNCHANGED <<now, sp, pointer, lock, reserved, session, requests, crashes, answered, late, orphaned>>
    BY DEF SaveKey, At, IInv, TypeInv, RequestOK
<1>3. CASE Vacant(v) /\ key' = [key EXCEPT ![v] = p] /\ Goto(p, "pointer")
    <2>1. /\ key' \in [Versions -> Procs \cup {None}] /\ Grows /\ PointersKeyed' /\ HasNewest'
          /\ (v \in Versions => key'[v] = p) /\ \A w \in Versions \ {v} : key'[w] = key[w]
        BY <1>2, <1>3, CreateKey
    <2>2. "pointer" \in Labels /\ GotoWith(p, "pointer", req[p]) /\ ~Answering("pointer", req[p])
        BY <1>3 DEF Labels, Goto, Answering, RingSteps
    <2>3. pc'[p] = "pointer" /\ req'[p] = req[p] /\ \A q \in Procs \ {p} : pc'[q] = pc[q] /\ req'[q] = req[q]
        BY <2>2, MovesOne DEF IInv
    <2>4. Current(req[p].ring) /\ p # None
        BY <1>2, SamlAssumption DEF ReqOK
    <2>5. key[req[p].ring.version] # None
        BY <2>4 DEF Current, IInv, RingComplete, PointersKeyed, Pointers
    <2>6. req[p].ring.key = key'[req[p].ring.version]
        BY <2>1, <2>4, <2>5 DEF Current, Grows
    <2>7. RequestOK(p)'
        BY <1>1, <1>2, <2>1, <2>3, <2>4, <2>6 DEF RequestOK, ReqOK, Arriving, RingSteps, Current
    <2>8. pointer' \in [Versions -> [made: BOOLEAN, previous: 0..MaxRequests, grace: Nat]]
        BY <1>2 DEF IInv, TypeInv, TypeOK
    <2>9. Settled(p) /\ v \in Pointing(p)'
        BY <1>1, <1>2, <2>3 DEF Settled, Pointing, At
    <2>10. KeysPointed'
        BY <1>2, <2>1, <2>3, <2>9, KeyIsPointed
    <2> QED
        BY <1>2, <2>1, <2>2, <2>7, <2>8, <2>10, RingMoveOK DEF RingComplete
<1>4. CASE Goto(p, "release") /\ UNCHANGED key
    BY <1>2, <1>4, ToRelease DEF Settled
<1> QED
    BY <1>1, <1>3, <1>4 DEF SaveKey

\* rotate_key_ring: the pointer follows its key.
LEMMA SavePointerOK == ASSUME IInv, NEW p \in Procs, SavePointer(p) PROVE IInv'
<1>1. PICK v \in Nat : v = req[p].ring.version + 1
    BY DEF IInv, TypeInv, Request
<1>2. PICK ptr : ptr = [made |-> TRUE, previous |-> v - 1, grace |-> now + KeyGrace]
    OBVIOUS
<1>3. /\ pc[p] = "pointer" /\ ReqOK(p, "pointer", req[p]) /\ req[p] \in Request
      /\ pointer' = [pointer EXCEPT ![v] = ptr] /\ Goto(p, "release")
      /\ UNCHANGED <<now, sp, key, lock, reserved, session, requests, crashes, answered, late, orphaned>>
    BY <1>1, <1>2 DEF SavePointer, At, IInv, TypeInv, RequestOK
<1>4. /\ "release" \in Labels /\ GotoWith(p, "release", req[p]) /\ ~Answering("release", req[p])
      /\ key' \in [Versions -> Procs \cup {None}] /\ Pointing(p) \subseteq {v}
    BY <1>1, <1>3 DEF Labels, Goto, Answering, RingSteps, IInv, TypeInv, TypeOK, Pointing, At
<1>5. pc'[p] = "release" /\ \A q \in Procs \ {p} : pc'[q] = pc[q] /\ req'[q] = req[q]
    BY <1>4, MovesOne DEF IInv
<1>6. RequestOK(p)'
    BY <1>5 DEF RequestOK, ReqOK, Arriving, RingSteps
<1>7. /\ pointer' \in [Versions -> [made: BOOLEAN, previous: 0..MaxRequests, grace: Nat]]
      /\ Grows /\ PointersKeyed' /\ HasNewest' /\ (v \in Versions => pointer'[v].made)
    <2>1. CASE v \in Versions
        <3>1. v - 1 = req[p].ring.version /\ v - 1 \in 0..MaxRequests
            BY <1>1, <1>3, <2>1, SamlAssumption DEF Versions, Request
        <3>2. now + KeyGrace \in Nat
            BY SamlAssumption DEF IInv, TypeInv, TypeOK
        <3>3. ptr \in [made: BOOLEAN, previous: 0..MaxRequests, grace: Nat] /\ ptr.made /\ ptr.previous = v - 1
            BY <1>2, <3>1, <3>2
        <3>4. key[v] # None /\ pointer[v - 1].made
            BY <1>1, <1>3, <2>1, <3>1 DEF ReqOK, Current
        <3> QED
            BY <1>3, <2>1, <3>3, <3>4, CreatePointer
    <2>2. CASE v \notin Versions
        <3>1. pointer' = pointer /\ now \in Nat
            BY <1>3, <2>2 DEF IInv, TypeInv, TypeOK
        <3>2. PointersKeyed' /\ HasNewest'
            BY <1>3, <3>1 DEF IInv, RingComplete, PointersKeyed, HasNewest, Pointers
        <3>3. pointer \in [Versions -> [made: BOOLEAN, previous: 0..MaxRequests, grace: Nat]]
            BY DEF IInv, TypeInv, TypeOK
        <3>4. Grows
            BY <1>3, <3>1 DEF Grows
        <3> QED
            BY <2>2, <3>1, <3>2, <3>3, <3>4
    <2> QED
        BY <2>1, <2>2
<1>8. KeysPointed'
    BY <1>3, <1>4, <1>5, <1>7, PointerMade
<1> QED
    BY <1>3, <1>4, <1>6, <1>7, <1>8, RingMoveOK DEF RingComplete

\* validation() checks the age; a resumed request reads the ring again.
LEMMA ReceiveRequestOK == ASSUME IInv, NEW p \in Procs, ReceiveRequest(p) PROVE IInv'
<1>1. /\ pc[p] = "receive" /\ ReqOK(p, "receive", req[p]) /\ req[p] \in Request /\ lock' \in Nat
      /\ Settled(p) /\ Pointing(p) = {}
      /\ UNCHANGED <<now, sp, key, pointer, lock, reserved, session, requests, crashes, answered, late, orphaned>>
    BY DEF ReceiveRequest, At, IInv, TypeInv, RequestOK, TypeOK, Settled, Pointing
<1>2. CASE Finish(p)
    BY <1>1, <1>2, EndOK
<1>3. CASE Fresh(req[p].authn) /\ req[p].route = "sso" /\ Goto(p, "reserve")
    <2>1. "reserve" \in Labels /\ ReqOK(p, "reserve", req[p]) /\ ~Answering("reserve", req[p])
        BY <1>1, <1>3 DEF Labels, ReqOK, Answering, Arriving, RingSteps
    <2> QED
        BY <1>1, <1>3, <2>1, GoOnOK
<1>4. CASE /\ Fresh(req[p].authn) /\ req[p].route = "sso"
           /\ GotoWith(p, "reserve", [req[p] EXCEPT !.route = "login"])
    <2>1. PICK r : r = [req[p] EXCEPT !.route = "login"]
        OBVIOUS
    <2>2. r \in Request /\ r.sp = req[p].sp /\ r.authn = req[p].authn /\ r.route = "login"
        BY <1>1, <2>1 DEF Request, Routes
    <2>3. "reserve" \in Labels /\ ReqOK(p, "reserve", r) /\ ~Answering("reserve", r)
        BY <1>1, <1>4, <2>2 DEF Labels, ReqOK, Answering, Arriving, RingSteps
    <2> QED
        BY <1>1, <1>4, <2>1, <2>2, <2>3, Same, MoveOK
<1>5. CASE /\ req[p].route = "resume"
           /\ GotoWith(p, "ring", [req[p] EXCEPT !.then = "sign"])
    <2>1. PICK r : r = [req[p] EXCEPT !.then = "sign"]
        OBVIOUS
    <2>2. r \in Request /\ r.sp = req[p].sp /\ r.authn = req[p].authn /\ r.route = "resume" /\ r.then = "sign"
        BY <1>1, <1>5, <2>1 DEF Request, Thens
    <2>3. "ring" \in Labels /\ ReqOK(p, "ring", r) /\ Answering("receive", req[p])
        BY <1>1, <1>5, <2>2 DEF Labels, ReqOK, Answering, Arriving, RingSteps, Thens
    <2> QED
        BY <1>1, <1>5, <2>1, <2>2, <2>3, Same, MoveOK
<1> QED
    BY <1>2, <1>3, <1>4, <1>5 DEF ReceiveRequest

\* The post-login hooks.
LEMMA RunHooksOK == ASSUME IInv, NEW p \in Procs, RunHooks(p) PROVE IInv'
<1>1. /\ pc[p] = "hooks" /\ req[p] \in Request /\ Settled(p) /\ Pointing(p) = {}
      /\ UNCHANGED <<now, sp, key, pointer, lock, reserved, session, requests, crashes, answered, late, orphaned>>
    BY DEF RunHooks, At, IInv, TypeInv, Settled, Pointing
<1>2. CASE Finish(p)
    BY <1>1, <1>2, EndOK
<1>3. CASE GotoWith(p, "ring", [req[p] EXCEPT !.then = "sign"])
    <2>1. PICK r : r = [req[p] EXCEPT !.then = "sign"]
        OBVIOUS
    <2>2. r \in Request /\ r.sp = req[p].sp /\ r.authn = req[p].authn /\ r.then = "sign"
        BY <1>1, <2>1 DEF Request, Thens
    <2>3. "ring" \in Labels /\ ReqOK(p, "ring", r) /\ Answering("hooks", req[p])
        BY <1>1, <2>2 DEF Labels, ReqOK, Answering, Arriving, RingSteps, Thens
    <2> QED
        BY <1>1, <1>3, <2>1, <2>2, <2>3, Same, MoveOK
<1> QED
    BY <1>2, <1>3 DEF RunHooks

\* complete_after_login: the service provider is looked up again.
LEMMA ResumeFlowOK == ASSUME IInv, NEW p \in Procs, ResumeFlow(p) PROVE IInv'
<1>1. /\ pc[p] = "resume" /\ ReqOK(p, "resume", req[p]) /\ lock' \in Nat /\ Settled(p)
      /\ UNCHANGED <<now, sp, key, pointer, lock, reserved, session, requests, crashes, answered, late, orphaned>>
    BY DEF ResumeFlow, At, IInv, TypeInv, RequestOK, TypeOK, Settled
<1>2. CASE Finish(p)
    BY <1>1, <1>2, EndOK
<1>3. CASE Goto(p, "ring")
    <2>1. "ring" \in Labels /\ ReqOK(p, "ring", req[p]) /\ Answering("resume", req[p])
        BY <1>1 DEF Labels, ReqOK, Answering, Arriving, RingSteps, Thens
    <2> QED
        BY <1>1, <1>3, <2>1, GoOnOK
<1> QED
    BY <1>2, <1>3 DEF ResumeFlow

\* A step of a request that writes reservations, flows or answers.
LEMMA TicketMoveOK ==
    ASSUME IInv, NEW p \in Procs, Settled(p), NEW label \in Labels, NEW r \in Request, GotoWith(p, label, r),
           UNCHANGED <<now, sp, key, pointer, lock, crashes, orphaned>>, requests' \in 0..MaxRequests,
           late' \subseteq Sps \X AuthnRequests,
           reserved' \in [Sps \X AuthnRequests -> Nat], answered' \in [Sps \X AuthnRequests -> Nat],
           session' \in [Sessions -> [st: {"unused", "open", "claimed", "gone"}, sp: Sps \cup {None},
                                      authn: AuthnRequests \cup {None}, created: 0..MaxTime]],
           ReqOK(p, label, r), Tickets'
    PROVE  IInv'
<1>1. /\ TypeInv /\ pc'[p] = label /\ req'[p] = r
      /\ \A q \in Procs \ {p} : pc'[q] = pc[q] /\ req'[q] = req[q]
    BY MovesOne DEF IInv
<1>2. TypeInv'
    <2>1. req' \in [Procs -> Request] /\ pc' \in [Procs -> Labels]
        BY <1>1 DEF TypeInv, TypeOK, GotoWith
    <2>2. \A q \in Procs : req'[q].route \in Routes
        BY <2>1 DEF Request
    <2> QED
        BY <1>1, <2>1, <2>2 DEF TypeInv, TypeOK
<1>3. Grows
    <2>1. now \in Nat
        BY <1>1 DEF TypeInv, TypeOK
    <2> QED
        BY <2>1 DEF Grows
<1>4. RequestOK(p)'
    BY <1>1 DEF RequestOK, ReqOK, Current, Fresh
<1>5. \A q \in Procs : RequestOK(q)'
    BY <1>1, <1>2, <1>3, <1>4, OthersKnow
<1>6. \A q \in Procs : Pointing(q) \subseteq Pointing(q)' \cup orphaned'
    BY <1>1, SettledPoints DEF Pointing, At
<1> QED
    BY <1>2, <1>5, <1>6, SameRing DEF IInv

\* reserve_saml_request: a request whose reservation still counts is not reserved again, unless it
\* has reached its age limit in the meantime.
LEMMA ReserveOK == ASSUME IInv, NEW p \in Procs, Reserve(p) PROVE IInv'
<1>1. /\ TypeInv /\ pc[p] = "reserve" /\ ReqOK(p, "reserve", req[p]) /\ req[p] \in Request /\ Settled(p)
      /\ UNCHANGED <<now, sp, key, pointer, lock, session, requests, crashes, answered, orphaned>>
    BY DEF Reserve, At, IInv, TypeInv, RequestOK, Settled
<1>2. PICK x \in Sps \X AuthnRequests : x = <<req[p].sp, req[p].authn>>
    BY <1>1 DEF ReqOK
<1>3. CASE Finish(p) /\ UNCHANGED <<reserved, late>>
    BY <1>1, <1>3, EndOK
<1>4. CASE /\ ~(reserved[x] > now)
           /\ reserved' = [reserved EXCEPT ![x] = ReservedUntil]
           /\ late' = IF Late(x) THEN late \cup {x} ELSE late
           /\ Goto(p, IF req[p].route = "sso" THEN "hooks" ELSE "save")
    <2>1. PICK label \in {"hooks", "save"} : label = IF req[p].route = "sso" THEN "hooks" ELSE "save"
        OBVIOUS
    <2>2. GotoWith(p, label, req[p]) /\ label \in Labels
        BY <1>4, <2>1 DEF Goto, Labels
    <2>3. /\ pc'[p] = label /\ req'[p] = req[p]
          /\ \A q \in Procs \ {p} : pc'[q] = pc[q] /\ req'[q] = req[q]
        BY <1>1, <2>2, MovesOne
    <2>4. /\ now \in Nat /\ MaxAge \in Nat \ {0} /\ IssueInstant[x[2]] \in Nat /\ x[2] = req[p].authn
          /\ IssueInstant[x[2]] <= now /\ reserved[x] \in Nat
        BY <1>1, <1>2, SamlAssumption DEF TypeInv, TypeOK, ReqOK
    <2>5. x \notin late' => ~Reserved(x) /\ TicketOK(x)
        <3> SUFFICES ASSUME x \notin late' PROVE ~Reserved(x) /\ TicketOK(x)
            OBVIOUS
        <3>1. x \notin late /\ ~Late(x)
            BY <1>4
        <3>2. reserved[x] = 0 \/ now < IssueInstant[x[2]] + MaxAge
            BY <2>4, <3>1 DEF Late
        <3>3. ~Reserved(x)
            BY <1>4, <2>4, <3>2 DEF Reserved
        <3> QED
            BY <3>1, <3>3 DEF IInv, Tickets
    <2>6. /\ reserved' \in [Sps \X AuthnRequests -> Nat] /\ late' \subseteq Sps \X AuthnRequests /\ late \subseteq late'
          /\ reserved'[x] = now + MaxAge /\ \A y \in (Sps \X AuthnRequests) \ {x} : reserved'[y] = reserved[y]
        BY <1>1, <1>4, <2>4 DEF TypeInv, TypeOK, ReservedUntil
    <2>7. Reserved(x)'
        BY <2>4, <2>6 DEF Reserved
    <2>8. ASSUME NEW y \in (Sps \X AuthnRequests) \ late' PROVE TicketOK(y)'
        <3>1. \A s \in Sessions : Keeps(s, y)' <=> Keeps(s, y)
            BY <1>1 DEF Keeps
        <3>2. \A q \in Procs \ {p} : Carries(q, y)' <=> Carries(q, y)
            BY <2>3 DEF Carries
        <3>3. Carries(p, y)' => y = x
            BY <1>2, <2>3 DEF Carries
        <3>4. answered' = answered
            BY <1>1
        <3> HIDE DEF Carries, Keeps, Reserved
        <3>5. CASE y = x
            <4>1. ~Reserved(y) /\ TicketOK(y) /\ answered[y] \in Nat
                BY <1>1, <2>5, <3>5 DEF TypeInv, TypeOK
            <4>2. /\ \A q \in Procs \ {p} : ~Carries(q, y)'
                  /\ \A s \in Sessions : ~Keeps(s, y)'
                  /\ answered[y] = 0
                BY <3>1, <3>2, <4>1 DEF TicketOK
            <4>3. Reserved(y)'
                BY <2>7, <3>5 DEF Reserved
            <4> QED
                BY <3>4, <4>2, <4>3 DEF TicketOK
        <3>6. CASE y # x
            <4>1. TicketOK(y) /\ (Reserved(y)' <=> Reserved(y)) /\ ~Carries(p, y)'
                BY <2>6, <3>3, <3>6 DEF IInv, Tickets, Reserved
            <4> QED
                BY <3>1, <3>2, <3>4, <4>1 DEF TicketOK
        <3> QED
            BY <3>5, <3>6
    <2>9. Tickets'
        BY <2>8 DEF Tickets
    <2>10. ReqOK(p, label, req[p])
        BY <2>1 DEF ReqOK, Arriving, RingSteps
    <2> QED
        BY <1>1, <2>2, <2>6, <2>9, <2>10, TicketMoveOK DEF TypeInv, TypeOK
<1> QED
    BY <1>2, <1>3, <1>4 DEF Reserve

\* save_saml_flow: the flow may answer in place of the request.
LEMMA SaveFlowOK == ASSUME IInv, NEW p \in Procs, NEW s \in Sessions, SaveFlow(p, s) PROVE IInv'
<1>1. /\ TypeInv /\ pc[p] = "save" /\ Settled(p) /\ req[p] \in Request /\ session[s].st = "unused"
      /\ GotoWith(p, "idle", NoRequest)
      /\ UNCHANGED <<now, sp, key, pointer, lock, reserved, requests, crashes, answered, late, orphaned>>
    BY DEF SaveFlow, At, IInv, TypeInv, Finish, Settled
<1>2. PICK f : f = [st |-> "open", sp |-> req[p].sp, authn |-> req[p].authn, created |-> now]
    OBVIOUS
<1>3. /\ session' = [session EXCEPT ![s] = f] /\ f.st = "open" /\ f.sp = req[p].sp /\ f.authn = req[p].authn
      /\ f \in [st: {"unused", "open", "claimed", "gone"}, sp: Sps \cup {None},
                authn: AuthnRequests \cup {None}, created: 0..MaxTime]
    BY <1>1, <1>2 DEF SaveFlow, TypeInv, TypeOK, Request
<1>4. /\ pc'[p] = "idle" /\ \A q \in Procs \ {p} : pc'[q] = pc[q] /\ req'[q] = req[q]
    BY <1>1, MovesOne
<1>5. /\ session' \in [Sessions -> [st: {"unused", "open", "claimed", "gone"}, sp: Sps \cup {None},
                                    authn: AuthnRequests \cup {None}, created: 0..MaxTime]]
      /\ session'[s] = f /\ \A t \in Sessions \ {s} : session'[t] = session[t]
    BY <1>1, <1>3 DEF TypeInv, TypeOK
<1>6. ASSUME NEW x \in (Sps \X AuthnRequests) \ late PROVE TicketOK(x)'
    <2>1. \A t \in Sessions \ {s} : Keeps(t, x)' <=> Keeps(t, x)
        BY <1>5 DEF Keeps
    <2>2. (Keeps(s, x)' => Carries(p, x)) /\ ~Keeps(s, x) /\ ~Carries(p, x)'
        BY <1>1, <1>3, <1>4, <1>5 DEF Keeps, Carries, Answering, RingSteps
    <2>3. \A q \in Procs \ {p} : Carries(q, x)' <=> Carries(q, x)
        BY <1>4 DEF Carries
    <2>4. answered' = answered /\ TicketOK(x) /\ (Reserved(x)' <=> Reserved(x))
        BY <1>1 DEF IInv, Tickets, Reserved
    <2> HIDE DEF Carries, Keeps, Reserved
    <2> QED
        BY <2>1, <2>2, <2>3, <2>4 DEF TicketOK
<1>7. Tickets'
    BY <1>1, <1>6 DEF Tickets
<1>8. "idle" \in Labels /\ NoRequest \in Request /\ ReqOK(p, "idle", NoRequest)
    BY NoRequestOK DEF Labels, ReqOK, Arriving, RingSteps
<1> QED
    BY <1>1, <1>5, <1>7, <1>8, TicketMoveOK DEF TypeInv, TypeOK

\* consume_auth_session: of the flow only the claim changes.
LEMMA ConsumeAuthSessionOK ==
    ASSUME IInv, NEW p \in Procs, NEW s \in Sessions, ConsumeAuthSession(p, s) PROVE IInv'
<1>1. PICK r : r = [NoRequest EXCEPT !.route = "resume", !.then = "receive", !.session = s]
    OBVIOUS
<1>2. /\ r \in Request /\ r.route = "resume" /\ r.then = "receive" /\ r.session = s
    BY <1>1, NoRequestOK DEF Request, Routes, Thens, NoRequest
<1>3. /\ TypeInv /\ pc[p] = "idle" /\ Settled(p) /\ session[s].st = "open" /\ GotoWith(p, "consume", r)
      /\ requests < MaxRequests /\ requests' = requests + 1
      /\ session' = [session EXCEPT ![s].st = "claimed"]
      /\ UNCHANGED <<now, sp, key, pointer, lock, reserved, crashes, answered, late, orphaned>>
    BY <1>1 DEF ConsumeAuthSession, Start, At, IInv, Settled
<1>4. /\ session' \in [Sessions -> [st: {"unused", "open", "claimed", "gone"}, sp: Sps \cup {None},
                                    authn: AuthnRequests \cup {None}, created: 0..MaxTime]]
      /\ session'[s].sp = session[s].sp /\ session'[s].authn = session[s].authn
      /\ \A t \in Sessions \ {s} : session'[t] = session[t]
    BY <1>3 DEF TypeInv, TypeOK
<1>5. pc'[p] = "consume" /\ \A q \in Procs \ {p} : pc'[q] = pc[q] /\ req'[q] = req[q]
    BY <1>3, MovesOne
<1>6. ASSUME NEW x \in Sps \X AuthnRequests
      PROVE  /\ \A q \in Procs : Carries(q, x)' => Carries(q, x)
             /\ \A t \in Sessions : Keeps(t, x)' => Keeps(t, x)
    <2>1. \A t \in Sessions : Keeps(t, x)' => Keeps(t, x)
        BY <1>3, <1>4 DEF Keeps
    <2>2. \A q \in Procs : Carries(q, x)' => Carries(q, x)
        BY <1>5 DEF Carries, Answering, RingSteps
    <2> QED
        BY <2>1, <2>2
<1>7. Tickets'
    BY <1>3, <1>6, TicketsKeep
<1>8. "consume" \in Labels /\ ReqOK(p, "consume", r) /\ requests' \in 0..MaxRequests
    BY <1>2, <1>3, SamlAssumption DEF Labels, ReqOK, Arriving, RingSteps, TypeInv, TypeOK
<1> QED
    BY <1>2, <1>3, <1>4, <1>7, <1>8, TicketMoveOK DEF TypeInv, TypeOK

\* consume_saml_flow: the request may answer in place of the flow.
LEMMA ConsumeFlowOK == ASSUME IInv, NEW p \in Procs, ConsumeFlow(p) PROVE IInv'
<1>1. /\ TypeInv /\ pc[p] = "consume" /\ Settled(p) /\ ReqOK(p, "consume", req[p]) /\ req[p] \in Request
      /\ UNCHANGED <<now, sp, key, pointer, lock, reserved, requests, crashes, answered, late, orphaned>>
    BY DEF ConsumeFlow, At, IInv, TypeInv, RequestOK, Settled
<1>2. PICK s \in Sessions : s = req[p].session
    BY <1>1 DEF ReqOK
<1>3. CASE Finish(p) /\ UNCHANGED session
    BY <1>1, <1>3, EndOK
<1>4. CASE /\ session[s].st = "claimed" /\ session' = [session EXCEPT ![s].st = "gone"]
           /\ GotoWith(p, "resume", [req[p] EXCEPT !.sp = session[s].sp, !.authn = session[s].authn])
    <2>1. PICK r : r = [req[p] EXCEPT !.sp = session[s].sp, !.authn = session[s].authn]
        OBVIOUS
    <2>2. session[s].sp \in Sps \cup {None} /\ session[s].authn \in AuthnRequests \cup {None}
        BY <1>1 DEF TypeInv, TypeOK
    <2>3. /\ r \in Request /\ r.sp = session[s].sp /\ r.authn = session[s].authn
          /\ r.route = req[p].route /\ r.then = req[p].then /\ r.session = req[p].session
        BY <1>1, <2>1, <2>2 DEF Request
    <2>4. GotoWith(p, "resume", r)
        BY <1>4, <2>1
    <2>5. /\ pc'[p] = "resume" /\ req'[p] = r
          /\ \A q \in Procs \ {p} : pc'[q] = pc[q] /\ req'[q] = req[q]
        BY <1>1, <2>4, MovesOne
    <2>6. /\ session' \in [Sessions -> [st: {"unused", "open", "claimed", "gone"}, sp: Sps \cup {None},
                                        authn: AuthnRequests \cup {None}, created: 0..MaxTime]]
          /\ session'[s].st = "gone" /\ \A t \in Sessions \ {s} : session'[t] = session[t]
        BY <1>1, <1>4 DEF TypeInv, TypeOK
    <2>7. ASSUME NEW x \in (Sps \X AuthnRequests) \ late PROVE TicketOK(x)'
        <3>1. \A t \in Sessions \ {s} : Keeps(t, x)' <=> Keeps(t, x)
            BY <2>6 DEF Keeps
        <3>2. (Carries(p, x)' => Keeps(s, x)) /\ ~Keeps(s, x)' /\ ~Carries(p, x)
            BY <1>1, <1>4, <2>3, <2>5, <2>6 DEF Keeps, Carries, Answering, RingSteps
        <3>3. \A q \in Procs \ {p} : Carries(q, x)' <=> Carries(q, x)
            BY <2>5 DEF Carries
        <3>4. answered' = answered /\ TicketOK(x) /\ (Reserved(x)' <=> Reserved(x))
            BY <1>1 DEF IInv, Tickets, Reserved
        <3> HIDE DEF Carries, Keeps, Reserved
        <3> QED
            BY <3>1, <3>2, <3>3, <3>4 DEF TicketOK
    <2>8. Tickets'
        BY <1>1, <2>7 DEF Tickets
    <2>9. "resume" \in Labels /\ ReqOK(p, "resume", r) /\ requests' \in 0..MaxRequests
        BY <1>1, <2>3 DEF Labels, ReqOK, Arriving, RingSteps, TypeInv, TypeOK
    <2> QED
        BY <1>1, <2>3, <2>4, <2>6, <2>8, <2>9, TicketMoveOK DEF TypeInv, TypeOK
<1> QED
    BY <1>2, <1>3, <1>4 DEF ConsumeFlow

\* issue_response: the request answers, and nobody else may.
LEMMA IssueResponseOK == ASSUME IInv, NEW p \in Procs, IssueResponse(p) PROVE IInv'
<1>1. PICK y : y = <<req[p].sp, req[p].authn>>
    OBVIOUS
<1>2. /\ TypeInv /\ pc[p] = "sign" /\ Settled(p) /\ GotoWith(p, "idle", NoRequest)
      /\ answered' = [answered EXCEPT ![y] = @ + 1]
      /\ UNCHANGED <<now, sp, key, pointer, lock, reserved, session, requests, crashes, late, orphaned>>
    BY <1>1 DEF IssueResponse, At, IInv, TypeInv, Finish, Settled
<1>3. /\ pc'[p] = "idle" /\ \A q \in Procs \ {p} : pc'[q] = pc[q] /\ req'[q] = req[q]
    BY <1>2, MovesOne
<1>4. /\ answered' \in [Sps \X AuthnRequests -> Nat]
      /\ \A x \in Sps \X AuthnRequests : answered'[x] = IF x = y THEN answered[x] + 1 ELSE answered[x]
    <2>1. answered \in [Sps \X AuthnRequests -> Nat]
        BY <1>2 DEF TypeInv, TypeOK
    <2>2. CASE y \in Sps \X AuthnRequests
        <3>1. answered[y] \in Nat
            BY <2>1, <2>2
        <3> QED
            BY <1>2, <2>1, <2>2, <3>1
    <2>3. CASE y \notin Sps \X AuthnRequests
        <3>1. answered' = answered
            BY <1>2, <2>1, <2>3
        <3> QED
            BY <2>1, <2>3, <3>1
    <2> QED
        BY <2>2, <2>3
<1>5. ASSUME NEW x \in (Sps \X AuthnRequests) \ late PROVE TicketOK(x)'
    <2>1. \A s \in Sessions : Keeps(s, x)' <=> Keeps(s, x)
        BY <1>2 DEF Keeps
    <2>2. \A q \in Procs \ {p} : Carries(q, x)' <=> Carries(q, x)
        BY <1>3 DEF Carries
    <2>3. ~Carries(p, x)' /\ (x = y => Carries(p, x))
        BY <1>1, <1>2, <1>3 DEF Carries, Answering, RingSteps
    <2>4. TicketOK(x) /\ (Reserved(x)' <=> Reserved(x)) /\ answered[x] \in Nat
        BY <1>2 DEF IInv, Tickets, Reserved, TypeInv, TypeOK
    <2>5. answered'[x] = IF x = y THEN answered[x] + 1 ELSE answered[x]
        BY <1>4
    <2> HIDE DEF Carries, Keeps, Reserved
    <2>6. CASE x = y
        <3>1. /\ answered[x] = 0 /\ Reserved(x) /\ \A s \in Sessions : ~Keeps(s, x)
              /\ \A q \in Procs \ {p} : ~Carries(q, x)
            BY <2>3, <2>4, <2>6 DEF TicketOK
        <3>2. answered'[x] = 1
            BY <2>5, <2>6, <3>1
        <3> QED
            BY <2>1, <2>2, <2>3, <2>4, <3>1, <3>2 DEF TicketOK
    <2>7. CASE x # y
        BY <2>1, <2>2, <2>3, <2>4, <2>5, <2>7 DEF TicketOK
    <2> QED
        BY <2>6, <2>7
<1>6. Tickets'
    BY <1>2, <1>5 DEF Tickets
<1>7. "idle" \in Labels /\ NoRequest \in Request /\ ReqOK(p, "idle", NoRequest)
    BY NoRequestOK DEF Labels, ReqOK, Arriving, RingSteps
<1> QED
    BY <1>2, <1>4, <1>6, <1>7, TicketMoveOK DEF TypeInv, TypeOK

\* Time passes, also between the check of a request's age and its reservation.
LEMMA TickOK == ASSUME IInv, Tick \/ UNCHANGED vars PROVE IInv'
<1>1. /\ TypeInv /\ now \in Nat /\ (now' = now \/ (now' = now + 1 /\ now < MaxTime))
      /\ UNCHANGED <<sp, key, pointer, lock, reserved, session, pc, req, requests, crashes, answered, late, orphaned>>
    BY DEF Tick, vars, At, IInv, TypeInv, TypeOK
<1>2. TypeInv' /\ Grows
    BY <1>1, SamlAssumption DEF TypeInv, TypeOK, Grows
<1>3. \A q \in Procs : RequestOK(q)'
    BY <1>1, <1>2, OthersKnow
<1>4. Tickets'
    BY <1>1, TicketsKeep DEF Carries, Keeps
<1>5. \A q \in Procs : Pointing(q)' = Pointing(q)
    BY <1>1 DEF Pointing, At
<1> QED
    BY <1>1, <1>2, <1>3, <1>4, <1>5, SameRing DEF IInv

LEMMA BeginOK == ASSUME IInv, NEW p \in Procs, Begin(p) PROVE IInv'
<1>1. CASE BeginMetadata(p) \/ BeginRotate(p)
    BY <1>1, BeginRingOK
<1>2. CASE \E s \in Sps : BeginCreateSp(p, s) \/ BeginUpdateSp(p, s) \/ BeginDeleteSp(p, s)
                          \/ BeginEditSp(p, s) \/ BeginToggleSp(p, s)
    BY <1>2, BeginSpOK
<1>3. CASE \E s \in Sps, a \in AuthnRequests : BeginSso(p, s, a)
    BY <1>3, BeginSsoOK
<1>4. CASE \E s \in Sessions : ConsumeAuthSession(p, s)
    BY <1>4, ConsumeAuthSessionOK
<1> QED
    BY <1>1, <1>2, <1>3, <1>4 DEF Begin, RotateSamlKey, RotateKeyInPanel, CreateSp, CreateSpInPanel,
                                  RemoveSp, RemoveSpInPanel

LEMMA StepOK == ASSUME IInv, NEW p \in Procs, Step(p) PROVE IInv'
<1>1. CASE ReadRing(p) \/ RereadRing(p) \/ InitKey(p) \/ InitPointer(p)
    BY <1>1, ReadRingOK, InitKeyOK, InitPointerOK
<1>2. CASE AcquireLock(p) \/ ReleaseLock(p) \/ SaveKey(p) \/ SavePointer(p)
    BY <1>2, LockOK, SaveKeyOK, SavePointerOK
<1>3. CASE Publish(p) \/ RefusePassive(p) \/ RefuseResponse(p) \/ SaveSp(p) \/ DeleteSp(p)
    BY <1>3, QuietOK, SaveSpOK
<1>4. CASE ReceiveRequest(p) \/ Reserve(p) \/ RunHooks(p) \/ ResumeFlow(p)
    BY <1>4, ReceiveRequestOK, ReserveOK, RunHooksOK, ResumeFlowOK
<1>5. CASE (\E s \in Sessions : SaveFlow(p, s)) \/ ConsumeFlow(p) \/ IssueResponse(p)
    BY <1>5, SaveFlowOK, ConsumeFlowOK, IssueResponseOK
<1> QED
    BY <1>1, <1>2, <1>3, <1>4, <1>5 DEF Step

LEMMA NextOK == IInv /\ [Next]_vars => IInv'
<1> SUFFICES ASSUME IInv, [Next]_vars PROVE IInv'
    OBVIOUS
<1>1. CASE Tick \/ UNCHANGED vars
    BY <1>1, TickOK
<1>2. CASE \E p \in Procs : Begin(p) \/ Step(p) \/ Crash(p)
    BY <1>2, BeginOK, StepOK, QuietOK
<1> QED
    BY <1>1, <1>2 DEF Next

LEMMA InitOK == Init => IInv
<1> SUFFICES ASSUME Init PROVE IInv
    OBVIOUS
<1>1. \A p \in Procs : pc[p] = "idle" /\ req[p] = NoRequest
    BY DEF Init
<1>2. NoSession \in [st: {"unused", "open", "claimed", "gone"}, sp: Sps \cup {None},
                     authn: AuthnRequests \cup {None}, created: 0..MaxTime]
    BY SamlAssumption DEF NoSession
<1>3. NoPointer \in [made: BOOLEAN, previous: 0..MaxRequests, grace: Nat]
    BY SamlAssumption DEF NoPointer
<1>4. TypeOK
    <2>1. now \in 0..MaxTime /\ requests \in 0..MaxRequests /\ crashes \in 0..MaxCrashes /\ lock \in Nat
        BY SamlAssumption DEF Init
    <2>2. /\ sp \in [Sps -> SpStates] /\ pc \in [Procs -> Labels] /\ key \in [Versions -> Procs \cup {None}]
          /\ \A p \in Procs : req[p].route \in Routes
        BY DEF Init, SpStates, Labels, Routes, NoRequest
    <2>3. /\ reserved \in [Sps \X AuthnRequests -> Nat] /\ answered \in [Sps \X AuthnRequests -> Nat]
          /\ late \subseteq Sps \X AuthnRequests /\ orphaned \subseteq Nat
        BY DEF Init
    <2> QED
        BY <1>2, <1>3, <2>1, <2>2, <2>3 DEF Init, TypeOK
<1>5. TypeInv
    BY <1>4, NoRequestOK DEF TypeInv, Init
<1>6. Pointers = {}
    BY DEF Init, Pointers, NoPointer
<1>7. \A p \in Procs : RequestOK(p) /\ ~Answering(pc[p], req[p])
    BY <1>1 DEF RequestOK, ReqOK, Answering, Arriving, RingSteps
<1>8. Tickets
    <2>1. \A s \in Sessions : session[s].st = "unused"
        BY DEF Init, NoSession
    <2>2. \A x \in Sps \X AuthnRequests : answered[x] = 0
        BY DEF Init
    <2> QED
        BY <1>7, <2>1, <2>2 DEF Tickets, TicketOK, Carries, Keeps
<1>9. RingComplete /\ HasNewest
    BY <1>6 DEF Init, RingComplete, PointersKeyed, KeysPointed, HasNewest
<1> QED
    BY <1>5, <1>7, <1>8, <1>9 DEF IInv

\* IInv is an invariant of the SAML identity provider.
THEOREM Invariance == Spec => []IInv
<1> QED
    BY InitOK, NextOK, PTL DEF Spec

\* The state of the SAML identity provider is always well typed.
THEOREM TypeCorrect == Spec => []TypeOK
<1>1. IInv => TypeOK
    BY DEF IInv, TypeInv
<1> QED
    BY <1>1, Invariance, PTL

\* reserve_saml_request, save_saml_flow, consume_auth_session and consume_saml_flow: however a
\* request is repeated, and however many handlers and login flows work on it, a service
\* provider's record answers it once, unless a handler that had checked its age reserved it again
\* when it had reached its limit, which is also when the first reservation may lapse.
THEOREM AnswersOnce == Spec => []OneResponsePerRequest
<1>1. IInv => OneResponsePerRequest
    BY DEF IInv, Tickets, TicketOK, OneResponsePerRequest
<1> QED
    BY <1>1, Invariance, PTL

\* ensure_key_ring and rotate_key_ring: a pointer names keys that are stored, and a key without a
\* pointer is about to get it or was left behind by a handler that died between the two writes.
THEOREM RingStaysWhole == Spec => []RingComplete
<1>1. IInv => RingComplete
    BY DEF IInv
<1> QED
    BY <1>1, Invariance, PTL

\* A response is signed with a key whose certificate the metadata shows, unless two rotations,
\* or one and its grace period, have passed since the handler read the ring.
THEOREM SignerIsPublished == Spec => []SignerPublished
<1>1. ASSUME IInv, NEW p \in Procs, pc[p] = "sign"
      PROVE  \/ req[p].ring.key \in Published
             \/ Newest > req[p].ring.version + 1
             \/ Newest = req[p].ring.version + 1 /\ pointer[Newest].grace <= now
    <2> DEFINE v == req[p].ring.version
    <2>1. Current(req[p].ring)
        BY <1>1 DEF IInv, RequestOK, ReqOK
    <2>2. v \in Pointers /\ req[p].ring.key = key[v] /\ v \in Nat
        BY <2>1, SamlAssumption DEF Current, Pointers, Versions
    <2>3. Newest \in Pointers /\ v <= Newest /\ Newest \in Nat /\ Newest \in Versions /\ v > 0
        BY <1>1, <2>2, RingIs, SamlAssumption DEF Pointers, Versions
    <2>4. CASE Newest = v
        BY <2>2, <2>4 DEF Published
    <2>5. CASE Newest = v + 1
        <3>1. pointer[Newest].previous = v
            BY <1>1, <2>2, <2>3, <2>5 DEF IInv, RingComplete, PointersKeyed
        <3>2. pointer[Newest].grace \in Nat /\ now \in Nat
            BY <1>1, <2>3 DEF IInv, TypeInv, TypeOK
        <3> QED
            BY <2>2, <2>5, <3>1, <3>2 DEF Published
    <2>6. CASE Newest > v + 1
        BY <2>6
    <2> QED
        BY <2>2, <2>3, <2>4, <2>5, <2>6
<1>2. IInv => SignerPublished
    BY <1>1 DEF SignerPublished, At
<1> QED
    BY <1>2, Invariance, PTL
=============================================================================
