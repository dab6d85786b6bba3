-------------------------- MODULE AuthCodesProofs --------------------------
(***************************************************************************)
(* Theorems about AuthCodes for every set of codes, scopes and requests    *)
(* and every lifetime; then, as DG, about DeviceGrant.                     *)
(***************************************************************************)
EXTENDS AuthCodes, DevicePromise, FiniteSetTheorems, TLAPS

\* The user once allowed scope x.
Allowed(x) == \E d \in approved : x \in scope[d]

\* A code may not be redeemed later than this.
Deadline(c) == origin[c].at + CodeTTL

\* What a request in flight knows at each of its steps.
RequestOK(p) ==
    LET r == req[p]
        c == req[p].code
    IN /\ pc[p] # "idle" => c \in Codes /\ origin[c].how # "none"
       /\ pc[p] \in {"approve", "recall", "record"} => c \in approved
       /\ pc[p] = "approve" => r.expires <= Deadline(c)
       /\ pc[p] = "record" => \A x \in r.seen : Allowed(x)
       /\ pc[p] \in {"consume", "mint"} =>
             r.at <= Deadline(c) /\ (origin[c].how = "pending" => c \in approved)
       /\ pc[p] = "consume" =>
             r.rev <= code[c].rev /\ (r.rev = code[c].rev => code[c].st \in {"ready", "absent"})

\* What the store and the history know of a code.
CodeOK(c) ==
    /\ origin[c].how = "none" => code[c].st = "absent" /\ submits[c] = 0 /\ c \notin approved
    /\ Readable(c) => code[c].expires <= Deadline(c)
    /\ origin[c].how = "pending" /\ (code[c].st = "ready" \/ mints[c] > 0) => c \in approved
    /\ origin[c].how = "ready" => \A x \in scope[c] : Allowed(x)

\* Requests that will still make code c redeemable, or mint for it.
Holders(c) == {p \in Procs : pc[p] \in {"approve", "mint"} /\ req[p].code = c}
ReadyCount(c) == IF code[c].st = "ready" THEN 1 ELSE 0
Budget(c) == IF origin[c].how = "ready" THEN 1 ELSE submits[c]

\* Every redemption of a code, past or still possible, is paid for by a write that made it ready.
Counted(c) ==
    /\ IsFiniteSet(Holders(c))
    /\ mints[c] + Cardinality(Holders(c)) + ReadyCount(c) <= Budget(c)

IInv ==
    /\ TypeOK
    /\ \A p \in Procs : RequestOK(p)
    /\ \A c \in Codes : CodeOK(c) /\ Counted(c)
    /\ \A x \in consent : Allowed(x)

\* This step moves the store only forward: a changed entry has a new revision, or is gone.
CodeStep ==
    \A c \in Codes : \/ code'[c] = code[c]
                     \/ code'[c].rev > code[c].rev
                     \/ code'[c].rev = code[c].rev /\ code'[c].st = "absent"

\* This step takes back no consent and leaves issued codes as they were issued.
HistoryGrows ==
    /\ approved \subseteq approved'
    /\ \A c \in Codes : origin[c].how # "none" => origin'[c] = origin[c] /\ scope'[c] = scope[c]

(***************************************************************************)
(* What the operators of the model do.                                     *)
(***************************************************************************)
\* The values that a request starts from and ends with are of its type.
LEMMA Typed ==
    /\ NoRequest \in Request
    /\ \A r \in Request : \A s \in SUBSET Scopes : [r EXCEPT !.seen = s] \in Request
    /\ \A c \in Codes : \A t \in Times : [NoRequest EXCEPT !.code = c, !.expires = t] \in Request
    /\ \A c \in Codes : \A t \in Times : \A v \in Nat :
          [NoRequest EXCEPT !.code = c, !.rev = v, !.at = t] \in Request
<1>1. 0 \in Times
    BY CodeAssumption DEF Times
<1> QED
    BY <1>1 DEF NoRequest, Request

\* kv_set: a new revision, and the key lives for CodeTTL.
LEMMA PutTyped ==
    ASSUME TypeOK, NEW c \in Codes, NEW t \in Times, NEW st \in {"pending", "ready", "consumed"}
    PROVE  /\ Put(code[c], st, t) \in Entry
           /\ Put(code[c], st, t).st = st /\ Put(code[c], st, t).expires = t
           /\ Put(code[c], st, t).rev > code[c].rev
<1>1. code[c].rev \in Nat /\ now + CodeTTL \in Times
    BY CodeAssumption DEF TypeOK, Entry, Times
<1> QED
    BY <1>1 DEF Put, Entry

\* kv_delete: the key is gone, its revision is remembered.
LEMMA DeleteTyped ==
    ASSUME TypeOK, NEW c \in Codes
    PROVE  /\ Delete(code[c]) \in Entry
           /\ Delete(code[c]).st = "absent" /\ Delete(code[c]).rev = code[c].rev
<1>1. code[c].rev \in Nat /\ 0 \in Times
    BY CodeAssumption DEF TypeOK, Entry, Times
<1> QED
    BY <1>1 DEF Delete, Entry

\* What a step of a request does to the control of the requests.
LEMMA MovesOne ==
    ASSUME TypeOK, NEW p \in Procs, NEW label \in Labels, NEW r \in Request, GotoWith(p, label, r)
    PROVE  /\ pc' \in [Procs -> Labels] /\ req' \in [Procs -> Request]
           /\ pc'[p] = label /\ req'[p] = r
           /\ \A q \in Procs \ {p} : pc'[q] = pc[q] /\ req'[q] = req[q]
BY DEF GotoWith, TypeOK

\* Requests that do not move keep what they know, whatever the others did to the store.
LEMMA OthersKeep ==
    ASSUME IInv, TypeOK', CodeStep, HistoryGrows,
           NEW q \in Procs, pc'[q] = pc[q], req'[q] = req[q]
    PROVE  RequestOK(q)'
<1> DEFINE c == req[q].code
<1>1. RequestOK(q) /\ TypeOK /\ req[q] \in Request
    BY DEF IInv, TypeOK
<1>2. CASE pc[q] = "idle"
    BY <1>2 DEF RequestOK
<1>3. CASE pc[q] # "idle"
    <2>1. c \in Codes /\ origin[c].how # "none" /\ origin'[c] = origin[c]
          /\ (c \in approved => c \in approved')
        BY <1>1, <1>3 DEF RequestOK, HistoryGrows
    <2>2. \A x : Allowed(x) => Allowed(x)'
        <3>1. ASSUME NEW d \in approved PROVE d \in approved' /\ scope'[d] = scope[d]
            BY DEF HistoryGrows, IInv, CodeOK, TypeOK
        <3> QED
            BY <3>1 DEF Allowed
    <2>3. pc[q] = "consume" =>
             req[q].rev <= code'[c].rev
             /\ (req[q].rev = code'[c].rev => code'[c].st \in {"ready", "absent"})
        <3>1. req[q].rev \in Nat /\ code[c].rev \in Nat /\ code'[c].rev \in Nat
            BY <1>1, <2>1 DEF TypeOK, Request, Entry
        <3> QED
            BY <1>1, <2>1, <3>1 DEF RequestOK, CodeStep
    <2> QED
        BY <1>1, <2>1, <2>2, <2>3 DEF RequestOK, Deadline
<1> QED
    BY <1>2, <1>3

(***************************************************************************)
(* Counting the holders of a code.                                         *)
(***************************************************************************)
\* A request that goes on to hold code c joins its holders; any other move leaves them.
LEMMA HoldersMove ==
    ASSUME TypeOK, NEW p \in Procs, NEW label \in Labels, NEW r \in Request, GotoWith(p, label, r),
           NEW c \in Codes
    PROVE  Holders(c)' = IF label \in {"approve", "mint"} /\ r.code = c
                         THEN Holders(c) \cup {p} ELSE Holders(c) \ {p}
<1>1. /\ pc'[p] = label /\ req'[p] = r
      /\ \A q \in Procs \ {p} : pc'[q] = pc[q] /\ req'[q] = req[q]
    BY MovesOne
<1> QED
    BY <1>1 DEF Holders

\* The size of the set of holders before and after such a move.
LEMMA CountMove ==
    ASSUME IInv, NEW p \in Procs, NEW label \in Labels, NEW r \in Request, GotoWith(p, label, r),
           NEW c \in Codes
    PROVE  /\ IsFiniteSet(Holders(c)')
           /\ Cardinality(Holders(c)) \in Nat
           /\ Cardinality(Holders(c)') = Cardinality(Holders(c))
                + (IF label \in {"approve", "mint"} /\ r.code = c THEN 1 ELSE 0)
                - (IF p \in Holders(c) THEN 1 ELSE 0)
<1>1. TypeOK /\ IsFiniteSet(Holders(c))
    BY DEF IInv, Counted
<1>2. Cardinality(Holders(c)) \in Nat
    BY <1>1, FS_CardinalityType
<1>3. CASE label \in {"approve", "mint"} /\ r.code = c
    <2>1. Holders(c)' = Holders(c) \cup {p}
        BY <1>1, <1>3, HoldersMove
    <2> QED
        BY <1>1, <1>2, <1>3, <2>1, FS_AddElement
<1>4. CASE ~(label \in {"approve", "mint"} /\ r.code = c)
    <2>1. Holders(c)' = Holders(c) \ {p}
        BY <1>1, <1>4, HoldersMove
    <2> QED
        BY <1>1, <1>2, <1>4, <2>1, FS_RemoveElement
<1> QED
    BY <1>3, <1>4

\* The counts are numbers.
LEMMA Counts ==
    ASSUME IInv, NEW c \in Codes
    PROVE  /\ mints[c] \in Nat /\ submits[c] \in Nat /\ Cardinality(Holders(c)) \in Nat
           /\ ReadyCount(c) \in {0, 1}
           /\ mints[c] + Cardinality(Holders(c)) + ReadyCount(c) <= Budget(c)
BY FS_CardinalityType DEF IInv, TypeOK, Counted, ReadyCount

\* A step of one request that posts no form, issues no code and mints nothing.
LEMMA Move ==
    ASSUME IInv, NEW p \in Procs, NEW label \in Labels, NEW r \in Request, GotoWith(p, label, r),
           UNCHANGED <<now, history>>, code' \in [Codes -> Entry], consent' \subseteq Scopes,
           CodeStep, RequestOK(p)', \A x \in consent' : Allowed(x),
           \A c \in Codes : Readable(c)' => code'[c].expires <= Deadline(c),
           \A c \in Codes : code'[c].st # "absent" => origin[c].how # "none",
           \A c \in Codes : code'[c].st = "ready" /\ origin[c].how = "pending" => c \in approved,
           \A c \in Codes : ReadyCount(c)' + (IF label \in {"approve", "mint"} /\ r.code = c THEN 1 ELSE 0)
                              <= ReadyCount(c) + (IF p \in Holders(c) THEN 1 ELSE 0)
    PROVE  IInv'
<1>1. TypeOK
    BY DEF IInv
<1>2. TypeOK'
    BY <1>1, MovesOne DEF TypeOK, history
<1>3. HistoryGrows
    BY DEF HistoryGrows, history
<1>4. ASSUME NEW q \in Procs PROVE RequestOK(q)'
    <2>1. CASE q = p
        BY <2>1
    <2>2. CASE q # p
        <3>1. pc'[q] = pc[q] /\ req'[q] = req[q]
            BY <1>1, <2>2, MovesOne
        <3> QED
            BY <1>2, <1>3, <3>1, OthersKeep
    <2> QED
        BY <2>1, <2>2
<1>5. ASSUME NEW c \in Codes PROVE CodeOK(c)'
    <2>1. \A x : Allowed(x)' <=> Allowed(x)
        BY DEF Allowed, history
    <2> QED
        BY <2>1 DEF IInv, CodeOK, Deadline, history
<1>6. ASSUME NEW c \in Codes PROVE Counted(c)'
    <2>1. IsFiniteSet(Holders(c)')
          /\ Cardinality(Holders(c)') = Cardinality(Holders(c))
                + (IF label \in {"approve", "mint"} /\ r.code = c THEN 1 ELSE 0)
                - (IF p \in Holders(c) THEN 1 ELSE 0)
        BY CountMove
    <2>2. ReadyCount(c)' \in {0, 1} /\ mints'[c] = mints[c] /\ Budget(c)' = Budget(c)
        BY DEF ReadyCount, Budget, history
    <2>3. /\ mints[c] \in Nat /\ submits[c] \in Nat /\ Cardinality(Holders(c)) \in Nat
          /\ ReadyCount(c) \in {0, 1} /\ Budget(c) \in Nat
          /\ mints[c] + Cardinality(Holders(c)) + ReadyCount(c) <= Budget(c)
        BY Counts DEF Budget
    <2>4. ReadyCount(c)' + (IF label \in {"approve", "mint"} /\ r.code = c THEN 1 ELSE 0)
                              <= ReadyCount(c) + (IF p \in Holders(c) THEN 1 ELSE 0)
        OBVIOUS
    <2> QED
        BY <2>1, <2>2, <2>3, <2>4 DEF Counted
<1>7. \A x \in consent' : Allowed(x)'
    BY DEF Allowed, history
<1> QED
    BY <1>2, <1>4, <1>5, <1>6, <1>7 DEF IInv

\* A step that leaves the table alone moves nothing in it.
LEMMA NoWrite ==
    ASSUME IInv, UNCHANGED <<code, history>>
    PROVE  /\ code' \in [Codes -> Entry] /\ CodeStep
           /\ \A c \in Codes : /\ Readable(c)' => code'[c].expires <= Deadline(c)
                               /\ code'[c].st # "absent" => origin[c].how # "none"
                               /\ code'[c].st = "ready" /\ origin[c].how = "pending" => c \in approved
                               /\ ReadyCount(c)' = ReadyCount(c) /\ ReadyCount(c) \in {0, 1}
BY DEF IInv, TypeOK, CodeStep, CodeOK, Readable, ReadyCount

\* A step that removes at most one key moves the table forward.
LEMMA Removed ==
    ASSUME IInv, UNCHANGED history, NEW d \in Codes, code' = [code EXCEPT ![d] = Delete(@)]
    PROVE  /\ code' \in [Codes -> Entry] /\ CodeStep
           /\ \A c \in Codes : /\ Readable(c)' => code'[c].expires <= Deadline(c)
                               /\ code'[c].st # "absent" => origin[c].how # "none"
                               /\ code'[c].st = "ready" /\ origin[c].how = "pending" => c \in approved
                               /\ ReadyCount(c)' <= ReadyCount(c) /\ ReadyCount(c) \in {0, 1}
                               /\ ReadyCount(c)' \in {0, 1}
<1>1. TypeOK /\ Delete(code[d]) \in Entry
      /\ Delete(code[d]).st = "absent" /\ Delete(code[d]).rev = code[d].rev
    BY DeleteTyped DEF IInv
<1>2. \A c \in Codes : code'[c] = code[c] \/ (c = d /\ code'[c] = Delete(code[d]))
    BY <1>1 DEF TypeOK
<1>3. code' \in [Codes -> Entry] /\ CodeStep
    BY <1>1, <1>2 DEF TypeOK, CodeStep
<1>4. ASSUME NEW c \in Codes
      PROVE  /\ Readable(c)' => code'[c].expires <= Deadline(c)
             /\ code'[c].st # "absent" => origin[c].how # "none"
             /\ code'[c].st = "ready" /\ origin[c].how = "pending" => c \in approved
             /\ ReadyCount(c)' <= ReadyCount(c) /\ ReadyCount(c) \in {0, 1}
             /\ ReadyCount(c)' \in {0, 1}
    <2>1. CASE code'[c] = code[c]
        BY <2>1 DEF IInv, CodeOK, Readable, ReadyCount
    <2>2. CASE c = d /\ code'[c] = Delete(code[d])
        BY <1>1, <2>2 DEF Readable, ReadyCount
    <2> QED
        BY <1>2, <2>1, <2>2
<1> QED
    BY <1>3, <1>4

(***************************************************************************)
(* One lemma per action.                                                   *)
(***************************************************************************)
\* A request that ends leaves its code to the others.
LEMMA QuietFinish ==
    ASSUME IInv, NEW p \in Procs, Finish(p), UNCHANGED <<now, code, history>>,
           consent' \subseteq Scopes, \A x \in consent' : Allowed(x)
    PROVE  IInv'
<1>1. TypeOK /\ NoRequest \in Request /\ "idle" \in Labels
    BY Typed DEF IInv, Labels
<1>2. GotoWith(p, "idle", NoRequest)
    BY DEF Finish
<1>3. RequestOK(p)'
    <2>1. pc'[p] = "idle"
        BY <1>1, <1>2, MovesOne
    <2> QED
        BY <2>1 DEF RequestOK
<1>4. \A c \in Codes : ReadyCount(c)' + (IF "idle" \in {"approve", "mint"} /\ NoRequest.code = c THEN 1 ELSE 0)
                         <= ReadyCount(c) + (IF p \in Holders(c) THEN 1 ELSE 0)
    BY NoWrite
<1> QED
    BY <1>1, <1>2, <1>3, <1>4, NoWrite, Move

\* handle_code_exchange, handle_consent: the code is deleted.
LEMMA DiscardCodeOK == ASSUME IInv, NEW p \in Procs, DiscardCode(p) PROVE IInv'
<1>1. TypeOK /\ NoRequest \in Request /\ "idle" \in Labels /\ req[p].code \in Codes
    BY Typed DEF IInv, Labels, DiscardCode, RequestOK, At
<1>2. GotoWith(p, "idle", NoRequest)
    BY DEF Finish, DiscardCode
<1>3. RequestOK(p)'
    <2>1. pc'[p] = "idle"
        BY <1>1, <1>2, MovesOne
    <2> QED
        BY <2>1 DEF RequestOK
<1>4. /\ code' \in [Codes -> Entry] /\ CodeStep
      /\ \A c \in Codes : /\ Readable(c)' => code'[c].expires <= Deadline(c)
                          /\ code'[c].st # "absent" => origin[c].how # "none"
                          /\ code'[c].st = "ready" /\ origin[c].how = "pending" => c \in approved
                          /\ ReadyCount(c)' <= ReadyCount(c) /\ ReadyCount(c) \in {0, 1}
                          /\ ReadyCount(c)' \in {0, 1}
    BY <1>1, Removed DEF DiscardCode
<1>5. \A c \in Codes : ReadyCount(c)' + (IF "idle" \in {"approve", "mint"} /\ NoRequest.code = c THEN 1 ELSE 0)
                         <= ReadyCount(c) + (IF p \in Holders(c) THEN 1 ELSE 0)
    BY <1>4
<1>6. UNCHANGED <<now, consent, history>> /\ consent \subseteq Scopes /\ \A x \in consent : Allowed(x)
    BY DEF DiscardCode, IInv, TypeOK
<1> QED
    BY <1>1, <1>2, <1>3, <1>4, <1>5, <1>6, Move

\* handle_code_exchange: reading a redeemable code within its lifetime.
LEMMA PresentCodeOK == ASSUME IInv, NEW p \in Procs, NEW c \in Codes, PresentCode(p, c) PROVE IInv'
<1> DEFINE r == [NoRequest EXCEPT !.code = c, !.rev = code[c].rev, !.at = now]
<1>1. TypeOK /\ CodeOK(c) /\ "consume" \in Labels /\ r \in Request
      /\ r.code = c /\ r.rev = code[c].rev /\ r.at = now
    <2>1. TypeOK /\ CodeOK(c) /\ code[c].rev \in Nat /\ now \in Times
        BY CodeAssumption DEF IInv, TypeOK, Entry, Times
    <2> QED
        BY <2>1, Typed DEF Labels, NoRequest
<1>2. GotoWith(p, "consume", r) /\ UNCHANGED <<now, code, consent, history>> /\ Redeemable(c)
    BY DEF PresentCode
<1>3. RequestOK(p)'
    <2>1. pc'[p] = "consume" /\ req'[p] = r
        BY <1>1, <1>2, MovesOne
    <2>2. now <= Deadline(c) /\ origin[c].how # "none" /\ (origin[c].how = "pending" => c \in approved)
        <3>1. now \in Nat /\ code[c].expires \in Nat /\ Deadline(c) \in Nat
            BY <1>1, CodeAssumption DEF TypeOK, Entry, Origin, Times, Deadline
        <3> QED
            BY <1>1, <1>2, <3>1 DEF CodeOK, Redeemable, Readable
    <2>3. code[c].rev \in Nat /\ code[c].st = "ready"
        BY <1>1, <1>2 DEF TypeOK, Entry, Redeemable
    <2> QED
        BY <1>1, <1>2, <2>1, <2>2, <2>3 DEF RequestOK, Deadline, history
<1>4. \A d \in Codes : ReadyCount(d)' + (IF "consume" \in {"approve", "mint"} /\ r.code = d THEN 1 ELSE 0)
                         <= ReadyCount(d) + (IF p \in Holders(d) THEN 1 ELSE 0)
    BY <1>2, NoWrite
<1>5. consent' \subseteq Scopes /\ \A x \in consent' : Allowed(x)
    BY <1>2 DEF IInv, TypeOK
<1> QED
    BY <1>1, <1>2, <1>3, <1>4, <1>5, NoWrite, Move

\* save_user_consent: reading the record.
LEMMA RecallConsentOK == ASSUME IInv, NEW p \in Procs, RecallConsent(p) PROVE IInv'
<1> DEFINE r == [req[p] EXCEPT !.seen = consent]
<1>1. TypeOK /\ RequestOK(p) /\ pc[p] = "recall" /\ "record" \in Labels /\ r \in Request
    BY Typed DEF IInv, TypeOK, RecallConsent, At, Labels
<1>2. GotoWith(p, "record", r) /\ UNCHANGED <<now, code, consent, history>>
    BY DEF RecallConsent
<1>3. RequestOK(p)'
    <2>1. pc'[p] = "record" /\ req'[p] = r
        BY <1>1, <1>2, MovesOne
    <2>2. r.code = req[p].code /\ r.seen = consent
        BY <1>1 DEF TypeOK, Request
    <2>3. \A x \in consent : Allowed(x)'
        BY <1>2 DEF IInv, Allowed, history
    <2> QED
        BY <1>1, <1>2, <2>1, <2>2, <2>3 DEF RequestOK, history
<1>4. \A d \in Codes : ReadyCount(d)' + (IF "record" \in {"approve", "mint"} /\ r.code = d THEN 1 ELSE 0)
                         <= ReadyCount(d) + (IF p \in Holders(d) THEN 1 ELSE 0)
    BY <1>2, NoWrite
<1>5. consent' \subseteq Scopes /\ \A x \in consent' : Allowed(x)
    BY <1>2 DEF IInv, TypeOK
<1> QED
    BY <1>1, <1>2, <1>3, <1>4, <1>5, NoWrite, Move

\* save_user_consent: the union is written back, and holds only scopes once allowed.
LEMMA RecordConsentOK == ASSUME IInv, NEW p \in Procs, RecordConsent(p) PROVE IInv'
<1>1. TypeOK /\ RequestOK(p) /\ pc[p] = "record"
    BY DEF IInv, RecordConsent, At
<1>2. req[p].code \in approved /\ req[p].code \in Codes /\ \A x \in req[p].seen : Allowed(x)
    BY <1>1 DEF RequestOK
<1>3. consent' \subseteq Scopes /\ \A x \in consent' : Allowed(x)
    BY <1>1, <1>2 DEF RecordConsent, Allowed, TypeOK, Request
<1> QED
    BY <1>3, QuietFinish DEF RecordConsent

\* handle_consent: the approved code becomes redeemable, with the expiry it was read with.
LEMMA SaveApprovedOK == ASSUME IInv, NEW p \in Procs, SaveApproved(p) PROVE IInv'
<1> DEFINE c == req[p].code
           e == Put(code[c], "ready", req[p].expires)
<1>1. TypeOK /\ RequestOK(p) /\ pc[p] = "approve" /\ "recall" \in Labels /\ req[p] \in Request
    BY DEF IInv, TypeOK, SaveApproved, At, Labels
<1>2. GotoWith(p, "recall", req[p]) /\ code' = [code EXCEPT ![c] = e]
      /\ UNCHANGED <<now, consent, history>>
    BY DEF SaveApproved, Goto, ApprovedExpiry
<1>3. c \in Codes /\ c \in approved /\ origin[c].how # "none" /\ req[p].expires <= Deadline(c)
      /\ req[p].expires \in Times
    BY <1>1 DEF RequestOK, Request
<1>4. e \in Entry /\ e.st = "ready" /\ e.expires = req[p].expires /\ e.rev > code[c].rev
    BY <1>1, <1>3, PutTyped
<1> HIDE DEF e
<1>5. code'[c] = e /\ \A d \in Codes \ {c} : code'[d] = code[d]
    BY <1>1, <1>2, <1>3 DEF TypeOK
<1>6. code' \in [Codes -> Entry] /\ CodeStep
    BY <1>1, <1>2, <1>4, <1>5 DEF TypeOK, CodeStep
<1>7. RequestOK(p)'
    <2>1. pc'[p] = "recall" /\ req'[p] = req[p]
        BY <1>1, <1>2, MovesOne
    <2> QED
        BY <1>2, <1>3, <2>1 DEF RequestOK, history
<1>8. ASSUME NEW d \in Codes
      PROVE  /\ Readable(d)' => code'[d].expires <= Deadline(d)
             /\ code'[d].st # "absent" => origin[d].how # "none"
             /\ code'[d].st = "ready" /\ origin[d].how = "pending" => d \in approved
             /\ ReadyCount(d)' + (IF "recall" \in {"approve", "mint"} /\ req[p].code = d THEN 1 ELSE 0)
                  <= ReadyCount(d) + (IF p \in Holders(d) THEN 1 ELSE 0)
    <2>1. CASE d = c
        BY <1>1, <1>3, <1>4, <1>5, <2>1 DEF ReadyCount, Holders
    <2>2. CASE d # c
        BY <1>5, <2>2 DEF IInv, CodeOK, ReadyCount, Readable
    <2> QED
        BY <2>1, <2>2
<1>9. consent' \subseteq Scopes /\ \A x \in consent' : Allowed(x)
    BY <1>2 DEF IInv, TypeOK
<1> QED
    BY <1>1, <1>2, <1>6, <1>7, <1>8, <1>9, Move

\* handle_code_exchange: the swap to the consumed marker wins only on the entry that was read,
\* which was ready, and so uses it up.
LEMMA ConsumeCodeOK == ASSUME IInv, NEW p \in Procs, ConsumeCode(p) PROVE IInv'
<1> DEFINE c == req[p].code
           e == Put(code[c], "consumed", 0)
<1>1. TypeOK /\ RequestOK(p) /\ pc[p] = "consume" /\ "mint" \in Labels /\ req[p] \in Request
      /\ UNCHANGED <<now, consent, history>>
    BY DEF IInv, TypeOK, ConsumeCode, At, Labels
<1>2. consent' \subseteq Scopes /\ \A x \in consent' : Allowed(x)
    BY <1>1 DEF IInv, TypeOK
<1>3. CASE Finish(p) /\ UNCHANGED code
    BY <1>1, <1>2, <1>3, QuietFinish
<1>4. CASE RevisionMatches(p) /\ code' = [code EXCEPT ![c] = e] /\ GotoWith(p, "mint", req[p])
    <2>1. c \in Codes /\ origin[c].how # "none" /\ code[c].st = "ready"
        BY <1>1, <1>4 DEF RequestOK, RevisionMatches
    <2>2. 0 \in Times
        BY CodeAssumption DEF Times
    <2>3. e \in Entry /\ e.st = "consumed" /\ e.rev > code[c].rev
        BY <1>1, <2>1, <2>2, PutTyped
    <2> HIDE DEF e
    <2>4. code'[c] = e /\ \A d \in Codes \ {c} : code'[d] = code[d]
        BY <1>1, <1>4, <2>1 DEF TypeOK
    <2>5. code' \in [Codes -> Entry] /\ CodeStep
        BY <1>1, <1>4, <2>3, <2>4 DEF TypeOK, CodeStep
    <2>6. RequestOK(p)'
        <3>1. pc'[p] = "mint" /\ req'[p] = req[p]
            BY <1>1, <1>4, MovesOne
        <3> QED
            BY <1>1, <2>1, <3>1 DEF RequestOK, Deadline, history
    <2>7. ASSUME NEW d \in Codes
          PROVE  /\ Readable(d)' => code'[d].expires <= Deadline(d)
                 /\ code'[d].st # "absent" => origin[d].how # "none"
                 /\ code'[d].st = "ready" /\ origin[d].how = "pending" => d \in approved
                 /\ ReadyCount(d)' + (IF "mint" \in {"approve", "mint"} /\ req[p].code = d THEN 1 ELSE 0)
                      <= ReadyCount(d) + (IF p \in Holders(d) THEN 1 ELSE 0)
        <3>1. CASE d = c
            BY <2>1, <2>3, <2>4, <3>1 DEF ReadyCount, Readable
        <3>2. CASE d # c
            BY <2>4, <3>2 DEF IInv, CodeOK, ReadyCount, Readable
        <3> QED
            BY <3>1, <3>2
    <2> QED
        BY <1>1, <1>2, <1>4, <2>5, <2>6, <2>7, Move
<1> QED
    BY <1>3, <1>4 DEF ConsumeCode, Goto

\* A crash, or any error before the tokens are signed.
LEMMA CrashOK == ASSUME IInv, NEW p \in Procs, Crash(p) PROVE IInv'
BY QuietFinish DEF Crash, IInv, TypeOK

\* handle_code_exchange: the holder of the consumed code mints once.
LEMMA MintTokensOK == ASSUME IInv, NEW p \in Procs, MintTokens(p) PROVE IInv'
<1> DEFINE c == req[p].code
<1>1. TypeOK /\ RequestOK(p) /\ pc[p] = "mint" /\ "discard" \in Labels /\ req[p] \in Request
    BY DEF IInv, TypeOK, MintTokens, At, Labels
<1>2. GotoWith(p, "discard", req[p]) /\ mints' = [mints EXCEPT ![c] = @ + 1]
      /\ UNCHANGED <<now, code, consent, scope, origin, submits, approved>>
    BY DEF MintTokens, Goto
<1>3. c \in Codes /\ origin[c].how # "none" /\ (origin[c].how = "pending" => c \in approved)
    BY <1>1 DEF RequestOK
<1>4. mints'[c] = mints[c] + 1 /\ \A d \in Codes \ {c} : mints'[d] = mints[d]
    BY <1>1, <1>2, <1>3 DEF TypeOK
<1>5. TypeOK'
    BY <1>1, <1>2, <1>3, MovesOne DEF TypeOK
<1>6. CodeStep /\ HistoryGrows
    BY <1>2 DEF CodeStep, HistoryGrows
<1>7. ASSUME NEW q \in Procs PROVE RequestOK(q)'
    <2>1. CASE q = p
        <3>1. pc'[p] = "discard" /\ req'[p] = req[p]
            BY <1>1, <1>2, MovesOne
        <3> QED
            BY <1>2, <1>3, <2>1, <3>1 DEF RequestOK
    <2>2. CASE q # p
        <3>1. pc'[q] = pc[q] /\ req'[q] = req[q]
            BY <1>1, <1>2, <2>2, MovesOne
        <3> QED
            BY <1>5, <1>6, <3>1, OthersKeep
    <2> QED
        BY <2>1, <2>2
<1>8. ASSUME NEW d \in Codes PROVE CodeOK(d)'
    <2>1. \A x : Allowed(x)' <=> Allowed(x)
        BY <1>2 DEF Allowed
    <2>2. CASE d = c
        BY <1>2, <1>3, <2>1, <2>2 DEF IInv, CodeOK, Deadline, Readable
    <2>3. CASE d # c
        BY <1>2, <1>4, <2>1, <2>3 DEF IInv, CodeOK, Deadline, Readable
    <2> QED
        BY <2>2, <2>3
<1>9. ASSUME NEW d \in Codes PROVE Counted(d)'
    <2>1. IsFiniteSet(Holders(d)')
          /\ Cardinality(Holders(d)') = Cardinality(Holders(d)) - (IF p \in Holders(d) THEN 1 ELSE 0)
          /\ Cardinality(Holders(d)) \in Nat
        BY <1>1, <1>2, CountMove
    <2>2. ReadyCount(d)' = ReadyCount(d) /\ Budget(d)' = Budget(d)
        BY <1>2 DEF ReadyCount, Budget
    <2>3. /\ mints[d] \in Nat /\ ReadyCount(d) \in {0, 1} /\ Budget(d) \in Nat
          /\ mints[d] + Cardinality(Holders(d)) + ReadyCount(d) <= Budget(d)
        BY Counts DEF Budget
    <2>4. mints'[d] <= mints[d] + (IF p \in Holders(d) THEN 1 ELSE 0) /\ mints'[d] \in Nat
        <3>1. CASE d = c
            BY <1>1, <1>4, <2>3, <3>1 DEF Holders
        <3>2. CASE d # c
            BY <1>4, <2>3, <3>2
        <3> QED
            BY <3>1, <3>2
    <2> QED
        BY <2>1, <2>2, <2>3, <2>4 DEF Counted
<1>10. \A x \in consent' : Allowed(x)'
    BY <1>2 DEF IInv, Allowed
<1> QED
    BY <1>5, <1>7, <1>8, <1>9, <1>10 DEF IInv

\* handle_consent: the form is posted; Allow promises one redemption, Deny and late forms none.
LEMMA PostConsentOK ==
    ASSUME IInv, NEW p \in Procs, NEW c \in Codes, NEW allow \in BOOLEAN, PostConsent(p, c, allow)
    PROVE  IInv'
<1> DEFINE r == [NoRequest EXCEPT !.code = c, !.expires = code[c].expires]
<1>1. TypeOK /\ CodeOK(c) /\ r \in Request /\ r.code = c /\ r.expires = code[c].expires
    <2>1. TypeOK /\ CodeOK(c) /\ code[c].expires \in Times
        BY DEF IInv, TypeOK, Entry
    <2> QED
        BY <2>1, Typed DEF NoRequest
<1>2. /\ pc[p] = "idle" /\ origin[c].how = "pending" /\ Readable(c)
      /\ submits' = [submits EXCEPT ![c] = @ + 1]
      /\ UNCHANGED <<now, code, consent, scope, origin, mints>>
    BY DEF PostConsent, At
<1>3. PICK label \in {"approve", "discard"} :
         GotoWith(p, label, r) /\ approved' = IF label = "approve" THEN approved \cup {c} ELSE approved
    BY DEF PostConsent
<1>4. label \in Labels
    BY DEF Labels
<1>5. submits'[c] = submits[c] + 1 /\ \A d \in Codes \ {c} : submits'[d] = submits[d]
    BY <1>1, <1>2 DEF TypeOK
<1>6. TypeOK'
    BY <1>1, <1>2, <1>3, <1>4, MovesOne DEF TypeOK
<1>7. CodeStep /\ HistoryGrows
    BY <1>2, <1>3 DEF CodeStep, HistoryGrows
<1>8. ASSUME NEW q \in Procs PROVE RequestOK(q)'
    <2>1. CASE q = p
        <3>1. pc'[p] = label /\ req'[p] = r
            BY <1>1, <1>3, <1>4, MovesOne
        <3>2. code[c].expires <= Deadline(c)
            BY <1>1, <1>2 DEF CodeOK
        <3> QED
            BY <1>1, <1>2, <1>3, <2>1, <3>1, <3>2 DEF RequestOK, Deadline
    <2>2. CASE q # p
        <3>1. pc'[q] = pc[q] /\ req'[q] = req[q]
            BY <1>1, <1>3, <1>4, <2>2, MovesOne
        <3> QED
            BY <1>6, <1>7, <3>1, OthersKeep
    <2> QED
        BY <2>1, <2>2
<1>9. \A x : Allowed(x) => Allowed(x)'
    BY <1>2, <1>3 DEF Allowed
<1>10. ASSUME NEW d \in Codes PROVE CodeOK(d)'
    <2>1. CASE d = c
        BY <1>1, <1>2, <1>3, <1>9, <2>1 DEF CodeOK, Deadline, Readable
    <2>2. CASE d # c
        BY <1>2, <1>3, <1>5, <1>9, <2>2 DEF IInv, CodeOK, Deadline, Readable
    <2> QED
        BY <2>1, <2>2
<1>11. ASSUME NEW d \in Codes PROVE Counted(d)'
    <2>1. IsFiniteSet(Holders(d)') /\ Cardinality(Holders(d)) \in Nat
          /\ Cardinality(Holders(d)') = Cardinality(Holders(d))
                + (IF label \in {"approve", "mint"} /\ r.code = d THEN 1 ELSE 0)
                - (IF p \in Holders(d) THEN 1 ELSE 0)
        BY <1>1, <1>3, <1>4, CountMove
    <2>2. p \notin Holders(d)
        BY <1>2 DEF Holders
    <2>3. /\ mints[d] \in Nat /\ ReadyCount(d) \in {0, 1} /\ Budget(d) \in Nat
          /\ mints[d] + Cardinality(Holders(d)) + ReadyCount(d) <= Budget(d)
        BY Counts DEF Budget
    <2>4. ReadyCount(d)' = ReadyCount(d) /\ mints' = mints
        BY <1>2 DEF ReadyCount
    <2>5. Budget(d)' = Budget(d) + (IF d = c THEN 1 ELSE 0)
        <3>1. submits[d] \in Nat
            BY <1>1 DEF TypeOK
        <3> QED
            BY <1>2, <1>5, <3>1 DEF Budget
    <2> QED
        BY <1>1, <2>1, <2>2, <2>3, <2>4, <2>5 DEF Counted
<1>12. \A x \in consent' : Allowed(x)'
    BY <1>2, <1>9 DEF IInv
<1> QED
    BY <1>6, <1>8, <1>10, <1>11, <1>12 DEF IInv

\* Steps of the environment move no request.
LEMMA HoldersStay == ASSUME UNCHANGED <<pc, req>>, NEW c \in Codes PROVE Holders(c)' = Holders(c)
BY DEF Holders

\* The store drops an expired key.
LEMMA ExpireKeyOK == ASSUME IInv, NEW c \in Codes, ExpireKey(c) PROVE IInv'
<1>1. TypeOK /\ UNCHANGED <<now, consent, pc, req, history>> /\ code' = [code EXCEPT ![c] = Delete(@)]
    BY DEF IInv, ExpireKey
<1>2. /\ code' \in [Codes -> Entry] /\ CodeStep
      /\ \A d \in Codes : /\ Readable(d)' => code'[d].expires <= Deadline(d)
                          /\ code'[d].st # "absent" => origin[d].how # "none"
                          /\ code'[d].st = "ready" /\ origin[d].how = "pending" => d \in approved
                          /\ ReadyCount(d)' <= ReadyCount(d) /\ ReadyCount(d) \in {0, 1}
                          /\ ReadyCount(d)' \in {0, 1}
    BY <1>1, Removed
<1>3. TypeOK' /\ HistoryGrows
    BY <1>1, <1>2 DEF TypeOK, HistoryGrows, history
<1>4. \A q \in Procs : RequestOK(q)'
    BY <1>1, <1>2, <1>3, OthersKeep
<1>5. ASSUME NEW d \in Codes PROVE CodeOK(d)' /\ Counted(d)'
    <2>1. \A x : Allowed(x)' <=> Allowed(x)
        BY <1>1 DEF Allowed, history
    <2>2. CodeOK(d)'
        BY <1>1, <1>2, <2>1 DEF IInv, CodeOK, Deadline, history
    <2>3. Holders(d)' = Holders(d) /\ Budget(d)' = Budget(d) /\ mints' = mints
        BY <1>1, HoldersStay DEF Budget, history
    <2>4. /\ mints[d] \in Nat /\ Cardinality(Holders(d)) \in Nat /\ Budget(d) \in Nat
          /\ mints[d] + Cardinality(Holders(d)) + ReadyCount(d) <= Budget(d)
        BY Counts DEF Budget
    <2>5. IsFiniteSet(Holders(d))
        BY DEF IInv, Counted
    <2> QED
        BY <1>2, <2>2, <2>3, <2>4, <2>5 DEF Counted
<1>6. \A x \in consent' : Allowed(x)'
    BY <1>1 DEF IInv, Allowed, history
<1> QED
    BY <1>3, <1>4, <1>5, <1>6 DEF IInv

\* complete_login, /authorize: a code that skips the consent page covers only scopes that the
\* consent record holds, all of them once allowed.
LEMMA IssueCodeOK ==
    ASSUME IInv, NEW c \in Codes, NEW s \in SUBSET Scopes, NEW prompt \in BOOLEAN,
           IssueCode(c, s, prompt)
    PROVE  IInv'
<1>1. TypeOK /\ CodeOK(c) /\ origin[c].how = "none" /\ now + CodeTTL \in Times /\ now \in Times
    BY CodeAssumption DEF IInv, IssueCode, TypeOK, Times
<1>2. PICK st \in {"pending", "ready"} :
         /\ st = "ready" => s \subseteq consent
         /\ code' = [code EXCEPT ![c] = Put(@, st, now + CodeTTL)]
         /\ origin' = [origin EXCEPT ![c] = [how |-> st, at |-> now]]
    BY DEF IssueCode, AlreadyConsented
<1>3. scope' = [scope EXCEPT ![c] = s] /\ UNCHANGED <<now, consent, pc, req, submits, approved, mints>>
    BY DEF IssueCode
<1> DEFINE e == Put(code[c], st, now + CodeTTL)
<1>4. e \in Entry /\ e.st = st /\ e.expires = now + CodeTTL /\ e.rev > code[c].rev
    BY <1>1, PutTyped
<1>5. code' = [code EXCEPT ![c] = e]
    BY <1>2
<1> HIDE DEF e
<1>6. /\ code'[c] = e /\ origin'[c] = [how |-> st, at |-> now] /\ scope'[c] = s
      /\ \A d \in Codes \ {c} : code'[d] = code[d] /\ origin'[d] = origin[d] /\ scope'[d] = scope[d]
    BY <1>1, <1>2, <1>3, <1>5 DEF TypeOK
<1>7. TypeOK'
    <2>1. [how |-> st, at |-> now] \in Origin
        BY <1>1 DEF Origin
    <2> QED
        BY <1>1, <1>2, <1>3, <1>4, <1>5, <2>1 DEF TypeOK
<1>8. CodeStep /\ HistoryGrows
    BY <1>1, <1>3, <1>4, <1>6 DEF CodeStep, HistoryGrows
<1>9. \A q \in Procs : RequestOK(q)'
    BY <1>3, <1>7, <1>8, OthersKeep
<1>10. \A x : Allowed(x) => Allowed(x)'
    <2>1. \A d \in approved : d \in Codes /\ scope'[d] = scope[d]
        BY <1>1, <1>6 DEF CodeOK, TypeOK
    <2> QED
        BY <1>3, <2>1 DEF Allowed
<1>11. ASSUME NEW d \in Codes PROVE CodeOK(d)' /\ Counted(d)'
    <2>1. CASE d # c
        <3>1. CodeOK(d)'
            BY <1>3, <1>6, <1>10, <2>1 DEF IInv, CodeOK, Deadline, Readable
        <3>2. Counted(d)'
            BY <1>3, <1>6, <2>1, HoldersStay DEF IInv, Counted, ReadyCount, Budget
        <3> QED
            BY <3>1, <3>2
    <2>2. CASE d = c
        <3>1. /\ mints[c] = 0 /\ Cardinality(Holders(c)) = 0
              /\ IsFiniteSet(Holders(c)) /\ submits[c] = 0 /\ c \notin approved
            <4>1. submits[c] = 0 /\ c \notin approved /\ Budget(c) = 0
                BY <1>1 DEF CodeOK, Budget
            <4> QED
                BY <4>1, Counts DEF IInv, Counted
        <3>2. Counted(c)'
            BY <1>3, <1>4, <1>6, <3>1, HoldersStay DEF Counted, ReadyCount, Budget
        <3>3. now + CodeTTL \in Nat /\ Deadline(c)' = now + CodeTTL
            BY <1>1, <1>6, CodeAssumption DEF Deadline, Times
        <3>4. st = "ready" => \A x \in s : Allowed(x)'
            BY <1>2, <1>10 DEF IInv
        <3>5. code'[c].st = st /\ code'[c].expires = now + CodeTTL /\ origin'[c].how = st
            BY <1>4, <1>6
        <3>6. CodeOK(c)'
            BY <1>3, <1>6, <3>1, <3>3, <3>4, <3>5 DEF CodeOK, Readable
        <3> QED
            BY <2>2, <3>2, <3>6
    <2> QED
        BY <2>1, <2>2
<1>12. \A x \in consent' : Allowed(x)'
    BY <1>3, <1>10 DEF IInv
<1> QED
    BY <1>7, <1>9, <1>11, <1>12 DEF IInv

\* The clock, and nothing at all.
LEMMA TickOK == ASSUME IInv, Tick \/ UNCHANGED vars PROVE IInv'
<1>1. UNCHANGED <<code, consent, pc, req, history>>
    BY DEF Tick, vars
<1>2. TypeOK' /\ CodeStep /\ HistoryGrows
    <2>1. now' \in 1..MaxTime
        BY CodeAssumption DEF Tick, vars, IInv, TypeOK
    <2> QED
        BY <1>1, <2>1 DEF IInv, TypeOK, CodeStep, HistoryGrows, history
<1>3. \A q \in Procs : RequestOK(q)'
    BY <1>1, <1>2, OthersKeep
<1>4. \A c \in Codes : CodeOK(c)' /\ Counted(c)'
    <2>1. \A x : Allowed(x)' <=> Allowed(x)
        BY <1>1 DEF Allowed, history
    <2> QED
        BY <1>1, <2>1, HoldersStay DEF IInv, CodeOK, Counted, Deadline, Readable, ReadyCount, Budget, history
<1>5. \A x \in consent' : Allowed(x)'
    BY <1>1 DEF IInv, Allowed, history
<1> QED
    BY <1>2, <1>3, <1>4, <1>5 DEF IInv

\* No code issued, no request in flight.
LEMMA InitOK == Init => IInv
<1> SUFFICES ASSUME Init PROVE IInv
    OBVIOUS
<1>1. TypeOK
    <2>1. 0 \in Times /\ 1 \in 1..MaxTime
        BY CodeAssumption DEF Times
    <2>2. NoRequest \in Request /\ "idle" \in Labels
        BY Typed DEF Labels
    <2> QED
        BY <2>1, <2>2 DEF Init, TypeOK, Entry, Origin
<1>2. \A p \in Procs : RequestOK(p)
    BY DEF Init, RequestOK
<1>3. ASSUME NEW c \in Codes PROVE CodeOK(c) /\ Counted(c)
    <2>1. Holders(c) = {}
        BY DEF Init, Holders
    <2> QED
        BY <2>1, FS_EmptySet DEF Init, CodeOK, Counted, Readable, ReadyCount, Budget
<1>4. \A x \in consent : Allowed(x)
    BY DEF Init
<1> QED
    BY <1>1, <1>2, <1>3, <1>4 DEF IInv

\* Every step keeps the invariant.
LEMMA NextOK == IInv /\ [Next]_vars => IInv'
<1> SUFFICES ASSUME IInv, [Next]_vars PROVE IInv'
    OBVIOUS
<1>1. ASSUME NEW p \in Procs, Handler(p) PROVE IInv'
    <2>1. CASE \E c \in Codes : (\E allow \in BOOLEAN : PostConsent(p, c, allow)) \/ PresentCode(p, c)
        BY <2>1, PostConsentOK, PresentCodeOK
    <2>2. CASE SaveApproved(p) \/ RecallConsent(p) \/ RecordConsent(p) \/ DiscardCode(p)
        BY <2>2, SaveApprovedOK, RecallConsentOK, RecordConsentOK, DiscardCodeOK
    <2>3. CASE ConsumeCode(p) \/ MintTokens(p) \/ Crash(p)
        BY <2>3, ConsumeCodeOK, MintTokensOK, CrashOK
    <2> QED
        BY <1>1, <2>1, <2>2, <2>3 DEF Handler
<1>2. CASE \E c \in Codes : \E s \in SUBSET Scopes \ {{}} : \E prompt \in BOOLEAN : IssueCode(c, s, prompt)
    BY <1>2, IssueCodeOK
<1>3. CASE \E c \in Codes : ExpireKey(c)
    BY <1>3, ExpireKeyOK
<1>4. CASE Tick \/ UNCHANGED vars
    BY <1>4, TickOK
<1> QED
    BY <1>1, <1>2, <1>3, <1>4 DEF Next

(***************************************************************************)
(* The theorems.                                                           *)
(***************************************************************************)
\* The store, the consent record and the requests of login.rs and token.rs stay within IInv.
THEOREM Invariance == Spec => []IInv
<1>1. Init => IInv
    BY InitOK
<1>2. IInv /\ [Next]_vars => IInv'
    BY NextOK
<1> QED
    BY <1>1, <1>2, PTL DEF Spec

\* The state of the code flow is always well typed.
THEOREM TypeCorrect == Spec => []TypeOK
<1>1. IInv => TypeOK
    BY DEF IInv
<1> QED
    BY <1>1, Invariance, PTL

\* handle_code_exchange's CAS, for any number of concurrent redemptions and consent forms: a code
\* issued ready mints at most once, any other at most once per form posted for it.
THEOREM OneMintPerWrite == Spec => []RedeemedOncePerWrite
<1>1. IInv => RedeemedOncePerWrite
    <2> SUFFICES ASSUME IInv, NEW c \in Codes PROVE mints[c] <= Budget(c)
        BY DEF RedeemedOncePerWrite, Budget
    <2> QED
        BY Counts DEF Budget
<1> QED
    BY <1>1, Invariance, PTL

\* handle_consent keeps the expiry it read: no redemption passes its checks later than CodeTTL
\* after the code was issued, however late it was approved.
THEOREM ApprovalDoesNotProlong == Spec => []RedeemedInTime
<1>1. IInv => RedeemedInTime
    BY DEF IInv, RequestOK, RedeemedInTime, At, Deadline
<1> QED
    BY <1>1, Invariance, PTL

\* No tokens without consent: a code that needed the page mints only after Allow, and one that
\* skipped it (has_user_consented) covers only scopes once allowed, whatever interleaving of
\* save_user_consent's read and write the record went through.
THEOREM ConsentFirst == Spec => []ConsentBeforeTokens
<1>1. IInv => ConsentBeforeTokens
    BY DEF IInv, CodeOK, ConsentBeforeTokens, Allowed
<1> QED
    BY <1>1, Invariance, PTL

-----------------------------------------------------------------------------
(***************************************************************************)
(* The other grant whose code is spent once: theorems about DeviceGrant    *)
(* for every set of devices, users, approval tokens and requests and every *)
(* lifetime.  A constant or variable that both modules declare stands for  *)
(* the device grant's own from here on; nothing is said of both at once.   *)
(***************************************************************************)
\* What only DeviceGrant declares, and its definitions under the name DG.
CONSTANTS Users, Approvals, None, DeviceTTL, MaxAttempts
VARIABLES device, lookup, attempts, sessions, approval
DG == INSTANCE DeviceGrant

Gone(d) == device[d].st = "absent"

\* A device code that save_device_code has written has a revision, also when it is gone.
Born(d) == device[d].rev > 0

\* What a request in flight knows at each of its steps.  A poll that still holds the current
\* revision has read the current decision; once its conditional delete has succeeded there is
\* no later one.
DeviceRequestOK(p) ==
    LET r == req[p]
        d == req[p].dev
    IN /\ pc[p] # "idle" => d \in Devices /\ Born(d)
       /\ pc[p] = "burn" => r.appr \in Approvals
       /\ pc[p] \in {"burn", "check", "update", "swap"} => r.to \in {"approved", "denied"}
       /\ pc[p] \in {"burn", "check", "update", "swap"} /\ r.to = "approved" => r.user \in said[d]
       /\ pc[p] = "consume" =>
             /\ r.rev <= device[d].rev
             /\ r.rev = device[d].rev /\ ~Gone(d) => device[d].st = "approved" /\ device[d].user = r.user
       /\ pc[p] = "mint" =>
             /\ Gone(d) /\ minted[d] = 0
             /\ last[d] = [st |-> "approved", user |-> r.user] /\ r.user \in said[d]

\* What the store and the history know of a device code.
DeviceOK(d) ==
    /\ ~Born(d) => device[d] = DG!Unborn
    /\ ~Gone(d) \/ ~Born(d) => minted[d] = 0
    /\ minted[d] \in {0, 1}
    /\ device[d].st = "approved" =>
          last[d] = [st |-> "approved", user |-> device[d].user] /\ device[d].user \in said[d]
    /\ d \in lookup \cup sessions => Born(d)

\* The approval tokens handed out by create_approval name a device and a user.
ApprovalOK(k) ==
    approval[k].st = "there" =>
        approval[k].dev \in Devices /\ approval[k].user \in Users /\ Born(approval[k].dev)

\* A device code is consumed by one poll.
OneMinter == \A p, q \in Procs : DG!At(p, "mint") /\ DG!At(q, "mint") /\ req[p].dev = req[q].dev => p = q

DeviceIInv ==
    /\ DG!TypeOK
    /\ \A p \in Procs : DeviceRequestOK(p)
    /\ \A d \in Devices : DeviceOK(d)
    /\ \A k \in Approvals : ApprovalOK(k)
    /\ OneMinter

\* This step moves the store only forward: a changed record has a new revision or is gone, a
\* record that is gone stays gone and gets no further decision, and no approval is taken back.
Forward ==
    \A d \in Devices :
        /\ \/ device'[d] = device[d]
           \/ device'[d].rev > device[d].rev
           \/ device'[d].rev = device[d].rev /\ device'[d].st = "absent"
        /\ Born(d) /\ Gone(d) => device'[d].st = "absent" /\ last'[d] = last[d]
        /\ said[d] \subseteq said'[d]

(***************************************************************************)
(* What the operators of the model do.                                     *)
(***************************************************************************)
\* The times that the model computes stay within its bounds.
LEMMA TimesTyped ==
    ASSUME DG!DeviceConstants, DG!TypeOK
    PROVE  /\ 0 \in DG!Times /\ now + DeviceTTL \in DG!Times /\ now \in Nat
           /\ \A e \in DG!Entry : DG!RemainingUntil(e) \in DG!Times
<1>1. now \in 1..MaxTime /\ MaxTime \in Nat \ {0} /\ DeviceTTL \in Nat \ {0}
    BY DEF DG!DeviceConstants, DG!TypeOK
<1>2. 0 \in DG!Times /\ now + DeviceTTL \in DG!Times /\ now \in Nat /\ now + 1 \in DG!Times
    BY <1>1 DEF DG!Times
<1> QED
    BY <1>2 DEF DG!RemainingUntil, DG!Entry

\* Changes of the locals of a request keep their types.
LEMMA SetLocal ==
    /\ DG!NoRequest \in DG!Request
    /\ \A r \in DG!Request : \A d \in Devices : [r EXCEPT !.dev = d] \in DG!Request
    /\ \A r \in DG!Request : \A v \in Nat : [r EXCEPT !.rev = v] \in DG!Request
    /\ \A r \in DG!Request : \A d \in Devices : \A to \in DG!Statuses :
          [r EXCEPT !.dev = d, !.to = to] \in DG!Request
    /\ \A r \in DG!Request : \A u \in Users \cup {None} : \A v \in Nat :
          [r EXCEPT !.user = u, !.rev = v] \in DG!Request
    /\ \A r \in DG!Request : \A d \in Devices : \A u \in Users \cup {None} : \A k \in Approvals : \A to \in DG!Statuses :
          [r EXCEPT !.dev = d, !.user = u, !.appr = k, !.to = to] \in DG!Request
<1>1. DG!NoRequest \in DG!Request
    BY DEF DG!NoRequest, DG!Request, DG!Statuses
<1>2. \A r \in DG!Request : \A d \in Devices : [r EXCEPT !.dev = d] \in DG!Request
    BY DEF DG!Request
<1>3. \A r \in DG!Request : \A v \in Nat : [r EXCEPT !.rev = v] \in DG!Request
    BY DEF DG!Request
<1>4. \A r \in DG!Request : \A d \in Devices : \A to \in DG!Statuses :
          [r EXCEPT !.dev = d, !.to = to] \in DG!Request
    BY DEF DG!Request
<1>5. \A r \in DG!Request : \A u \in Users \cup {None} : \A v \in Nat :
          [r EXCEPT !.user = u, !.rev = v] \in DG!Request
    BY DEF DG!Request
<1>6. \A r \in DG!Request : \A d \in Devices : \A u \in Users \cup {None} : \A k \in Approvals : \A to \in DG!Statuses :
          [r EXCEPT !.dev = d, !.user = u, !.appr = k, !.to = to] \in DG!Request
    BY DEF DG!Request
<1> QED
    BY <1>1, <1>2, <1>3, <1>4, <1>5, <1>6

\* kv_delete: the record is gone, its revision is remembered.
LEMMA DeviceDeleteTyped ==
    ASSUME DG!TypeOK, NEW d \in Devices
    PROVE  /\ DG!Delete(device[d]) \in DG!Entry
           /\ DG!Delete(device[d]).st = "absent" /\ DG!Delete(device[d]).rev = device[d].rev
<1>1. device[d] \in DG!Entry
    BY DEF DG!TypeOK
<1>2. DG!Delete(device[d]) \in DG!Entry
    BY <1>1 DEF DG!Delete, DG!Entry, DG!Statuses
<1>3. DG!Delete(device[d]).st = "absent" /\ DG!Delete(device[d]).rev = device[d].rev
    BY <1>1 DEF DG!Delete, DG!Entry
<1> QED
    BY <1>2, <1>3

\* What a step of a request does to the control of the requests.
LEMMA DeviceMovesOne ==
    ASSUME DG!TypeOK, NEW p \in Procs, NEW label \in DG!Labels, NEW r \in DG!Request, DG!GotoWith(p, label, r)
    PROVE  /\ pc' \in [Procs -> DG!Labels] /\ req' \in [Procs -> DG!Request]
           /\ pc'[p] = label /\ req'[p] = r
           /\ \A q \in Procs \ {p} : pc'[q] = pc[q] /\ req'[q] = req[q]
BY DEF DG!GotoWith, DG!TypeOK

\* Requests that do not move keep what they know, whatever the others did to the store.
LEMMA DeviceOthersKeep ==
    ASSUME DeviceIInv, DG!TypeOK', Forward, NEW q \in Procs, pc'[q] = pc[q], req'[q] = req[q],
           pc[q] = "mint" => minted'[req[q].dev] = minted[req[q].dev]
    PROVE  DeviceRequestOK(q)'
<1> DEFINE d == req[q].dev
<1>1. DeviceRequestOK(q) /\ DG!TypeOK /\ req[q] \in DG!Request
    BY DEF DeviceIInv, DG!TypeOK
<1>2. CASE pc[q] = "idle"
    BY <1>2 DEF DeviceRequestOK
<1>3. CASE pc[q] # "idle"
    <2>1. d \in Devices /\ Born(d) /\ said[d] \subseteq said'[d]
        BY <1>1, <1>3 DEF DeviceRequestOK, Forward
    <2>2. device[d].rev \in Nat /\ device'[d].rev \in Nat /\ req[q].rev \in Nat
        BY <1>1, <2>1 DEF DG!TypeOK, DG!Entry, DG!Request
    <2>3. Born(d)'
        BY <2>1, <2>2 DEF Forward, Born
    <2>4. pc[q] = "consume" =>
             /\ req[q].rev <= device'[d].rev
             /\ req[q].rev = device'[d].rev /\ device'[d].st # "absent" =>
                   device'[d].st = "approved" /\ device'[d].user = req[q].user
        BY <1>1, <2>1, <2>2 DEF DeviceRequestOK, Forward, Gone
    <2>5. pc[q] = "mint" => device'[d].st = "absent" /\ last'[d] = last[d] /\ minted'[d] = 0
        BY <1>1, <2>1 DEF DeviceRequestOK, Forward
    <2> QED
        BY <1>1, <2>1, <2>3, <2>4, <2>5 DEF DeviceRequestOK, Gone
<1> QED
    BY <1>2, <1>3

\* Approval tokens name devices that stay born.
LEMMA ApprovalsKeep ==
    ASSUME DeviceIInv, DG!TypeOK', Forward, NEW k \in Approvals, approval'[k] = approval[k] \/ approval'[k].st # "there"
    PROVE  ApprovalOK(k)'
<1>1. \A d \in Devices : device[d].rev \in Nat /\ device'[d].rev \in Nat
    BY DEF DeviceIInv, DG!TypeOK, DG!Entry
<1>2. \A d \in Devices : Born(d) => Born(d)'
    BY <1>1 DEF Forward, Born
<1> QED
    BY <1>2 DEF DeviceIInv, ApprovalOK, Born

\* A step that writes no device record and takes back no approval moves the store forward, and
\* what is known of the device codes stays true.
LEMMA DeviceNoWrite ==
    ASSUME DeviceIInv, UNCHANGED <<device, last, minted>>, \A d \in Devices : said[d] \subseteq said'[d],
           \A d \in lookup' \cup sessions' : Born(d)
    PROVE  Forward /\ \A d \in Devices : DeviceOK(d)'
<1>1. Forward
    BY DEF Forward, Gone
<1>2. ASSUME NEW d \in Devices PROVE DeviceOK(d)'
    BY DEF DeviceIInv, DeviceOK, Gone, Born
<1> QED
    BY <1>1, <1>2

\* A step that deletes a record moves the store forward.
LEMMA DeviceRemoved ==
    ASSUME DeviceIInv, NEW d \in Devices, Born(d), device' = [device EXCEPT ![d] = DG!Delete(@)],
           UNCHANGED <<lookup, sessions, DG!history>>
    PROVE  Forward /\ device' \in [Devices -> DG!Entry] /\ \A e \in Devices : DeviceOK(e)'
<1>1. DG!TypeOK /\ DG!Delete(device[d]) \in DG!Entry /\ DG!Delete(device[d]).st = "absent"
      /\ DG!Delete(device[d]).rev = device[d].rev
    BY DeviceDeleteTyped DEF DeviceIInv
<1>2. device'[d] = DG!Delete(device[d]) /\ \A e \in Devices \ {d} : device'[e] = device[e]
    BY <1>1 DEF DG!TypeOK
<1>3. Forward /\ device' \in [Devices -> DG!Entry]
    BY <1>1, <1>2 DEF Forward, DG!TypeOK, DG!history, Gone
<1>4. ASSUME NEW e \in Devices PROVE DeviceOK(e)'
    <2>1. CASE e = d
        BY <1>1, <1>2, <2>1 DEF DeviceIInv, DeviceOK, Gone, Born, DG!history
    <2>2. CASE e # d
        BY <1>2, <2>2 DEF DeviceIInv, DeviceOK, Gone, Born, DG!history
    <2> QED
        BY <2>1, <2>2
<1> QED
    BY <1>3, <1>4

\* The step of one request that minted nothing, and takes the right to mint only while the record
\* is still there.
LEMMA DeviceMove ==
    ASSUME DeviceIInv, DG!TypeOK', NEW p \in Procs, NEW label \in DG!Labels, NEW r \in DG!Request, DG!GotoWith(p, label, r),
           UNCHANGED minted, Forward, DeviceRequestOK(p)', \A d \in Devices : DeviceOK(d)',
           \A k \in Approvals : approval'[k] = approval[k] \/ approval'[k].st # "there",
           label = "mint" => r.dev \in Devices /\ ~Gone(r.dev)
    PROVE  DeviceIInv'
<1>1. DG!TypeOK
    BY DEF DeviceIInv
<1>2. /\ pc'[p] = label /\ req'[p] = r
      /\ \A q \in Procs \ {p} : pc'[q] = pc[q] /\ req'[q] = req[q]
    BY <1>1, DeviceMovesOne
<1>3. ASSUME NEW q \in Procs PROVE DeviceRequestOK(q)'
    <2>1. CASE q = p
        BY <2>1
    <2>2. CASE q # p
        BY <1>2, <2>2, DeviceOthersKeep
    <2> QED
        BY <2>1, <2>2
<1>4. \A k \in Approvals : ApprovalOK(k)'
    BY ApprovalsKeep
<1>5. OneMinter'
    <2> SUFFICES ASSUME NEW q1 \in Procs, NEW q2 \in Procs, pc'[q1] = "mint", pc'[q2] = "mint",
                        req'[q1].dev = req'[q2].dev
                 PROVE  q1 = q2
        BY DEF OneMinter, DG!At
    <2>1. CASE q1 # p /\ q2 # p
        BY <1>2, <2>1 DEF DeviceIInv, OneMinter, DG!At
    <2>2. ASSUME NEW q \in Procs \ {p}, pc[q] = "mint", label = "mint", req[q].dev = r.dev
          PROVE  FALSE
        BY <2>2 DEF DeviceIInv, DeviceRequestOK
    <2> QED
        BY <1>2, <2>1, <2>2
<1> QED
    BY <1>3, <1>4, <1>5 DEF DeviceIInv

(***************************************************************************)
(* One lemma per action.                                                   *)
(***************************************************************************)
\* A request that ends without writing a device record.
LEMMA DeviceQuietFinish ==
    ASSUME DeviceIInv, NEW p \in Procs, DG!Finish(p), UNCHANGED <<now, device, attempts, approval, DG!history>>,
           lookup' \subseteq Devices, sessions' \subseteq Devices, \A d \in lookup' \cup sessions' : Born(d)
    PROVE  DeviceIInv'
<1>1. DG!TypeOK /\ DG!NoRequest \in DG!Request /\ "idle" \in DG!Labels /\ DG!GotoWith(p, "idle", DG!NoRequest)
    BY SetLocal DEF DeviceIInv, DG!Labels, DG!Finish
<1>2. DG!TypeOK'
    BY <1>1, DeviceMovesOne DEF DG!TypeOK, DG!history
<1>3. DeviceRequestOK(p)'
    BY <1>1, DeviceMovesOne DEF DeviceRequestOK
<1>4. Forward /\ \A d \in Devices : DeviceOK(d)'
    BY DeviceNoWrite DEF DG!history
<1> QED
    BY <1>1, <1>2, <1>3, <1>4, DeviceMove DEF DG!history

\* A request that goes on without touching a table.
LEMMA QuietMove ==
    ASSUME DeviceIInv, NEW p \in Procs, NEW label \in DG!Labels \ {"mint"}, NEW r \in DG!Request, DG!GotoWith(p, label, r),
           UNCHANGED <<now, device, lookup, sessions, last, minted>>,
           attempts' \in [Devices -> Nat], approval' \in [Approvals -> DG!Approval],
           said' \in [Devices -> SUBSET Users], \A d \in Devices : said[d] \subseteq said'[d],
           \A k \in Approvals : approval'[k] = approval[k] \/ approval'[k].st # "there",
           DeviceRequestOK(p)'
    PROVE  DeviceIInv'
<1>1. DG!TypeOK /\ label \in DG!Labels /\ label # "mint"
    BY DEF DeviceIInv
<1>2. DG!TypeOK'
    BY <1>1, DeviceMovesOne DEF DG!TypeOK
<1>3. \A d \in lookup' \cup sessions' : Born(d)
    BY <1>1 DEF DeviceIInv, DeviceOK, DG!TypeOK
<1>4. Forward /\ \A d \in Devices : DeviceOK(d)'
    BY <1>3, DeviceNoWrite
<1> QED
    BY <1>1, <1>2, <1>4, DeviceMove

\* save_device_code: a record that no request, poll or approval knows of yet.
LEMMA StartDeviceOK == ASSUME DG!DeviceConstants, DeviceIInv, NEW p \in Procs, NEW d \in Devices,
                              DG!StartDevice(p, d)
                       PROVE  DeviceIInv'
<1> DEFINE e == [st |-> "pending", user |-> None, rev |-> 1, expires |-> now + DeviceTTL, ttl |-> now + DeviceTTL]
           r == [DG!NoRequest EXCEPT !.dev = d]
<1>1. DG!TypeOK /\ "publish" \in DG!Labels /\ r \in DG!Request /\ r.dev = d
    <2>1. r \in DG!Request
        BY SetLocal
    <2> QED
        BY <2>1 DEF DeviceIInv, DG!Labels, DG!NoRequest
<1>2. /\ device[d] = DG!Unborn /\ device' = [device EXCEPT ![d] = e] /\ DG!GotoWith(p, "publish", r)
      /\ UNCHANGED <<now, lookup, attempts, sessions, approval, DG!history>>
    BY DEF DG!StartDevice
<1>3. e \in DG!Entry
    BY <1>1, TimesTyped DEF DG!Entry, DG!Statuses
<1>4. device'[d] = e /\ \A x \in Devices \ {d} : device'[x] = device[x]
    BY <1>1, <1>2 DEF DG!TypeOK
<1>5. DG!TypeOK'
    BY <1>1, <1>2, <1>3, DeviceMovesOne DEF DG!TypeOK, DG!history
<1>6. ~Born(d) /\ Born(d)' /\ e.st = "pending" /\ e.rev = 1 /\ device[d].rev = 0
    BY <1>2, <1>4 DEF DG!Unborn, Born
<1> HIDE DEF e, r
<1>7. Forward
    BY <1>2, <1>4, <1>6 DEF Forward, DG!history, Gone
<1>8. DeviceRequestOK(p)'
    BY <1>1, <1>2, <1>6, DeviceMovesOne DEF DeviceRequestOK
<1>9. ASSUME NEW x \in Devices PROVE DeviceOK(x)'
    <2>1. CASE x = d
        BY <1>2, <1>4, <1>6, <2>1 DEF DeviceIInv, DeviceOK, Gone, DG!history
    <2>2. CASE x # d
        BY <1>2, <1>4, <2>2 DEF DeviceIInv, DeviceOK, Gone, Born, DG!history
    <2> QED
        BY <2>1, <2>2
<1> QED
    BY <1>1, <1>2, <1>5, <1>7, <1>8, <1>9, DeviceMove DEF DG!history

\* save_device_code: the user-code key.
LEMMA PublishCodeOK == ASSUME DeviceIInv, NEW p \in Procs, DG!PublishCode(p) PROVE DeviceIInv'
<1>1. req[p].dev \in Devices /\ Born(req[p].dev) /\ DG!TypeOK
    BY DEF DeviceIInv, DeviceRequestOK, DG!PublishCode, DG!At
<1>2. lookup' \subseteq Devices /\ \A d \in lookup' \cup sessions : Born(d)
    BY <1>1 DEF DG!PublishCode, DeviceIInv, DeviceOK, DG!TypeOK
<1> QED
    BY <1>1, <1>2, DeviceQuietFinish DEF DG!PublishCode, DG!TypeOK

\* submit: the attempt is counted.
LEMMA SubmitUserCodeOK ==
    ASSUME DeviceIInv, NEW p \in Procs, NEW d \in Devices, DG!SubmitUserCode(p, d) PROVE DeviceIInv'
<1> DEFINE to == IF attempts[d] < MaxAttempts THEN "pending" ELSE "denied"
           r == [DG!NoRequest EXCEPT !.dev = d, !.to = to]
<1>1. DG!TypeOK /\ "find" \in DG!Labels \ {"mint"} /\ r \in DG!Request /\ r.dev = d
    <2>1. to \in DG!Statuses
        BY DEF DG!Statuses
    <2>2. r \in DG!Request
        BY <2>1, SetLocal
    <2> QED
        BY <2>2 DEF DeviceIInv, DG!Labels, DG!NoRequest
<1>2. DG!GotoWith(p, "find", r) /\ device[d] # DG!Unborn /\ attempts' = [attempts EXCEPT ![d] = @ + 1]
      /\ UNCHANGED <<now, device, lookup, sessions, approval, DG!history>>
    BY DEF DG!SubmitUserCode
<1>3. Born(d)
    BY <1>2 DEF DeviceIInv, DeviceOK
<1> HIDE DEF r
<1>4. DeviceRequestOK(p)'
    BY <1>1, <1>2, <1>3, DeviceMovesOne DEF DeviceRequestOK, Born
<1>5. attempts' \in [Devices -> Nat]
    BY <1>1, <1>2 DEF DG!TypeOK
<1> QED
    BY <1>1, <1>2, <1>4, <1>5, QuietMove DEF DG!TypeOK, DG!history

\* handle_confirmation: the approval record is read; pressing Approve says so.
LEMMA PostDecisionOK ==
    ASSUME DeviceIInv, NEW p \in Procs, NEW k \in Approvals, NEW to \in {"approved", "denied"}, DG!PostDecision(p, k, to)
    PROVE  DeviceIInv'
<1> DEFINE d == approval[k].dev
           u == approval[k].user
           r == [DG!NoRequest EXCEPT !.dev = d, !.user = u, !.appr = k, !.to = to]
<1>1. DG!TypeOK /\ d \in Devices /\ u \in Users /\ Born(d) /\ "burn" \in DG!Labels \ {"mint"}
    BY DEF DeviceIInv, ApprovalOK, DG!PostDecision, DG!Labels
<1>2. r \in DG!Request /\ r.dev = d /\ r.user = u /\ r.appr = k /\ r.to = to
    <2>1. to \in DG!Statuses
        BY DEF DG!Statuses
    <2>2. r \in DG!Request
        BY <1>1, <2>1, SetLocal
    <2> QED
        BY <2>2 DEF DG!NoRequest
<1>3. /\ DG!GotoWith(p, "burn", r) /\ UNCHANGED <<now, DG!kv, last, minted>>
      /\ said' = IF to = "approved" THEN [said EXCEPT ![d] = @ \cup {u}] ELSE said
    BY DEF DG!PostDecision
<1> HIDE DEF r, d, u
<1>4. said' \in [Devices -> SUBSET Users] /\ (\A x \in Devices : said[x] \subseteq said'[x])
      /\ (to = "approved" => u \in said'[d])
    BY <1>1, <1>3 DEF DG!TypeOK
<1>5. DeviceRequestOK(p)'
    BY <1>1, <1>2, <1>3, <1>4, DeviceMovesOne DEF DeviceRequestOK, Born, DG!kv
<1> QED
    BY <1>1, <1>2, <1>3, <1>4, <1>5, QuietMove DEF DG!TypeOK, DG!kv

\* handle_confirmation: the approval record is deleted.
LEMMA BurnApprovalOK == ASSUME DeviceIInv, NEW p \in Procs, DG!BurnApproval(p) PROVE DeviceIInv'
<1> DEFINE a == [st |-> "gone", dev |-> None, user |-> None]
           k == req[p].appr
<1>1. DG!TypeOK /\ DeviceRequestOK(p) /\ pc[p] = "burn" /\ k \in Approvals /\ req[p] \in DG!Request
      /\ "check" \in DG!Labels \ {"mint"}
    BY DEF DeviceIInv, DG!TypeOK, DeviceRequestOK, DG!BurnApproval, DG!At, DG!Labels
<1>2. DG!GotoWith(p, "check", req[p]) /\ approval' = [approval EXCEPT ![k] = a]
      /\ UNCHANGED <<now, device, lookup, attempts, sessions, DG!history>>
    BY DEF DG!BurnApproval, DG!Goto
<1>3. a \in DG!Approval /\ a.st # "there"
    BY DEF DG!Approval
<1>4. approval' \in [Approvals -> DG!Approval]
      /\ \A x \in Approvals : approval'[x] = approval[x] \/ approval'[x].st # "there"
    BY <1>1, <1>2, <1>3 DEF DG!TypeOK
<1>5. DeviceRequestOK(p)'
    <2>1. pc'[p] = "check" /\ req'[p] = req[p]
        BY <1>1, <1>2, DeviceMovesOne
    <2> QED
        BY <1>1, <1>2, <2>1 DEF DeviceRequestOK, Born, DG!history
<1> QED
    BY <1>1, <1>2, <1>4, <1>5, QuietMove DEF DG!TypeOK, DG!history

\* A request that only moves on, with a decision to store.
LEMMA ToUpdate ==
    ASSUME DeviceIInv, NEW p \in Procs, DG!GotoWith(p, "update", req[p]), UNCHANGED <<now, DG!kv, DG!history>>,
           pc[p] = "check" \/ (pc[p] = "find" /\ req[p].to = "denied")
    PROVE  DeviceIInv'
<1>1. DG!TypeOK /\ DeviceRequestOK(p) /\ req[p] \in DG!Request /\ "update" \in DG!Labels \ {"mint"}
    BY DEF DeviceIInv, DG!TypeOK, DG!Labels
<1>2. DeviceRequestOK(p)'
    <2>1. pc'[p] = "update" /\ req'[p] = req[p]
        BY <1>1, DeviceMovesOne
    <2> QED
        BY <1>1, <2>1 DEF DeviceRequestOK, Born, DG!history, DG!kv
<1> QED
    BY <1>1, <1>2, QuietMove DEF DG!TypeOK, DG!history, DG!kv

\* A request that ends without touching a table.
LEMMA JustFinish ==
    ASSUME DeviceIInv, NEW p \in Procs, DG!Finish(p), UNCHANGED <<now, DG!kv, DG!history>>
    PROVE  DeviceIInv'
<1>1. DG!TypeOK /\ \A d \in lookup \cup sessions : Born(d)
    BY DEF DeviceIInv, DeviceOK, DG!TypeOK
<1> QED
    BY <1>1, DeviceQuietFinish DEF DG!TypeOK, DG!kv

\* submit: a locked code is denied, another opens a login.
LEMMA FindByUserCodeOK == ASSUME DeviceIInv, NEW p \in Procs, DG!FindByUserCode(p) PROVE DeviceIInv'
<1> DEFINE d == req[p].dev
<1>1. DG!TypeOK /\ pc[p] = "find" /\ d \in Devices /\ Born(d)
      /\ UNCHANGED <<now, device, lookup, attempts, approval, DG!history>>
    BY DEF DeviceIInv, DeviceRequestOK, DG!FindByUserCode, DG!At
<1>2. CASE req[p].to = "denied" /\ DG!Goto(p, "update") /\ UNCHANGED sessions
    BY <1>1, <1>2, ToUpdate DEF DG!Goto, DG!kv
<1>3. CASE sessions' = sessions \cup {d} /\ DG!Finish(p)
    <2>1. lookup' \subseteq Devices /\ sessions' \subseteq Devices /\ \A x \in lookup' \cup sessions' : Born(x)
        BY <1>1, <1>3 DEF DeviceIInv, DeviceOK, DG!TypeOK
    <2> QED
        BY <1>1, <1>3, <2>1, DeviceQuietFinish
<1>4. CASE DG!Finish(p) /\ UNCHANGED sessions
    BY <1>1, <1>4, JustFinish DEF DG!kv
<1> QED
    BY <1>2, <1>3, <1>4 DEF DG!FindByUserCode

\* handle_confirmation: the device is looked at before the decision is stored.
LEMMA CheckDeviceOK == ASSUME DeviceIInv, NEW p \in Procs, DG!CheckDevice(p) PROVE DeviceIInv'
BY ToUpdate, JustFinish DEF DG!CheckDevice, DG!Goto, DG!At

\* update_device_code_status: the revision is read again.
LEMMA ReadForUpdateOK == ASSUME DeviceIInv, NEW p \in Procs, DG!ReadForUpdate(p) PROVE DeviceIInv'
<1> DEFINE d == req[p].dev
           r == [req[p] EXCEPT !.rev = device[d].rev]
<1>1. DG!TypeOK /\ DeviceRequestOK(p) /\ pc[p] = "update" /\ d \in Devices /\ req[p] \in DG!Request
      /\ UNCHANGED <<now, DG!kv, DG!history>> /\ "swap" \in DG!Labels \ {"mint"}
    BY DEF DeviceIInv, DG!TypeOK, DeviceRequestOK, DG!ReadForUpdate, DG!At, DG!Labels
<1>2. CASE DG!GotoWith(p, "swap", r)
    <2>1. r \in DG!Request /\ r.dev = d /\ r.to = req[p].to /\ r.user = req[p].user
        <3>1. device[d].rev \in Nat
            BY <1>1 DEF DG!TypeOK, DG!Entry
        <3>2. r \in DG!Request
            BY <1>1, <3>1, SetLocal
        <3> QED
            BY <1>1, <3>2 DEF DG!Request
    <2>2. pc'[p] = "swap" /\ req'[p] = r
        BY <1>1, <1>2, <2>1, DeviceMovesOne
    <2> HIDE DEF r
    <2>3. DeviceRequestOK(p)'
        BY <1>1, <2>1, <2>2 DEF DeviceRequestOK, Born, DG!history, DG!kv
    <2> QED
        BY <1>1, <1>2, <2>1, <2>3, QuietMove DEF DG!TypeOK, DG!history, DG!kv
<1>3. CASE DG!Finish(p)
    BY <1>1, <1>3, JustFinish
<1> QED
    BY <1>2, <1>3 DEF DG!ReadForUpdate

\* update_device_code_status: the decision is stored on a record that is still there, so no
\* poll has consumed it, and an approval is stored for a user who pressed Approve.
LEMMA SwapStatusOK == ASSUME DG!DeviceConstants, DeviceIInv, NEW p \in Procs, DG!SwapStatus(p)
                      PROVE  DeviceIInv'
<1> DEFINE r == req[p]
           d == req[p].dev
           u == IF r.to = "approved" THEN r.user ELSE None
           e == [st |-> r.to, user |-> u, rev |-> device[d].rev + 1,
                 expires |-> device[d].expires, ttl |-> DG!RemainingUntil(device[d])]
           l == [st |-> r.to, user |-> u]
<1>1. DG!TypeOK /\ DeviceRequestOK(p) /\ pc[p] = "swap" /\ d \in Devices /\ Born(d) /\ r \in DG!Request
      /\ UNCHANGED <<now, lookup, attempts, sessions, approval, said, minted>> /\ DG!Finish(p)
    BY DEF DeviceIInv, DG!TypeOK, DeviceRequestOK, DG!SwapStatus, DG!At
<1>2. CASE UNCHANGED <<device, last>>
    BY <1>1, <1>2, JustFinish DEF DG!kv, DG!history
<1>3. CASE DG!RevisionMatches(p) /\ device' = [device EXCEPT ![d] = e] /\ last' = [last EXCEPT ![d] = l]
    <2>1. ~Gone(d) /\ device[d] \in DG!Entry
        BY <1>1, <1>3 DEF DG!RevisionMatches, Gone, DG!TypeOK
    <2>2. r.to \in {"approved", "denied"} /\ u \in Users \cup {None} /\ (r.to = "approved" => u \in said[d])
        BY <1>1 DEF DeviceRequestOK, DG!Request
    <2>3. e \in DG!Entry /\ l \in [st: DG!Statuses, user: Users \cup {None}]
        <3>1. DG!RemainingUntil(device[d]) \in DG!Times /\ device[d].rev + 1 \in Nat /\ device[d].expires \in DG!Times
            BY <1>1, <2>1, TimesTyped DEF DG!Entry
        <3> HIDE DEF u, r
        <3> QED
            BY <2>2, <3>1 DEF DG!Entry, DG!Statuses
    <2>4. device'[d] = e /\ last'[d] = l
          /\ \A x \in Devices \ {d} : device'[x] = device[x] /\ last'[x] = last[x]
        BY <1>1, <1>3 DEF DG!TypeOK
    <2>5. e.rev > device[d].rev /\ e.st = r.to /\ e.user = u /\ e.rev > 0 /\ e.st # "absent"
        BY <2>1, <2>2 DEF DG!Entry
    <2>6. DG!NoRequest \in DG!Request /\ "idle" \in DG!Labels /\ DG!GotoWith(p, "idle", DG!NoRequest)
        BY <1>1, SetLocal DEF DG!Finish, DG!Labels
    <2>7. DG!TypeOK'
        <3> HIDE DEF e, l
        <3> QED
            BY <1>1, <1>3, <2>3, <2>6, DeviceMovesOne DEF DG!TypeOK
    <2>8. Forward
        <3> HIDE DEF e, l
        <3> QED
            BY <1>1, <2>1, <2>4, <2>5 DEF Forward, Gone
    <2>9. DeviceRequestOK(p)'
        BY <1>1, <2>6, DeviceMovesOne DEF DeviceRequestOK
    <2>10. ASSUME NEW x \in Devices PROVE DeviceOK(x)'
        <3>1. CASE x = d
            <4>1. minted[d] = 0
                BY <1>1, <2>1 DEF DeviceIInv, DeviceOK
            <4>2. e.st = "approved" => l = [st |-> "approved", user |-> e.user] /\ e.user \in said[d]
                BY <2>2, <2>5
            <4> HIDE DEF e, l
            <4> QED
                BY <1>1, <2>4, <2>5, <3>1, <4>1, <4>2 DEF DeviceOK, Gone, Born
        <3>2. CASE x # d
            BY <1>1, <2>4, <3>2 DEF DeviceIInv, DeviceOK, Gone, Born
        <3> QED
            BY <3>1, <3>2
    <2> QED
        BY <1>1, <2>6, <2>7, <2>8, <2>9, <2>10, DeviceMove
<1> QED
    BY <1>2, <1>3 DEF DG!SwapStatus

\* handle_device_code: the poll reads the decision and its revision.
LEMMA PollOK == ASSUME DeviceIInv, NEW p \in Procs, NEW d \in Devices, DG!Poll(p, d)
                PROVE  DeviceIInv'
<1> DEFINE r == [DG!NoRequest EXCEPT !.dev = d]
           s == [r EXCEPT !.user = device[d].user, !.rev = device[d].rev]
<1>1. DG!TypeOK /\ Born(d) /\ UNCHANGED <<now, DG!kv, DG!history>> /\ {"discard", "consume"} \subseteq DG!Labels \ {"mint"}
    BY DEF DeviceIInv, DeviceOK, DG!Poll, DG!Labels
<1>2. r \in DG!Request /\ r.dev = d /\ s \in DG!Request /\ s.dev = d /\ s.user = device[d].user /\ s.rev = device[d].rev
    <2>1. device[d].user \in Users \cup {None} /\ device[d].rev \in Nat
        BY <1>1 DEF DG!TypeOK, DG!Entry
    <2>2. r \in DG!Request
        BY SetLocal
    <2>3. s \in DG!Request
        BY <2>1, <2>2, SetLocal
    <2> QED
        BY <2>2, <2>3 DEF DG!NoRequest
<1>3. CASE DG!GotoWith(p, "discard", r)
    <2>1. DeviceRequestOK(p)'
        <3>1. pc'[p] = "discard" /\ req'[p] = r
            BY <1>1, <1>2, <1>3, DeviceMovesOne
        <3> QED
            BY <1>1, <1>2, <3>1 DEF DeviceRequestOK, Born, DG!kv
    <2> QED
        BY <1>1, <1>2, <1>3, <2>1, QuietMove DEF DG!TypeOK, DG!history, DG!kv
<1>4. CASE device[d].st = "approved" /\ DG!GotoWith(p, "consume", s)
    <2>1. DeviceRequestOK(p)'
        <3>1. pc'[p] = "consume" /\ req'[p] = s
            BY <1>1, <1>2, <1>4, DeviceMovesOne
        <3>2. device[d].rev <= device[d].rev
            BY <1>1 DEF DG!TypeOK, DG!Entry
        <3> HIDE DEF s
        <3> QED
            BY <1>1, <1>2, <1>4, <3>1, <3>2 DEF DeviceRequestOK, Born, DG!kv
    <2> QED
        BY <1>1, <1>2, <1>4, <2>1, QuietMove DEF DG!TypeOK, DG!history, DG!kv
<1> QED
    BY <1>3, <1>4 DEF DG!Poll

\* handle_device_code: a denied or expired code is deleted.
LEMMA DiscardDeviceOK == ASSUME DeviceIInv, NEW p \in Procs, DG!DiscardDevice(p) PROVE DeviceIInv'
<1>1. DG!TypeOK /\ req[p].dev \in Devices /\ Born(req[p].dev) /\ DG!NoRequest \in DG!Request /\ "idle" \in DG!Labels
      /\ UNCHANGED <<now, lookup, attempts, sessions, approval, DG!history>> /\ DG!GotoWith(p, "idle", DG!NoRequest)
    BY SetLocal DEF DeviceIInv, DeviceRequestOK, DG!DiscardDevice, DG!At, DG!Finish, DG!Labels
<1>2. Forward /\ device' \in [Devices -> DG!Entry] /\ \A e \in Devices : DeviceOK(e)'
    BY <1>1, DeviceRemoved DEF DG!DiscardDevice
<1>3. DG!TypeOK'
    BY <1>1, <1>2, DeviceMovesOne DEF DG!TypeOK, DG!history
<1>4. DeviceRequestOK(p)'
    BY <1>1, DeviceMovesOne DEF DeviceRequestOK
<1> QED
    BY <1>1, <1>2, <1>3, <1>4, DeviceMove DEF DG!history

\* consume_device_code_cas: the delete succeeds only on the record that the poll read, so the
\* decision it read is the last one.
LEMMA ConsumeDeviceOK == ASSUME DeviceIInv, NEW p \in Procs, DG!ConsumeDevice(p) PROVE DeviceIInv'
<1> DEFINE d == req[p].dev
<1>1. DG!TypeOK /\ DeviceRequestOK(p) /\ pc[p] = "consume" /\ d \in Devices /\ Born(d) /\ req[p] \in DG!Request
      /\ UNCHANGED <<now, lookup, attempts, sessions, approval, DG!history>> /\ "mint" \in DG!Labels
    BY DEF DeviceIInv, DG!TypeOK, DeviceRequestOK, DG!ConsumeDevice, DG!At, DG!Labels
<1>2. CASE DG!Finish(p) /\ UNCHANGED device
    BY <1>1, <1>2, JustFinish DEF DG!kv
<1>3. CASE DG!RevisionMatches(p) /\ device' = [device EXCEPT ![d] = DG!Delete(@)] /\ DG!GotoWith(p, "mint", req[p])
    <2>1. Forward /\ device' \in [Devices -> DG!Entry] /\ \A e \in Devices : DeviceOK(e)'
        BY <1>1, <1>3, DeviceRemoved
    <2>2. ~Gone(d) /\ device[d].st = "approved" /\ device[d].user = req[p].user
        BY <1>1, <1>3 DEF DeviceRequestOK, DG!RevisionMatches, Gone
    <2>3. minted[d] = 0 /\ last[d] = [st |-> "approved", user |-> req[p].user] /\ req[p].user \in said[d]
        BY <1>1, <2>2 DEF DeviceIInv, DeviceOK
    <2>4. device'[d].st = "absent" /\ device'[d].rev = device[d].rev
        BY <1>1, <1>3, DeviceDeleteTyped DEF DG!TypeOK
    <2>5. DeviceRequestOK(p)'
        <3>1. pc'[p] = "mint" /\ req'[p] = req[p]
            BY <1>1, <1>3, DeviceMovesOne
        <3> QED
            BY <1>1, <2>3, <2>4, <3>1 DEF DeviceRequestOK, Gone, Born, DG!history
    <2>6. DG!TypeOK'
        BY <1>1, <1>3, <2>1, DeviceMovesOne DEF DG!TypeOK, DG!history
    <2> QED
        BY <1>1, <1>3, <2>1, <2>2, <2>5, <2>6, DeviceMove DEF DG!history
<1> QED
    BY <1>2, <1>3 DEF DG!ConsumeDevice, DG!Goto

\* handle_device_code: the poll that consumed the record minted, and nobody else can.
LEMMA DeviceMintTokensOK == ASSUME DeviceIInv, NEW p \in Procs, DG!MintTokens(p) PROVE DeviceIInv'
<1> DEFINE d == req[p].dev
<1>1. DG!TypeOK /\ DeviceRequestOK(p) /\ pc[p] = "mint" /\ d \in Devices /\ Born(d) /\ Gone(d) /\ minted[d] = 0
      /\ DG!NoRequest \in DG!Request /\ "idle" \in DG!Labels
    BY SetLocal DEF DeviceIInv, DeviceRequestOK, DG!MintTokens, DG!At, DG!Labels
<1>2. minted' = [minted EXCEPT ![d] = @ + 1] /\ DG!GotoWith(p, "idle", DG!NoRequest) /\ UNCHANGED <<now, DG!kv, said, last>>
    BY DEF DG!MintTokens, DG!Finish
<1>3. minted'[d] = 1 /\ \A x \in Devices \ {d} : minted'[x] = minted[x]
    BY <1>1, <1>2 DEF DG!TypeOK
<1>4. DG!TypeOK' /\ Forward
    <2>1. DG!TypeOK'
        BY <1>1, <1>2, DeviceMovesOne DEF DG!TypeOK, DG!kv
    <2>2. Forward
        BY <1>2 DEF Forward, DG!kv, Gone
    <2> QED
        BY <2>1, <2>2
<1>5. /\ pc'[p] = "idle"
      /\ \A q \in Procs \ {p} : pc'[q] = pc[q] /\ req'[q] = req[q]
    BY <1>1, <1>2, DeviceMovesOne
<1>6. ASSUME NEW q \in Procs PROVE DeviceRequestOK(q)'
    <2>1. CASE q = p
        BY <1>5, <2>1 DEF DeviceRequestOK
    <2>2. CASE q # p
        <3>1. pc[q] = "mint" => req[q].dev \in Devices \ {d}
            BY <1>1, <2>2 DEF DeviceIInv, OneMinter, DG!At, DeviceRequestOK
        <3> QED
            BY <1>3, <1>4, <1>5, <2>2, <3>1, DeviceOthersKeep
    <2> QED
        BY <2>1, <2>2
<1>7. ASSUME NEW x \in Devices PROVE DeviceOK(x)'
    <2>1. CASE x = d
        BY <1>1, <1>2, <1>3, <2>1 DEF DeviceIInv, DeviceOK, Gone, Born, DG!kv
    <2>2. CASE x # d
        BY <1>2, <1>3, <2>2 DEF DeviceIInv, DeviceOK, Gone, Born, DG!kv
    <2> QED
        BY <2>1, <2>2
<1>8. \A k \in Approvals : ApprovalOK(k)'
    BY <1>2 DEF DeviceIInv, ApprovalOK, Born, DG!kv
<1>9. OneMinter'
    BY <1>5 DEF DeviceIInv, OneMinter, DG!At
<1> QED
    BY <1>4, <1>6, <1>7, <1>8, <1>9 DEF DeviceIInv

\* Steps of the environment move no request.
LEMMA EnvironmentOK ==
    ASSUME DeviceIInv, DG!TypeOK', Forward, UNCHANGED <<pc, req, minted>>, \A d \in Devices : DeviceOK(d)',
           \A k \in Approvals : ApprovalOK(k)'
    PROVE  DeviceIInv'
<1>1. \A q \in Procs : DeviceRequestOK(q)'
    BY DeviceOthersKeep
<1>2. OneMinter'
    BY DEF DeviceIInv, OneMinter, DG!At
<1> QED
    BY <1>1, <1>2 DEF DeviceIInv

\* The store drops an expired record.
LEMMA DeviceExpireKeyOK == ASSUME DeviceIInv, NEW d \in Devices, DG!ExpireKey(d) PROVE DeviceIInv'
<1>1. DG!TypeOK /\ UNCHANGED <<now, lookup, attempts, sessions, approval, pc, req, DG!history>>
      /\ device' = [device EXCEPT ![d] = DG!Delete(@)] /\ device[d].st # "absent"
    BY DEF DeviceIInv, DG!ExpireKey
<1>2. Born(d)
    <2>1. device[d] # DG!Unborn
        BY <1>1 DEF DG!Unborn
    <2> QED
        BY <2>1 DEF DeviceIInv, DeviceOK
<1>3. Forward /\ device' \in [Devices -> DG!Entry] /\ \A e \in Devices : DeviceOK(e)'
    BY <1>1, <1>2, DeviceRemoved
<1>4. DG!TypeOK'
    BY <1>1, <1>3 DEF DG!TypeOK, DG!history
<1>5. \A k \in Approvals : ApprovalOK(k)'
    BY <1>1, <1>3, <1>4, ApprovalsKeep
<1> QED
    BY <1>1, <1>3, <1>4, <1>5, EnvironmentOK DEF DG!history

\* create_approval: an open login ends; the device record is not touched.
LEMMA CompleteLoginOK ==
    ASSUME DeviceIInv, NEW k \in Approvals, NEW d \in Devices, NEW u \in Users, DG!CompleteLogin(k, d, u)
    PROVE  DeviceIInv'
<1> DEFINE a == [st |-> "there", dev |-> d, user |-> u]
<1>1. DG!TypeOK /\ Born(d) /\ approval' = [approval EXCEPT ![k] = a]
      /\ UNCHANGED <<now, device, lookup, attempts, sessions, pc, req, DG!history>>
    BY DEF DeviceIInv, DeviceOK, DG!CompleteLogin
<1>2. a \in DG!Approval /\ a.dev = d /\ a.user = u
    BY DEF DG!Approval
<1> HIDE DEF a
<1>3. DG!TypeOK' /\ approval'[k] = a /\ \A x \in Approvals \ {k} : approval'[x] = approval[x]
    BY <1>1, <1>2 DEF DG!TypeOK, DG!history
<1>4. Forward /\ \A e \in Devices : DeviceOK(e)'
    <2>1. \A x \in lookup' \cup sessions' : Born(x)
        BY <1>1 DEF DeviceIInv, DeviceOK, DG!TypeOK
    <2> QED
        BY <1>1, <2>1, DeviceNoWrite DEF DG!history
<1>5. ASSUME NEW x \in Approvals PROVE ApprovalOK(x)'
    <2>1. CASE x = k
        BY <1>1, <1>2, <1>3, <2>1 DEF ApprovalOK, Born
    <2>2. CASE x # k
        BY <1>3, <1>4, <2>2, ApprovalsKeep
    <2> QED
        BY <2>1, <2>2
<1> QED
    BY <1>1, <1>3, <1>4, <1>5, EnvironmentOK DEF DG!history

\* The clock, and nothing at all.
LEMMA DeviceTickOK == ASSUME DG!DeviceConstants, DeviceIInv, DG!Tick \/ UNCHANGED DG!vars
                      PROVE  DeviceIInv'
<1>1. UNCHANGED <<DG!kv, pc, req, DG!history>>
    BY DEF DG!Tick, DG!vars
<1>2. now' \in 1..MaxTime
    BY DEF DG!DeviceConstants, DG!Tick, DG!vars, DeviceIInv, DG!TypeOK
<1>3. DG!TypeOK'
    BY <1>1, <1>2 DEF DeviceIInv, DG!TypeOK, DG!history, DG!kv
<1>4. Forward /\ \A e \in Devices : DeviceOK(e)'
    <2>1. \A x \in lookup' \cup sessions' : Born(x)
        BY <1>1 DEF DeviceIInv, DeviceOK, DG!TypeOK, DG!kv
    <2> QED
        BY <1>1, <2>1, DeviceNoWrite DEF DG!history, DG!kv
<1>5. \A k \in Approvals : ApprovalOK(k)'
    BY <1>1, <1>3, <1>4, ApprovalsKeep DEF DG!kv
<1> QED
    BY <1>1, <1>3, <1>4, <1>5, EnvironmentOK DEF DG!history

\* No device code written, no request in flight.
LEMMA DeviceInitOK ==
    ASSUME DG!DeviceConstants PROVE DG!Init => DeviceIInv
<1> SUFFICES ASSUME DG!Init PROVE DeviceIInv
    OBVIOUS
<1>1. DG!TypeOK
    <2>1. 0 \in DG!Times /\ 1 \in 1..MaxTime
        BY DEF DG!DeviceConstants, DG!Times
    <2>2. DG!Unborn \in DG!Entry /\ [st |-> "unused", dev |-> None, user |-> None] \in DG!Approval
          /\ [st |-> "absent", user |-> None] \in [st: DG!Statuses, user: Users \cup {None}]
        BY <2>1 DEF DG!Unborn, DG!Entry, DG!Statuses, DG!Approval
    <2>3. DG!NoRequest \in DG!Request /\ "idle" \in DG!Labels
        BY SetLocal DEF DG!Labels
    <2> QED
        BY <2>1, <2>2, <2>3 DEF DG!Init, DG!TypeOK
<1>2. \A p \in Procs : DeviceRequestOK(p)
    BY DEF DG!Init, DeviceRequestOK
<1>3. \A d \in Devices : DeviceOK(d)
    BY DEF DG!Init, DeviceOK, Born, Gone, DG!Unborn
<1>4. (\A k \in Approvals : ApprovalOK(k)) /\ OneMinter
    BY DEF DG!Init, ApprovalOK, OneMinter, DG!At
<1> QED
    BY <1>1, <1>2, <1>3, <1>4 DEF DeviceIInv

\* Every step keeps the invariant.
LEMMA DeviceNextOK ==
    ASSUME DG!DeviceConstants PROVE DeviceIInv /\ [DG!Next]_(DG!vars) => DeviceIInv'
<1> SUFFICES ASSUME DeviceIInv, [DG!Next]_(DG!vars) PROVE DeviceIInv'
    OBVIOUS
<1>1. ASSUME NEW p \in Procs, DG!Handler(p) PROVE DeviceIInv'
    <2>1. CASE \E d \in Devices : DG!StartDevice(p, d) \/ DG!SubmitUserCode(p, d) \/ DG!Poll(p, d)
        BY <2>1, StartDeviceOK, SubmitUserCodeOK, PollOK
    <2>2. CASE \E k \in Approvals, to \in {"approved", "denied"} : DG!PostDecision(p, k, to)
        BY <2>2, PostDecisionOK
    <2>3. CASE DG!PublishCode(p) \/ DG!FindByUserCode(p) \/ DG!BurnApproval(p) \/ DG!CheckDevice(p)
        BY <2>3, PublishCodeOK, FindByUserCodeOK, BurnApprovalOK, CheckDeviceOK
    <2>4. CASE DG!ReadForUpdate(p) \/ DG!SwapStatus(p) \/ DG!DiscardDevice(p) \/ DG!ConsumeDevice(p)
        BY <2>4, ReadForUpdateOK, SwapStatusOK, DiscardDeviceOK, ConsumeDeviceOK
    <2>5. CASE DG!MintTokens(p) \/ DG!Crash(p)
        BY <2>5, DeviceMintTokensOK, JustFinish DEF DG!Crash
    <2> QED
        BY <1>1, <2>1, <2>2, <2>3, <2>4, <2>5 DEF DG!Handler
<1>2. CASE \E k \in Approvals, d \in Devices, u \in Users : DG!CompleteLogin(k, d, u)
    BY <1>2, CompleteLoginOK
<1>3. CASE \E d \in Devices : DG!ExpireKey(d)
    BY <1>3, DeviceExpireKeyOK
<1>4. CASE DG!Tick \/ UNCHANGED DG!vars
    BY <1>4, DeviceTickOK
<1> QED
    BY <1>1, <1>2, <1>3, <1>4 DEF DG!Next

(***************************************************************************)
(* The theorems.                                                           *)
(***************************************************************************)
\* The store and the requests of device.rs and handle_device_code stay within DeviceIInv.
THEOREM DeviceInvariance ==
    ASSUME DG!DeviceConstants PROVE DG!Spec => []DeviceIInv
<1>1. DG!Init => DeviceIInv
    BY DeviceInitOK
<1>2. DeviceIInv /\ [DG!Next]_(DG!vars) => DeviceIInv'
    BY DeviceNextOK
<1> QED
    BY <1>1, <1>2, PTL DEF DG!Spec

\* The state of the device grant is always well typed.
THEOREM DeviceTypeCorrect ==
    ASSUME DG!DeviceConstants PROVE DG!Spec => []DG!TypeOK
<1>1. DeviceIInv => DG!TypeOK
    BY DEF DeviceIInv
<1> QED
    BY <1>1, DeviceInvariance, PTL

\* consume_device_code_cas: any number of concurrent polls gets tokens for a device code once.
THEOREM PollsMintOnce ==
    ASSUME DG!DeviceConstants PROVE DG!Spec => []MintedOnce
<1>1. DeviceIInv => MintedOnce
    <2> SUFFICES ASSUME DeviceIInv, NEW d \in Devices PROVE minted[d] <= 1
        BY DEF MintedOnce
    <2>1. minted[d] = 0 \/ minted[d] = 1
        BY DEF DeviceIInv, DeviceOK
    <2> QED
        BY <2>1
<1> QED
    BY <1>1, DeviceInvariance, PTL

\* Tokens are minted for the user of the last decision stored for the device: decisions of other
\* browsers cannot slip between a poll's read and its conditional delete, nor after it.
THEOREM LastDecisionWins ==
    ASSUME DG!DeviceConstants PROVE DG!Spec => []MintsLastDecision
<1>1. DeviceIInv => MintsLastDecision
    BY DEF DeviceIInv, DeviceRequestOK, MintsLastDecision, At
<1> QED
    BY <1>1, DeviceInvariance, PTL

\* Tokens are minted only for a user who pressed Approve for this device: logging in on the
\* browser leg (create_approval) is never enough.
THEOREM OnlyForApprover ==
    ASSUME DG!DeviceConstants PROVE DG!Spec => []MintsForApprover
<1>1. DeviceIInv => MintsForApprover
    BY DEF DeviceIInv, DeviceRequestOK, MintsForApprover, At
<1> QED
    BY <1>1, DeviceInvariance, PTL
============================================================================
