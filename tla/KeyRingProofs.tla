--------------------------- MODULE KeyRingProofs ---------------------------
(***************************************************************************)
(* The ring of KeyRing names exactly the stored keys, and publishes the    *)
(* signer of every token that is still accepted, for every number of       *)
(* requests, algorithms and rotations.                                     *)
(*                                                                         *)
(* The invariant: a token, and a request that has read the ring in order   *)
(* to sign, is Covered by the ring: its generation is current, or retired  *)
(* so late that the grace period outlasts the token.  A request about to   *)
(* delete a record holds a name that no active entry of the ring has.      *)
(***************************************************************************)
EXTENDS KeyRing, TLAPS

\* A token of generation v issued at i, if it is still accepted, is of the current generation or
\* of one that was retired at most Delay before i.
Covered(a, v, i) ==
    now <= i + TokenTTL =>
        \/ v = meta.ver
        \/ \E r \in meta.retired : r.alg = a /\ r.ver = v /\ i <= r.at + Delay

RingShape ==
    /\ meta # NoRing => meta.rev >= 1 /\ meta.ver >= 1
    /\ meta.retired # {} => meta # NoRing
    /\ \A r \in meta.retired : r.ver < meta.ver
    /\ \A r, s \in meta.retired : r.alg = s.alg /\ r.ver = s.ver => r = s

NameDropped(n) ==
    /\ n[2] < meta.ver
    /\ \A r \in meta.retired : r.alg = n[1] /\ r.ver = n[2] => ~RetiredActive(r, now)

Made(p, v) == \A a \in Algs : <<a, v>> \notin req[p].names
                              => req[p].new[a] # NoKid /\ req[p].new[a] = keys[a, v]

RequestOK(p) ==
    /\ req[p].at <= now
    /\ pc[p] \in {"read", "boot", "generate"} => now <= req[p].at + Delay
    /\ pc[p] = "boot" => req[p].names \subseteq Generation(1) /\ (meta = NoRing => Made(p, 1))
    /\ pc[p] = "generate" =>
        /\ meta # NoRing
        /\ req[p].seen.ver \in 1..MaxVersion /\ req[p].seen.ver < MaxVersion
        /\ req[p].names \subseteq Generation(req[p].seen.ver + 1)
        /\ req[p].seen.rev <= meta.rev
        /\ req[p].seen.rev = meta.rev => req[p].seen = meta /\ Made(p, meta.ver + 1)
    /\ pc[p] = "purge" => meta # NoRing /\ \A n \in req[p].names : NameDropped(n)
    /\ pc[p] = "reread" => meta # NoRing /\ req[p].op \in Algs /\ req[p].kid # NoKid
    /\ pc[p] = "load" =>
        /\ meta # NoRing /\ req[p].op \in Algs /\ req[p].kid # NoKid
        /\ req[p].seen.ver >= 1
        /\ Covered(req[p].op, req[p].seen.ver, req[p].at)

TokenOK(t) ==
    /\ meta # NoRing
    /\ t.iat <= now
    /\ Covered(t.alg, t.ver, t.iat)
    /\ now <= t.iat + TokenTTL => t.sig = keys[t.alg, t.ver]

IInv ==
    /\ TypeOK
    /\ RingMatchesMaterial
    /\ RingShape
    /\ \A p \in Procs : RequestOK(p)
    /\ \A t \in tokens : TokenOK(t)

(***************************************************************************)
(* Values: the records that requests carry have their types.               *)
(***************************************************************************)
\* A request starts with no local values (Request::default of every handler).
LEMMA NoRequestType == NoRequest \in Request /\ NoRing \in Ring
BY GraceAssumption DEF NoRequest, NoRing, Request, Ring, Kids, NoKid, Names, Versions

\* The records of a generation, and those of the expired entries of a ring, are names of records.
LEMMA NamesType ==
    /\ \A v \in Versions : Generation(v) \subseteq Names
    /\ \A ring \in Ring, t \in Nat : Expired(ring, t) \subseteq Names
BY DEF Generation, Names, Expired, Ring, Retired, Versions

(***************************************************************************)
(* Steps that change one request and nothing it shares with others.        *)
(***************************************************************************)
\* A step of request p that leaves clock, ring and records alone disturbs no other request.
LEMMA OthersKept ==
    ASSUME NEW p \in Procs, NEW l, NEW r, IInv, GotoWith(p, l, r), UNCHANGED <<now, keys, meta>>
    PROVE  \A q \in Procs : q # p => RequestOK(q)'
<1> SUFFICES ASSUME NEW q \in Procs, q # p PROVE RequestOK(q)'
    OBVIOUS
<1>1. pc'[q] = pc[q] /\ req'[q] = req[q]
    BY DEF GotoWith, IInv, TypeOK
<1>2. RequestOK(q)
    BY DEF IInv
<1> QED
    BY <1>1, <1>2 DEF RequestOK, Made, NameDropped, Covered, RetiredActive

\* A step that only moves request p keeps the invariant if p's new locals are sound.
LEMMA LocalStep ==
    ASSUME NEW p \in Procs, NEW l \in Labels, NEW r \in Request, IInv, GotoWith(p, l, r),
           UNCHANGED <<now, keys, meta, kids, tokens>>,
           pc'[p] = l /\ req'[p] = r => RequestOK(p)'
    PROVE  IInv'
<1>1. pc'[p] = l /\ req'[p] = r
    BY DEF GotoWith, IInv, TypeOK
<1>2. TypeOK'
    BY DEF GotoWith, IInv, TypeOK
<1>3. RingMatchesMaterial' /\ RingShape'
    BY DEF IInv, RingMatchesMaterial, RingShape, RetiredActive
<1>4. \A q \in Procs : RequestOK(q)'
    BY <1>1, OthersKept
<1>5. \A t \in tokens' : TokenOK(t)'
    BY DEF IInv, TokenOK, Covered
<1> QED
    BY <1>2, <1>3, <1>4, <1>5 DEF IInv

\* A request that ends is idle and asks nothing of the invariant.
LEMMA FinishStep ==
    ASSUME NEW p \in Procs, IInv, Finish(p), UNCHANGED <<now, keys, meta, kids, tokens>>
    PROVE  IInv'
<1>1. pc'[p] = "idle" /\ req'[p] = NoRequest => RequestOK(p)'
    BY DEF RequestOK, NoRequest, IInv, TypeOK
<1> QED
    BY <1>1, LocalStep, NoRequestType DEF Finish, Labels

\* rotate_keys, get_public_keys and sign: beginning a request.
LEMMA BeginStep == ASSUME NEW p \in Procs, NEW op \in {"rotate", "publish"} \cup Algs, IInv, Begin(p, op)
                   PROVE  IInv'
<1> DEFINE r == [NoRequest EXCEPT !.op = op, !.at = now, !.tries = 1]
<1>1. r \in Request
  <2>1. 1 \in 0..MaxAttempts /\ now \in Nat /\ op \in {"none", "rotate", "publish"} \cup Algs
      BY GraceAssumption DEF IInv, TypeOK
  <2> QED
      BY <2>1, NoRequestType DEF Request
<1>2. pc'[p] = "read" /\ req'[p] = r => RequestOK(p)'
    BY GraceAssumption DEF RequestOK, Begin, NoRequest, IInv, TypeOK
<1> QED
    BY <1>1, <1>2, LocalStep DEF Begin, Labels

(***************************************************************************)
(* Using the ring that was read.                                           *)
(***************************************************************************)
\* load_meta_with_revision: what a request does with a ring that is there.
LEMMA ReadRingStep == ASSUME NEW p \in Procs, IInv, ReadRing(p) PROVE IInv'
<1> USE DEF IInv
<1>0. req[p] \in Request /\ RequestOK(p) /\ meta \in Ring /\ now \in Nat
    BY DEF TypeOK
<1>1. CASE meta = NoRing /\ GotoWith(p, "boot", [req[p] EXCEPT !.names = Generation(1)])
  <2> DEFINE r == [req[p] EXCEPT !.names = Generation(1)]
  <2>1. r \in Request
      BY <1>0, NamesType, GraceAssumption DEF Request, Versions
  <2>2. r.names = Generation(1) /\ r.at = req[p].at
      BY <1>0 DEF Request
  <2>3. ASSUME pc'[p] = "boot" /\ req'[p] = r PROVE RequestOK(p)'
      BY <2>2, <2>3, <1>0 DEF RequestOK, ReadRing, At, Made, Generation
  <2> QED
      BY <1>1, <2>1, <2>3, LocalStep DEF ReadRing, Labels
<1>2. CASE meta # NoRing /\ UseRing(p, meta)
  <2> DEFINE r0 == [req[p] EXCEPT !.seen = meta]
  <2>0. /\ r0 \in Request /\ r0.at = req[p].at /\ r0.seen = meta /\ r0.op = req[p].op
        /\ now <= req[p].at + Delay /\ req[p].at <= now
      BY <1>0 DEF Request, RequestOK, ReadRing, At
  <2>1. CASE r0.op = "rotate" /\ meta.ver < MaxVersion
             /\ GotoWith(p, "generate", [r0 EXCEPT !.names = Generation(meta.ver + 1)])
    <3> DEFINE r == [r0 EXCEPT !.names = Generation(meta.ver + 1)]
    <3>1. meta.ver + 1 \in Versions
        BY <1>0, <2>1, GraceAssumption DEF Ring, Versions
    <3>2. r \in Request /\ r.names = Generation(meta.ver + 1) /\ r.at = req[p].at /\ r.seen = meta
        BY <2>0, <3>1, NamesType DEF Request
    <3>3. ASSUME pc'[p] = "generate" /\ req'[p] = r PROVE RequestOK(p)'
      <4>1. meta' = meta /\ now' = now /\ keys' = keys
          BY DEF ReadRing
      <4>2. Made(p, meta.ver + 1)'
          BY <3>2, <3>3, <4>1 DEF Made, Generation
      <4>3. meta.ver \in 1..MaxVersion /\ meta.rev \in Nat
          BY <1>0, <1>2 DEF RingShape, Ring
      <4> QED
          BY <3>2, <3>3, <4>1, <4>2, <4>3, <2>0, <2>1, <1>2 DEF RequestOK
    <3> QED
        BY <2>1, <3>2, <3>3, LocalStep DEF ReadRing, Labels
  <2>2. CASE r0.op = "publish"
             /\ GotoWith(p, "purge", [r0 EXCEPT !.names = Expired(meta, now)])
    <3> DEFINE r == [r0 EXCEPT !.names = Expired(meta, now)]
    <3>1. r \in Request /\ r.names = Expired(meta, now) /\ r.at = req[p].at
        BY <1>0, <2>0, NamesType DEF Request
    <3>2. \A n \in Expired(meta, now) : NameDropped(n)
        BY DEF Expired, NameDropped, RingShape
    <3>3. ASSUME pc'[p] = "purge" /\ req'[p] = r PROVE RequestOK(p)'
        BY <3>1, <3>2, <3>3, <2>0, <1>2 DEF RequestOK, ReadRing, NameDropped, RetiredActive
    <3> QED
        BY <2>2, <3>1, <3>3, LocalStep DEF ReadRing, Labels
  <2>3. CASE r0.op \in Algs /\ GotoWith(p, "reread", [r0 EXCEPT !.kid = meta.kid[r0.op]])
    <3> DEFINE r == [r0 EXCEPT !.kid = meta.kid[r0.op]]
    <3>1. meta.kid[r0.op] \in Kids \cup {NoKid} /\ meta.kid[r0.op] # NoKid
        BY <1>0, <1>2, <2>3 DEF Ring, RingMatchesMaterial
    <3>2. r \in Request /\ r.kid # NoKid /\ r.at = req[p].at /\ r.op \in Algs
        BY <2>0, <2>3, <3>1 DEF Request
    <3>3. ASSUME pc'[p] = "reread" /\ req'[p] = r PROVE RequestOK(p)'
        BY <3>2, <3>3, <2>0, <1>2 DEF RequestOK, ReadRing
    <3> QED
        BY <2>3, <3>2, <3>3, LocalStep DEF ReadRing, Labels
  <2> QED
      BY <1>2, <2>1, <2>2, <2>3 DEF UseRing
<1> QED
    BY <1>1, <1>2 DEF ReadRing

(***************************************************************************)
(* Creating and deleting records.                                          *)
(***************************************************************************)
\* create_or_load: a record is written only where there was none.
LEMMA CreateKeyStep == ASSUME NEW p \in Procs, NEW n \in Names, IInv, CreateKey(p, n) PROVE IInv'
<1> USE DEF IInv
<1> DEFINE r == [req[p] EXCEPT !.names = @ \ {n}, !.new[n[1]] = keys'[n]]
<1>0. /\ req[p] \in Request /\ keys \in [Names -> Kids \cup {NoKid}] /\ kids \in 0..MaxKids
      /\ n[1] \in Algs /\ n[2] \in Versions /\ n = <<n[1], n[2]>>
      /\ n \in req[p].names /\ now' = now /\ meta' = meta /\ pc' = pc /\ tokens' = tokens
      /\ pc[p] \in {"boot", "generate"}
    BY DEF TypeOK, Names, CreateKey, CreateOrLoad
<1>1. /\ kids' \in 0..MaxKids
      /\ keys' \in [Names -> Kids \cup {NoKid}]
      /\ keys'[n] \in Kids /\ keys'[n] # NoKid
      /\ \A m \in Names : keys[m] # NoKid \/ m # n => keys'[m] = keys[m]
  <2>1. CASE keys[n] = NoKid /\ kids < MaxKids /\ kids' = kids + 1 /\ keys' = [keys EXCEPT ![n] = kids']
    <3>1. kids' \in 1..MaxKids
        BY <2>1, <1>0, GraceAssumption
    <3> QED
        BY <2>1, <3>1, <1>0 DEF Kids, NoKid
  <2>2. CASE keys[n] # NoKid /\ UNCHANGED <<kids, keys>>
      BY <2>2, <1>0 DEF NoKid
  <2> QED
      BY <2>1, <2>2 DEF CreateKey, CreateOrLoad
<1>2. /\ req' = [req EXCEPT ![p] = r]
      /\ r \in Request
      /\ r.names = req[p].names \ {n} /\ r.at = req[p].at /\ r.seen = req[p].seen
      /\ r.new = [req[p].new EXCEPT ![n[1]] = keys'[n]]
  <2>1. req' = [req EXCEPT ![p] = r]
      BY DEF CreateKey, CreateOrLoad, TypeOK
  <2> QED
      BY <2>1, <1>0, <1>1 DEF Request
<1>3. TypeOK'
    BY <1>0, <1>1, <1>2 DEF TypeOK
<1>4. RingMatchesMaterial' /\ RingShape'
  <2>1. RingShape'
      BY <1>0 DEF RingShape
  <2>2. \A a \in Algs : meta # NoRing => <<a, meta.ver>> \in Names
      BY <1>0 DEF RingShape, TypeOK, Ring, Names, Versions
  <2>3. \A x \in meta.retired : <<x.alg, x.ver>> \in Names /\ x.kid # NoKid
      BY DEF TypeOK, Ring, Retired, Names, Kids, NoKid
  <2> QED
      BY <1>0, <1>1, <2>1, <2>2, <2>3 DEF RingMatchesMaterial, RetiredActive
<1>5. ASSUME NEW q \in Procs, NEW v \in Versions, Made(q, v), q # p PROVE Made(q, v)'
  <2>1. req'[q] = req[q]
      BY <1>2, <1>5 DEF TypeOK
  <2> QED
      BY <2>1, <1>1, <1>5 DEF Made, Names
<1>6. ASSUME NEW v \in Versions, Made(p, v), n[2] = v PROVE Made(p, v)'
  <2>1. req'[p] = r
      BY <1>2 DEF TypeOK
  <2> SUFFICES ASSUME NEW a \in Algs, <<a, v>> \notin r.names
               PROVE  r.new[a] # NoKid /\ r.new[a] = keys'[a, v]
      BY <2>1 DEF Made
  <2>2. CASE a = n[1]
      BY <2>2, <1>0, <1>1, <1>2, <1>6 DEF Request
  <2>3. CASE a # n[1]
    <3>1. <<a, v>> \notin req[p].names
        BY <2>3, <1>0, <1>2
    <3>2. req[p].new[a] # NoKid /\ req[p].new[a] = keys[a, v] /\ <<a, v>> \in Names
        BY <3>1, <1>6 DEF Made, Names
    <3>3. r.new[a] = req[p].new[a]
        BY <2>3, <1>0, <1>2 DEF Request
    <3> QED
        BY <3>2, <3>3, <1>1
  <2> QED
      BY <2>2, <2>3
<1>7. \A q \in Procs : RequestOK(q)'
  <2> TAKE q \in Procs
  <2>1. RequestOK(q)
      OBVIOUS
  <2>2. CASE q # p
    <3>1. req'[q] = req[q] /\ pc'[q] = pc[q]
        BY <2>2, <1>0, <1>2 DEF TypeOK
    <3>2. 1 \in Versions
        BY GraceAssumption DEF Versions
    <3>3. pc[q] = "generate" /\ req[q].seen.rev = meta.rev => meta.ver + 1 \in Versions
        BY <2>1, GraceAssumption DEF RequestOK, Versions, TypeOK, Ring
    <3> QED
        BY <2>1, <2>2, <3>1, <3>2, <3>3, <1>0, <1>5
           DEF RequestOK, NameDropped, RetiredActive, Covered
  <2>3. CASE q = p
    <3>1. req'[p] = r /\ pc'[p] = pc[p]
        BY <1>0, <1>2 DEF TypeOK
    <3>2. CASE pc[p] = "boot"
      <4>1. n[2] = 1 /\ 1 \in Versions
          BY <2>1, <2>3, <3>2, <1>0 DEF RequestOK, Generation
      <4> QED
          BY <2>1, <2>3, <3>1, <3>2, <4>1, <1>0, <1>2, <1>6 DEF RequestOK
    <3>3. CASE pc[p] = "generate"
      <4>1. req[p].seen.rev = meta.rev => n[2] = meta.ver + 1
          BY <2>1, <2>3, <3>3, <1>0 DEF RequestOK, Generation
      <4> QED
          BY <2>1, <2>3, <3>1, <3>3, <4>1, <1>0, <1>2, <1>6 DEF RequestOK
    <3> QED
        BY <3>2, <3>3, <1>0
  <2> QED
      BY <2>2, <2>3
<1>8. \A t \in tokens' : TokenOK(t)'
  <2>1. \A t \in tokens : <<t.alg, t.ver>> \in Names /\ t.sig # NoKid
      BY DEF TypeOK, Token, Names, Kids, NoKid
  <2> QED
      BY <2>1, <1>0, <1>1 DEF TokenOK, Covered
<1> QED
    BY <1>3, <1>4, <1>7, <1>8

\* An entry that covers a token still accepted is active: the grace period outlasts the token.
LEMMA CoveredActive ==
    ASSUME NEW x, NEW i \in Nat, NEW t \in Nat, x.at \in Nat,
           i <= x.at + Delay, t <= i + TokenTTL
    PROVE  RetiredActive(x, t)
BY GraceAssumption DEF RetiredActive

\* The purge of get_public_keys and rotate_keys deletes no record that the ring still uses.
LEMMA PurgeStep == ASSUME NEW p \in Procs, NEW n \in Names, IInv, Purge(p, n) PROVE IInv'
<1> USE DEF IInv
<1> DEFINE r == [req[p] EXCEPT !.names = @ \ {n}]
<1>0. /\ req[p] \in Request /\ keys \in [Names -> Kids \cup {NoKid}] /\ RequestOK(p)
      /\ n = <<n[1], n[2]>> /\ n[1] \in Algs /\ n[2] \in Versions
      /\ pc[p] = "purge" /\ n \in req[p].names /\ NameDropped(n)
      /\ now' = now /\ meta' = meta /\ tokens' = tokens /\ kids' = kids
      /\ keys' = [keys EXCEPT ![n] = NoKid]
    BY DEF TypeOK, Names, Purge, At, RequestOK
<1>1. r \in Request /\ r.names = req[p].names \ {n} /\ r.at = req[p].at
      /\ pc' = [pc EXCEPT ![p] = "purge"] /\ req' = [req EXCEPT ![p] = r]
    BY <1>0 DEF Request, Purge, GotoWith
<1>2. TypeOK'
    BY <1>0, <1>1 DEF TypeOK, Labels
<1>3. \A m \in Names : ~NameDropped(m) => keys'[m] = keys[m]
    BY <1>0
<1>4. RingMatchesMaterial' /\ RingShape'
  <2>1. \A a \in Algs : meta # NoRing => <<a, meta.ver>> \in Names /\ ~NameDropped(<<a, meta.ver>>)
      BY <1>0 DEF RingShape, TypeOK, Ring, Names, Versions, NameDropped
  <2>2. \A x \in meta.retired : /\ <<x.alg, x.ver>> \in Names
                                /\ RetiredActive(x, now) => ~NameDropped(<<x.alg, x.ver>>)
      BY DEF TypeOK, Ring, Retired, Names, NameDropped
  <2> QED
      BY <1>0, <1>3, <2>1, <2>2 DEF RingMatchesMaterial, RingShape, RetiredActive
<1>5. ASSUME NEW q \in Procs, NEW v \in Versions, Made(q, v), q # p, meta.ver < v PROVE Made(q, v)'
  <2>1. req'[q] = req[q]
      BY <1>1, <1>5 DEF TypeOK
  <2>2. \A a \in Algs : <<a, v>> \in Names /\ ~NameDropped(<<a, v>>)
      BY <1>5 DEF Names, NameDropped, TypeOK, Ring, Versions
  <2> QED
      BY <2>1, <2>2, <1>3, <1>5 DEF Made
<1>6. \A q \in Procs : RequestOK(q)'
  <2> TAKE q \in Procs
  <2>1. RequestOK(q) /\ meta \in Ring /\ meta # NoRing
      BY <1>0 DEF TypeOK, RequestOK
  <2>2. CASE q # p
    <3>1. req'[q] = req[q] /\ pc'[q] = pc[q]
        BY <2>2, <1>1 DEF TypeOK
    <3>2. pc[q] = "generate" /\ req[q].seen.rev = meta.rev
              => meta.ver + 1 \in Versions /\ meta.ver < meta.ver + 1
        BY <2>1, GraceAssumption DEF RequestOK, Versions, Ring
    <3> QED
        BY <2>1, <2>2, <3>1, <3>2, <1>0, <1>5
           DEF RequestOK, NameDropped, RetiredActive, Covered
  <2>3. CASE q = p
    <3>1. req'[p] = r /\ pc'[p] = "purge"
        BY <1>1 DEF TypeOK
    <3> QED
        BY <2>1, <2>3, <3>1, <1>0, <1>1 DEF RequestOK, NameDropped, RetiredActive
  <2> QED
      BY <2>2, <2>3
<1>7. \A t \in tokens' : TokenOK(t)'
  <2> SUFFICES ASSUME NEW t \in tokens PROVE TokenOK(t)'
      BY <1>0
  <2>1. TokenOK(t) /\ t \in Token /\ now \in Nat
      BY DEF TypeOK
  <2>2. now <= t.iat + TokenTTL => ~NameDropped(<<t.alg, t.ver>>)
    <3> SUFFICES ASSUME now <= t.iat + TokenTTL, t.ver # meta.ver
                 PROVE  ~NameDropped(<<t.alg, t.ver>>)
        BY DEF NameDropped, TypeOK, Ring
    <3>1. PICK x \in meta.retired : x.alg = t.alg /\ x.ver = t.ver /\ t.iat <= x.at + Delay
        BY <2>1 DEF TokenOK, Covered
    <3>2. RetiredActive(x, now)
        BY <2>1, <3>1, CoveredActive DEF Token, TypeOK, Ring, Retired
    <3> QED
        BY <3>1, <3>2 DEF NameDropped
  <2> QED
      BY <2>1, <2>2, <1>0, <1>3 DEF TokenOK, Covered, Token, Names
<1> QED
    BY <1>2, <1>4, <1>6, <1>7

(***************************************************************************)
(* Making and swapping the ring.                                           *)
(***************************************************************************)
\* bootstrap_meta: the ring that is created names the records found or made.
LEMMA CreateRingStep == ASSUME NEW p \in Procs, IInv, CreateRing(p) PROVE IInv'
<1> USE DEF IInv
<1>0. /\ req[p] \in Request /\ RequestOK(p) /\ meta \in Ring /\ now \in Nat
      /\ pc[p] = "boot" /\ req[p].names = {}
      /\ now' = now /\ keys' = keys /\ kids' = kids /\ tokens' = tokens
      /\ 1 \in Versions /\ MaxVersion \in Nat \ {0}
    BY GraceAssumption DEF TypeOK, CreateRing, At, Versions
<1>1. /\ meta' \in Ring /\ meta' # NoRing /\ meta'.rev >= 1 /\ meta'.ver \in 1..MaxVersion
      /\ RingMatchesMaterial' /\ RingShape'
      /\ meta # NoRing => meta' = meta
      /\ meta = NoRing => meta'.retired = {}
  <2>1. CASE /\ meta = NoRing
             /\ meta' = [rev |-> 1, ver |-> 1, kid |-> req[p].new, retired |-> {}]
    <3>1. /\ meta' \in Ring /\ meta'.rev = 1 /\ meta'.ver = 1 /\ meta'.retired = {}
          /\ meta'.kid = req[p].new
        BY <2>1, <1>0 DEF Ring, Request, Kids
    <3>2. meta' # NoRing
        BY <3>1 DEF NoRing
    <3>3. \A a \in Algs : req[p].new[a] # NoKid /\ req[p].new[a] = keys[a, 1]
        BY <1>0, <2>1 DEF RequestOK, Made
    <3>4. RingMatchesMaterial'
        BY <3>1, <3>3, <1>0 DEF RingMatchesMaterial
    <3> QED
        BY <3>1, <3>2, <3>4, <2>1, <1>0 DEF RingShape
  <2>2. CASE meta # NoRing /\ meta' = meta
    <3>1. RingMatchesMaterial'
        BY <2>2, <1>0 DEF RingMatchesMaterial, RetiredActive
    <3>2. RingShape'
        BY <2>2, <1>0 DEF RingShape
    <3>3. meta.rev >= 1 /\ meta.ver \in 1..MaxVersion
        BY <2>2, <1>0 DEF RingShape, Ring
    <3> QED
        BY <2>2, <1>0, <3>1, <3>2, <3>3
  <2> QED
      BY <2>1, <2>2 DEF CreateRing
<1>2. PICK rev \in Nat : /\ UseRing(p, [meta' EXCEPT !.rev = rev])
                         /\ rev <= meta'.rev
  <2>1. CASE /\ meta = NoRing
             /\ meta' = [rev |-> 1, ver |-> 1, kid |-> req[p].new, retired |-> {}]
             /\ \E rev \in {0, 1} : UseRing(p, [meta' EXCEPT !.rev = rev])
      BY <2>1
  <2>2. CASE meta # NoRing /\ UseRing(p, meta) /\ meta' = meta
    <3>1. [meta EXCEPT !.rev = meta.rev] = meta /\ meta.rev \in Nat
        BY <1>0 DEF Ring
    <3> QED
        BY <2>2, <3>1
  <2> QED
      BY <2>1, <2>2 DEF CreateRing
<1> DEFINE ring == [meta' EXCEPT !.rev = rev]
           r0 == [req[p] EXCEPT !.seen = ring]
<1>3. /\ ring \in Ring /\ ring.rev = rev /\ ring.ver = meta'.ver /\ ring.kid = meta'.kid
      /\ ring.retired = meta'.retired /\ (rev = meta'.rev => ring = meta')
    BY <1>1, <1>2 DEF Ring
<1>4. /\ r0 \in Request /\ r0.at = req[p].at /\ r0.seen = ring /\ r0.op = req[p].op
      /\ now <= req[p].at + Delay /\ req[p].at <= now
    BY <1>0, <1>3 DEF Request, RequestOK
<1>5. ASSUME NEW l \in Labels, NEW r \in Request, GotoWith(p, l, r),
             pc'[p] = l /\ req'[p] = r => RequestOK(p)'
      PROVE  IInv'
  <2>1. pc'[p] = l /\ req'[p] = r /\ TypeOK'
      BY <1>5, <1>0, <1>1 DEF GotoWith, TypeOK
  <2>2. ASSUME NEW q \in Procs, q # p PROVE RequestOK(q)'
    <3>1. pc'[q] = pc[q] /\ req'[q] = req[q] /\ RequestOK(q)
        BY <1>5, <2>2 DEF GotoWith, TypeOK
    <3> QED
        BY <3>1, <1>0, <1>1 DEF RequestOK, Made, NameDropped, Covered, RetiredActive
  <2>3. \A t \in tokens' : TokenOK(t)'
      BY <1>0, <1>1 DEF TokenOK, Covered
  <2> QED
      BY <2>1, <2>2, <2>3, <1>5, <1>1
<1>6. CASE r0.op = "rotate" /\ ring.ver < MaxVersion
           /\ GotoWith(p, "generate", [r0 EXCEPT !.names = Generation(ring.ver + 1)])
  <2> DEFINE r == [r0 EXCEPT !.names = Generation(ring.ver + 1)]
  <2>1. ring.ver + 1 \in Versions
      BY <1>0, <1>1, <1>3, <1>6 DEF Ring, Versions
  <2>2. r \in Request /\ r.names = Generation(ring.ver + 1) /\ r.at = req[p].at /\ r.seen = ring
      BY <1>4, <2>1, NamesType DEF Request
  <2>3. ASSUME pc'[p] = "generate" /\ req'[p] = r PROVE RequestOK(p)'
    <3>1. Made(p, meta.ver + 1)'
      <4>1. \A a \in Algs : <<a, meta'.ver + 1>> \in Generation(ring.ver + 1)
          BY <1>3 DEF Generation
      <4> QED
          BY <2>2, <2>3, <4>1, <1>3 DEF Made
    <3>2. /\ ring.ver \in 1..MaxVersion /\ ring.ver < MaxVersion /\ ring.rev <= meta'.rev
          /\ (ring.rev = meta'.rev => ring = meta')
        BY <1>1, <1>2, <1>3, <1>6
    <3> QED
        BY <2>2, <2>3, <3>1, <3>2, <1>0, <1>1, <1>4 DEF RequestOK
  <2> QED
      BY <1>5, <1>6, <2>2, <2>3 DEF Labels
<1>7. CASE r0.op = "publish"
           /\ GotoWith(p, "purge", [r0 EXCEPT !.names = Expired(ring, now)])
  <2> DEFINE r == [r0 EXCEPT !.names = Expired(ring, now)]
  <2>1. r \in Request /\ r.names = Expired(ring, now) /\ r.at = req[p].at
      BY <1>0, <1>3, <1>4, NamesType DEF Request
  <2>2. \A n \in Expired(ring, now) : NameDropped(n)'
      BY <1>0, <1>1, <1>3 DEF Expired, NameDropped, RingShape, RetiredActive
  <2>3. ASSUME pc'[p] = "purge" /\ req'[p] = r PROVE RequestOK(p)'
      BY <2>1, <2>2, <2>3, <1>0, <1>1, <1>4 DEF RequestOK
  <2> QED
      BY <1>5, <1>7, <2>1, <2>3 DEF Labels
<1>8. CASE r0.op \in Algs /\ GotoWith(p, "reread", [r0 EXCEPT !.kid = ring.kid[r0.op]])
  <2> DEFINE r == [r0 EXCEPT !.kid = ring.kid[r0.op]]
  <2>1. ring.kid[r0.op] \in Kids \cup {NoKid} /\ ring.kid[r0.op] # NoKid
      BY <1>1, <1>3, <1>8 DEF Ring, RingMatchesMaterial
  <2>2. r \in Request /\ r.kid # NoKid /\ r.at = req[p].at /\ r.op \in Algs
      BY <1>4, <1>8, <2>1 DEF Request
  <2>3. ASSUME pc'[p] = "reread" /\ req'[p] = r PROVE RequestOK(p)'
      BY <2>2, <2>3, <1>0, <1>1, <1>4 DEF RequestOK
  <2> QED
      BY <1>5, <1>8, <2>2, <2>3 DEF Labels
<1> QED
    BY <1>2, <1>6, <1>7, <1>8 DEF UseRing

\* rotate_keys: the swap keeps every entry that still covers a token, and retires the outgoing
\* generation late enough to cover every token it has signed.
LEMMA SwapRingStep == ASSUME NEW p \in Procs, IInv, SwapRing(p) PROVE IInv'
<1> USE DEF IInv
<1> DEFINE at == req[p].at
           r == [req[p] EXCEPT !.names = Expired(meta, at)]
<1>0. /\ req[p] \in Request /\ RequestOK(p) /\ meta \in Ring /\ now \in Nat
      /\ pc[p] = "generate" /\ req[p].names = {} /\ req[p].seen = meta /\ at \in Nat
      /\ at <= now /\ now <= at + Delay /\ meta # NoRing
      /\ meta.ver \in 1..MaxVersion /\ meta.ver < MaxVersion /\ meta.rev \in Nat
      /\ now' = now /\ keys' = keys /\ kids' = kids /\ tokens' = tokens
      /\ GotoWith(p, "purge", r)
      /\ meta' = [rev |-> meta.rev + 1, ver |-> meta.ver + 1, kid |-> req[p].new,
                  retired |-> StillRetired(meta, at) \cup Outgoing(meta, at)]
    BY DEF TypeOK, SwapRing, At, RequestOK, Request, Ring
<1>1. \A a \in Algs : /\ req[p].new[a] # NoKid /\ req[p].new[a] = keys[a, meta.ver + 1]
                      /\ meta.kid[a] \in Kids /\ meta.kid[a] = keys[a, meta.ver]
    BY <1>0 DEF RequestOK, Made, RingMatchesMaterial, Ring, NoKid, Kids
<1>2. \A x : x \in meta'.retired <=>
                \/ x \in meta.retired /\ RetiredActive(x, at)
                \/ \E a \in Algs : x = [alg |-> a, kid |-> meta.kid[a], ver |-> meta.ver, at |-> at]
    BY <1>0 DEF StillRetired, Outgoing
<1>13. \A x \in meta'.retired :
          \/ x \in meta.retired /\ RetiredActive(x, at)
          \/ /\ x.alg \in Algs /\ x.kid = meta.kid[x.alg] /\ x.ver = meta.ver /\ x.at = at
             /\ x = [alg |-> x.alg, kid |-> meta.kid[x.alg], ver |-> meta.ver, at |-> at]
    BY <1>2
<1>3. /\ meta' \in Ring /\ meta' # NoRing
      /\ meta'.rev = meta.rev + 1 /\ meta'.ver = meta.ver + 1 /\ meta'.kid = req[p].new
  <2>1. meta'.retired \subseteq Retired
    <3>1. \A a \in Algs : [alg |-> a, kid |-> meta.kid[a], ver |-> meta.ver, at |-> at] \in Retired
        BY <1>0, <1>1 DEF Retired, Versions
    <3> QED
        BY <1>0, <1>2, <3>1 DEF Ring
  <2>2. /\ meta'.rev = meta.rev + 1 /\ meta'.ver = meta.ver + 1 /\ meta'.kid = req[p].new
        /\ meta.rev + 1 \in Nat /\ meta.ver + 1 \in 0..MaxVersion
        /\ req[p].new \in [Algs -> Kids \cup {NoKid}]
      BY <1>0, GraceAssumption DEF Request
  <2>3. meta' = [rev |-> meta'.rev, ver |-> meta'.ver, kid |-> meta'.kid, retired |-> meta'.retired]
      BY <1>0
  <2>4. meta' \in Ring
      BY <2>1, <2>2, <2>3 DEF Ring
  <2>5. meta' # NoRing
      BY <2>2, <1>0 DEF NoRing
  <2> QED
      BY <2>2, <2>4, <2>5
<1>4. RingMatchesMaterial'
  <2>1. \A a \in Algs : meta'.kid[a] # NoKid /\ keys'[a, meta'.ver] = meta'.kid[a]
      BY <1>0, <1>1, <1>3
  <2>2. \A x \in meta'.retired : RetiredActive(x, now) => keys[x.alg, x.ver] = x.kid
    <3> SUFFICES ASSUME NEW x \in meta'.retired, RetiredActive(x, now) PROVE keys[x.alg, x.ver] = x.kid
        OBVIOUS
    <3> QED
        BY <1>1, <1>13 DEF RingMatchesMaterial
  <2> QED
      BY <2>1, <2>2, <1>0 DEF RingMatchesMaterial, RetiredActive
<1>5. RingShape'
  <2>1. \A x \in meta'.retired : x.ver <= meta.ver
    <3>1. \A x \in meta.retired : x.ver \in Nat /\ x.ver < meta.ver
        BY <1>0 DEF RingShape, Ring, Retired, Versions
    <3> QED
        BY <1>0, <1>13, <3>1
  <2>2. \A x \in meta.retired : x.ver < meta.ver
      BY DEF RingShape
  <2>3. \A x, y \in meta'.retired : x.alg = y.alg /\ x.ver = y.ver => x = y
    <3> SUFFICES ASSUME NEW x \in meta'.retired, NEW y \in meta'.retired, x.alg = y.alg, x.ver = y.ver
                 PROVE  x = y
        OBVIOUS
    <3>1. CASE x \in meta.retired /\ y \in meta.retired
        BY <3>1 DEF RingShape
    <3>2. CASE x \notin meta.retired \/ y \notin meta.retired
      <4>1. x.ver = meta.ver /\ y.ver = meta.ver
          BY <3>2, <1>13
      <4>2. x \notin meta.retired /\ y \notin meta.retired
        <5>1. ~(meta.ver < meta.ver)
            BY <1>0
        <5> QED
            BY <4>1, <2>2, <5>1
      <4>3. /\ x = [alg |-> x.alg, kid |-> meta.kid[x.alg], ver |-> meta.ver, at |-> at]
            /\ y = [alg |-> y.alg, kid |-> meta.kid[y.alg], ver |-> meta.ver, at |-> at]
          BY <4>2, <1>13
      <4> QED
          BY <4>3
    <3> QED
        BY <3>1, <3>2
  <2>4. \A x \in meta'.retired : x.ver < meta.ver + 1
    <3>1. \A x \in meta'.retired : x.ver \in Nat
        BY <1>3 DEF Ring, Retired, Versions
    <3> QED
        BY <2>1, <3>1, <1>0
  <2> QED
      BY <2>3, <2>4, <1>0, <1>3 DEF RingShape
<1>6. ASSUME NEW a \in Algs, NEW v, NEW i \in Nat, i <= now, Covered(a, v, i) PROVE Covered(a, v, i)'
  <2> SUFFICES ASSUME now <= i + TokenTTL
               PROVE  \E x \in meta'.retired : x.alg = a /\ x.ver = v /\ i <= x.at + Delay
      BY <1>0 DEF Covered
  <2>1. CASE v = meta.ver
    <3> DEFINE x == [alg |-> a, kid |-> meta.kid[a], ver |-> meta.ver, at |-> at]
    <3>1. x \in meta'.retired
        BY <1>2
    <3>2. i <= at + Delay
        BY <1>0, <1>6, GraceAssumption
    <3> QED
        BY <3>1, <3>2, <2>1
  <2>2. CASE v # meta.ver
    <3>1. PICK x \in meta.retired : x.alg = a /\ x.ver = v /\ i <= x.at + Delay
        BY <2>2, <1>6 DEF Covered
    <3>2. at <= i + TokenTTL /\ x.at \in Nat
        BY <1>0, <1>6, GraceAssumption DEF Ring, Retired
    <3>3. RetiredActive(x, at)
        BY <3>1, <3>2, <1>0, CoveredActive
    <3> QED
        BY <3>1, <3>3, <1>2
  <2> QED
      BY <2>1, <2>2
<1>7. ASSUME NEW n \in Names, NameDropped(n) PROVE NameDropped(n)'
    BY <1>0, <1>2, <1>3, <1>7 DEF NameDropped, RetiredActive, Names, Versions
<1>8. \A n \in Expired(meta, at) : NameDropped(n)'
  <2> SUFFICES ASSUME NEW n \in Expired(meta, at) PROVE NameDropped(n)'
      OBVIOUS
  <2>1. PICK s \in meta.retired : ~RetiredActive(s, at) /\ n = <<s.alg, s.ver>>
      BY DEF Expired
  <2>2. s.ver < meta.ver /\ s.ver \in Nat
      BY <1>0 DEF RingShape, Ring, Retired, Versions
  <2>3. ASSUME NEW x \in meta'.retired, x.alg = n[1], x.ver = n[2] PROVE FALSE
    <3>1. x \in meta.retired /\ RetiredActive(x, at)
        BY <1>0, <1>2, <2>1, <2>2, <2>3
    <3>2. x = s
        BY <3>1, <2>1, <2>3 DEF RingShape
    <3> QED
        BY <3>1, <3>2, <2>1
  <2> QED
      BY <2>1, <2>2, <2>3, <1>0, <1>3 DEF NameDropped
<1>9. r \in Request /\ r.names = Expired(meta, at) /\ r.at = at
    BY <1>0, NamesType DEF Request
<1>10. TypeOK'
    BY <1>0, <1>3, <1>9 DEF TypeOK, GotoWith, Labels
<1>11. \A q \in Procs : RequestOK(q)'
  <2> TAKE q \in Procs
  <2>1. CASE q = p
    <3>1. req'[p] = r /\ pc'[p] = "purge"
        BY <1>0 DEF GotoWith, TypeOK
    <3> QED
        BY <2>1, <3>1, <1>0, <1>3, <1>8, <1>9 DEF RequestOK
  <2>2. CASE q # p
    <3>1. req'[q] = req[q] /\ pc'[q] = pc[q] /\ RequestOK(q) /\ req[q] \in Request
        BY <2>2, <1>0 DEF GotoWith, TypeOK
    <3>2. pc[q] = "purge" => \A n \in req[q].names : NameDropped(n)'
        BY <3>1, <1>7 DEF RequestOK, Request
    <3>4. pc[q] = "generate" => req[q].seen.rev <= meta'.rev /\ req[q].seen.rev # meta'.rev
        BY <3>1, <1>0, <1>3 DEF RequestOK, Request, Ring
    <3>5. pc[q] \in {"idle", "read", "boot", "reread"} => RequestOK(q)'
        BY <3>1, <1>0, <1>3 DEF RequestOK
    <3>6. pc[q] = "generate" => RequestOK(q)'
        BY <3>1, <3>4, <1>0, <1>3 DEF RequestOK
    <3>7. pc[q] = "purge" => RequestOK(q)'
        BY <3>1, <3>2, <1>0, <1>3 DEF RequestOK
    <3>8. pc[q] = "load" => RequestOK(q)'
      <4> SUFFICES ASSUME pc[q] = "load" PROVE RequestOK(q)'
          OBVIOUS
      <4>1. PICK a \in Algs, v \in Nat, i \in Nat :
                a = req[q].op /\ v = req[q].seen.ver /\ i = req[q].at
          BY <3>1 DEF RequestOK, Request, Ring
      <4>2. Covered(a, v, i)'
          BY <3>1, <4>1, <1>6 DEF RequestOK
      <4>3. Covered(req[q].op, req[q].seen.ver, req[q].at)'
          BY <3>1, <4>1, <4>2 DEF Covered
      <4>4. req'[q].at <= now' /\ pc'[q] = "load"
          BY <3>1, <1>0 DEF RequestOK
      <4>5. meta' # NoRing /\ req'[q].op \in Algs /\ req'[q].kid # NoKid /\ req'[q].seen.ver >= 1
          BY <3>1, <1>0, <1>3 DEF RequestOK
      <4> HIDE DEF IInv
      <4> QED
          BY <4>3, <4>4, <4>5 DEF RequestOK
    <3> QED
        BY <3>5, <3>6, <3>7, <3>8 DEF TypeOK, Labels
  <2> QED
      BY <2>1, <2>2
<1>12. \A t \in tokens' : TokenOK(t)'
  <2> SUFFICES ASSUME NEW t \in tokens PROVE TokenOK(t)'
      BY <1>0
  <2>1. TokenOK(t) /\ t \in Token
      BY DEF TypeOK
  <2>2. Covered(t.alg, t.ver, t.iat)'
      BY <2>1, <1>6 DEF TokenOK, Token
  <2> QED
      BY <2>1, <2>2, <1>0, <1>3 DEF TokenOK
<1> QED
    BY <1>4, <1>5, <1>10, <1>11, <1>12

\* rotate_keys: a lost swap starts over with a new clock reading, or gives up.
LEMMA LoseSwapStep == ASSUME NEW p \in Procs, IInv, LoseSwap(p) PROVE IInv'
<1> USE DEF IInv
<1>0. req[p] \in Request /\ now \in Nat /\ UNCHANGED <<now, keys, meta, kids, tokens>>
    BY DEF TypeOK, LoseSwap
<1> DEFINE r == [NoRequest EXCEPT !.op = "rotate", !.at = now, !.tries = req[p].tries + 1]
<1>1. CASE MayRetry(p) /\ GotoWith(p, "read", r)
  <2>1. req[p].tries + 1 \in 0..MaxAttempts
      BY <1>0, <1>1, GraceAssumption DEF MayRetry, Request
  <2>2. r \in Request
      BY <1>0, <2>1, NoRequestType DEF Request
  <2>3. pc'[p] = "read" /\ req'[p] = r => RequestOK(p)'
      BY <1>0, GraceAssumption DEF RequestOK, NoRequest
  <2> QED
      BY <1>0, <1>1, <2>2, <2>3, LocalStep DEF Labels
<1>2. CASE Finish(p)
    BY <1>0, <1>2, FinishStep
<1> QED
    BY <1>1, <1>2 DEF LoseSwap

(***************************************************************************)
(* Signing.                                                                *)
(***************************************************************************)
\* load_keys: the ring just read covers the token that will be signed.
LEMMA RereadStep == ASSUME NEW p \in Procs, IInv, RereadRing(p) PROVE IInv'
<1> USE DEF IInv
<1> DEFINE r == [req[p] EXCEPT !.seen = meta]
<1>0. /\ req[p] \in Request /\ RequestOK(p) /\ meta \in Ring /\ pc[p] = "reread"
      /\ UNCHANGED <<now, keys, meta, kids, tokens>> /\ GotoWith(p, "load", r)
    BY DEF TypeOK, RereadRing, At
<1>1. /\ r \in Request /\ r.at = req[p].at /\ r.op = req[p].op /\ r.kid = req[p].kid
      /\ r.seen = meta
    BY <1>0 DEF Request
<1>2. ASSUME pc'[p] = "load" /\ req'[p] = r PROVE RequestOK(p)'
    BY <1>0, <1>1, <1>2 DEF RequestOK, Covered, RingShape
<1> QED
    BY <1>0, <1>1, <1>2, LocalStep DEF Labels

\* sign_jwt: the token is signed by the key of a covered generation.
LEMMA SignStep == ASSUME NEW p \in Procs, IInv, SignToken(p) PROVE IInv'
<1> USE DEF IInv
<1>0. /\ req[p] \in Request /\ RequestOK(p) /\ meta \in Ring /\ pc[p] = "load" /\ now \in Nat
      /\ UNCHANGED <<now, keys, meta, kids>> /\ Finish(p)
      /\ keys \in [Names -> Kids \cup {NoKid}]
    BY DEF TypeOK, SignToken, At
<1> DEFINE a == req[p].op
           v == req[p].seen.ver
           t == [alg |-> a, kid |-> req[p].kid, sig |-> keys[a, v], ver |-> v, iat |-> req[p].at]
<1>1. a \in Algs /\ v \in Versions /\ req[p].kid \in Kids /\ req[p].at \in Nat /\ req[p].at <= now
    BY <1>0 DEF RequestOK, Request, Ring, Versions, NoKid
<1>2. tokens' \subseteq tokens \cup {t} /\ (tokens' # tokens => keys[a, v] # NoKid)
    BY <1>1 DEF SignToken
<1>3. tokens' # tokens => t \in Token
    BY <1>0, <1>1, <1>2 DEF Token, Names
<1>4. TypeOK'
    BY <1>0, <1>2, <1>3, NoRequestType DEF TypeOK, Finish, GotoWith, Labels
<1>5. RingMatchesMaterial' /\ RingShape'
    BY <1>0 DEF RingMatchesMaterial, RingShape, RetiredActive
<1>6. \A q \in Procs : RequestOK(q)'
  <2>1. \A q \in Procs : q # p => RequestOK(q)'
      BY <1>0, OthersKept DEF Finish
  <2>2. RequestOK(p)'
      BY <1>0 DEF RequestOK, NoRequest, Finish, GotoWith, TypeOK
  <2> QED
      BY <2>1, <2>2
<1>7. \A x \in tokens' : TokenOK(x)'
  <2>1. \A x \in tokens : TokenOK(x)'
      BY <1>0 DEF TokenOK, Covered
  <2>2. ASSUME NEW x, x = t PROVE TokenOK(x)'
    <3>1. x.alg = a /\ x.ver = v /\ x.iat = req[p].at /\ x.sig = keys[a, v]
        BY <2>2
    <3>2. TokenOK(x)
        BY <1>0, <1>1, <3>1 DEF TokenOK, RequestOK
    <3> QED
        BY <3>2, <1>0 DEF TokenOK, Covered
  <2> QED
      BY <1>2, <2>1, <2>2
<1> QED
    BY <1>4, <1>5, <1>6, <1>7

(***************************************************************************)
(* The clock.                                                              *)
(***************************************************************************)
\* Time only makes entries inactive and tokens expire.
LEMMA TickStep == ASSUME IInv, Tick PROVE IInv'
<1> USE DEF IInv
<1>0. /\ now \in Nat /\ now' = now + 1 /\ UNCHANGED <<keys, meta, kids, pc, req, tokens>>
      /\ \A p \in Procs : pc[p] \in {"read", "boot", "generate"} => now < req[p].at + Delay
    BY DEF Tick, TypeOK
<1>1. TypeOK'
    BY <1>0 DEF TypeOK
<1>2. \A x \in meta.retired : ~RetiredActive(x, now) => ~RetiredActive(x, now')
    BY <1>0, GraceAssumption DEF RetiredActive, TypeOK, Ring, Retired
<1>3. RingMatchesMaterial' /\ RingShape'
  <2>1. \A x \in meta.retired : RetiredActive(x, now)' <=> RetiredActive(x, now')
      BY DEF RetiredActive
  <2> QED
      BY <1>0, <1>2, <2>1 DEF RingMatchesMaterial, RingShape
<1>4. ASSUME NEW a, NEW v, NEW i \in Nat, Covered(a, v, i) PROVE Covered(a, v, i)'
    BY <1>0, <1>4, GraceAssumption DEF Covered
<1>5. ASSUME NEW n, NameDropped(n) PROVE NameDropped(n)'
    BY <1>0, <1>2, <1>5 DEF NameDropped, RetiredActive
<1>6. ASSUME NEW p \in Procs PROVE RequestOK(p)'
  <2>1. /\ RequestOK(p) /\ req[p] \in Request /\ req'[p] = req[p] /\ pc'[p] = pc[p]
        /\ req[p].at <= now'
      BY <1>0 DEF TypeOK, RequestOK, Request
  <2>2. pc[p] \in {"read", "boot", "generate"} => now' <= req[p].at + Delay
      BY <1>0, <2>1, GraceAssumption DEF Request
  <2>3. CASE pc[p] # "load" /\ pc[p] # "purge"
      BY <1>0, <2>1, <2>2, <2>3 DEF RequestOK, Made
  <2>4. CASE pc[p] = "purge"
      BY <1>0, <1>5, <2>1, <2>4 DEF RequestOK
  <2>5. CASE pc[p] = "load"
    <3>1. PICK a \in Algs, v \in Nat, i \in Nat :
                a = req[p].op /\ v = req[p].seen.ver /\ i = req[p].at
        BY <2>1, <2>5 DEF RequestOK, Request, Ring
    <3>2. Covered(a, v, i)'
        BY <2>1, <2>5, <3>1, <1>4 DEF RequestOK
    <3> QED
        BY <1>0, <2>1, <2>5, <3>1, <3>2 DEF RequestOK, Covered
  <2> QED
      BY <2>3, <2>4, <2>5
<1>7. ASSUME NEW t \in tokens PROVE TokenOK(t)'
  <2>1. TokenOK(t) /\ t \in Token
      BY DEF TypeOK
  <2>2. Covered(t.alg, t.ver, t.iat)'
      BY <2>1, <1>4 DEF TokenOK, Token
  <2>4. t.iat \in Nat /\ TokenTTL \in Nat /\ t.iat <= now
      BY <2>1, GraceAssumption DEF TokenOK, Token
  <2>3. t.iat <= now' /\ (now' <= t.iat + TokenTTL => now <= t.iat + TokenTTL)
      BY <1>0, <2>4
  <2> QED
      BY <1>0, <2>1, <2>2, <2>3 DEF TokenOK
<1> QED
    BY <1>0, <1>1, <1>3, <1>6, <1>7

(***************************************************************************)
(* Theorems.                                                               *)
(***************************************************************************)
\* The empty keys table of a first run satisfies the invariant.
LEMMA InitInvariant == Init => IInv
BY NoRequestType, GraceAssumption
   DEF Init, IInv, TypeOK, RingMatchesMaterial, RingShape, RequestOK, NoRing, NoRequest, Kids, NoKid,
       Names, Labels, Token, RetiredActive

\* Every step of every request keeps the invariant.
LEMMA NextInvariant == IInv /\ [Next]_vars => IInv'
<1> SUFFICES ASSUME IInv, [Next]_vars PROVE IInv'
    OBVIOUS
<1>1. ASSUME NEW p \in Procs, Handler(p) PROVE IInv'
  <2>1. ASSUME NEW op \in {"rotate", "publish"} \cup Algs, Begin(p, op) PROVE IInv'
      BY <2>1, BeginStep
  <2>2. CASE ReadRing(p)
      BY <2>2, ReadRingStep
  <2>3. CASE CreateRing(p)
      BY <2>3, CreateRingStep
  <2>4. CASE SwapRing(p)
      BY <2>4, SwapRingStep
  <2>5. CASE LoseSwap(p)
      BY <2>5, LoseSwapStep
  <2>6. CASE FinishPurge(p)
      BY <2>6, FinishStep DEF FinishPurge
  <2>7. ASSUME NEW n \in Names, CreateKey(p, n) PROVE IInv'
      BY <2>7, CreateKeyStep
  <2>8. ASSUME NEW n \in Names, Purge(p, n) PROVE IInv'
      BY <2>8, PurgeStep
  <2>9. CASE RereadRing(p)
      BY <2>9, RereadStep
  <2>10. CASE SignToken(p)
      BY <2>10, SignStep
  <2>11. CASE Crash(p)
      BY <2>11, FinishStep DEF Crash
  <2> QED
      BY <1>1, <2>1, <2>2, <2>3, <2>4, <2>5, <2>6, <2>7, <2>8, <2>9, <2>10, <2>11 DEF Handler
<1>2. CASE Tick
    BY <1>2, TickStep
<1>3. CASE UNCHANGED vars
  <2>1. TypeOK'
      BY <1>3 DEF vars, IInv, TypeOK
  <2>2. RingMatchesMaterial' /\ RingShape'
      BY <1>3 DEF vars, IInv, RingMatchesMaterial, RingShape, RetiredActive
  <2>3. \A p \in Procs : RequestOK(p)'
      BY <1>3 DEF vars, IInv, RequestOK, Covered, Made, NameDropped, RetiredActive
  <2>4. \A t \in tokens' : TokenOK(t)'
      BY <1>3 DEF vars, IInv, TokenOK, Covered
  <2> QED
      BY <2>1, <2>2, <2>3, <2>4 DEF IInv
<1> QED
    BY <1>1, <1>2, <1>3 DEF Next

\* The invariant holds throughout (key_manager.rs as a whole).
THEOREM RingInvariance == Spec => []IInv
<1> QED
    BY InitInvariant, NextInvariant, PTL DEF Spec

\* The types of KeyRing's variables, which bound the attempts of rotate_keys (MAX_ATTEMPTS).
THEOREM RingTypeCorrect == Spec => []TypeOK
<1>1. IInv => TypeOK
    BY DEF IInv
<1> QED
    BY <1>1, RingInvariance, PTL

\* However rotations, bootstraps and purges interleave, the ring names the stored keys: the CAS'd
\* metadata of rotate_keys always matches the stored material.
THEOREM RingIsSound == Spec => []RingMatchesMaterial
<1>1. IInv => RingMatchesMaterial
    BY DEF IInv
<1> QED
    BY <1>1, RingInvariance, PTL

\* If the grace period exceeds the token lifetime by more than the delay of a rotation, JWKS
\* serves the signer of every token that is still accepted (RETIRED_GRACE_SECS).
THEOREM SignersStayPublished == Spec => []SignerPublished
<1>1. IInv => SignerPublished
  <2> SUFFICES ASSUME IInv, NEW t \in tokens, now <= t.iat + TokenTTL PROVE t.sig \in PublishedKeys
      BY DEF SignerPublished
  <2>1. /\ t \in Token /\ TokenOK(t) /\ t.sig = keys[t.alg, t.ver] /\ meta # NoRing
        /\ now \in Nat /\ meta \in Ring
      BY DEF IInv, TypeOK, TokenOK
  <2>2. CASE t.ver = meta.ver
      BY <2>1, <2>2 DEF PublishedKeys, Token
  <2>3. CASE t.ver # meta.ver
    <3>1. PICK x \in meta.retired : x.alg = t.alg /\ x.ver = t.ver /\ t.iat <= x.at + Delay
        BY <2>1, <2>3 DEF TokenOK, Covered
    <3>2. RetiredActive(x, now)
        BY <2>1, <3>1, CoveredActive DEF Token, Ring, Retired
    <3> QED
        BY <2>1, <3>1, <3>2 DEF PublishedKeys
  <2> QED
      BY <2>2, <2>3
<1> QED
    BY <1>1, RingInvariance, PTL

(***************************************************************************)
(* Purged records stay away.  A rotation that lost the race may still be   *)
(* creating keys of a generation that others have made current and retired *)
(* since.  The inductive invariant RemembersTargets says that the ring     *)
(* then has an entry for that generation, dated so late that, within the   *)
(* time a rotation may take, its records cannot have been purged.          *)
(***************************************************************************)
\* The generation whose keys create_or_load is called for.
Target(p) == IF pc[p] = "boot" THEN 1 ELSE req[p].seen.ver + 1

TargetKept(p) ==
    pc[p] \in {"boot", "generate"} /\ Target(p) < meta.ver =>
        \A a \in Algs : \E x \in meta.retired :
            x.alg = a /\ x.ver = Target(p) /\ req[p].at <= x.at + Delay

RemembersTargets == IInv /\ \A p \in Procs : TargetKept(p)

\* Requests elsewhere have no target, and one that goes on creating keys keeps its own.
LEMMA TargetUnmoved ==
    ASSUME NEW p \in Procs, TargetKept(p), meta' = meta,
           pc'[p] \in {"boot", "generate"} =>
               pc'[p] = pc[p] /\ req'[p].seen = req[p].seen /\ req'[p].at = req[p].at
    PROVE  TargetKept(p)'
BY DEF TargetKept, Target

\* bootstrap_meta makes generation 1 current, before which there is no target.
LEMMA TargetAfterFirst ==
    ASSUME NEW p \in Procs, IInv', meta'.ver <= 1
    PROVE  TargetKept(p)'
<1>1. pc'[p] = "generate" => req'[p].seen.ver \in Nat
    BY DEF IInv, RequestOK
<1>2. meta'.ver \in Nat
    BY DEF IInv, TypeOK, Ring
<1> QED
    BY <1>1, <1>2 DEF TargetKept, Target

\* A ring just read is the current one: the target of the request is yet to come.
LEMMA TargetAhead ==
    ASSUME NEW p \in Procs, IInv', req'[p].seen.ver = meta'.ver, pc'[p] # "boot"
    PROVE  TargetKept(p)'
<1>1. meta'.ver \in Nat
    BY DEF IInv, TypeOK, Ring
<1> QED
    BY <1>1 DEF TargetKept, Target

\* A request goes on with the ring it was given.
LEMMA UseRingMoves ==
    ASSUME NEW p \in Procs, NEW ring, IInv, UseRing(p, ring)
    PROVE  /\ pc'[p] # "boot" /\ req'[p].seen = ring
           /\ \A q \in Procs \ {p} : pc'[q] = pc[q] /\ req'[q] = req[q]
<1> DEFINE r == [req[p] EXCEPT !.seen = ring]
<1>1. r.seen = ring /\ [r EXCEPT !.names = Generation(ring.ver + 1)].seen = ring
      /\ [r EXCEPT !.names = Expired(ring, now)].seen = ring /\ [r EXCEPT !.kid = ring.kid[r.op]].seen = ring
    BY DEF IInv, TypeOK, Request
<1> HIDE DEF r
<1>2. PICK l, s : GotoWith(p, l, s) /\ l # "boot" /\ s.seen = ring
    BY <1>1 DEF UseRing, r
<1> QED
    BY <1>2 DEF GotoWith, IInv, TypeOK

\* rotate_keys: the swap retires the outgoing generation, dated by its own clock reading, and keeps
\* every entry that another rotation may still need.
LEMMA TargetsAfterSwap ==
    ASSUME NEW p \in Procs, IInv, IInv', SwapRing(p), \A q \in Procs : TargetKept(q)
    PROVE  \A q \in Procs : TargetKept(q)'
<1> SUFFICES ASSUME NEW q \in Procs PROVE TargetKept(q)'
    OBVIOUS
<1>1. /\ req[p].seen = meta /\ meta # NoRing /\ pc'[p] = "purge"
      /\ \A x \in Procs \ {p} : pc'[x] = pc[x] /\ req'[x] = req[x]
    BY DEF IInv, TypeOK, RequestOK, SwapRing, At, GotoWith
<1>2. /\ now \in Nat /\ now <= req[p].at + Delay /\ req[p].at <= now /\ req[p].at \in Nat
      /\ meta.ver \in Nat /\ meta.retired \subseteq Retired
    BY DEF IInv, TypeOK, RequestOK, SwapRing, At, Request, Ring
<1>3. /\ meta'.ver = meta.ver + 1
      /\ meta'.retired = StillRetired(meta, req[p].at) \cup Outgoing(meta, req[p].at)
    BY <1>1 DEF SwapRing
<1> SUFFICES ASSUME q # p, pc[q] \in {"boot", "generate"}, Target(q) < meta.ver + 1, NEW a \in Algs
             PROVE  \E x \in meta'.retired : x.alg = a /\ x.ver = Target(q) /\ req[q].at <= x.at + Delay
    BY <1>1, <1>3 DEF TargetKept, Target
<1>4. Target(q) \in Nat /\ now <= req[q].at + Delay /\ req[q].at <= now /\ req[q].at \in Nat
    BY DEF IInv, TypeOK, RequestOK, Request, Target
<1>5. CASE Target(q) = meta.ver
    <2> DEFINE x == [alg |-> a, kid |-> meta.kid[a], ver |-> meta.ver, at |-> req[p].at]
    <2>1. x \in meta'.retired
        BY <1>3 DEF Outgoing
    <2>2. req[q].at <= x.at + Delay
        BY <1>2, <1>4, GraceAssumption
    <2> QED
        BY <1>5, <2>1, <2>2
<1>6. CASE Target(q) < meta.ver
    <2>1. PICK x \in meta.retired : x.alg = a /\ x.ver = Target(q) /\ req[q].at <= x.at + Delay
        BY <1>6 DEF TargetKept
    <2>2. x.at \in Nat
        BY <1>2 DEF Retired
    <2>3. x.at + Grace > req[p].at
        BY <1>2, <1>4, <2>1, <2>2, GraceAssumption
    <2> QED
        BY <1>3, <2>1, <2>3 DEF StillRetired, RetiredActive
<1> QED
    BY <1>2, <1>4, <1>5, <1>6

\* Every other step leaves the ring alone, or makes the first one.
LEMMA NextRemembersTargets == RemembersTargets /\ [Next]_vars => RemembersTargets'
<1> SUFFICES ASSUME IInv, \A p \in Procs : TargetKept(p), [Next]_vars PROVE RemembersTargets'
    BY DEF RemembersTargets
<1>1. IInv'
    BY NextInvariant
<1>2. ASSUME NEW p \in Procs, Handler(p) PROVE \A q \in Procs : TargetKept(q)'
    <2> DEFINE Alone == \A q \in Procs \ {p} : pc'[q] = pc[q] /\ req'[q] = req[q]
    <2>1. ASSUME meta' = meta, Alone, TargetKept(p)' PROVE \A q \in Procs : TargetKept(q)'
        BY <2>1, TargetUnmoved
    <2>2. ASSUME NEW l, NEW r, GotoWith(p, l, r) PROVE Alone /\ pc'[p] = l /\ req'[p] = r
        BY <2>2 DEF GotoWith, IInv, TypeOK
    <2> HIDE DEF Alone
    <2>3. CASE \E op \in {"rotate", "publish"} \cup Algs : Begin(p, op)
        BY <2>1, <2>2, <2>3, TargetUnmoved DEF Begin
    <2>4. CASE LoseSwap(p) \/ FinishPurge(p) \/ RereadRing(p) \/ SignToken(p) \/ Crash(p)
        <3>1. PICK l, r : GotoWith(p, l, r) /\ l \notin {"boot", "generate"}
            <4>1. CASE Finish(p)
                BY <4>1 DEF Finish
            <4>2. CASE LoseSwap(p)
                BY <2>4, <4>1, <4>2 DEF LoseSwap
            <4>3. CASE RereadRing(p)
                BY <4>3 DEF RereadRing
            <4> QED
                BY <2>4, <4>1, <4>2, <4>3 DEF FinishPurge, SignToken, Crash
        <3>2. meta' = meta
            BY <2>4 DEF LoseSwap, FinishPurge, RereadRing, SignToken, Crash
        <3> QED
            BY <2>1, <2>2, <3>1, <3>2, TargetUnmoved
    <2>5. CASE \E n \in Names : Purge(p, n)
        BY <2>1, <2>2, <2>5, TargetUnmoved DEF Purge
    <2>6. CASE \E n \in Names : CreateKey(p, n)
        <3>1. PICK n \in Names : CreateKey(p, n)
            BY <2>6
        <3>2. Alone /\ meta' = meta /\ pc' = pc
            BY <3>1 DEF Alone, CreateKey, CreateOrLoad, IInv, TypeOK
        <3>3. req'[p].seen = req[p].seen /\ req'[p].at = req[p].at
            BY <3>1 DEF CreateKey, CreateOrLoad, IInv, TypeOK, Request
        <3> QED
            BY <2>1, <3>2, <3>3, TargetUnmoved
    <2>7. CASE ReadRing(p)
        <3>1. meta' = meta /\ req[p] \in Request /\ meta.ver \in Nat
            BY <2>7 DEF ReadRing, IInv, TypeOK, Ring
        <3>2. CASE meta = NoRing
            BY <1>1, <3>1, <3>2, TargetAfterFirst DEF NoRing
        <3>3. CASE UseRing(p, meta)
            <4>1. Alone /\ req'[p].seen = meta /\ pc'[p] # "boot"
                BY <3>3, UseRingMoves DEF Alone
            <4> QED
                BY <1>1, <2>1, <3>1, <4>1, TargetAhead
        <3> QED
            BY <2>7, <3>2, <3>3 DEF ReadRing
    <2>8. CASE CreateRing(p)
        <3>1. CASE meta = NoRing /\ meta'.ver = 1
            BY <1>1, <3>1, TargetAfterFirst
        <3>2. CASE UseRing(p, meta) /\ meta' = meta
            <4>1. Alone /\ req'[p].seen = meta /\ pc'[p] # "boot"
                BY <3>2, UseRingMoves DEF Alone
            <4> QED
                BY <1>1, <2>1, <3>2, <4>1, TargetAhead
        <3> QED
            BY <2>8, <3>1, <3>2 DEF CreateRing
    <2>9. CASE SwapRing(p)
        BY <1>1, <2>9, TargetsAfterSwap
    <2> QED
        BY <1>2, <2>3, <2>4, <2>5, <2>6, <2>7, <2>8, <2>9 DEF Handler
<1>3. ASSUME Tick \/ UNCHANGED vars PROVE \A q \in Procs : TargetKept(q)'
    BY <1>3, TargetUnmoved DEF Tick, vars
<1> QED
    BY <1>1, <1>2, <1>3 DEF Next, RemembersTargets

\* The ring keeps what a late rotation needs (rotate_keys, retired_active).
THEOREM TargetsInvariance == Spec => []RemembersTargets
<1>1. Init => RemembersTargets
    BY InitInvariant DEF Init, RemembersTargets, TargetKept
<1> QED
    BY <1>1, NextRemembersTargets, PTL DEF Spec

\* create_or_load_*: however late a rotation is that lost the race, it creates no key of a
\* generation that was current already, so that purged material does not come back.
THEOREM PurgedStaysAway == Spec => NothingResurrected
<1> DEFINE Rule == \A n \in Names : keys[n] = NoKid /\ keys'[n] # NoKid
                                    => meta = NoRing \/ meta.ver < n[2]
<1>1. ASSUME RemembersTargets, [Next]_vars PROVE [Rule]_<<keys, meta>>
    <2> SUFFICES ASSUME NEW n \in Names, keys[n] = NoKid, keys'[n] # NoKid, meta # NoRing, ~(meta.ver < n[2])
                 PROVE  FALSE
        OBVIOUS
    <2>1. PICK p \in Procs : CreateKey(p, n)
        <3>1. PICK p \in Procs : Handler(p)
            BY <1>1 DEF Next, Tick, vars
        <3>2. keys \in [Names -> Kids \cup {NoKid}]
            BY <1>1 DEF RemembersTargets, IInv, TypeOK
        <3>3. ~\E m \in Names : Purge(p, m)
            BY <3>2 DEF Purge
        <3>4. PICK m \in Names : CreateKey(p, m)
            BY <3>1, <3>3 DEF Handler, Begin, ReadRing, CreateRing, SwapRing, LoseSwap, FinishPurge,
                RereadRing, SignToken, Crash
        <3>5. m = n
            BY <3>2, <3>4 DEF CreateKey, CreateOrLoad
        <3> QED
            BY <3>4, <3>5
    <2>2. /\ pc[p] \in {"boot", "generate"} /\ n \in req[p].names /\ n[1] \in Algs /\ n[2] = Target(p)
          /\ n = <<n[1], n[2]>> /\ RequestOK(p) /\ TargetKept(p)
        BY <1>1, <2>1 DEF RemembersTargets, IInv, RequestOK, CreateKey, CreateOrLoad, Generation, Target, Names
    <2>3. /\ now \in Nat /\ req[p].at \in Nat /\ now <= req[p].at + Delay /\ meta.ver \in Nat /\ n[2] \in Nat
          /\ meta.retired \subseteq Retired /\ RingMatchesMaterial
        BY <1>1, <2>2 DEF RemembersTargets, IInv, TypeOK, RequestOK, Request, Ring, Names, Versions
    <2>4. n[2] # meta.ver
        BY <2>2, <2>3 DEF RingMatchesMaterial
    <2>5. PICK x \in meta.retired : x.alg = n[1] /\ x.ver = n[2] /\ req[p].at <= x.at + Delay
        BY <2>2, <2>3, <2>4 DEF TargetKept
    <2>6. x.at \in Nat /\ x.kid # NoKid
        BY <2>3, <2>5 DEF Retired, Kids, NoKid
    <2>7. x.at + Grace > now
        BY <2>3, <2>5, <2>6, GraceAssumption
    <2> QED
        BY <2>2, <2>3, <2>5, <2>6, <2>7 DEF RingMatchesMaterial, RetiredActive
<1>2. [][Rule]_<<keys, meta>> => NothingResurrected
    BY DEF NothingResurrected
<1> QED
    BY <1>1, <1>2, TargetsInvariance, PTL DEF Spec
============================================================================
