------------------------------ MODULE KeyRing ------------------------------
(***************************************************************************)
(* The signing-key ring of key_manager.rs over the keys table, signing and *)
(* publication (jwt.rs, service_client.rs).  Every request is a process; a *)
(* store operation is one step, and so is a reading of the clock that an   *)
(* await separates from the next one.                                      *)
(*                                                                         *)
(* A private key is named by its kid, a number that counts the keys ever   *)
(* generated.  tokens is a history variable: the tokens signed, with the   *)
(* kid of the header (kid), the key that signed (sig) and the generation   *)
(* it was loaded from (ver).                                               *)
(***************************************************************************)
EXTENDS Requests, Naturals, FiniteSets

CONSTANTS
    Algs,           \* signature algorithms
    Grace,          \* RETIRED_GRACE_SECS
    TokenTTL,       \* lifetime of a token with the leeway of its verification
    Delay,          \* how long a request may take from its clock reading to its last write
    MaxAttempts,    \* MAX_ATTEMPTS of rotate_keys
    MaxTime, MaxVersion, MaxKids, MaxTokens     \* bounds

\* The comment of RETIRED_GRACE_SECS: the longest token lifetime, and a margin.
ASSUME GraceAssumption ==
    /\ {Grace, TokenTTL, Delay, MaxTime} \subseteq Nat
    /\ {MaxAttempts, MaxVersion, MaxKids, MaxTokens} \subseteq Nat \ {0}
    /\ TokenTTL + Delay < Grace /\ 2 * Delay < Grace

VARIABLES
    now,
    keys,       \* signing-key-v{n} and signing-key-ec-v{n}: kid of the stored key
    meta,       \* meta:current
    kids,       \* how many keys were generated
    tokens

vars == <<now, keys, meta, kids, pc, req, tokens>>

Versions == 1..MaxVersion
Kids == 1..MaxKids
NoKid == 0
Names == Algs \X Versions

Retired == [alg: Algs, kid: Kids, ver: Versions, at: Nat]
Ring == [rev: Nat, ver: 0..MaxVersion, kid: [Algs -> Kids \cup {NoKid}], retired: SUBSET Retired]
NoRing == [rev |-> 0, ver |-> 0, kid |-> [a \in Algs |-> NoKid], retired |-> {}]

\* at: the clock as the request read it; seen: the ring as it read it; names: records it has yet
\* to create or to delete; new: the kids of those it created or found.
Request == [op: {"none", "rotate", "publish"} \cup Algs, at: Nat, seen: Ring, names: SUBSET Names,
            new: [Algs -> Kids \cup {NoKid}], tries: 0..MaxAttempts, kid: Kids \cup {NoKid}]
NoRequest == [op |-> "none", at |-> 0, seen |-> NoRing, names |-> {},
              new |-> [a \in Algs |-> NoKid], tries |-> 0, kid |-> NoKid]
Labels == {"idle", "read", "boot", "generate", "purge", "reread", "load"}

Token == [alg: Algs, kid: Kids, sig: Kids, ver: Versions, iat: Nat]

TypeOK ==
    /\ now \in Nat
    /\ keys \in [Names -> Kids \cup {NoKid}]
    /\ meta \in Ring
    /\ kids \in 0..MaxKids
    /\ pc \in [Procs -> Labels]
    /\ req \in [Procs -> Request]
    /\ tokens \subseteq Token

Init ==
    /\ now = 0
    /\ keys = [n \in Names |-> NoKid]
    /\ meta = NoRing
    /\ kids = 0
    /\ pc = [p \in Procs |-> "idle"]
    /\ req = [p \in Procs |-> NoRequest]
    /\ tokens = {}

Finish(p) == GotoWith(p, "idle", NoRequest)

\* Mutant: retired keys go at once.
RetiredActive_NoGrace(r, t) == r.at > t

\* retired_active
RetiredActive(r, t) == r.at + Grace > t

Generation(v) == Algs \X {v}
Expired(ring, t) == {<<r.alg, r.ver>> : r \in {s \in ring.retired : ~RetiredActive(s, t)}}

(***************************************************************************)
(* Requests: rotate_keys reads the clock first; sign has read it when it   *)
(* built the claims; get_public_keys reads it when it has the ring.        *)
(***************************************************************************)
Begin(p, op) ==
    /\ At(p, "idle")
    /\ op = "rotate" => meta.ver < MaxVersion
    /\ op \in Algs => Cardinality(tokens) < MaxTokens
    /\ GotoWith(p, "read", [NoRequest EXCEPT !.op = op, !.at = now, !.tries = 1])
    /\ UNCHANGED <<now, keys, meta, kids, tokens>>

\* What a request does with the ring it has read or made.
UseRing(p, ring) ==
    LET r == [req[p] EXCEPT !.seen = ring]
    IN \/ /\ r.op = "rotate" /\ ring.ver < MaxVersion
          /\ GotoWith(p, "generate", [r EXCEPT !.names = Generation(ring.ver + 1)])
       \/ /\ r.op = "publish"
          /\ GotoWith(p, "purge", [r EXCEPT !.names = Expired(ring, now)])
       \/ /\ r.op \in Algs
          /\ GotoWith(p, "reread", [r EXCEPT !.kid = ring.kid[r.op]])

\* load_meta_with_revision
ReadRing(p) ==
    /\ At(p, "read")
    /\ \/ meta # NoRing /\ UseRing(p, meta)
       \/ meta = NoRing /\ GotoWith(p, "boot", [req[p] EXCEPT !.names = Generation(1)])
    /\ UNCHANGED <<now, keys, meta, kids, tokens>>

\* Mutant: kv_set_raw instead of kv_create_raw.
CreateOrLoad_Overwrites(p, n) ==
    /\ n \in req[p].names
    /\ kids < MaxKids
    /\ kids' = kids + 1
    /\ keys' = [keys EXCEPT ![n] = kids']
    /\ req' = [req EXCEPT ![p].names = @ \ {n}, ![p].new[n[1]] = kids']

\* create_or_load_rsa_key, create_or_load_ec_key: generate a key; adopt the one that is there.
CreateOrLoad(p, n) ==
    /\ n \in req[p].names
    /\ \/ /\ keys[n] = NoKid
          /\ kids < MaxKids
          /\ kids' = kids + 1
          /\ keys' = [keys EXCEPT ![n] = kids']
       \/ keys[n] # NoKid /\ UNCHANGED <<kids, keys>>
    /\ req' = [req EXCEPT ![p].names = @ \ {n}, ![p].new[n[1]] = keys'[n]]

CreateKey(p, n) ==
    /\ pc[p] \in {"boot", "generate"}
    /\ CreateOrLoad(p, n)
    /\ UNCHANGED <<now, meta, pc, tokens>>

\* The end of bootstrap_meta.  After its own create it takes the revision to be 1, which it is
\* not if the store numbers the revisions of a table and not of a key; a lost race reads the
\* winner's ring.
CreateRing(p) ==
    /\ At(p, "boot")
    /\ req[p].names = {}
    /\ \/ /\ meta = NoRing
          /\ meta' = [rev |-> 1, ver |-> 1, kid |-> req[p].new, retired |-> {}]
          /\ \E rev \in {0, 1} : UseRing(p, [meta' EXCEPT !.rev = rev])
       \/ meta # NoRing /\ UseRing(p, meta) /\ UNCHANGED meta
    /\ UNCHANGED <<now, keys, kids, tokens>>

(***************************************************************************)
(* rotate_keys: swap the ring, then delete what the swap dropped from it.  *)
(***************************************************************************)
\* Mutant: only the outgoing generation is kept.
StillRetired_None(ring, t) == {}

StillRetired(ring, t) == {r \in ring.retired : RetiredActive(r, t)}

Outgoing(ring, t) == {[alg |-> a, kid |-> ring.kid[a], ver |-> ring.ver, at |-> t] : a \in Algs}

SwapRing(p) ==
    /\ At(p, "generate")
    /\ req[p].names = {}
    /\ LET ring == req[p].seen
       IN /\ ring.rev = meta.rev
          /\ meta' = [rev |-> ring.rev + 1, ver |-> ring.ver + 1, kid |-> req[p].new,
                      retired |-> StillRetired(ring, req[p].at) \cup Outgoing(ring, req[p].at)]
          /\ GotoWith(p, "purge", [req[p] EXCEPT !.names = Expired(ring, req[p].at)])
    /\ UNCHANGED <<now, keys, kids, tokens>>

MayRetry(p) == req[p].tries < MaxAttempts

\* "revision mismatch": the next attempt reads the clock and the ring again.
LoseSwap(p) ==
    /\ At(p, "generate")
    /\ req[p].names = {}
    /\ req[p].seen.rev # meta.rev
    /\ \/ /\ MayRetry(p)
          /\ GotoWith(p, "read", [NoRequest EXCEPT !.op = "rotate", !.at = now,
                                                   !.tries = req[p].tries + 1])
       \/ ~MayRetry(p) /\ Finish(p)
    /\ UNCHANGED <<now, keys, meta, kids, tokens>>

Purge(p, n) ==
    /\ At(p, "purge")
    /\ n \in req[p].names
    /\ keys' = [keys EXCEPT ![n] = NoKid]
    /\ GotoWith(p, "purge", [req[p] EXCEPT !.names = @ \ {n}])
    /\ UNCHANGED <<now, meta, kids, tokens>>

FinishPurge(p) ==
    /\ At(p, "purge")
    /\ req[p].names = {}
    /\ Finish(p)
    /\ UNCHANGED <<now, keys, meta, kids, tokens>>

(***************************************************************************)
(* sign, sign_es256: the kid of the header comes from one reading of the   *)
(* ring (get_kid), the key from another (sign_jwt, load_keys).             *)
(***************************************************************************)
RereadRing(p) ==
    /\ At(p, "reread")
    /\ GotoWith(p, "load", [req[p] EXCEPT !.seen = meta])
    /\ UNCHANGED <<now, keys, meta, kids, tokens>>

\* Both keys of the generation are loaded; one that is missing is an error.
SignToken(p) ==
    /\ At(p, "load")
    /\ LET r == req[p]
           loaded == [a \in Algs |-> keys[a, r.seen.ver]]
       IN \/ /\ \A a \in Algs : loaded[a] # NoKid
             /\ tokens' = tokens \cup {[alg |-> r.op, kid |-> r.kid, sig |-> loaded[r.op],
                                        ver |-> r.seen.ver, iat |-> r.at]}
          \/ (\E a \in Algs : loaded[a] = NoKid) /\ UNCHANGED tokens
    /\ Finish(p)
    /\ UNCHANGED <<now, keys, meta, kids>>

Crash(p) ==
    /\ ~At(p, "idle")
    /\ Finish(p)
    /\ UNCHANGED <<now, keys, meta, kids, tokens>>

\* A request that creates keys or swaps the ring is not slower than Delay.
Tick ==
    /\ now < MaxTime
    /\ \A p \in Procs : pc[p] \in {"read", "boot", "generate"} => now < req[p].at + Delay
    /\ now' = now + 1
    /\ UNCHANGED <<keys, meta, kids, pc, req, tokens>>

Handler(p) ==
    \/ \E op \in {"rotate", "publish"} \cup Algs : Begin(p, op)
    \/ ReadRing(p) \/ CreateRing(p) \/ SwapRing(p) \/ LoseSwap(p) \/ FinishPurge(p)
    \/ \E n \in Names : CreateKey(p, n) \/ Purge(p, n)
    \/ RereadRing(p) \/ SignToken(p) \/ Crash(p)

Next == (\E p \in Procs : Handler(p)) \/ Tick

Spec == Init /\ [][Next]_vars

(***************************************************************************)
(* Properties.                                                             *)
(***************************************************************************)
\* The keys that get_public_keys serves: current, and retired within the grace period.
PublishedKeys ==
    {keys[a, meta.ver] : a \in {b \in Algs : meta # NoRing}}
        \cup {keys[r.alg, r.ver] : r \in {s \in meta.retired : RetiredActive(s, now)}}

\* rotate_keys, "the metadata CAS'd below always matches the stored material": the record of
\* every current or still active key is stored, with the kid the ring names, however rotations,
\* first-run bootstraps and purges interleave.
RingMatchesMaterial ==
    /\ meta # NoRing => \A a \in Algs : meta.kid[a] # NoKid /\ keys[a, meta.ver] = meta.kid[a]
    /\ \A r \in meta.retired : RetiredActive(r, now) => keys[r.alg, r.ver] = r.kid

\* RETIRED_GRACE_SECS covers the longest token lifetime: the key that signed a token is published
\* as long as the token is accepted.
SignerPublished == \A t \in tokens : now <= t.iat + TokenTTL => t.sig \in PublishedKeys

\* Material that was purged does not come back: a rotation only ever creates keys of a generation
\* that is yet to come, however late it is.
NothingResurrected ==
    [][\A n \in Names : keys[n] = NoKid /\ keys'[n] # NoKid
                        => meta = NoRing \/ meta.ver < n[2]]_<<keys, meta>>
============================================================================
