---------------------------- MODULE AccountsProofs ----------------------------
(***************************************************************************)
(* Theorems about Accounts for any number of users, addresses, tokens and  *)
(* requests: who may log in, what an erasure and a reset promise, and that *)
(* the index from addresses to users agrees with the records; then, as BS, *)
(* about BrowserSessions.                                                  *)
(***************************************************************************)
EXTENDS Accounts, SessionPromise, TLAPS

Creators == {"register", "provision"}
Updaters == Creators \cup {"verify", "reset", "hook", "rename"}

\* The operations that take step l.
OpsAt(l) ==
    CASE l = "idle"                                -> {"none"}
      [] l \in {"index", "rollback"}               -> Creators
      [] l \in {"resend", "vet", "invite"}         -> {"register"}
      [] l = "join"                                -> {"provision"}
      [] l \in {"lookup", "cleanup"}               -> {"verify", "reset"}
      [] l \in {"read", "swap"}                    -> Updaters
      [] l \in {"claim", "unclaim", "release"}     -> {"rename"}
      [] l = "overwrite"                           -> {"activate"}
      [] OTHER                                     -> Creators \cup {"erase"}

\* The record seen is the one stored, or an older one.
Seen(r) ==
    /\ r.seen.rev <= record[r.user].rev
    /\ r.seen.rev = record[r.user].rev /\ Stored(r.user) => record[r.user] = r.seen

\* What a request with locals r knows when it is about to take step l.
ReqOK(l, r) ==
    /\ r.op \in OpsAt(l)
    /\ l \notin {"idle", "lookup", "invite"} => r.user # NoUser
    /\ r.op \in {"register", "provision", "verify", "reset", "rename"} => r.email # NoEmail
    /\ r.op \in Updaters => r.to # "absent"
    /\ r.user # NoUser => record[r.user].rev > 0
    /\ l \in {"claim", "swap", "unclaim", "release", "overwrite", "dropindex"} => r.seen.st # "absent" /\ r.seen.email # NoEmail
    /\ l \in {"claim", "swap"} => Seen(r)
    /\ l \in {"claim", "unclaim", "release"} => Renames(r)
    /\ r.op \in {"provision", "rename"} => r.user \in vouched
    /\ r.op = "verify" => r.email \in proven /\ r.to = "active"
    /\ r.op = "verify" /\ l = "swap" => r.seen.st = "pending"
    /\ r.op = "verify" /\ l \in {"read", "swap"} /\ r.user \notin vouched /\ Stored(r.user) => record[r.user].email = r.email
    /\ l = "index" /\ Stored(r.user) /\ r.user \notin vouched \cap torn => record[r.user].email = r.email
RequestOK(p) == ReqOK(pc[p], req[p])

\* A user is created by one request, and is neither answered nor renamed while it is at it.
Creates(r, u) == r.op \in Creators /\ r.user = u
Unindexed(u) == \E p \in Procs : pc[p] \in {"index", "rollback"} /\ req[p].user = u
CreationOK(u) ==
    /\ \A p, q \in Procs : Creates(req[p], u) /\ Creates(req[q], u) => p = q
    /\ \A p \in Procs : Creates(req[p], u) =>
          /\ u \notin managed \cup acked
          /\ \A q \in Procs : ~(req[q].op = "rename" /\ req[q].user = u)
    /\ Unindexed(u) => \A e \in Emails : idx[e] # u
    /\ record[u].rev = 0 => /\ ~Stored(u) /\ u \notin managed \cup acked \cup erased
                            /\ last[u] = 0 /\ \A e \in Emails : idx[e] # u

\* The status, the password and the erasure of a user.
RecordOK(u) ==
    /\ Stored(u) => record[u].email # NoEmail
    /\ record[u].st = "active" => u \in vouched \/ record[u].email \in proven
    /\ u \in managed => u \in vouched
    /\ u \notin vouched /\ Stored(u) => \A e \in Emails : idx[e] = u => record[u].email = e
    /\ u \in erased \ torn => ~Stored(u)
    /\ u \notin torn /\ Stored(u) => record[u].pw = last[u]

\* Request p of user u holds the index key of e besides the one of the record: the new address
\* before the swap of a rename and after one that failed, the old one after one that succeeded.
HoldsKey(l, r, u, e) ==
    /\ r.user = u /\ r.op = "rename" /\ Renames(r)
    /\ \/ l \in {"swap", "unclaim"} /\ r.email = e
       \/ l = "release" /\ r.seen.email = e
Holds(p, u, e) == HoldsKey(pc[p], req[p], u, e)

\* A user who is stored, not torn and not about to be deleted.
Whole(u) == u \notin torn /\ Stored(u) /\ \A p \in Procs : ~(At(p, "droprecord") /\ req[p].user = u)

\* The keys of a user who is whole: the one of the record and, one each, those of the renames.
KeysOK(u) ==
    Whole(u) =>
        /\ ~Unindexed(u) => idx[record[u].email] = u
        /\ \A p \in Procs, e \in Emails : Holds(p, u, e) =>
              /\ idx[e] = u /\ record[u].email # e
              /\ \A q \in Procs : Holds(q, u, e) => p = q

\* A key that names a user is the one of the record or held by a rename.
OwnedOK(u) ==
    u \notin torn => \A e \in Emails : idx[e] = u => \/ Stored(u) /\ record[u].email = e
                                                     \/ \E p \in Procs : Holds(p, u, e)

UserOK(u) == CreationOK(u) /\ RecordOK(u) /\ KeysOK(u) /\ OwnedOK(u)

IInv ==
    /\ TypeOK
    /\ \A t \in Tokens : tok[t].st = "there" => tok[t].email # NoEmail
    /\ \A p \in Procs : RequestOK(p)
    /\ \A u \in Users : UserOK(u)

(***************************************************************************)
(* What a step of request p leaves as it is.                               *)
(***************************************************************************)
LEMMA MovesOne ==
    ASSUME IInv, NEW p \in Procs, NEW label, NEW r, GotoWith(p, label, r)
    PROVE  /\ pc'[p] = label /\ req'[p] = r
           /\ \A q \in Procs \ {p} : pc'[q] = pc[q] /\ req'[q] = req[q]
BY DEF IInv, TypeOK, GotoWith

LEMMA Locals ==
    ASSUME IInv, NEW p \in Procs
    PROVE  req[p] \in Request /\ pc[p] \in Labels /\ ReqOK(pc[p], req[p]) /\ req[p].tries < MaxTries
BY DEF IInv, TypeOK, RequestOK

\* The tables and the sets of the history.
Tables ==
    /\ record \in [Users -> Record] /\ idx \in [Emails -> Users \cup {NoUser}]
    /\ tok \in [Tokens -> Token] /\ \A t \in Tokens : tok[t].st = "there" => tok[t].email # NoEmail
    /\ managed \subseteq Users /\ acked \subseteq Users /\ erased \subseteq Users
    /\ vouched \subseteq Users /\ torn \subseteq Users /\ proven \subseteq Emails
    /\ requests \in 0..MaxRequests /\ last \in [Users -> Nat]

LEMMA TablesTyped == ASSUME IInv PROVE Tables
BY DEF IInv, TypeOK, Tables

\* The history only grows.
Grows == vouched \subseteq vouched' /\ proven \subseteq proven' /\ torn \subseteq torn'

LEMMA StepOK ==
    ASSUME IInv, NEW p \in Procs, NEW label \in Labels, NEW r \in Request, GotoWith(p, label, r), r.tries < MaxTries,
           Tables', \A q \in Procs : RequestOK(q)', \A u \in Users : UserOK(u)'
    PROVE  IInv'
<1>1. pc' \in [Procs -> Labels] /\ req' \in [Procs -> Request]
    BY DEF IInv, TypeOK, GotoWith
<1>2. \A q \in Procs : req'[q].tries < MaxTries
    BY MovesOne DEF IInv, TypeOK
<1>3. TypeOK'
    BY <1>1, <1>2 DEF Tables, TypeOK
<1> QED
    BY <1>3 DEF Tables, IInv

\* The record of a user stays, or is written later than any that was seen of it.
Later(u) ==
    \/ record'[u] = record[u]
    \/ /\ \/ record'[u].rev > record[u].rev
          \/ record'[u].rev = record[u].rev /\ ~Stored(u)'
       /\ Stored(u)' => \/ Stored(u) /\ record'[u].email = record[u].email
                        \/ u \in vouched' /\ u \in torn'
                        \/ u \in vouched' /\ \A q \in Procs : ~Creates(req[q], u)

LEMMA OthersKnow ==
    ASSUME IInv, NEW q \in Procs, pc'[q] = pc[q], req'[q] = req[q], Grows, record' \in [Users -> Record],
           req[q].user # NoUser => Later(req[q].user)
    PROVE  RequestOK(q)'
<1> DEFINE r == req[q]
           u == req[q].user
<1>1. ReqOK(pc[q], r) /\ r \in Request
    BY Locals
<1>2. CASE u = NoUser
    BY <1>1, <1>2 DEF RequestOK, ReqOK, Grows, OpsAt
<1>3. CASE u \in Users
    <2>1. /\ record[u] \in Record /\ record'[u] \in Record /\ record[u].rev \in Nat /\ record'[u].rev \in Nat
          /\ r.seen.rev \in Nat /\ Later(u) /\ u # NoUser
        BY <1>1, <1>3, AccountAssumption DEF IInv, TypeOK, Record, Request
    <2>2. record'[u].rev >= record[u].rev
        BY <2>1 DEF Later
    <2>3. Seen(r) => /\ r.seen.rev <= record'[u].rev
                     /\ r.seen.rev = record'[u].rev /\ Stored(u)' => record'[u] = r.seen
        BY <2>1, <2>2 DEF Seen, Later, Stored
    <2>4. Stored(u)' /\ u \notin vouched' => Stored(u) /\ record'[u].email = record[u].email
        BY <2>1 DEF Later, Stored
    <2>5. pc[q] = "index" => Creates(r, u)
        BY <1>1 DEF ReqOK, OpsAt, Creates
    <2>6. pc[q] = "index" /\ Stored(u)' /\ ~(u \in vouched' /\ u \in torn')
          => Stored(u) /\ record'[u].email = record[u].email
        BY <2>1, <2>5 DEF Later, Stored
    <2>7. ReqOK(pc[q], r)
        BY <1>1
    <2> QED
        BY <2>1, <2>2, <2>3, <2>4, <2>6, <2>7 DEF RequestOK, ReqOK, Grows, Seen
<1> QED
    BY <1>1, <1>2, <1>3 DEF Request

\* Which requests are at work on user u, before and after p moves on with locals r.
LEMMA Work ==
    ASSUME IInv, NEW p \in Procs, NEW label, NEW r, GotoWith(p, label, r), NEW u \in Users
    PROVE  /\ \A q \in Procs \ {p} : /\ Creates(req[q], u)' <=> Creates(req[q], u)
                                     /\ \A e \in Emails : Holds(q, u, e)' <=> Holds(q, u, e)
           /\ Creates(req[p], u)' <=> Creates(r, u)
           /\ \A e \in Emails : Holds(p, u, e)' <=> HoldsKey(label, r, u, e)
<1>1. /\ pc'[p] = label /\ req'[p] = r
      /\ \A q \in Procs \ {p} : pc'[q] = pc[q] /\ req'[q] = req[q]
    BY MovesOne
<1> QED
    BY <1>1 DEF Creates, Holds

\* A user whose record the step of p leaves alone; it may take keys of the user, if it tears it.
LEMMA UserKept ==
    ASSUME IInv, NEW p \in Procs, NEW label, NEW r, GotoWith(p, label, r), NEW u \in Users,
           record'[u] = record[u], last'[u] = last[u], Grows,
           u \in erased' => u \in erased,
           u \in managed' => u \in managed \/ (u \in vouched' /\ Creates(req[p], u) /\ ~Creates(r, u)),
           u \in acked' => u \in acked \/ (Creates(req[p], u) /\ ~Creates(r, u)),
           \A e \in Emails : idx'[e] = u => idx[e] = u,
           \A e \in Emails : idx[e] = u => idx'[e] = u \/ u \in torn',
           Creates(r, u) => Creates(req[p], u),
           r.op = "rename" /\ r.user = u => (req[p].op = "rename" /\ req[p].user = u) \/ u \in managed,
           label \in {"index", "rollback"} /\ r.user = u => pc[p] \in {"index", "rollback"} /\ req[p].user = u,
           pc[p] \in {"index", "rollback"} /\ req[p].user = u =>
               (label \in {"index", "rollback"} /\ r.user = u) \/ u \in torn',
           pc[p] = "droprecord" /\ req[p].user = u => u \in torn',
           \A e \in Emails : HoldsKey(label, r, u, e) => Holds(p, u, e),
           \A e \in Emails : Holds(p, u, e) => HoldsKey(label, r, u, e) \/ u \in torn'
    PROVE  UserOK(u)'
<1>0. UserOK(u) /\ ReqOK(pc[p], req[p]) /\ u # NoUser
    BY Locals, AccountAssumption DEF IInv
<1>1. /\ pc'[p] = label /\ req'[p] = r
      /\ \A q \in Procs \ {p} : pc'[q] = pc[q] /\ req'[q] = req[q]
    BY MovesOne
<1>2. /\ \A q \in Procs : Creates(req[q], u)' => Creates(req[q], u)
      /\ \A q \in Procs, e \in Emails : Holds(q, u, e)' => Holds(q, u, e)
      /\ u \notin torn' => \A q \in Procs, e \in Emails : Holds(q, u, e) => Holds(q, u, e)'
    BY Work
<1>3. Stored(u)' <=> Stored(u)
    BY DEF Stored
<1>4. /\ Unindexed(u)' => Unindexed(u)
      /\ u \notin torn' /\ Unindexed(u) => Unindexed(u)'
    BY <1>1 DEF Unindexed
<1>5. Whole(u)' => Whole(u) /\ u \notin torn'
    BY <1>1, <1>3 DEF Whole, Grows, At
<1>6. CreationOK(u)'
    <2>1. ASSUME NEW q \in Procs, Creates(req[q], u)'
          PROVE  /\ u \notin managed' \cup acked'
                 /\ \A s \in Procs : ~(req'[s].op = "rename" /\ req'[s].user = u)
        <3>1. Creates(req[q], u)
            BY <1>2, <2>1
        <3>2. /\ u \notin managed \cup acked
              /\ \A s \in Procs : ~(req[s].op = "rename" /\ req[s].user = u)
              /\ Creates(req[p], u) => p = q
            BY <1>0, <3>1 DEF UserOK, CreationOK
        <3>3. q = p => Creates(r, u)
            BY <2>1, Work
        <3> QED
            BY <1>1, <3>2, <3>3
    <2>2. \A q, s \in Procs : Creates(req[q], u)' /\ Creates(req[s], u)' => q = s
        BY <1>0, <1>2 DEF UserOK, CreationOK
    <2>3. Unindexed(u)' => \A e \in Emails : idx'[e] # u
        BY <1>0, <1>4 DEF UserOK, CreationOK
    <2>4. record'[u].rev = 0 => /\ ~Stored(u)' /\ u \notin managed' \cup acked' \cup erased'
                                /\ last'[u] = 0 /\ \A e \in Emails : idx'[e] # u
        <3>1. Creates(req[p], u) => record[u].rev > 0
            BY <1>0 DEF Creates, ReqOK
        <3>2. record[u].rev = 0 => /\ ~Stored(u) /\ u \notin managed \cup acked \cup erased
                                   /\ last[u] = 0 /\ \A e \in Emails : idx[e] # u
            BY <1>0 DEF UserOK, CreationOK
        <3> QED
            BY <1>3, <3>1, <3>2
    <2> QED
        BY <2>1, <2>2, <2>3, <2>4 DEF CreationOK
<1>7. RecordOK(u)'
    BY <1>0, <1>3 DEF UserOK, RecordOK, Grows
<1>8. KeysOK(u)'
    BY <1>0, <1>2, <1>4, <1>5, AccountAssumption DEF UserOK, KeysOK, RecordOK, IInv, TypeOK, Record, Whole
<1>9. OwnedOK(u)'
    BY <1>0, <1>2, <1>3 DEF UserOK, OwnedOK, Grows
<1> QED
    BY <1>6, <1>7, <1>8, <1>9 DEF UserOK

(***************************************************************************)
(* Steps that write neither a record nor the index.                        *)
(***************************************************************************)
Quiet == UNCHANGED <<record, idx, last, erased>>

LEMMA QuietOK ==
    ASSUME IInv, NEW p \in Procs, NEW label \in Labels, NEW r \in Request, GotoWith(p, label, r), r.tries < MaxTries,
           Quiet, Grows, Tables', RequestOK(p)',
           \A u \in Users :
               /\ u \in managed' => u \in managed \/ (u \in vouched' /\ Creates(req[p], u) /\ ~Creates(r, u))
               /\ u \in acked' => u \in acked \/ (Creates(req[p], u) /\ ~Creates(r, u))
               /\ Creates(r, u) => Creates(req[p], u)
               /\ r.op = "rename" /\ r.user = u => (req[p].op = "rename" /\ req[p].user = u) \/ u \in managed
               /\ \A e \in Emails : HoldsKey(label, r, u, e) => Holds(p, u, e)
               /\ \A e \in Emails : Holds(p, u, e) => HoldsKey(label, r, u, e) \/ u \in torn',
           label \in {"index", "rollback"} => pc[p] = "index" /\ r.user = req[p].user,
           pc[p] \in {"index", "rollback", "droprecord"} =>
               req[p].user \in torn' \/ (pc[p] = "index" /\ label = "rollback" /\ r.user = req[p].user)
    PROVE  IInv'
<1>1. \A u \in Users : UserOK(u)'
    <2>1. SUFFICES ASSUME NEW u \in Users PROVE UserOK(u)'
        OBVIOUS
    <2> QED
        BY UserKept DEF Quiet
<1>2. \A q \in Procs : RequestOK(q)'
    <2>1. ASSUME NEW q \in Procs, q # p PROVE RequestOK(q)'
        <3>1. pc'[q] = pc[q] /\ req'[q] = req[q] /\ record' \in [Users -> Record]
            BY <2>1, MovesOne DEF IInv, TypeOK, Quiet
        <3> QED
            BY <3>1, OthersKnow DEF Quiet, Later
    <2> QED
        BY <2>1
<1> QED
    BY <1>1, <1>2, StepOK

LEMMA NoRequestOK ==
    /\ NoRequest \in Request /\ "idle" \in Labels /\ NoRequest.tries < MaxTries
    /\ NoRequest.op = "none" /\ NoRequest.user = NoUser /\ NoRecord \in Record
<1>1. NoRecord \in Record
    BY DEF NoRecord, Record, Statuses
<1>2. NoRequest \in Request
    BY <1>1 DEF NoRequest, Request, Ops, Statuses
<1> QED
    BY <1>1, <1>2, AccountAssumption DEF NoRequest, Labels

LEMMA IdleOK == ASSUME IInv, NEW p \in Procs, Finish(p) PROVE RequestOK(p)'
<1>1. pc'[p] = "idle" /\ req'[p] = NoRequest
    BY MovesOne DEF Finish
<1> QED
    BY <1>1, NoRequestOK DEF RequestOK, ReqOK, OpsAt, Updaters, Creators

\* A request that ends without a key of the index.
LEMMA FinishOK ==
    ASSUME IInv, NEW p \in Procs, Finish(p), Quiet, Grows, Tables',
           \A u \in Users : u \in managed' => u \in managed \/ (u \in vouched' /\ Creates(req[p], u)),
           \A u \in Users : u \in acked' => u \in acked \/ Creates(req[p], u),
           \/ req[p].user \in torn'
           \/ pc[p] \notin {"index", "rollback", "unclaim", "release", "droprecord"} /\ (pc[p] = "swap" => ~Renames(req[p]))
    PROVE  IInv'
<1>1. RequestOK(p)' /\ GotoWith(p, "idle", NoRequest)
    BY IdleOK DEF Finish
<1>2. \A u \in Users : ~Creates(NoRequest, u)
    BY NoRequestOK DEF Creates, Creators
<1>3. \A u \in Users, e \in Emails : ~HoldsKey("idle", NoRequest, u, e)
    BY DEF HoldsKey
<1>4. \A u \in Users, e \in Emails : Holds(p, u, e) => u \in torn'
    BY DEF Holds, HoldsKey
<1> QED
    BY <1>1, <1>2, <1>3, <1>4, NoRequestOK, QuietOK

\* A request that goes on and neither takes, loses nor tells anything but what it knows.
LEMMA GoOnOK ==
    ASSUME IInv, NEW p \in Procs, NEW label \in Labels, NEW r \in Request, GotoWith(p, label, r), r.tries < MaxTries,
           Quiet, UNCHANGED <<managed, acked, tok, requests, proven, vouched, torn>>, RequestOK(p)',
           r.op = req[p].op, r.user = req[p].user \/ r.op \notin Creators \cup {"rename"} \/ r.user = NoUser,
           \/ pc[p] \notin {"rollback", "unclaim", "release", "droprecord", "index"} /\ (pc[p] = "swap" => ~Renames(req[p]))
              /\ label \notin {"index", "rollback", "unclaim", "release"} /\ (label = "swap" => ~Renames(r))
           \/ pc[p] = "index" /\ label = "rollback" /\ r.user = req[p].user
           \/ pc[p] = "swap" /\ label = "unclaim" /\ r = req[p]
    PROVE  IInv'
<1>1. Grows /\ Tables'
    BY TablesTyped DEF Grows, Quiet, Tables
<1>2. \A u \in Users : Creates(r, u) => Creates(req[p], u)
    BY AccountAssumption DEF Creates
<1>3. \A u \in Users, e \in Emails : HoldsKey(label, r, u, e) <=> Holds(p, u, e)
    <2>0. pc[p] = "index" => req[p].op # "rename"
        BY Locals DEF ReqOK, OpsAt, Creators
    <2> QED
        BY <2>0 DEF Holds, HoldsKey
<1>4. \A u \in Users : r.op = "rename" /\ r.user = u => req[p].op = "rename" /\ req[p].user = u
    BY AccountAssumption
<1> QED
    BY <1>1, <1>2, <1>3, <1>4, QuietOK

\* The first step of a request that creates nobody.
LEMMA StartOK ==
    ASSUME IInv, NEW p \in Procs, NEW label \in Labels, NEW r \in Request, Start(p, label, r), r.tries = 0,
           UNCHANGED <<record, idx, tok, managed, last, erased, acked, vouched, torn>>,
           proven \subseteq proven', proven' \subseteq Emails,
           RequestOK(p)', r.op \notin Creators, r.op = "rename" => r.user \in managed,
           label \in {"lookup", "read", "overwrite", "erase"}
    PROVE  IInv'
<1>1. GotoWith(p, label, r) /\ pc[p] = "idle" /\ requests' \in 0..MaxRequests
    BY AccountAssumption DEF Start, At, IInv, TypeOK
<1>2. Grows /\ Tables' /\ Quiet
    BY <1>1, TablesTyped DEF Grows, Quiet, Tables
<1>3. \A u \in Users, e \in Emails : ~HoldsKey(label, r, u, e) /\ ~Holds(p, u, e)
    BY <1>1 DEF Holds, HoldsKey
<1>4. r.tries < MaxTries
    BY AccountAssumption
<1> QED
    BY <1>1, <1>2, <1>3, <1>4, QuietOK DEF Creates

\* What is true of the locals before a step that writes no record is true after it.
LEMMA KnowsOn ==
    ASSUME IInv, NEW p \in Procs, NEW label, NEW r \in Request, GotoWith(p, label, r), Grows, record' = record, ReqOK(label, r)
    PROVE  RequestOK(p)'
<1>1. pc'[p] = label /\ req'[p] = r
    BY MovesOne
<1> QED
    BY <1>1 DEF RequestOK, ReqOK, Grows, Seen, Stored

LEMMA ResendOK == ASSUME IInv, NEW p \in Procs, Resend(p) PROVE IInv'
<1>0. /\ pc[p] = "resend" /\ UNCHANGED <<kv, history>> /\ ReqOK(pc[p], req[p]) /\ req[p] \in Request
      /\ req[p].tries < MaxTries
    BY Locals DEF Resend, At
<1>1. Quiet /\ Grows /\ Tables'
    BY <1>0, TablesTyped DEF kv, history, Quiet, Grows, Tables
<1>2. CASE Finish(p)
    BY <1>0, <1>1, <1>2, FinishOK DEF kv, history
<1>3. CASE GotoWith(p, "invite", [req[p] EXCEPT !.user = NoUser])
    <2> DEFINE r == [req[p] EXCEPT !.user = NoUser]
    <2>1. /\ r \in Request /\ r.op = req[p].op /\ r.user = NoUser /\ r.tries = req[p].tries
          /\ r.email = req[p].email /\ r.to = req[p].to
        BY <1>0 DEF Request
    <2>2. ReqOK("invite", r) /\ "invite" \in Labels
        BY <1>0, <2>1 DEF ReqOK, OpsAt, Labels
    <2> HIDE DEF r
    <2>3. GotoWith(p, "invite", r)
        BY <1>3 DEF r
    <2>4. RequestOK(p)'
        BY <1>0, <1>1, <2>1, <2>2, <2>3, KnowsOn DEF kv
    <2> QED
        BY <1>0, <1>1, <2>1, <2>2, <2>3, <2>4, GoOnOK DEF kv, history
<1> QED
    BY <1>2, <1>3 DEF Resend

LEMMA VetOK == ASSUME IInv, NEW p \in Procs, Vet(p) PROVE IInv'
<1>0. /\ pc[p] = "vet" /\ UNCHANGED <<kv, history>> /\ ReqOK(pc[p], req[p]) /\ req[p] \in Request
      /\ req[p].tries < MaxTries
    BY Locals DEF Vet, At
<1>1. Quiet /\ Grows
    BY <1>0 DEF kv, history, Quiet, Grows
<1>2. PICK label \in {"erase", "invite", "read"}, to \in Statuses \ {"absent"} :
        GotoWith(p, label, [req[p] EXCEPT !.to = to])
    <2>1. [req[p] EXCEPT !.to = req[p].to] = req[p] /\ req[p].to \in Statuses \ {"absent"}
        BY <1>0 DEF Request, ReqOK, OpsAt, Updaters, Creators
    <2> QED
        BY <2>1 DEF Vet, Goto, Statuses
<1> DEFINE r == [req[p] EXCEPT !.to = to]
<1>3. /\ r \in Request /\ r.op = req[p].op /\ r.user = req[p].user /\ r.tries = req[p].tries
      /\ r.email = req[p].email /\ r.to # "absent"
    BY <1>0 DEF Request
<1>4. ReqOK(label, r) /\ label \in Labels
    BY <1>0, <1>3 DEF ReqOK, OpsAt, Labels, Creators, Updaters
<1>5. GotoWith(p, label, r)
    BY <1>2
<1> HIDE DEF r
<1>6. RequestOK(p)'
    BY <1>0, <1>1, <1>3, <1>4, <1>5, KnowsOn DEF kv
<1> QED
    BY <1>0, <1>1, <1>3, <1>4, <1>5, <1>6, GoOnOK DEF kv, history

LEMMA InviteOK == ASSUME IInv, NEW p \in Procs, NEW t \in Tokens, Invite(p, t) PROVE IInv'
<1>0. /\ pc[p] = "invite" /\ ReqOK(pc[p], req[p]) /\ req[p] \in Request /\ Finish(p)
      /\ UNCHANGED <<record, idx, managed, requests, erased, proven, vouched, last, torn>>
    BY Locals DEF Invite, At
<1>1. req[p].op = "register" /\ req[p].email \in Emails
    BY <1>0 DEF ReqOK, OpsAt, Request
<1>2. tok' \in [Tokens -> Token] /\ \A x \in Tokens : tok'[x].st = "there" => tok'[x].email # NoEmail
    BY <1>1, AccountAssumption DEF Invite, IInv, TypeOK, Token
<1>3. acked' = acked \/ (req[p].user \in Users /\ acked' = acked \cup {req[p].user})
    BY <1>0 DEF Invite, Acknowledge, Request
<1>4. Quiet /\ Grows /\ Tables'
    BY <1>0, <1>2, <1>3, TablesTyped DEF Quiet, Grows, Tables
<1>5. \A u \in Users : u \in acked' => u \in acked \/ Creates(req[p], u)
    BY <1>1, <1>3 DEF Creates, Creators
<1> QED
    BY <1>0, <1>4, <1>5, FinishOK

LEMMA JoinOK == ASSUME IInv, NEW p \in Procs, Join(p) PROVE IInv'
<1>0. /\ pc[p] = "join" /\ ReqOK(pc[p], req[p]) /\ req[p] \in Request /\ req[p].tries < MaxTries
      /\ UNCHANGED <<record, idx, tok, requests, erased, proven, vouched, last, torn>>
    BY Locals DEF Join, At
<1>1. req[p].op = "provision" /\ req[p].user \in Users /\ req[p].user \in vouched
    BY <1>0 DEF ReqOK, OpsAt, Request
<1>2. CASE managed' = managed \cup {req[p].user} /\ Acknowledge(req[p].user) /\ Finish(p)
    <2>1. Quiet /\ Grows /\ Tables' /\ acked' = acked \cup {req[p].user}
        BY <1>0, <1>1, <1>2, TablesTyped, AccountAssumption DEF Quiet, Grows, Tables, Acknowledge
    <2>2. \A u \in Users : u \in managed' => u \in managed \/ (u \in vouched' /\ Creates(req[p], u))
        BY <1>0, <1>1, <1>2 DEF Creates, Creators
    <2>3. \A u \in Users : u \in acked' => u \in acked \/ Creates(req[p], u)
        BY <1>1, <2>1 DEF Creates, Creators
    <2> QED
        BY <1>0, <1>2, <2>1, <2>2, <2>3, FinishOK
<1>3. CASE Goto(p, "erase") /\ UNCHANGED <<managed, acked>>
    <2>1. Quiet /\ Grows
        BY <1>0 DEF Quiet, Grows
    <2>2. ReqOK("erase", req[p]) /\ "erase" \in Labels /\ GotoWith(p, "erase", req[p])
        BY <1>0, <1>1, <1>3 DEF ReqOK, OpsAt, Labels, Creators, Goto
    <2>3. RequestOK(p)'
        BY <1>0, <2>1, <2>2, KnowsOn
    <2> QED
        BY <1>0, <1>3, <2>1, <2>2, <2>3, GoOnOK
<1> QED
    BY <1>2, <1>3 DEF Join

LEMMA PresentTokenOK == ASSUME IInv, NEW p \in Procs, NEW t \in Tokens, PresentToken(p, t) PROVE IInv'
<1> DEFINE r == [NoRequest EXCEPT !.op = tok[t].role, !.token = t, !.email = tok[t].email,
                                  !.to = "active", !.pw = requests + 1]
<1>0. /\ tok[t] \in Token /\ tok[t].st = "there" /\ tok[t].email \in Emails /\ requests \in Nat
      /\ UNCHANGED <<kv, acked, erased, vouched, last, torn>>
    BY AccountAssumption DEF PresentToken, IInv, TypeOK, Token
<1>1. /\ r \in Request /\ r.op = tok[t].role /\ r.user = NoUser /\ r.email = tok[t].email
      /\ r.to = "active" /\ r.tries = 0
    <2>1. tok[t].role \in Ops /\ "active" \in Statuses /\ requests + 1 \in Nat
        BY <1>0 DEF Token, Ops, Statuses
    <2> QED
        BY <1>0, <2>1, NoRequestOK DEF NoRequest, Request
<1>2. tok[t].role \in {"verify", "reset"} /\ (tok[t].role = "verify" => tok[t].email \in proven')
    BY <1>0 DEF PresentToken, Token
<1>3. proven \subseteq proven' /\ proven' \subseteq Emails
    BY <1>0 DEF PresentToken, IInv, TypeOK
<1>4. Start(p, "lookup", r)
    BY DEF PresentToken
<1> HIDE DEF r
<1>5. RequestOK(p)'
    <2>1. pc'[p] = "lookup" /\ req'[p] = r
        BY <1>4, MovesOne DEF Start
    <2> QED
        BY <1>0, <1>1, <1>2, <2>1, AccountAssumption DEF RequestOK, ReqOK, OpsAt
<1> QED
    BY <1>0, <1>1, <1>2, <1>3, <1>4, <1>5, StartOK DEF kv, Creators, Labels

LEMMA LookUpOK == ASSUME IInv, NEW p \in Procs, LookUp(p) PROVE IInv'
<1>0. /\ pc[p] = "lookup" /\ UNCHANGED <<kv, history>> /\ ReqOK(pc[p], req[p]) /\ req[p] \in Request
      /\ req[p].tries < MaxTries
    BY Locals DEF LookUp, At
<1>1. Quiet /\ Grows /\ Tables'
    BY <1>0, TablesTyped DEF kv, history, Quiet, Grows, Tables
<1>2. CASE Finish(p)
    BY <1>0, <1>1, <1>2, FinishOK DEF kv, history
<1>3. CASE ~Finish(p)
    <2> DEFINE u == idx[req[p].email]
               r == [req[p] EXCEPT !.user = u]
    <2>1. req[p].op \in {"verify", "reset"} /\ req[p].email \in Emails
        BY <1>0 DEF ReqOK, OpsAt, Request
    <2>2. PICK label \in {"cleanup", "read"} :
            GotoWith(p, label, r) /\ Taken(req[p].email)
        BY <1>3 DEF LookUp
    <2>3. u \in Users /\ Stored(u) /\ UserOK(u) /\ u # NoUser
        BY <2>1, <2>2, AccountAssumption DEF Taken, IInv, TypeOK
    <2>4. /\ r \in Request /\ r.op = req[p].op /\ r.user = u /\ r.tries = req[p].tries
          /\ r.email = req[p].email /\ r.to = req[p].to
        BY <1>0, <2>3 DEF Request
    <2>5. record[u].rev > 0
        BY <2>3 DEF UserOK, CreationOK, IInv, TypeOK, Record
    <2>6. u \notin vouched => record[u].email = req[p].email
        BY <2>1, <2>3 DEF UserOK, RecordOK
    <2> HIDE DEF u, r
    <2>7. ReqOK(label, r) /\ label \in Labels
        BY <1>0, <2>1, <2>3, <2>4, <2>5, <2>6 DEF ReqOK, OpsAt, Labels, Updaters
    <2>8. RequestOK(p)'
        BY <1>0, <1>1, <2>2, <2>4, <2>7, KnowsOn DEF kv
    <2> QED
        BY <1>0, <1>1, <2>1, <2>2, <2>4, <2>7, <2>8, GoOnOK DEF kv, history, Creators
<1> QED
    BY <1>2, <1>3

LEMMA CleanUpOK == ASSUME IInv, NEW p \in Procs, CleanUp(p) PROVE IInv'
<1>1. tok' \in [Tokens -> Token] /\ \A t \in Tokens : tok'[t].st = "there" => tok'[t].email # NoEmail
    BY DEF CleanUp, IInv, TypeOK, Token
<1>2. Quiet /\ Grows /\ Tables'
    BY <1>1, TablesTyped DEF CleanUp, history, Quiet, Grows, Tables
<1> QED
    BY <1>2, FinishOK DEF CleanUp, history, At

\* A request leaves the loop, or goes on to what follows it, and writes nothing.
LEMMA ProceedOK ==
    ASSUME IInv, NEW p \in Procs, UNCHANGED <<kv, history>>, NEW label, Proceed(p, label),
           pc[p] = "read" \/ (pc[p] = "swap" /\ ~Renames(req[p])),
           \/ label = "idle"
           \/ label = "invite" /\ req[p].op = "register"
           \/ label = "erase" /\ req[p].op = "provision"
           \/ label = "cleanup" /\ req[p].op \in {"verify", "reset"}
    PROVE  IInv'
<1>0. ReqOK(pc[p], req[p]) /\ req[p] \in Request /\ req[p].tries < MaxTries
    BY Locals
<1>1. Quiet /\ Grows /\ Tables'
    BY TablesTyped DEF kv, history, Quiet, Grows, Tables
<1>2. CASE label = "idle"
    BY <1>0, <1>1, <1>2, FinishOK DEF Proceed, kv, history
<1>3. CASE label # "idle"
    <2>1. GotoWith(p, label, req[p])
        BY <1>3 DEF Proceed, Goto
    <2>2. ReqOK(label, req[p]) /\ label \in Labels
        BY <1>0, <1>3 DEF ReqOK, OpsAt, Labels, Creators
    <2>3. RequestOK(p)'
        BY <1>0, <1>1, <2>1, <2>2, KnowsOn DEF kv
    <2> QED
        BY <1>0, <1>1, <1>3, <2>1, <2>2, <2>3, GoOnOK DEF kv, history
<1> QED
    BY <1>2, <1>3

\* Where the error of a loop, and a closure that changes nothing, lead.
LEMMA AfterOK ==
    ASSUME NEW r, r.op \in Updaters, NEW m \in {"error", "same"}, m = "same" => ~Modifies(r, r.seen)
    PROVE  LET label == IF m = "error" THEN AfterError(r) ELSE AfterWrite(r)
           IN \/ label = "idle"
              \/ label = "invite" /\ r.op = "register"
              \/ label = "erase" /\ r.op = "provision"
              \/ label = "cleanup" /\ r.op \in {"verify", "reset"}
<1>1. m = "same" => r.op \in {"verify", "hook", "register"}
    BY DEF Modifies, Updaters, Creators
<1> QED
    BY <1>1 DEF AfterError, AfterWrite, Renames

LEMMA ReadUserOK == ASSUME IInv, NEW p \in Procs, ReadUser(p) PROVE IInv'
<1> DEFINE u == req[p].user
           seen == record[u]
           r == [req[p] EXCEPT !.seen = seen]
<1>0. /\ pc[p] = "read" /\ UNCHANGED <<kv, history>> /\ ReqOK(pc[p], req[p]) /\ req[p] \in Request
      /\ req[p].tries < MaxTries /\ req[p].op \in Updaters
    BY Locals DEF ReadUser, At, ReqOK, OpsAt
<1>1. u \in Users /\ u # NoUser /\ seen \in Record /\ UserOK(u)
    BY <1>0, AccountAssumption DEF ReqOK, Request, IInv, TypeOK
<1>2. /\ r \in Request /\ r.op = req[p].op /\ r.user = u /\ r.tries = req[p].tries /\ r.email = req[p].email
      /\ r.to = req[p].to /\ r.seen = seen
    BY <1>0, <1>1 DEF Request
<1>3. Quiet /\ Grows
    BY <1>0 DEF kv, history, Quiet, Grows
<1>4. CASE ~Stored(u) /\ Proceed(p, AfterError(r))
    <2>1. AfterError(r) = AfterError(req[p])
        BY <1>2 DEF AfterError
    <2>2. LET label == AfterError(req[p])
          IN \/ label = "idle"
             \/ label = "invite" /\ req[p].op = "register"
             \/ label = "erase" /\ req[p].op = "provision"
             \/ label = "cleanup" /\ req[p].op \in {"verify", "reset"}
        BY <1>0, AfterOK
    <2> QED
        BY <1>0, <1>4, <2>1, <2>2, ProceedOK
<1>5. CASE ~Modifies(r, seen) /\ Proceed(p, AfterWrite(r))
    <2>1. LET label == AfterWrite(r)
          IN \/ label = "idle"
             \/ label = "invite" /\ r.op = "register"
             \/ label = "erase" /\ r.op = "provision"
             \/ label = "cleanup" /\ r.op \in {"verify", "reset"}
        BY <1>0, <1>2, <1>5, AfterOK
    <2> QED
        BY <1>0, <1>2, <1>5, <2>1, ProceedOK
<1>6. CASE Stored(u) /\ Modifies(r, seen) /\ GotoWith(p, IF Renames(r) THEN "claim" ELSE "swap", r)
    <2>1. PICK label \in {"claim", "swap"} : GotoWith(p, label, r) /\ (label = "claim" <=> Renames(r))
        BY <1>6
    <2>2. seen.st # "absent" /\ seen.email # NoEmail
        BY <1>1, <1>6 DEF Stored, UserOK, RecordOK
    <2>3. Seen(r)
        BY <1>1, <1>2 DEF Seen, Record
    <2>4. r.op = "verify" => seen.st = "pending"
        BY <1>2, <1>6 DEF Modifies
    <2>5. Renames(r) => r.op = "rename"
        BY DEF Renames
    <2> HIDE DEF u, seen, r
    <2>6. ReqOK(label, r) /\ label \in Labels
        BY <1>0, <1>2, <2>1, <2>2, <2>3, <2>4, <2>5 DEF ReqOK, OpsAt, Labels, u
    <2>7. RequestOK(p)'
        BY <1>0, <1>2, <1>3, <2>1, <2>6, KnowsOn DEF kv
    <2> QED
        BY <1>0, <1>2, <1>3, <2>1, <2>6, <2>7, GoOnOK DEF kv, history, u
<1> QED
    BY <1>4, <1>5, <1>6 DEF ReadUser

LEMMA SwapConflictOK == ASSUME IInv, NEW p \in Procs, SwapConflict(p) PROVE IInv'
<1>0. /\ pc[p] = "swap" /\ UNCHANGED <<kv, history>> /\ ReqOK(pc[p], req[p]) /\ req[p] \in Request
      /\ req[p].tries < MaxTries /\ req[p].op \in Updaters
    BY Locals DEF SwapConflict, At, ReqOK, OpsAt
<1>1. Quiet /\ Grows
    BY <1>0 DEF kv, history, Quiet, Grows
<1>2. CASE Renames(req[p]) /\ Goto(p, "unclaim")
    <2>1. ReqOK("unclaim", req[p]) /\ "unclaim" \in Labels /\ GotoWith(p, "unclaim", req[p])
        BY <1>0, <1>2 DEF ReqOK, OpsAt, Labels, Goto, Renames
    <2>2. RequestOK(p)'
        BY <1>0, <1>1, <2>1, KnowsOn DEF kv
    <2> QED
        BY <1>0, <1>1, <2>1, <2>2, GoOnOK DEF kv, history
<1>3. CASE ~Renames(req[p]) /\ Retry(p)
    <2>1. CASE req[p].tries + 1 < MaxTries /\ GotoWith(p, "read", [req[p] EXCEPT !.tries = @ + 1])
        <3> DEFINE r == [req[p] EXCEPT !.tries = @ + 1]
        <3>1. /\ r \in Request /\ r.op = req[p].op /\ r.user = req[p].user /\ r.email = req[p].email
              /\ r.to = req[p].to /\ r.tries < MaxTries
            BY <1>0, <2>1 DEF Request
        <3>2. GotoWith(p, "read", r)
            BY <2>1
        <3> HIDE DEF r
        <3>3. ReqOK("read", r) /\ "read" \in Labels
            BY <1>0, <3>1 DEF ReqOK, OpsAt, Labels
        <3>4. RequestOK(p)'
            BY <1>0, <1>1, <3>1, <3>2, <3>3, KnowsOn DEF kv
        <3> QED
            BY <1>0, <1>1, <1>3, <3>1, <3>2, <3>3, <3>4, GoOnOK DEF kv, history
    <2>2. CASE Proceed(p, AfterError(req[p]))
        <3>1. LET label == AfterError(req[p])
              IN \/ label = "idle"
                 \/ label = "invite" /\ req[p].op = "register"
                 \/ label = "erase" /\ req[p].op = "provision"
                 \/ label = "cleanup" /\ req[p].op \in {"verify", "reset"}
            BY <1>0, AfterOK
        <3> QED
            BY <1>0, <1>3, <2>2, <3>1, ProceedOK
    <2> QED
        BY <1>3, <2>1, <2>2 DEF Retry
<1> QED
    BY <1>2, <1>3 DEF SwapConflict

\* A stored user's record is one that was written.
LEMMA StoredOK ==
    ASSUME IInv, NEW u \in Users, Stored(u)
    PROVE  u # NoUser /\ record[u] \in Record /\ record[u].rev > 0 /\ record[u].st # "absent" /\ record[u].email # NoEmail
BY AccountAssumption DEF IInv, UserOK, CreationOK, RecordOK, TypeOK, Record, Stored

\* Hooks, renames, activations and erasures begin.
LEMMA BeginOK ==
    ASSUME IInv, NEW p \in Procs, NEW u \in Users, Stored(u), NEW label, NEW r,
           \/ label = "read" /\ \E st \in Statuses \ {"absent"} :
                 r = [NoRequest EXCEPT !.op = "hook", !.user = u, !.to = st]
           \/ label = "read" /\ u \in managed /\ \E e \in Emails, st \in Statuses \ {"absent"} :
                 r = [NoRequest EXCEPT !.op = "rename", !.user = u, !.email = e, !.to = st]
           \/ label = "overwrite" /\ r = [NoRequest EXCEPT !.op = "activate", !.user = u, !.seen = record[u]]
           \/ label = "erase" /\ r = [NoRequest EXCEPT !.op = "erase", !.user = u],
           Start(p, label, r), UNCHANGED <<kv, acked, erased, proven, vouched, last, torn>>
    PROVE  IInv'
<1>1. u # NoUser /\ record[u] \in Record /\ record[u].rev > 0 /\ record[u].st # "absent" /\ record[u].email # NoEmail
    BY StoredOK
<1>2. /\ r \in Request /\ r.user = u /\ r.tries = 0 /\ r.op \in {"hook", "rename", "activate", "erase"}
      /\ r.op = "rename" => r.email # NoEmail /\ u \in managed
      /\ r.op \in {"hook", "rename"} => r.to # "absent"
      /\ r.op \in OpsAt(label) /\ label \in {"read", "overwrite", "erase"}
      /\ r.op = "activate" => r.seen = record[u]
      /\ label = "overwrite" => r.op = "activate"
    <2>1. CASE label = "read" /\ \E st \in Statuses \ {"absent"} :
                 r = [NoRequest EXCEPT !.op = "hook", !.user = u, !.to = st]
        BY <2>1, NoRequestOK DEF NoRequest, Request, Ops, OpsAt, Updaters
    <2>2. CASE label = "read" /\ u \in managed /\ \E e \in Emails, st \in Statuses \ {"absent"} :
                 r = [NoRequest EXCEPT !.op = "rename", !.user = u, !.email = e, !.to = st]
        <3>1. PICK e \in Emails, st \in Statuses \ {"absent"} :
                 r = [NoRequest EXCEPT !.op = "rename", !.user = u, !.email = e, !.to = st]
            BY <2>2
        <3>2. r \in Request
            BY <3>1, NoRequestOK DEF NoRequest, Request, Ops
        <3>3. r.user = u /\ r.tries = 0 /\ r.op = "rename" /\ r.email = e /\ r.to # "absent"
            BY <3>1 DEF NoRequest
        <3>4. e # NoEmail
            BY AccountAssumption
        <3> QED
            BY <2>2, <3>2, <3>3, <3>4 DEF OpsAt, Updaters
    <2>3. CASE label = "overwrite" /\ r = [NoRequest EXCEPT !.op = "activate", !.user = u, !.seen = record[u]]
        BY <1>1, <2>3, NoRequestOK DEF NoRequest, Request, Ops, OpsAt
    <2>4. CASE label = "erase" /\ r = [NoRequest EXCEPT !.op = "erase", !.user = u]
        BY <2>4, NoRequestOK DEF NoRequest, Request, Ops, OpsAt
    <2> QED
        BY <2>1, <2>2, <2>3, <2>4
<1>3. u \in managed => u \in vouched
    BY DEF IInv, UserOK, RecordOK
<1>4. ReqOK(label, r) /\ label \in Labels
    BY <1>1, <1>2, <1>3 DEF ReqOK, Labels, Updaters, Creators
<1>5. GotoWith(p, label, r) /\ Grows /\ record' = record
    BY DEF Start, Grows, kv
<1>6. RequestOK(p)'
    BY <1>2, <1>4, <1>5, KnowsOn
<1> QED
    BY <1>2, <1>4, <1>6, StartOK DEF kv, Creators, IInv, TypeOK

LEMMA BeginsOK ==
    ASSUME IInv, NEW p \in Procs, NEW u \in Users,
           \/ BeginActivate(p, u) \/ BeginErase(p, u)
           \/ \E st \in {"active", "barred"} : BeginHook(p, u, st) \/ \E e \in Emails : BeginRename(p, u, e, st)
    PROVE  IInv'
<1>1. {"active", "barred"} \subseteq Statuses \ {"absent"} /\ Stored(u)
    BY DEF Statuses, BeginActivate, BeginErase, BeginHook, BeginRename, Stored
<1> QED
    BY <1>1, BeginOK DEF BeginActivate, BeginErase, BeginHook, BeginRename

LEMMA ReadForEraseOK == ASSUME IInv, NEW p \in Procs, ReadForErase(p) PROVE IInv'
<1>0. /\ pc[p] = "erase" /\ UNCHANGED <<kv, history>> /\ ReqOK(pc[p], req[p]) /\ req[p] \in Request
      /\ req[p].tries < MaxTries /\ req[p].user \in Users
    BY Locals DEF ReadForErase, At, ReqOK, Request
<1>1. Quiet /\ Grows /\ Tables'
    BY <1>0, TablesTyped DEF kv, history, Quiet, Grows, Tables
<1>2. CASE Finish(p)
    BY <1>0, <1>1, <1>2, FinishOK DEF kv, history
<1>3. CASE Stored(req[p].user) /\ GotoWith(p, "dropindex", [req[p] EXCEPT !.seen = record[req[p].user]])
    <2> DEFINE r == [req[p] EXCEPT !.seen = record[req[p].user]]
    <2>1. /\ record[req[p].user] \in Record /\ record[req[p].user].st # "absent"
          /\ record[req[p].user].email # NoEmail
        BY <1>0, <1>3, StoredOK
    <2>2. /\ r \in Request /\ r.op = req[p].op /\ r.user = req[p].user /\ r.email = req[p].email
          /\ r.to = req[p].to /\ r.tries = req[p].tries /\ r.seen = record[req[p].user]
        BY <1>0, <2>1 DEF Request
    <2>3. GotoWith(p, "dropindex", r)
        BY <1>3
    <2> HIDE DEF r
    <2>4. ReqOK("dropindex", r) /\ "dropindex" \in Labels
        BY <1>0, <2>1, <2>2 DEF ReqOK, OpsAt, Labels
    <2>5. RequestOK(p)'
        BY <1>0, <1>1, <2>2, <2>3, <2>4, KnowsOn DEF kv
    <2> QED
        BY <1>0, <1>1, <2>2, <2>3, <2>4, <2>5, GoOnOK DEF kv, history
<1> QED
    BY <1>2, <1>3 DEF ReadForErase

LEMMA CrashOK == ASSUME IInv, NEW p \in Procs, Crash(p) PROVE IInv'
<1>1. req[p] \in Request /\ ReqOK(pc[p], req[p])
    BY Locals
<1>2. /\ req[p].user \in Users \cup {NoUser}
      /\ pc[p] \in {"index", "rollback", "unclaim", "release", "droprecord", "swap"} => req[p].user # NoUser
    BY <1>1 DEF ReqOK, Request
<1>3. Quiet /\ Grows /\ Tables'
    BY <1>2, TablesTyped DEF Crash, kv, Quiet, Grows, Tables
<1> QED
    BY <1>2, <1>3, FinishOK DEF Crash, kv

(***************************************************************************)
(* Steps of no request.                                                    *)
(***************************************************************************)
LEMMA TokensOK ==
    ASSUME IInv, UNCHANGED <<record, idx, managed, pc, req, acked, erased, proven, vouched, last, torn>>,
           tok' \in [Tokens -> Token], \A t \in Tokens : tok'[t].st = "there" => tok'[t].email # NoEmail,
           requests' \in 0..MaxRequests
    PROVE  IInv'
<1>1. TypeOK'
    BY DEF IInv, TypeOK
<1>2. \A p \in Procs : RequestOK(p)'
    BY DEF IInv, RequestOK, ReqOK, Seen, Stored
<1>3. \A u \in Users : UserOK(u)'
    <2> SUFFICES ASSUME NEW u \in Users PROVE UserOK(u)'
        OBVIOUS
    <2>1. UserOK(u)
        BY DEF IInv
    <2>2. CreationOK(u)'
        BY <2>1 DEF UserOK, CreationOK, Unindexed, Stored
    <2>3. RecordOK(u)'
        BY <2>1 DEF UserOK, RecordOK, Stored
    <2>4. KeysOK(u)' /\ OwnedOK(u)'
        BY <2>1 DEF UserOK, KeysOK, OwnedOK, Whole, Unindexed, Holds, Stored, At
    <2> QED
        BY <2>2, <2>3, <2>4 DEF UserOK
<1> QED
    BY <1>1, <1>2, <1>3 DEF IInv

LEMMA StartResetOK == ASSUME IInv, NEW u \in Users, NEW t \in Tokens, StartReset(u, t) PROVE IInv'
<1>1. record[u].email \in Emails
    BY StoredOK DEF StartReset, Record
<1>2. tok' \in [Tokens -> Token] /\ \A x \in Tokens : tok'[x].st = "there" => tok'[x].email # NoEmail
    BY <1>1, AccountAssumption DEF StartReset, IInv, TypeOK, Token
<1> QED
    BY <1>2, TokensOK, AccountAssumption DEF StartReset, IInv, TypeOK

LEMMA ExpireTokenOK == ASSUME IInv, NEW t \in Tokens, ExpireToken(t) PROVE IInv'
<1>1. tok' \in [Tokens -> Token] /\ \A x \in Tokens : tok'[x].st = "there" => tok'[x].email # NoEmail
    BY DEF ExpireToken, IInv, TypeOK, Token
<1> QED
    BY <1>1, TokensOK DEF ExpireToken, history, IInv, TypeOK

(***************************************************************************)
(* Steps that write a record or the index.                                 *)
(***************************************************************************)
LEMMA AllKnow ==
    ASSUME IInv, NEW p \in Procs, NEW label, NEW r, GotoWith(p, label, r), RequestOK(p)', Grows,
           record' \in [Users -> Record],
           \A q \in Procs \ {p} : req[q].user # NoUser => Later(req[q].user)
    PROVE  \A q \in Procs : RequestOK(q)'
<1>1. ASSUME NEW q \in Procs \ {p} PROVE RequestOK(q)'
    <2>1. pc'[q] = pc[q] /\ req'[q] = req[q]
        BY MovesOne
    <2> QED
        BY <2>1, OthersKnow
<1> QED
    BY <1>1

\* A user whom the step of p is not about, though it may take keys of the user.
LEMMA OtherKept ==
    ASSUME IInv, NEW p \in Procs, NEW label, NEW r, GotoWith(p, label, r), NEW u \in Users,
           record'[u] = record[u], last'[u] = last[u], Grows,
           u \in erased' => u \in erased, u \in managed' => u \in managed, u \in acked' => u \in acked,
           \A e \in Emails : idx'[e] = u => idx[e] = u,
           \A e \in Emails : idx[e] = u => idx'[e] = u \/ u \in torn',
           req[p].user # u \/ pc[p] = "idle", r.user # u
    PROVE  UserOK(u)'
<1>1. ReqOK(pc[p], req[p])
    BY Locals
<1>2. ~Creates(req[p], u) /\ ~Creates(r, u)
    BY <1>1 DEF Creates, Creators, ReqOK, OpsAt
<1>3. \A e \in Emails : ~HoldsKey(label, r, u, e) /\ ~Holds(p, u, e)
    BY <1>1 DEF Holds, HoldsKey, ReqOK, OpsAt
<1> QED
    BY <1>2, <1>3, UserKept

LEMMA CreateUserOK ==
    ASSUME IInv, NEW p \in Procs, NEW op \in Creators, NEW u \in Users, NEW e \in Emails, NEW st \in {"active", "barred"},
           CreateUser(p, op, u, e, st),
           IF op = "provision" THEN vouched' = vouched \cup {u} ELSE vouched' = vouched
    PROVE  IInv'
<1> DEFINE r == [NoRequest EXCEPT !.op = op, !.user = u, !.email = e, !.to = st]
<1>0. /\ record[u].rev = 0 /\ record[u] \in Record /\ UserOK(u) /\ u # NoUser /\ e # NoEmail
      /\ record \in [Users -> Record]
      /\ UNCHANGED <<idx, tok, managed, acked, erased, proven, last, torn>>
    BY AccountAssumption DEF CreateUser, IInv, TypeOK
<1>1. r \in Request /\ r.op = op /\ r.user = u /\ r.email = e /\ r.tries = 0 /\ r.to # "absent"
    BY NoRequestOK DEF NoRequest, Request, Ops, Statuses, Creators
<1>2. GotoWith(p, "index", r) /\ pc[p] = "idle" /\ requests' \in 0..MaxRequests
    BY AccountAssumption DEF CreateUser, Start, At, IInv, TypeOK
<1>3. /\ record'[u] = [st |-> InitialStatus(op, st), email |-> e, pw |-> 0, rev |-> 1]
      /\ \A v \in Users \ {u} : record'[v] = record[v]
      /\ record' \in [Users -> Record]
    <2>1. InitialStatus(op, st) \in Statuses
        BY DEF InitialStatus, Statuses
    <2>2. record' = [record EXCEPT ![u] = [st |-> InitialStatus(op, st), email |-> e, pw |-> 0, rev |-> 1]]
        BY <1>0 DEF CreateUser, Write
    <2> QED
        BY <1>0, <2>1, <2>2 DEF Record
<1>4. Grows /\ Tables'
    BY <1>0, <1>2, <1>3, TablesTyped DEF Grows, Tables
<1>5. /\ u \notin managed \cup acked \cup erased /\ last[u] = 0 /\ \A x \in Emails : idx[x] # u
      /\ \A q \in Procs : req[q].user # u
    BY <1>0, Locals DEF UserOK, CreationOK, ReqOK
<1> HIDE DEF r
<1>6. /\ pc'[p] = "index" /\ req'[p] = r
      /\ \A q \in Procs \ {p} : pc'[q] = pc[q] /\ req'[q] = req[q]
    BY <1>2, MovesOne
<1>7. UserOK(u)'
    <2>1. \A q \in Procs : req'[q].user = u => q = p
        BY <1>5, <1>6
    <2>2. CreationOK(u)'
        BY <1>0, <1>1, <1>3, <1>5, <1>6, <2>1 DEF CreationOK, Creates, Creators, Unindexed
    <2>3. InitialStatus(op, st) = "active" => u \in vouched'
        BY DEF InitialStatus, Creators
    <2>4. RecordOK(u)'
        BY <1>0, <1>3, <1>5, <2>3 DEF RecordOK, Stored
    <2>5. \A q \in Procs, x \in Emails : ~Holds(q, u, x)'
        BY <1>1, <1>6, <2>1 DEF Holds, HoldsKey, Creators
    <2>6. Unindexed(u)'
        BY <1>1, <1>6 DEF Unindexed
    <2>7. KeysOK(u)' /\ OwnedOK(u)'
        BY <1>0, <1>5, <2>5, <2>6 DEF KeysOK, OwnedOK
    <2> QED
        BY <2>2, <2>4, <2>7 DEF UserOK
<1>8. ASSUME NEW v \in Users, v # u PROVE UserOK(v)'
    BY <1>0, <1>1, <1>2, <1>3, <1>4, <1>8, OtherKept
<1>9. RequestOK(p)'
    <2>1. op = "provision" => u \in vouched'
        OBVIOUS
    <2> QED
        BY <1>0, <1>1, <1>3, <1>6, <2>1 DEF RequestOK, ReqOK, OpsAt, Creators
<1>10. \A q \in Procs : RequestOK(q)'
    <2>1. \A q \in Procs \ {p} : req[q].user # NoUser => Later(req[q].user)
        <3>1. \A q \in Procs : req[q].user \in Users \cup {NoUser} /\ req[q].user # u
            BY <1>5, Locals DEF Request
        <3> QED
            BY <1>3, <3>1 DEF Later
    <2> QED
        BY <1>2, <1>3, <1>4, <1>9, <2>1, AllKnow
<1>11. "index" \in Labels /\ r.tries < MaxTries
    BY <1>1, AccountAssumption DEF Labels
<1>12. \A v \in Users : UserOK(v)'
    BY <1>7, <1>8
<1> QED
    BY <1>1, <1>2, <1>4, <1>10, <1>11, <1>12, StepOK

LEMMA CreatesOK ==
    ASSUME IInv, NEW p \in Procs, NEW u \in Users, NEW e \in Emails,
           BeginRegister(p, u, e) \/ \E st \in {"active", "barred"} : BeginProvision(p, u, e, st)
    PROVE  IInv'
BY CreateUserOK DEF BeginRegister, BeginProvision, Creators

\* Steps that leave the records alone, from the point of view of the requests.
LEMMA IndexWriteOK ==
    ASSUME IInv, NEW p \in Procs, NEW label \in Labels, NEW r \in Request, GotoWith(p, label, r), r.tries < MaxTries,
           UNCHANGED <<record, tok, managed, requests, acked, erased, proven, vouched, last>>,
           idx' \in [Emails -> Users \cup {NoUser}], torn \subseteq torn', torn' \subseteq Users, ReqOK(label, r),
           \A u \in Users : UserOK(u)'
    PROVE  IInv'
<1>1. Grows /\ Tables'
    BY TablesTyped DEF Grows, Tables
<1>2. RequestOK(p)'
    BY <1>1, KnowsOn
<1>3. \A q \in Procs : RequestOK(q)'
    BY <1>1, <1>2, AllKnow DEF Later, Tables
<1> QED
    BY <1>1, <1>3, StepOK

LEMMA CreateIndexOK == ASSUME IInv, NEW p \in Procs, CreateIndex(p) PROVE IInv'
<1>0. /\ pc[p] = "index" /\ ReqOK(pc[p], req[p]) /\ req[p] \in Request /\ req[p].tries < MaxTries
      /\ req[p].op \in Creators /\ req[p].user \in Users /\ req[p].email \in Emails
      /\ UNCHANGED <<record, tok, managed, requests, acked, erased, proven, vouched, last>>
    BY Locals DEF CreateIndex, At, ReqOK, OpsAt, Request, Creators
<1>1. CASE Goto(p, "rollback") /\ UNCHANGED <<idx, torn>>
    <2>1. Quiet /\ Grows
        BY <1>0, <1>1 DEF Quiet, Grows
    <2>2. ReqOK("rollback", req[p]) /\ "rollback" \in Labels /\ GotoWith(p, "rollback", req[p])
        BY <1>0, <1>1 DEF ReqOK, OpsAt, Labels, Goto
    <2>3. RequestOK(p)'
        BY <1>0, <2>1, <2>2, KnowsOn
    <2> QED
        BY <1>0, <1>1, <2>1, <2>2, <2>3, GoOnOK
<1>2. CASE /\ idx[req[p].email] = NoUser
           /\ idx' = [idx EXCEPT ![req[p].email] = req[p].user]
           /\ torn' = IF Stored(req[p].user) THEN torn ELSE torn \cup {req[p].user}
           /\ Goto(p, IF req[p].op = "provision" THEN "read" ELSE "vet")
    <2>1. PICK v \in Users, e \in Emails, label \in {"read", "vet"} :
            /\ v = req[p].user /\ e = req[p].email /\ v # NoUser
            /\ GotoWith(p, label, req[p])
            /\ label = "vet" <=> req[p].op = "register"
        BY <1>0, <1>2, AccountAssumption DEF Goto, Creators
    <2>2. /\ idx \in [Emails -> Users \cup {NoUser}] /\ idx' = [idx EXCEPT ![e] = v] /\ idx[e] = NoUser
          /\ torn \subseteq torn' /\ torn' \subseteq Users /\ (v \notin torn' => Stored(v))
          /\ UserOK(v)
        BY <1>2, <2>1 DEF IInv, TypeOK
    <2>3. ReqOK(label, req[p]) /\ label \in Labels
        BY <1>0, <2>1 DEF ReqOK, OpsAt, Labels, Creators, Updaters
    <2>4. /\ pc'[p] = label /\ req'[p] = req[p]
          /\ \A q \in Procs \ {p} : pc'[q] = pc[q] /\ req'[q] = req[q]
        BY <2>1, MovesOne
    <2>5. UserOK(v)'
        <3>1. Creates(req[p], v) /\ Unindexed(v)
            BY <1>0, <2>1 DEF Creates, Unindexed
        <3>2. /\ \A q \in Procs : Creates(req[q], v) => q = p
              /\ \A q \in Procs : ~(req[q].op = "rename" /\ req[q].user = v)
              /\ v \notin managed \cup acked /\ \A x \in Emails : idx[x] # v
            BY <2>2, <3>1 DEF UserOK, CreationOK
        <3>3. \A q \in Procs : req'[q] = req[q]
            BY <2>4
        <3>4. ~Unindexed(v)'
            <4>1. ASSUME NEW q \in Procs, pc'[q] \in {"index", "rollback"}, req'[q].user = v PROVE FALSE
                <5>1. q # p
                    BY <2>4, <4>1
                <5>2. pc[q] \in {"index", "rollback"} /\ req[q].user = v
                    BY <2>4, <4>1, <5>1
                <5>3. req[q].op \in Creators
                    BY <5>2, Locals DEF ReqOK, OpsAt
                <5> QED
                    BY <3>2, <5>1, <5>2, <5>3 DEF Creates
            <4> QED
                BY <4>1 DEF Unindexed
        <3>5. record'[v].rev # 0 /\ Stored(v)' = Stored(v)
            BY <1>0, <2>1, AccountAssumption DEF ReqOK, Stored, IInv, TypeOK, Record
        <3>6. CreationOK(v)'
            BY <1>0, <3>2, <3>3, <3>4, <3>5 DEF CreationOK, Creates
        <3>7. \A x \in Emails : idx'[x] = v <=> x = e
            BY <2>1, <2>2, <3>2
        <3>8. Stored(v) /\ v \notin vouched \cap torn => record[v].email = e
            BY <1>0, <2>1 DEF ReqOK
        <3>9. RecordOK(v)'
            BY <1>0, <2>2, <3>5, <3>7, <3>8 DEF UserOK, RecordOK
        <3>10. \A q \in Procs, x \in Emails : ~Holds(q, v, x)'
            BY <3>2, <3>3 DEF Holds, HoldsKey
        <3>11. v \notin torn' => Stored(v)' /\ record'[v].email = e /\ record'[v].email \in Emails
            BY <1>0, <2>1, <2>2, <3>5, <3>8
        <3>12. KeysOK(v)' /\ OwnedOK(v)'
            BY <3>7, <3>10, <3>11 DEF KeysOK, OwnedOK, Whole
        <3> QED
            BY <3>6, <3>9, <3>12 DEF UserOK
    <2>6. ASSUME NEW u \in Users, u # v PROVE UserOK(u)'
        <3>1. Grows
            BY <1>0, <2>2 DEF Grows
        <3>2. \A x \in Emails : idx'[x] = u <=> idx[x] = u
            BY <2>2, <2>6, AccountAssumption
        <3> QED
            BY <1>0, <2>1, <2>6, <3>1, <3>2, OtherKept
    <2>7. idx' \in [Emails -> Users \cup {NoUser}] /\ \A u \in Users : UserOK(u)'
        BY <2>2, <2>5, <2>6
    <2> QED
        BY <1>0, <2>1, <2>2, <2>3, <2>7, IndexWriteOK
<1> QED
    BY <1>1, <1>2 DEF CreateIndex

LEMMA ClaimEmailOK == ASSUME IInv, NEW p \in Procs, ClaimEmail(p) PROVE IInv'
<1>0. /\ pc[p] = "claim" /\ ReqOK(pc[p], req[p]) /\ req[p] \in Request /\ req[p].tries < MaxTries
      /\ req[p].op = "rename" /\ req[p].user \in Users /\ req[p].email \in Emails
      /\ UNCHANGED <<record, tok, managed, history>>
    BY Locals DEF ClaimEmail, At, ReqOK, OpsAt, Request
<1>1. CASE Finish(p) /\ UNCHANGED idx
    <2>1. Quiet /\ Grows /\ Tables'
        BY <1>0, <1>1, TablesTyped DEF history, Quiet, Grows, Tables
    <2> QED
        BY <1>0, <1>1, <2>1, FinishOK DEF history
<1>2. CASE /\ idx[req[p].email] = NoUser /\ idx' = [idx EXCEPT ![req[p].email] = req[p].user] /\ Goto(p, "swap")
    <2>1. PICK v \in Users, e \in Emails : v = req[p].user /\ e = req[p].email /\ v # NoUser
        BY <1>0, AccountAssumption
    <2>2. /\ idx \in [Emails -> Users \cup {NoUser}] /\ idx' = [idx EXCEPT ![e] = v] /\ idx[e] = NoUser
          /\ UserOK(v) /\ v \in vouched /\ Renames(req[p]) /\ GotoWith(p, "swap", req[p])
        BY <1>0, <1>2, <2>1 DEF IInv, TypeOK, ReqOK, Goto
    <2>3. ReqOK("swap", req[p]) /\ "swap" \in Labels
        BY <1>0 DEF ReqOK, OpsAt, Labels, Updaters
    <2>4. /\ pc'[p] = "swap" /\ req'[p] = req[p]
          /\ \A q \in Procs \ {p} : pc'[q] = pc[q] /\ req'[q] = req[q]
        BY <2>2, MovesOne
    <2>5. UserOK(v)'
        <3>1. \A q \in Procs : ~Creates(req[q], v)
            BY <1>0, <2>1, <2>2 DEF UserOK, CreationOK
        <3>2. \A q \in Procs : req'[q] = req[q]
            BY <2>4
        <3>3. ~Unindexed(v) /\ ~Unindexed(v)'
            <4>1. \A q \in Procs : pc[q] \in {"index", "rollback"} => req[q].op \in Creators
                BY Locals DEF ReqOK, OpsAt
            <4> QED
                BY <2>4, <3>1, <4>1 DEF Unindexed, Creates
        <3>4. record'[v].rev # 0 /\ Stored(v)' = Stored(v) /\ record' = record /\ torn' = torn
            BY <1>0, <2>1, AccountAssumption DEF ReqOK, Stored, history, IInv, TypeOK, Record
        <3>5. CreationOK(v)'
            BY <3>1, <3>2, <3>3, <3>4 DEF CreationOK, Creates
        <3>6. RecordOK(v)'
            BY <1>0, <2>2, <3>4 DEF UserOK, RecordOK, history
        <3>7. \A x \in Emails : idx'[x] = v <=> (idx[x] = v \/ x = e)
            BY <2>2
        <3>8. /\ \A q \in Procs, x \in Emails : Holds(q, v, x)' <=> (Holds(q, v, x) \/ (q = p /\ x = e))
            <4>1. \A x \in Emails : ~Holds(p, v, x)
                BY <1>0 DEF Holds, HoldsKey
            <4>2. \A x \in Emails : HoldsKey("swap", req[p], v, x) <=> x = e
                BY <1>0, <2>1, <2>2 DEF HoldsKey
            <4> QED
                BY <2>2, <4>1, <4>2, Work
        <3>9. KeysOK(v)'
            <4> SUFFICES ASSUME Whole(v)'
                         PROVE  /\ idx'[record'[v].email] = v
                                /\ \A q \in Procs, x \in Emails : Holds(q, v, x)' =>
                                      /\ idx'[x] = v /\ record'[v].email # x
                                      /\ \A s \in Procs : Holds(s, v, x)' => q = s
                BY DEF KeysOK
            <4>1. Whole(v)
                BY <1>0, <2>4, <3>4 DEF Whole, At
            <4>2. /\ idx[record[v].email] = v
                  /\ \A q \in Procs, x \in Emails : Holds(q, v, x) =>
                        /\ idx[x] = v /\ record[v].email # x
                        /\ \A s \in Procs : Holds(s, v, x) => q = s
                BY <2>2, <3>3, <4>1 DEF UserOK, KeysOK
            <4>3. record[v].email \in Emails
                BY <4>1, StoredOK DEF Whole, Record
            <4>4. record[v].email # e /\ v # NoUser
                BY <2>1, <2>2, <4>2
            <4> QED
                BY <2>2, <3>4, <3>7, <3>8, <4>2, <4>3, <4>4
        <3>10. OwnedOK(v)'
            BY <2>2, <3>4, <3>7, <3>8 DEF UserOK, OwnedOK
        <3> QED
            BY <3>5, <3>6, <3>9, <3>10 DEF UserOK
    <2>6. ASSUME NEW u \in Users, u # v PROVE UserOK(u)'
        <3>1. Grows
            BY <1>0, <2>2 DEF Grows, history
        <3>2. \A x \in Emails : idx'[x] = u <=> idx[x] = u
            BY <2>2, <2>6, AccountAssumption
        <3> QED
            BY <1>0, <2>1, <2>2, <2>6, <3>1, <3>2, OtherKept DEF history
    <2>7. idx' \in [Emails -> Users \cup {NoUser}] /\ \A u \in Users : UserOK(u)'
        BY <2>2, <2>5, <2>6
    <2>8. torn \subseteq torn' /\ torn' \subseteq Users
        BY <1>0 DEF history, IInv, TypeOK
    <2> QED
        BY <1>0, <2>1, <2>2, <2>3, <2>7, <2>8, IndexWriteOK DEF history
<1> QED
    BY <1>1, <1>2 DEF ClaimEmail

\* A rename gives up the key e that it holds.
LEMMA DropsKey ==
    ASSUME IInv, NEW p \in Procs, NEW v \in Users, NEW e \in Emails, Holds(p, v, e), Unindex(e, v),
           NEW label \in Labels, NEW r \in Request, GotoWith(p, label, r), r.tries < MaxTries, ReqOK(label, r),
           UNCHANGED <<record, tok, managed, requests, acked, erased, proven, vouched, last>>,
           (label = "read" /\ r.op = "rename" /\ r.user = v) \/ (label = "idle" /\ r.op = "none" /\ r.user = NoUser)
    PROVE  IInv'
<1>0. /\ req[p].user = v /\ req[p].op = "rename" /\ pc[p] \in {"swap", "unclaim", "release"} /\ v # NoUser
      /\ idx \in [Emails -> Users \cup {NoUser}] /\ UserOK(v)
    BY AccountAssumption DEF Holds, HoldsKey, IInv, TypeOK
<1>1. /\ idx' = [idx EXCEPT ![e] = NoUser]
      /\ torn \subseteq torn' /\ torn' \subseteq Users
      /\ idx[e] \notin {v, NoUser} => idx[e] \in torn'
    BY <1>0 DEF Unindex, IInv, TypeOK
<1>2. Grows
    BY <1>1 DEF Grows
<1>3. /\ pc'[p] = label /\ req'[p] = r
      /\ \A q \in Procs \ {p} : pc'[q] = pc[q] /\ req'[q] = req[q]
    BY MovesOne
<1>4. UserOK(v)'
    <2>1. /\ \A q \in Procs : ~Creates(req[q], v)
          /\ ~Creates(r, v)
        BY <1>0 DEF UserOK, CreationOK, Creates, Creators
    <2>2. \A q \in Procs : ~Creates(req[q], v)'
        BY <2>1, Work
    <2>3. ~Unindexed(v) /\ ~Unindexed(v)'
        <3>1. \A q \in Procs : pc[q] \in {"index", "rollback"} => req[q].op \in Creators
            BY Locals DEF ReqOK, OpsAt
        <3> QED
            BY <1>3, <2>1, <3>1 DEF Unindexed, Creates
    <2>4. record'[v].rev # 0 /\ Stored(v)' = Stored(v)
        BY <1>0, Locals DEF ReqOK, Stored
    <2>5. CreationOK(v)'
        BY <2>2, <2>3, <2>4 DEF CreationOK
    <2>6. \A x \in Emails : idx'[x] = v <=> idx[x] = v /\ x # e
        BY <1>0, <1>1
    <2>7. RecordOK(v)'
        BY <1>0, <1>1, <2>4, <2>6 DEF UserOK, RecordOK
    <2>8. \A q \in Procs, x \in Emails : Holds(q, v, x)' <=> Holds(q, v, x) /\ q # p
        <3>1. \A x \in Emails : ~HoldsKey(label, r, v, x)
            BY DEF HoldsKey
        <3> QED
            BY <3>1, Work
    <2>9. \A x \in Emails : Holds(p, v, x) => x = e
        BY DEF Holds, HoldsKey
    <2>10. KeysOK(v)'
        <3> SUFFICES ASSUME Whole(v)'
                     PROVE  /\ idx'[record'[v].email] = v
                            /\ \A q \in Procs, x \in Emails : Holds(q, v, x)' =>
                                  /\ idx'[x] = v /\ record'[v].email # x
                                  /\ \A s \in Procs : Holds(s, v, x)' => q = s
            BY DEF KeysOK
        <3>1. Whole(v)
            BY <1>0, <1>1, <1>3, <2>4 DEF Whole, At
        <3>2. /\ idx[record[v].email] = v
              /\ \A q \in Procs, x \in Emails : Holds(q, v, x) =>
                    /\ idx[x] = v /\ record[v].email # x
                    /\ \A s \in Procs : Holds(s, v, x) => q = s
            BY <1>0, <2>3, <3>1 DEF UserOK, KeysOK
        <3>3. record[v].email \in Emails
            BY <3>1, StoredOK DEF Whole, Record
        <3> QED
            BY <2>6, <2>8, <3>2, <3>3
    <2>11. OwnedOK(v)'
        <3> SUFFICES ASSUME v \notin torn', NEW x \in Emails, idx'[x] = v
                     PROVE  (Stored(v)' /\ record'[v].email = x) \/ \E q \in Procs : Holds(q, v, x)'
            BY DEF OwnedOK
        <3>1. v \notin torn /\ idx[x] = v /\ x # e
            BY <1>1, <2>6
        <3>2. (Stored(v) /\ record[v].email = x) \/ \E q \in Procs : Holds(q, v, x)
            BY <1>0, <3>1 DEF UserOK, OwnedOK
        <3> QED
            BY <2>4, <2>8, <2>9, <3>1, <3>2
    <2> QED
        BY <2>5, <2>7, <2>10, <2>11 DEF UserOK
<1>5. ASSUME NEW u \in Users, u # v PROVE UserOK(u)'
    <2>1. /\ \A x \in Emails : idx'[x] = u => idx[x] = u
          /\ \A x \in Emails : idx[x] = u => idx'[x] = u \/ u \in torn'
        BY <1>0, <1>1, <1>5, AccountAssumption
    <2> QED
        BY <1>0, <1>2, <1>5, <2>1, AccountAssumption, OtherKept
<1>6. idx' \in [Emails -> Users \cup {NoUser}] /\ \A u \in Users : UserOK(u)'
    BY <1>0, <1>1, <1>4, <1>5
<1> QED
    BY <1>1, <1>6, IndexWriteOK

LEMMA UnclaimEmailOK == ASSUME IInv, NEW p \in Procs, UnclaimEmail(p) PROVE IInv'
<1>0. /\ pc[p] = "unclaim" /\ ReqOK(pc[p], req[p]) /\ req[p] \in Request /\ req[p].tries < MaxTries
      /\ req[p].op = "rename" /\ req[p].user \in Users /\ req[p].email \in Emails /\ Renames(req[p])
      /\ UNCHANGED <<record, tok, managed, requests, acked, erased, proven, vouched, last>>
    BY Locals DEF UnclaimEmail, At, ReqOK, OpsAt, Request
<1>1. PICK v \in Users, e \in Emails : v = req[p].user /\ e = req[p].email
    BY <1>0
<1>2. Holds(p, v, e) /\ Unindex(e, v)
    BY <1>0, <1>1 DEF Holds, HoldsKey, UnclaimEmail
<1>3. CASE GotoWith(p, "read", [req[p] EXCEPT !.tries = @ + 1]) /\ req[p].tries + 1 < MaxTries
    <2> DEFINE r == [req[p] EXCEPT !.tries = @ + 1]
    <2>1. /\ r \in Request /\ r.op = req[p].op /\ r.user = req[p].user /\ r.email = req[p].email
          /\ r.to = req[p].to /\ r.tries < MaxTries
        BY <1>0, <1>3 DEF Request
    <2>2. GotoWith(p, "read", r)
        BY <1>3
    <2> HIDE DEF r
    <2>3. ReqOK("read", r) /\ "read" \in Labels
        BY <1>0, <2>1 DEF ReqOK, OpsAt, Labels, Updaters
    <2> QED
        BY <1>0, <1>1, <1>2, <2>1, <2>2, <2>3, DropsKey
<1>4. CASE Finish(p)
    <2>1. ReqOK("idle", NoRequest)
        BY NoRequestOK DEF ReqOK, OpsAt, Updaters, Creators
    <2> QED
        BY <1>0, <1>2, <1>4, <2>1, NoRequestOK, DropsKey DEF Finish
<1>5. AfterError(req[p]) = "idle"
    BY <1>0 DEF AfterError
<1> QED
    BY <1>3, <1>4, <1>5 DEF UnclaimEmail, Retry, Proceed

LEMMA ReleaseEmailOK == ASSUME IInv, NEW p \in Procs, ReleaseEmail(p) PROVE IInv'
<1>0. /\ pc[p] = "release" /\ ReqOK(pc[p], req[p]) /\ req[p] \in Request
      /\ req[p].op = "rename" /\ req[p].user \in Users /\ req[p].seen.email \in Emails /\ Renames(req[p])
      /\ UNCHANGED <<record, tok, managed, requests, acked, erased, proven, vouched, last>>
    BY Locals DEF ReleaseEmail, At, ReqOK, OpsAt, Request, Record
<1>1. PICK v \in Users, e \in Emails : v = req[p].user /\ e = req[p].seen.email
    BY <1>0
<1>2. Holds(p, v, e) /\ Unindex(e, v) /\ Finish(p)
    BY <1>0, <1>1 DEF Holds, HoldsKey, ReleaseEmail
<1>3. ReqOK("idle", NoRequest)
    BY NoRequestOK DEF ReqOK, OpsAt, Updaters, Creators
<1> QED
    BY <1>0, <1>2, <1>3, NoRequestOK, DropsKey DEF Finish

LEMMA DropIndexOK == ASSUME IInv, NEW p \in Procs, DropIndex(p) PROVE IInv'
<1>0. /\ pc[p] = "dropindex" /\ ReqOK(pc[p], req[p]) /\ req[p] \in Request /\ req[p].tries < MaxTries
      /\ req[p].user \in Users /\ req[p].seen.email \in Emails /\ req[p].op \in Creators \cup {"erase"}
      /\ UNCHANGED <<record, tok, managed, requests, acked, erased, proven, vouched, last>>
    BY Locals DEF DropIndex, At, ReqOK, OpsAt, Request, Record
<1>1. PICK v \in Users, e \in Emails : v = req[p].user /\ e = req[p].seen.email
    BY <1>0
<1>2. /\ idx' = [idx EXCEPT ![e] = NoUser] /\ idx \in [Emails -> Users \cup {NoUser}] /\ v # NoUser
      /\ torn \subseteq torn' /\ torn' \subseteq Users
      /\ idx[e] \notin {v, NoUser} => idx[e] \in torn'
    BY <1>1, AccountAssumption DEF DropIndex, Unindex, IInv, TypeOK
<1>3. GotoWith(p, "droprecord", req[p]) /\ "droprecord" \in Labels /\ ReqOK("droprecord", req[p])
    BY <1>0 DEF DropIndex, Goto, Labels, ReqOK, OpsAt, Creators
<1>4. Grows
    BY <1>0, <1>2 DEF Grows
<1>5. /\ pc'[p] = "droprecord" /\ req'[p] = req[p]
      /\ \A q \in Procs \ {p} : pc'[q] = pc[q] /\ req'[q] = req[q]
    BY <1>3, MovesOne
<1>6. UserOK(v)'
    <2>1. UserOK(v) /\ \A x \in Emails : idx'[x] = v => idx[x] = v
        BY <1>2 DEF IInv
    <2>2. \A q \in Procs : req'[q] = req[q]
        BY <1>5
    <2>3. Unindexed(v)' => Unindexed(v)
        BY <1>5 DEF Unindexed
    <2>4. record'[v].rev # 0 /\ Stored(v)' = Stored(v)
        BY <1>0, <1>1, AccountAssumption DEF ReqOK, Stored
    <2>5. CreationOK(v)'
        BY <1>0, <2>1, <2>2, <2>3, <2>4 DEF UserOK, CreationOK, Creates
    <2>6. RecordOK(v)'
        BY <1>0, <1>2, <2>1, <2>4 DEF UserOK, RecordOK
    <2>7. ~Whole(v)'
        BY <1>1, <1>5 DEF Whole, At
    <2>8. \A q \in Procs, x \in Emails : Holds(q, v, x) => Holds(q, v, x)'
        <3>1. \A x \in Emails : ~Holds(p, v, x)
            BY <1>0 DEF Holds, HoldsKey
        <3> QED
            BY <1>3, <3>1, Work
    <2>9. OwnedOK(v)'
        BY <1>0, <1>2, <2>1, <2>4, <2>8 DEF UserOK, OwnedOK
    <2> QED
        BY <2>5, <2>6, <2>7, <2>9 DEF UserOK, KeysOK
<1>7. ASSUME NEW u \in Users, u # v PROVE UserOK(u)'
    <2>1. /\ \A x \in Emails : idx'[x] = u => idx[x] = u
          /\ \A x \in Emails : idx[x] = u => idx'[x] = u \/ u \in torn'
        BY <1>2, <1>7, AccountAssumption
    <2> QED
        BY <1>0, <1>1, <1>3, <1>4, <1>7, <2>1, OtherKept
<1>8. idx' \in [Emails -> Users \cup {NoUser}] /\ \A u \in Users : UserOK(u)'
    BY <1>2, <1>6, <1>7
<1> QED
    BY <1>0, <1>2, <1>3, <1>8, IndexWriteOK

\* Steps that write the record of one user and leave the index alone.
LEMMA RecordWriteOK ==
    ASSUME IInv, NEW p \in Procs, NEW label \in Labels, NEW r \in Request, GotoWith(p, label, r), r.tries < MaxTries,
           NEW v \in Users, v = req[p].user, r.user \in {v, NoUser},
           UNCHANGED <<idx, tok, requests, acked, proven>>, Grows, Tables', RequestOK(p)',
           Later(v), \A u \in Users \ {v} : record'[u] = record[u] /\ last'[u] = last[u],
           managed' \subseteq managed, erased' \subseteq erased \cup {v},
           UserOK(v)'
    PROVE  IInv'
<1>1. ASSUME NEW u \in Users, u # v PROVE UserOK(u)'
    BY <1>1, AccountAssumption, OtherKept
<1>2. \A q \in Procs : RequestOK(q)'
    <2>1. \A q \in Procs : req[q].user \in Users \cup {NoUser}
        BY Locals DEF Request
    <2>2. \A u \in Users : Later(u)
        BY DEF Later
    <2> QED
        BY <2>1, <2>2, AllKnow DEF Tables
<1>3. \A u \in Users : UserOK(u)'
    BY <1>1
<1> QED
    BY <1>2, <1>3, StepOK

LEMMA DeleteTyped ==
    ASSUME IInv, NEW v \in Users, Delete(v)
    PROVE  /\ record' \in [Users -> Record] /\ record'[v].st = "absent" /\ record'[v].rev = record[v].rev
           /\ \A u \in Users \ {v} : record'[u] = record[u]
BY NoRequestOK DEF Delete, IInv, TypeOK, NoRecord, Record

LEMMA RollBackOK == ASSUME IInv, NEW p \in Procs, RollBack(p) PROVE IInv'
<1>0. /\ pc[p] = "rollback" /\ ReqOK(pc[p], req[p]) /\ req[p] \in Request /\ req[p].tries < MaxTries
      /\ req[p].op \in Creators /\ req[p].user \in Users /\ UNCHANGED <<idx, tok, managed, history>>
    BY Locals DEF RollBack, At, ReqOK, OpsAt, Request
<1>1. PICK v \in Users : v = req[p].user /\ v # NoUser
    BY <1>0, AccountAssumption
<1>2. /\ record' \in [Users -> Record] /\ record'[v].st = "absent" /\ record'[v].rev = record[v].rev
      /\ \A u \in Users \ {v} : record'[u] = record[u]
    BY <1>1, DeleteTyped DEF RollBack
<1>3. record[v].rev > 0 /\ record[v].rev \in Nat
    BY <1>0, <1>1 DEF ReqOK, IInv, TypeOK, Record
<1>4. PICK label \in {"idle", "resend"}, r \in {req[p], NoRequest} :
        /\ GotoWith(p, label, r)
        /\ label = "idle" => r = NoRequest
        /\ label = "resend" => r = req[p] /\ req[p].op = "register"
    BY DEF RollBack, Goto, Finish
<1>5. Grows /\ Tables'
    BY <1>0, <1>2, TablesTyped DEF history, Grows, Tables
<1>6. /\ pc'[p] = label /\ req'[p] = r
      /\ \A q \in Procs \ {p} : pc'[q] = pc[q] /\ req'[q] = req[q]
    BY <1>4, MovesOne
<1>7. UserOK(v)'
    <2>1. UserOK(v) /\ Creates(req[p], v) /\ Unindexed(v)
        BY <1>0, <1>1 DEF IInv, Creates, Unindexed
    <2>2. /\ \A q \in Procs : Creates(req[q], v) => q = p
          /\ v \notin managed \cup acked
          /\ \A q \in Procs : ~(req[q].op = "rename" /\ req[q].user = v)
          /\ \A x \in Emails : idx[x] # v
        BY <2>1 DEF UserOK, CreationOK
    <2>3. \A q \in Procs : Creates(req[q], v)' => q = p
        BY <2>2, Work, <1>4
    <2>4. \A q \in Procs : ~(req'[q].op = "rename" /\ req'[q].user = v)
        BY <1>1, <1>6, <2>2, NoRequestOK
    <2>5. CreationOK(v)'
        BY <1>0, <1>2, <1>3, <2>2, <2>3, <2>4 DEF CreationOK, history
    <2>6. RecordOK(v)'
        BY <1>0, <1>2, <2>2 DEF RecordOK, Stored, history
    <2>7. ~Stored(v)'
        BY <1>2 DEF Stored
    <2> QED
        BY <1>0, <2>2, <2>5, <2>6, <2>7 DEF UserOK, KeysOK, OwnedOK, Whole
<1>8. RequestOK(p)'
    BY <1>0, <1>1, <1>2, <1>3, <1>4, <1>6, NoRequestOK DEF RequestOK, ReqOK, OpsAt, Updaters, Creators, history
<1>9. Later(v)
    BY <1>2 DEF Later, Stored
<1>10. label \in Labels /\ r \in Request /\ r.tries < MaxTries /\ r.user \in {v, NoUser}
    BY <1>0, <1>1, <1>4, NoRequestOK DEF Labels
<1> QED
    BY <1>0, <1>1, <1>2, <1>4, <1>5, <1>7, <1>8, <1>9, <1>10, RecordWriteOK DEF history

LEMMA DropRecordOK == ASSUME IInv, NEW p \in Procs, DropRecord(p) PROVE IInv'
<1>0. /\ pc[p] = "droprecord" /\ ReqOK(pc[p], req[p]) /\ req[p] \in Request /\ req[p].user \in Users
      /\ UNCHANGED <<idx, tok, requests, acked, proven, vouched>> /\ Finish(p)
    BY Locals DEF DropRecord, At, ReqOK, OpsAt, Request
<1>1. PICK v \in Users : v = req[p].user /\ v # NoUser
    BY <1>0, AccountAssumption
<1>2. /\ record' \in [Users -> Record] /\ record'[v].st = "absent" /\ record'[v].rev = record[v].rev
      /\ \A u \in Users \ {v} : record'[u] = record[u]
    BY <1>1, DeleteTyped DEF DropRecord
<1>3. /\ record[v].rev > 0 /\ record[v].rev \in Nat /\ managed' \subseteq managed /\ erased' \subseteq erased \cup {v}
      /\ erased \subseteq erased' /\ last' = [last EXCEPT ![v] = 0]
      /\ torn' = IF Stored(v) /\ idx[record[v].email] = v THEN torn \cup {v} ELSE torn
    BY <1>0, <1>1 DEF DropRecord, ReqOK, IInv, TypeOK, Record
<1>4. /\ pc'[p] = "idle" /\ req'[p] = NoRequest
      /\ \A q \in Procs \ {p} : pc'[q] = pc[q] /\ req'[q] = req[q]
    BY <1>0, MovesOne DEF Finish
<1>5. Grows /\ Tables'
    BY <1>0, <1>2, <1>3, TablesTyped DEF Grows, Tables
<1>6. GotoWith(p, "idle", NoRequest)
    BY <1>0 DEF Finish
<1>7. UserOK(v)'
    <2>1. UserOK(v)
        BY DEF IInv
    <2>2. \A q \in Procs : Creates(req[q], v)' => Creates(req[q], v)
        BY <1>1, <1>6, Work, NoRequestOK DEF Creates
    <2>3. \A q \in Procs : req'[q].user = v => req'[q] = req[q] /\ pc'[q] = pc[q]
        BY <1>1, <1>4, NoRequestOK
    <2>4. Unindexed(v)' => Unindexed(v)
        BY <2>3 DEF Unindexed
    <2>5. CreationOK(v)'
        BY <1>0, <1>2, <1>3, <2>1, <2>2, <2>3, <2>4 DEF UserOK, CreationOK
    <2>6. ~Stored(v)' /\ record'[v].st # "active"
        BY <1>2 DEF Stored
    <2>7. RecordOK(v)'
        BY <1>0, <1>3, <2>1, <2>6 DEF UserOK, RecordOK
    <2>8. \A q \in Procs, x \in Emails : Holds(q, v, x) => Holds(q, v, x)'
        <3>1. \A x \in Emails : ~Holds(p, v, x)
            BY <1>0 DEF Holds, HoldsKey
        <3> QED
            BY <1>6, <3>1, Work
    <2>9. OwnedOK(v)'
        <3> SUFFICES ASSUME v \notin torn', NEW x \in Emails, idx'[x] = v PROVE \E q \in Procs : Holds(q, v, x)'
            BY DEF OwnedOK
        <3>1. v \notin torn /\ idx[x] = v /\ ~(Stored(v) /\ record[v].email = x)
            BY <1>0, <1>3
        <3> QED
            BY <2>1, <2>8, <3>1 DEF UserOK, OwnedOK
    <2> QED
        BY <2>5, <2>6, <2>7, <2>9 DEF UserOK, KeysOK, Whole
<1>8. RequestOK(p)' /\ Later(v)
    BY <1>0, <1>2, IdleOK DEF Later, Stored
<1> QED
    BY <1>0, <1>1, <1>2, <1>3, <1>5, <1>6, <1>7, <1>8, NoRequestOK, RecordWriteOK DEF IInv, TypeOK

\* A record that is overwritten blindly is the one that was read, or its user is torn.
LEMMA OverwriteUserOK == ASSUME IInv, NEW p \in Procs, OverwriteUser(p) PROVE IInv'
<1>0. /\ pc[p] = "overwrite" /\ ReqOK(pc[p], req[p]) /\ req[p] \in Request /\ req[p].user \in Users
      /\ req[p].op = "activate" /\ req[p].seen \in Record /\ req[p].seen.st # "absent" /\ req[p].seen.email # NoEmail
      /\ UNCHANGED <<idx, tok, managed, requests, acked, erased, proven, last>> /\ Finish(p)
    BY Locals DEF OverwriteUser, At, ReqOK, OpsAt, Request
<1>1. PICK v \in Users, seen \in Record : v = req[p].user /\ seen = req[p].seen /\ v # NoUser
    BY <1>0, AccountAssumption
<1>2. /\ record[v] \in Record /\ record[v].rev \in Nat /\ record[v].rev > 0 /\ UserOK(v)
      /\ record \in [Users -> Record] /\ seen.email \in Emails
    BY <1>0, <1>1 DEF ReqOK, IInv, TypeOK, Record
<1>3. /\ record'[v] = [st |-> "active", email |-> seen.email, pw |-> seen.pw, rev |-> record[v].rev + 1]
      /\ \A u \in Users \ {v} : record'[u] = record[u]
      /\ record' \in [Users -> Record]
      /\ vouched' = vouched \cup {v} /\ torn' = IF record[v] = seen THEN torn ELSE torn \cup {v}
    BY <1>1, <1>2 DEF OverwriteUser, Write, Record, Statuses
<1>4. /\ pc'[p] = "idle" /\ req'[p] = NoRequest /\ GotoWith(p, "idle", NoRequest)
      /\ \A q \in Procs \ {p} : pc'[q] = pc[q] /\ req'[q] = req[q]
    BY <1>0, MovesOne DEF Finish
<1>5. Grows /\ Tables'
    BY <1>0, <1>3, TablesTyped DEF Grows, Tables
<1>6. v \notin torn' => /\ Stored(v) /\ record[v] = seen /\ v \notin torn
                        /\ record'[v].email = record[v].email /\ record'[v].pw = record[v].pw
    BY <1>0, <1>1, <1>3 DEF Stored
<1>7. UserOK(v)'
    <2>1. \A q \in Procs : Creates(req[q], v)' => Creates(req[q], v)
        BY <1>1, <1>4, Work, NoRequestOK DEF Creates
    <2>2. \A q \in Procs : req'[q].user = v => req'[q] = req[q] /\ pc'[q] = pc[q]
        BY <1>1, <1>4, NoRequestOK
    <2>3. Unindexed(v)' <=> Unindexed(v)
        BY <1>0, <1>4, <2>2 DEF Unindexed
    <2>4. record'[v].rev # 0
        BY <1>2, <1>3
    <2>5. CreationOK(v)'
        BY <1>0, <1>2, <2>1, <2>2, <2>3, <2>4 DEF UserOK, CreationOK
    <2>6. RecordOK(v)'
        BY <1>0, <1>1, <1>2, <1>3, <1>6 DEF UserOK, RecordOK
    <2>7. \A q \in Procs, x \in Emails : Holds(q, v, x) <=> Holds(q, v, x)'
        <3>1. \A x \in Emails : ~Holds(p, v, x) /\ ~HoldsKey("idle", NoRequest, v, x)
            BY <1>0 DEF Holds, HoldsKey
        <3> QED
            BY <1>4, <3>1, Work
    <2>8. Whole(v)' => Whole(v)
        BY <1>0, <1>4, <1>6 DEF Whole, At
    <2>9. KeysOK(v)'
        BY <1>0, <1>2, <1>6, <2>3, <2>7, <2>8 DEF UserOK, KeysOK, Whole
    <2>10. Stored(v)'
        BY <1>3 DEF Stored
    <2>11. OwnedOK(v)'
        BY <1>0, <1>2, <1>6, <2>7, <2>10 DEF UserOK, OwnedOK
    <2> QED
        BY <2>5, <2>6, <2>9, <2>11 DEF UserOK
<1>8. Later(v)
    BY <1>2, <1>3, <1>6 DEF Later
<1>9. RequestOK(p)'
    BY <1>0, IdleOK
<1> QED
    BY <1>0, <1>1, <1>3, <1>4, <1>5, <1>7, <1>8, <1>9, NoRequestOK, RecordWriteOK DEF IInv, TypeOK

\* A swap at the revision read writes over the record that was seen.
LEMMA Swapped ==
    ASSUME IInv, NEW p \in Procs, SwapUser(p), NEW v \in Users, v = req[p].user
    PROVE  LET r == req[p] seen == req[p].seen
           IN /\ record[v] = seen /\ Stored(v) /\ record[v] \in Record /\ seen.email \in Emails
              /\ record'[v] = [st |-> IF r.op = "reset" THEN seen.st ELSE r.to,
                               email |-> IF r.op = "rename" THEN r.email ELSE seen.email,
                               pw |-> IF r.op = "reset" THEN r.pw ELSE seen.pw, rev |-> record[v].rev + 1]
              /\ \A u \in Users \ {v} : record'[u] = record[u] /\ last'[u] = last[u]
              /\ record' \in [Users -> Record]
              /\ last' \in [Users -> Nat] /\ last'[v] = (IF r.op = "reset" THEN r.pw ELSE last[v])
              /\ vouched' = IF r.op \in {"verify", "reset"} THEN vouched ELSE vouched \cup {v}
<1> DEFINE r == req[p]
           seen == req[p].seen
           new == [st |-> IF r.op = "reset" THEN seen.st ELSE r.to,
                   email |-> IF r.op = "rename" THEN r.email ELSE seen.email,
                   pw |-> IF r.op = "reset" THEN r.pw ELSE seen.pw, rev |-> record[v].rev + 1]
<1>1. /\ r \in Request /\ ReqOK("swap", r) /\ record \in [Users -> Record] /\ last \in [Users -> Nat]
      /\ Stored(v) /\ record[v].rev = seen.rev
    BY Locals DEF SwapUser, At, RevisionMatches, IInv, TypeOK
<1>2. record[v] = seen /\ record[v] \in Record
    BY <1>1 DEF ReqOK, Seen
<1>3. seen.email \in Emails /\ (r.op = "rename" => r.email \in Emails)
    BY <1>1, <1>2 DEF ReqOK, Record, Request
<1>4. new \in Record
    BY <1>1, <1>2, <1>3 DEF Record, Request
<1>5. record' = [record EXCEPT ![v] = new]
    BY <1>1 DEF SwapUser, Write
<1>6. last' = IF r.op = "reset" THEN [last EXCEPT ![v] = r.pw] ELSE last
    BY DEF SwapUser
<1>7. r.pw \in Nat
    BY <1>1 DEF Request
<1> HIDE DEF r, seen, new
<1>8. record' \in [Users -> Record] /\ record'[v] = new /\ \A u \in Users \ {v} : record'[u] = record[u]
    BY <1>1, <1>4, <1>5
<1>9. /\ last' \in [Users -> Nat] /\ last'[v] = (IF r.op = "reset" THEN r.pw ELSE last[v])
      /\ \A u \in Users \ {v} : last'[u] = last[u]
    BY <1>1, <1>6, <1>7
<1>10. vouched' = IF r.op \in {"verify", "reset"} THEN vouched ELSE vouched \cup {v}
    BY DEF SwapUser, r
<1> QED
    BY <1>1, <1>2, <1>3, <1>8, <1>9, <1>10 DEF r, seen, new

LEMMA SwapUserOK == ASSUME IInv, NEW p \in Procs, SwapUser(p) PROVE IInv'
<1>0. /\ pc[p] = "swap" /\ ReqOK(pc[p], req[p]) /\ req[p] \in Request /\ req[p].tries < MaxTries
      /\ req[p].op \in Updaters /\ req[p].user \in Users
      /\ UNCHANGED <<idx, tok, managed, requests, acked, erased, proven, torn>>
    BY Locals DEF SwapUser, At, ReqOK, OpsAt, Request
<1>1. PICK v \in Users, r \in Request, seen \in Record : v = req[p].user /\ r = req[p] /\ seen = r.seen /\ v # NoUser
    BY <1>0, AccountAssumption DEF Request
<1>2. /\ record[v] = seen /\ Stored(v) /\ seen.email \in Emails
      /\ record'[v] = [st |-> IF r.op = "reset" THEN seen.st ELSE r.to,
                       email |-> IF r.op = "rename" THEN r.email ELSE seen.email,
                       pw |-> IF r.op = "reset" THEN r.pw ELSE seen.pw, rev |-> record[v].rev + 1]
      /\ \A u \in Users \ {v} : record'[u] = record[u] /\ last'[u] = last[u]
      /\ record' \in [Users -> Record] /\ last' \in [Users -> Nat]
      /\ last'[v] = (IF r.op = "reset" THEN r.pw ELSE last[v])
      /\ vouched' = IF r.op \in {"verify", "reset"} THEN vouched ELSE vouched \cup {v}
    BY <1>1, Swapped
<1>3. /\ UserOK(v) /\ record[v].rev > 0 /\ record[v].rev \in Nat /\ record[v].st # "absent"
      /\ r.to # "absent" /\ seen.st # "absent" /\ seen.email # NoEmail
      /\ r.op \in Updaters /\ (r.op \in {"register", "provision", "verify", "reset", "rename"} => r.email # NoEmail)
      /\ r.op \in {"provision", "rename"} => v \in vouched
      /\ r.op = "verify" => /\ r.email \in proven /\ r.to = "active"
                            /\ v \notin vouched => record[v].email = r.email
    BY <1>0, <1>1, <1>2 DEF ReqOK, IInv, Record, Stored
<1>4. PICK label \in {"cleanup", "invite", "join", "release", "idle"}, s \in {r, NoRequest} :
        /\ GotoWith(p, label, s)
        /\ IF label = "idle" THEN s = NoRequest ELSE s = r
        /\ label = "cleanup" <=> r.op \in {"verify", "reset"}
        /\ label = "invite" <=> r.op = "register"
        /\ label = "join" <=> r.op = "provision"
        /\ label = "release" <=> Renames(r)
    <2>1. Proceed(p, AfterWrite(r))
        BY <1>1 DEF SwapUser
    <2>2. LET l == AfterWrite(r)
          IN /\ l \in {"cleanup", "invite", "join", "release", "idle"}
             /\ l = "cleanup" <=> r.op \in {"verify", "reset"}
             /\ l = "invite" <=> r.op = "register"
             /\ l = "join" <=> r.op = "provision"
             /\ l = "release" <=> Renames(r)
        BY DEF AfterWrite, Renames
    <2> QED
        BY <1>1, <2>1, <2>2 DEF Proceed, Goto, Finish
<1>5. /\ pc'[p] = label /\ req'[p] = s
      /\ \A q \in Procs \ {p} : pc'[q] = pc[q] /\ req'[q] = req[q]
    BY <1>4, MovesOne
<1>6. vouched' \subseteq Users /\ Grows /\ Tables'
    BY <1>0, <1>2, TablesTyped DEF Grows, Tables
<1>7. UserOK(v)'
    <2>1. CreationOK(v)'
        <3>1. \A q \in Procs : Creates(req[q], v)' => Creates(req[q], v)
            BY <1>1, <1>4, Work, NoRequestOK DEF Creates
        <3>2. \A q \in Procs : req'[q].user = v => req'[q] = req[q]
            BY <1>1, <1>4, <1>5, NoRequestOK
        <3>3. Unindexed(v)' => Unindexed(v)
            BY <1>4, <1>5 DEF Unindexed
        <3>4. record'[v].rev # 0
            BY <1>2, <1>3
        <3> QED
            BY <1>0, <1>3, <3>1, <3>2, <3>3, <3>4 DEF UserOK, CreationOK
    <2>2. RecordOK(v)'
        <3>1. record'[v].email # NoEmail
            BY <1>2, <1>3
        <3>2. record'[v].st = "active" => v \in vouched' \/ record'[v].email \in proven'
            BY <1>0, <1>2, <1>3 DEF UserOK, RecordOK, Updaters, Creators
        <3>3. v \notin vouched' => v \notin vouched /\ record'[v].email = record[v].email
            BY <1>2
        <3>4. v \notin torn' => record'[v].pw = last'[v]
            BY <1>0, <1>2, <1>3 DEF UserOK, RecordOK
        <3> QED
            BY <1>0, <1>2, <1>3, <3>1, <3>2, <3>3, <3>4 DEF UserOK, RecordOK, Stored
    <2>3. Stored(v)'
        BY <1>2, <1>3 DEF Stored
    <2>4. Unindexed(v)' <=> Unindexed(v)
        <3>1. \A q \in Procs : q # p => (pc'[q] = pc[q] /\ req'[q] = req[q])
            BY <1>5
        <3> QED
            BY <1>0, <1>4, <1>5, <3>1 DEF Unindexed
    <2>5. Whole(v)' => Whole(v)
        BY <1>0, <1>2, <1>4, <1>5 DEF Whole, At
    <2>6. ~Renames(r) => record'[v].email = record[v].email
        BY <1>1, <1>2 DEF Renames
    <2>7. Renames(r) => /\ r.op = "rename" /\ r.email \in Emails /\ s = r /\ label = "release"
                        /\ record'[v].email = r.email /\ record[v].email = seen.email /\ r.email # seen.email
                        /\ ~Unindexed(v)
        <3>1. Renames(r) => Creates(r, v) \/ r.op = "rename"
            BY DEF Renames
        <3>2. \A q \in Procs : pc[q] \in {"index", "rollback"} => req[q].op \in Creators
            BY Locals DEF ReqOK, OpsAt
        <3>3. r.op = "rename" => ~Unindexed(v)
            BY <1>1, <1>3, <3>2 DEF UserOK, CreationOK, Unindexed, Creates
        <3> QED
            BY <1>1, <1>2, <1>3, <1>4, <3>3 DEF Renames, Request
    <2>8. /\ \A q \in Procs \ {p}, x \in Emails : Holds(q, v, x)' <=> Holds(q, v, x)
          /\ \A x \in Emails : Holds(p, v, x)' <=> Renames(r) /\ x = seen.email
          /\ \A x \in Emails : Holds(p, v, x) <=> Renames(r) /\ x = r.email
        <3>1. \A x \in Emails : HoldsKey(label, s, v, x) <=> Renames(r) /\ x = seen.email
            BY <1>1, <1>4, <2>7 DEF HoldsKey
        <3>2. \A x \in Emails : Holds(p, v, x) <=> Renames(r) /\ x = r.email
            BY <1>0, <1>1, <2>7 DEF Holds, HoldsKey
        <3> QED
            BY <1>4, <3>1, <3>2, Work
    <2>9. KeysOK(v)'
        <3> SUFFICES ASSUME Whole(v)'
                     PROVE  /\ ~Unindexed(v)' => idx'[record'[v].email] = v
                            /\ \A q \in Procs, x \in Emails : Holds(q, v, x)' =>
                                  /\ idx'[x] = v /\ record'[v].email # x
                                  /\ \A t \in Procs : Holds(t, v, x)' => q = t
            BY DEF KeysOK
        <3>1. /\ ~Unindexed(v) => idx[record[v].email] = v
              /\ \A q \in Procs, x \in Emails : Holds(q, v, x) =>
                    /\ idx[x] = v /\ record[v].email # x
                    /\ \A t \in Procs : Holds(t, v, x) => q = t
            BY <1>3, <2>5 DEF UserOK, KeysOK
        <3>2. CASE ~Renames(r)
            BY <1>0, <2>4, <2>6, <2>8, <3>1, <3>2
        <3>3. CASE Renames(r)
            <4>1. /\ Holds(p, v, r.email) /\ idx[r.email] = v /\ idx[seen.email] = v
                  /\ \A q \in Procs \ {p} : ~Holds(q, v, r.email) /\ ~Holds(q, v, seen.email)
                BY <1>2, <2>7, <2>8, <3>1, <3>3
            <4>2. ASSUME NEW q \in Procs, NEW x \in Emails, Holds(q, v, x)'
                  PROVE  /\ idx'[x] = v /\ record'[v].email # x
                         /\ \A t \in Procs : Holds(t, v, x)' => q = t
                BY <1>0, <2>7, <2>8, <3>1, <3>3, <4>1, <4>2
            <4> QED
                BY <1>0, <2>7, <3>3, <4>1, <4>2
        <3> QED
            BY <3>2, <3>3
    <2>10. OwnedOK(v)'
        <3> SUFFICES ASSUME v \notin torn', NEW x \in Emails, idx'[x] = v
                     PROVE  (Stored(v)' /\ record'[v].email = x) \/ \E q \in Procs : Holds(q, v, x)'
            BY DEF OwnedOK
        <3>1. record[v].email = x \/ \E q \in Procs : Holds(q, v, x)
            BY <1>0, <1>3 DEF UserOK, OwnedOK
        <3> QED
            BY <2>3, <2>6, <2>7, <2>8, <3>1
    <2> QED
        BY <2>1, <2>2, <2>9, <2>10 DEF UserOK
<1>8. Later(v)
    <2>1. r.op = "rename" => v \in vouched' /\ \A q \in Procs : ~Creates(req[q], v)
        BY <1>0, <1>1, <1>2, <1>3 DEF UserOK, CreationOK
    <2>2. r.op # "rename" => record'[v].email = record[v].email
        BY <1>2
    <2> QED
        BY <1>2, <1>3, <2>1, <2>2 DEF Later
<1>9. RequestOK(p)'
    <2>1. CASE label = "idle"
        BY <1>4, <2>1, IdleOK DEF Finish
    <2>0. Renames(r) => r.op = "rename"
        BY DEF Renames
    <2>2. CASE label # "idle"
        <3>1. s = r /\ v = r.user
            BY <1>1, <1>4, <2>2
        <3>2. r.op = "provision" \/ r.op = "rename" => v \in vouched'
            BY <1>2, <1>3
        <3>3. r.op \in OpsAt(label) /\ (label = "release" => Renames(r))
            BY <1>4, <2>2, <2>0 DEF OpsAt
        <3> QED
            BY <1>0, <1>1, <1>2, <1>3, <1>4, <1>5, <3>1, <3>2, <3>3 DEF RequestOK, ReqOK
    <2> QED
        BY <2>1, <2>2
<1>10. label \in Labels /\ s.tries < MaxTries /\ s.user \in {v, NoUser} /\ s \in Request
    BY <1>0, <1>1, <1>4, NoRequestOK DEF Labels
<1> QED
    BY <1>0, <1>1, <1>2, <1>4, <1>6, <1>7, <1>8, <1>9, <1>10, RecordWriteOK

(***************************************************************************)
(* Every step preserves the invariant.                                     *)
(***************************************************************************)
LEMMA HandlerOK == ASSUME IInv, NEW p \in Procs, Handler(p) PROVE IInv'
<1>1. CASE \/ CreateIndex(p) \/ RollBack(p) \/ Resend(p) \/ Vet(p) \/ Join(p) \/ LookUp(p) \/ CleanUp(p)
    BY <1>1, CreateIndexOK, RollBackOK, ResendOK, VetOK, JoinOK, LookUpOK, CleanUpOK
<1>2. CASE \/ ReadUser(p) \/ ClaimEmail(p) \/ SwapUser(p) \/ SwapConflict(p) \/ UnclaimEmail(p) \/ ReleaseEmail(p)
    BY <1>2, ReadUserOK, ClaimEmailOK, SwapUserOK, SwapConflictOK, UnclaimEmailOK, ReleaseEmailOK
<1>3. CASE \/ OverwriteUser(p) \/ ReadForErase(p) \/ DropIndex(p) \/ DropRecord(p) \/ Crash(p)
           \/ \E t \in Tokens : Invite(p, t) \/ PresentToken(p, t)
    BY <1>3, OverwriteUserOK, ReadForEraseOK, DropIndexOK, DropRecordOK, CrashOK, InviteOK, PresentTokenOK
<1>4. CASE \/ \E u \in Users : BeginActivate(p, u) \/ BeginErase(p, u)
           \/ \E u \in Users, st \in {"active", "barred"} :
                 BeginHook(p, u, st) \/ \E e \in Emails : BeginRename(p, u, e, st)
    BY <1>4, BeginsOK
<1>5. CASE \/ \E u \in Users, e \in Emails : BeginRegister(p, u, e)
           \/ \E u \in Users, st \in {"active", "barred"}, e \in Emails : BeginProvision(p, u, e, st)
    BY <1>5, CreatesOK
<1> QED
    BY <1>1, <1>2, <1>3, <1>4, <1>5 DEF Handler

LEMMA NextOK == ASSUME IInv, [Next]_vars PROVE IInv'
<1>1. ASSUME UNCHANGED vars PROVE IInv'
    BY <1>1, TokensOK DEF vars, kv, history, IInv, TypeOK
<1> QED
    BY <1>1, HandlerOK, StartResetOK, ExpireTokenOK DEF Next

LEMMA InitOK == ASSUME Init PROVE IInv
<1>1. TypeOK
    <2>1. \A t \in Tokens : [st |-> "unused", role |-> "verify", email |-> NoEmail] \in Token
        BY DEF Token
    <2>2. "idle" \in Labels /\ NoRequest \in Request /\ NoRecord \in Record /\ NoRequest.tries < MaxTries
        BY NoRequestOK
    <2> QED
        BY <2>1, <2>2, AccountAssumption DEF Init, TypeOK
<1>2. \A p \in Procs : RequestOK(p) /\ req[p].op = "none" /\ req[p].user = NoUser
    BY NoRequestOK DEF Init, RequestOK, ReqOK, OpsAt, Updaters, Creators
<1>3. \A t \in Tokens : tok[t].st = "unused"
    BY DEF Init
<1>4. ASSUME NEW u \in Users PROVE UserOK(u)
    <2>1. record[u].st = "absent" /\ ~Stored(u) /\ last[u] = 0 /\ u # NoUser
        BY AccountAssumption DEF Init, NoRecord, Stored
    <2>2. \A e \in Emails : idx[e] # u
        BY <2>1 DEF Init
    <2>3. CreationOK(u)
        BY <1>2, <2>1, <2>2 DEF Init, CreationOK, Creates, Creators
    <2>4. RecordOK(u)
        BY <2>1 DEF Init, RecordOK
    <2>5. KeysOK(u) /\ OwnedOK(u)
        BY <2>1, <2>2 DEF KeysOK, OwnedOK, Whole
    <2> QED
        BY <2>3, <2>4, <2>5 DEF UserOK
<1> QED
    BY <1>1, <1>2, <1>3, <1>4 DEF IInv

(***************************************************************************)
(* The theorems.                                                           *)
(***************************************************************************)
\* Whatever requests overlap, crash or lose their swaps, what create_user, update_user_rmw,
\* update_user_provisioned, activate_user and delete_user know between their store operations holds.
THEOREM Invariance == Spec => []IInv
<1>1. Init => IInv
    BY InitOK
<1>2. IInv /\ [Next]_vars => IInv'
    BY NextOK
<1> QED
    BY <1>1, <1>2, PTL DEF Spec

\* The records of users, the index of addresses, the mailed tokens and the locals of the handlers
\* keep their types, and no loop runs more than MAX_RETRIES times.
THEOREM TypeCorrect == Spec => []TypeOK
<1>1. IInv => TypeOK
    BY DEF IInv
<1> QED
    BY <1>1, Invariance, PTL

\* require_email_verification, handle_email_verification: an active account was vouched for by an
\* administrator, a hook or SCIM, or a token mailed to its own address came back, for any number
\* of users, addresses and tokens: a token never activates a user under another address.
THEOREM OnlyVerifiedAreActive == Spec => []ActiveIsVerified
<1>1. IInv => ActiveIsVerified
    BY DEF IInv, UserOK, RecordOK, ActiveIsVerified
<1> QED
    BY <1>1, Invariance, PTL

\* delete_user against the loops: an answered erasure is not undone by a handler that read the
\* record before it, other than activate_user, which puts the record back without a revision.
THEOREM ErasuresHold == Spec => []ErasureHolds
<1>1. IInv => ErasureHolds
    BY DEF IInv, TypeOK, UserOK, RecordOK, ErasureHolds
<1> QED
    BY <1>1, Invariance, PTL

\* handle_password_reset_complete: the password of the last reset stays, whatever verifications,
\* hooks, renames and older resets overlap it.
THEOREM ResetsHold == Spec => []ResetHolds
<1>1. IInv => ResetHolds
    BY DEF IInv, UserOK, RecordOK, ResetHolds
<1> QED
    BY <1>1, Invariance, PTL

\* create_user, update_user_provisioned: at every moment until its erasure begins, the address in
\* the record of an acknowledged account leads to it.
THEOREM AddressesLead == Spec => []EmailIndexed
<1>1. IInv => EmailIndexed
    <2> SUFFICES ASSUME IInv, NEW u \in acked \ torn, Stored(u),
                        \A p \in Procs : ~(At(p, "droprecord") /\ req[p].user = u)
                 PROVE  idx[record[u].email] = u
        BY DEF EmailIndexed
    <2>1. u \in Users /\ UserOK(u)
        BY DEF IInv, TypeOK
    <2>2. ~Unindexed(u)
        <3>1. \A p \in Procs : pc[p] \in {"index", "rollback"} => req[p].op \in Creators
            BY Locals DEF ReqOK, OpsAt
        <3> QED
            BY <2>1, <3>1 DEF UserOK, CreationOK, Unindexed, Creates
    <2>3. Whole(u)
        BY DEF Whole
    <2> QED
        BY <2>1, <2>2, <2>3 DEF UserOK, KeysOK
<1> QED
    BY <1>1, Invariance, PTL

\* update_user_provisioned: outside a request at work on the user, no key of the index names a user
\* under another address than that of the record: renames that lose or fail give addresses back.
THEOREM NoAddressIsKept == Spec => []NoSquattedEmail
<1>1. IInv => NoSquattedEmail
    <2> SUFFICES ASSUME IInv, NEW e \in Emails, idx[e] \in Users \ torn
                 PROVE  \/ Stored(idx[e]) /\ record[idx[e]].email = e
                        \/ \E p \in Procs : req[p].user = idx[e] /\ pc[p] \in {"swap", "unclaim", "release"}
        BY DEF NoSquattedEmail
    <2>1. UserOK(idx[e])
        BY DEF IInv
    <2>2. \/ Stored(idx[e]) /\ record[idx[e]].email = e
          \/ \E p \in Procs : Holds(p, idx[e], e)
        BY <2>1 DEF UserOK, OwnedOK
    <2> QED
        BY <2>2 DEF Holds, HoldsKey
<1> QED
    BY <1>1, Invariance, PTL

\* handle_email_verification, handle_password_reset_complete: a disabled or suspended account is
\* made active by a step of a hook, of SCIM or of an administrator only.
THEOREM OnlyAuthorityReinstates == Spec => ReinstatedByAuthority
<1> DEFINE Powers == {"register", "provision", "hook", "rename", "activate"}
           Rule == \A u \in Users :
                      record[u].st = "barred" /\ record'[u].st = "active"
                      => \E p \in Procs : pc'[p] # pc[p] /\ req[p].user = u /\ req[p].op \in Powers
<1>1. ASSUME IInv, [Next]_vars PROVE Rule
    <2> SUFFICES ASSUME NEW u \in Users, record[u].st = "barred", record'[u].st = "active"
                 PROVE  \E p \in Procs : pc'[p] # pc[p] /\ req[p].user = u /\ req[p].op \in Powers
        OBVIOUS
    <2>1. record'[u] # record[u] /\ record \in [Users -> Record]
        BY <1>1 DEF IInv, TypeOK
    <2>2. PICK p \in Procs : Handler(p)
        BY <1>1, <2>1 DEF Next, vars, kv, ExpireToken, StartReset
    <2>3. \/ RollBack(p) \/ DropRecord(p) \/ OverwriteUser(p) \/ SwapUser(p)
          \/ \E op \in Creators, v \in Users, e \in Emails, st \in {"active", "barred"} : CreateUser(p, op, v, e, st)
        BY <2>1, <2>2 DEF Handler, CreateIndex, Resend, Vet, Join, LookUp, CleanUp, ReadUser, ClaimEmail, SwapConflict,
            UnclaimEmail, ReleaseEmail, ReadForErase, DropIndex, Crash, Invite, PresentToken, BeginActivate, BeginErase,
            BeginHook, BeginRename, BeginRegister, BeginProvision, Creators, kv
    <2>4. CASE RollBack(p) \/ DropRecord(p)
        <3>1. PICK v \in Users : Delete(v)
            BY <1>1, <2>4, Locals DEF RollBack, DropRecord, At, ReqOK, Request
        <3> QED
            BY <1>1, <2>1, <3>1, DeleteTyped
    <2>5. CASE OverwriteUser(p)
        <3>1. pc[p] = "overwrite" /\ pc'[p] = "idle" /\ req[p].op = "activate"
            BY <1>1, <2>5, MovesOne, Locals DEF OverwriteUser, At, Finish, ReqOK, OpsAt
        <3>2. req[p].user = u
            BY <2>1, <2>5 DEF OverwriteUser, Write
        <3> QED
            BY <3>1, <3>2
    <2>6. CASE SwapUser(p)
        <3>1. /\ pc[p] = "swap" /\ ReqOK("swap", req[p]) /\ req[p].op \in Updaters /\ req[p].user \in Users
            BY <1>1, <2>6, Locals DEF SwapUser, At, ReqOK, OpsAt, Request
        <3>2. pc'[p] # "swap"
            <4>1. AfterWrite(req[p]) # "swap"
                BY DEF AfterWrite
            <4> QED
                BY <1>1, <2>6, <4>1, MovesOne DEF SwapUser, Proceed, Goto, Finish
        <3>3. req[p].user = u
            BY <2>1, <2>6 DEF SwapUser, Write
        <3>4. /\ record[u].st = req[p].seen.st
              /\ record'[u].st = IF req[p].op = "reset" THEN req[p].seen.st ELSE req[p].to
            <4> DEFINE st == IF req[p].op = "reset" THEN req[p].seen.st ELSE req[p].to
                       email == IF req[p].op = "rename" THEN req[p].email ELSE req[p].seen.email
                       pw == IF req[p].op = "reset" THEN req[p].pw ELSE req[p].seen.pw
            <4>1. u = req[p].user
                BY <3>3
            <4>2. record[u] = req[p].seen /\ record'[u] = [st |-> st, email |-> email, pw |-> pw, rev |-> record[u].rev + 1]
                BY <1>1, <2>6, <4>1, Swapped
            <4> HIDE DEF st, email, pw
            <4>3. record'[u].st = st
                BY <4>2
            <4> QED
                BY <4>2, <4>3 DEF st
        <3>5. req[p].op # "reset"
            BY <3>4
        <3>6. req[p].op # "verify"
            BY <3>1, <3>4 DEF ReqOK
        <3> QED
            BY <3>1, <3>2, <3>3, <3>5, <3>6 DEF Updaters, Creators
    <2>7. CASE \E op \in Creators, v \in Users, e \in Emails, st \in {"active", "barred"} : CreateUser(p, op, v, e, st)
        <3>1. PICK v \in Users : record[v].rev = 0 /\ \A w \in Users \ {v} : record'[w] = record[w]
            BY <2>1, <2>7 DEF CreateUser, Write
        <3>2. u = v /\ ~Stored(v)
            BY <1>1, <2>1, <3>1 DEF IInv, UserOK, CreationOK
        <3> QED
            BY <3>2 DEF Stored
    <2> QED
        BY <2>3, <2>4, <2>5, <2>6, <2>7
<1>2. IInv /\ [Next]_vars => [Rule]_vars
    BY <1>1
<1>3. [][Rule]_vars => ReinstatedByAuthority
    BY DEF ReinstatedByAuthority
<1> QED
    BY <1>2, <1>3, Invariance, PTL DEF Spec

-----------------------------------------------------------------------------
(***************************************************************************)
(* What becomes of a sign-in: theorems about BrowserSessions for any       *)
(* number of requests, browsers, account sessions and tokens.  The two     *)
(* about revocation suppose that what the settings offer lives shorter     *)
(* than the marker by the time a request may take.  A constant or variable *)
(* that both modules declare stands for BrowserSessions' own from here on; *)
(* nothing is said of both at once.                                        *)
(***************************************************************************)
\* What only BrowserSessions declares, and its definitions under the name BS.
CONSTANTS Accounts, Verifiers, None, TTLs, MarkTTL, AccountTTL, TokenTTL, MaxFlight, MaxTime
VARIABLES ttl, active, verifier, revoked, out
BS == INSTANCE BrowserSessions

\* TTL_REVOCATION_MARKER is 30 days, TTL_ACCOUNT_SESSION 30 minutes, an access token lives an hour;
\* update_settings would also take a session lifetime longer than the marker's.
ShortLived == \A t \in TTLs \cup {AccountTTL, TokenTTL} : t + MaxFlight < MarkTTL

\* What a request with locals r knows when it is about to take step l.
SessionReqOK(l, r) ==
    /\ l \in {"judge", "admin", "issue", "slide", "save"} =>
          r.grant \in BS!Grants /\ r.seen.auth = signed[r.grant] /\ grant[r.grant].st # "unused"
    /\ l \in {"issue", "slide", "save"} => r.grant \in Browsers
    /\ l = "save" => r.seen.st = "live"
    /\ l = "logout" => r.grant \in Browsers \cup Accounts
    /\ l # "idle" => r.at <= now /\ now <= r.at + MaxFlight
TypeInv ==
    /\ BS!TypeOK /\ \A p \in Procs : SessionReqOK(pc[p], req[p])
    /\ \A g \in BS!Grants : grant[g].auth = signed[g] /\ signed[g] <= now /\ (grant[g].st = "unused" => grant[g].until = 0)
    /\ \A g \in out : g \notin Tokens /\ grant[g].st = "gone"
    /\ marker.at <= now /\ revoked <= now /\ marker.until <= now + MarkTTL

\* No grant from before the marker outlives it, a token not even by a request in flight, and no
\* session on its way to be slid will.
Fits(g) ==
    /\ grant[g].until + MaxFlight < now + MarkTTL
    /\ signed[g] < marker.at => grant[g].until < marker.until /\ (g \in Tokens => grant[g].until + MaxFlight < marker.until)
SaveFits(r) == r.seen.auth < marker.at => r.at + MarkTTL <= marker.until
MarkerInv ==
    /\ \A g \in BS!Grants : grant[g].st # "unused" => Fits(g)
    /\ \A p \in Procs : pc[p] = "save" => SaveFits(req[p])

\* A request that began with a grant from before the last revocation is before its judgement,
\* carries that grant, and ends before the marker does.
Late(p) == pc[p] \in {"judge", "admin", "issue"} /\ req[p].late
LateOK(l, r) ==
    /\ l # "issue" /\ r.seen.auth < marker.at /\ r.seen.until < marker.until
    /\ r.grant \in Tokens => r.seen.until + MaxFlight < marker.until /\ r.at <= r.seen.until
Marking(p) == pc[p] = "mark"
LateInv ==
    overlap \/ /\ admitted = {} /\ marker.at = revoked
               /\ \A p, q \in Procs : Marking(p) /\ Marking(q) => revoked <= req[p].at /\ req[p].at = req[q].at
               /\ \A p \in Procs : Late(p) => LateOK(pc[p], req[p])

SessionIInv == TypeInv /\ MarkerInv /\ LateInv

-----------------------------------------------------------------------------
(* The state has its types, and requests know what they carry. *)

\* What the tables hold, whatever the requests are at.
SessionTables ==
    /\ now \in 1..MaxTime /\ ttl \in TTLs /\ active \in BOOLEAN
    /\ grant \in [BS!Grants -> BS!Grant] /\ marker \in BS!Marker /\ verifier \subseteq Verifiers
    /\ requests \in 0..MaxRequests /\ signed \in [BS!Grants -> Nat] /\ revoked \in Nat /\ overlap \in BOOLEAN
    /\ out \subseteq BS!Grants /\ admitted \subseteq BS!Grants
    /\ \A g \in BS!Grants : grant[g].auth = signed[g] /\ signed[g] <= now /\ (grant[g].st = "unused" => grant[g].until = 0)
    /\ \A g \in out : g \notin Tokens /\ grant[g].st = "gone"
    /\ marker.at <= now /\ revoked <= now /\ marker.until <= now + MarkTTL

\* A grant is made once, and stays of the sign-in that it was made at.
Kept == \A g \in BS!Grants : grant[g].st # "unused" => grant'[g].st # "unused" /\ signed'[g] = signed[g]

LEMMA Times ==
    ASSUME BS!SessionConstants
    PROVE  /\ {MarkTTL, AccountTTL, TokenTTL, MaxFlight, MaxTime, MaxRequests} \subseteq Nat /\ 1 <= MaxTime
    /\ TTLs \subseteq Nat
    /\ \A g \in BS!Grants : (g \in Browsers => g \notin Accounts /\ g \notin Tokens) /\ (g \in Accounts => g \notin Tokens)
BY DEF BS!SessionConstants, BS!Grants

LEMMA SessionMovesOne ==
    ASSUME TypeInv, NEW p \in Procs, NEW l, NEW r, BS!GotoWith(p, l, r)
    PROVE  /\ pc'[p] = l /\ req'[p] = r
           /\ \A q \in Procs \ {p} : pc'[q] = pc[q] /\ req'[q] = req[q]
BY DEF TypeInv, BS!TypeOK, BS!GotoWith

LEMMA Known ==
    ASSUME TypeInv, NEW p \in Procs
    PROVE  req[p] \in BS!Request /\ pc[p] \in BS!Labels /\ SessionReqOK(pc[p], req[p]) /\ SessionTables
BY DEF TypeInv, BS!TypeOK, SessionTables

LEMMA StepTyped ==
    ASSUME TypeInv, NEW p \in Procs, NEW l \in BS!Labels, NEW r \in BS!Request, BS!GotoWith(p, l, r), SessionReqOK(l, r),
           UNCHANGED now, Kept, SessionTables'
    PROVE  TypeInv'
<1>1. /\ pc'[p] = l /\ req'[p] = r
      /\ \A q \in Procs \ {p} : pc'[q] = pc[q] /\ req'[q] = req[q]
    BY SessionMovesOne
<1>2. BS!TypeOK'
    BY DEF TypeInv, BS!TypeOK, SessionTables, BS!GotoWith
<1>3. \A q \in Procs : SessionReqOK(pc'[q], req'[q])
    BY <1>1 DEF TypeInv
<1>4. ASSUME NEW q \in Procs PROVE SessionReqOK(pc[q], req[q])'
    BY <1>3, <1>4 DEF SessionReqOK, Kept
<1> QED
    BY <1>2, <1>4 DEF TypeInv, SessionTables

LEMMA StillTyped ==
    ASSUME TypeInv, UNCHANGED <<pc, req, now>>, Kept, SessionTables'
    PROVE  TypeInv'
<1>1. ASSUME NEW q \in Procs PROVE SessionReqOK(pc[q], req[q])'
    BY <1>1 DEF TypeInv, SessionReqOK, Kept
<1> QED
    BY <1>1 DEF TypeInv, BS!TypeOK, SessionTables

LEMMA SessionNoRequestOK ==
    /\ BS!NoGrant \in BS!Grant /\ BS!NoRequest \in BS!Request /\ SessionReqOK("idle", BS!NoRequest)
    /\ BS!NoRequest.grant = None /\ BS!NoRequest.seen = BS!NoGrant /\ BS!NoRequest.late = FALSE
<1>1. BS!NoGrant \in BS!Grant
    BY DEF BS!NoGrant, BS!Grant
<1> QED
    BY <1>1 DEF BS!NoRequest, BS!Request, SessionReqOK

LEMMA FinishTyped ==
    ASSUME TypeInv, NEW p \in Procs, BS!Finish(p), UNCHANGED now, Kept, SessionTables'
    PROVE  TypeInv'
BY SessionNoRequestOK, StepTyped DEF BS!Finish, BS!Labels

LEMMA GotoTyped ==
    ASSUME TypeInv, NEW p \in Procs, NEW l \in BS!Labels, BS!Goto(p, l), SessionReqOK(l, req[p]), UNCHANGED now, Kept, SessionTables'
    PROVE TypeInv'
BY Known, StepTyped DEF BS!Goto

LEMMA SameKept == ASSUME UNCHANGED <<grant, signed>> PROVE Kept
BY DEF Kept

LEMMA LifetimeOK ==
    ASSUME BS!SessionConstants, SessionTables, NEW g \in BS!Grants
    PROVE  BS!Lifetime(g) \in TTLs \cup {AccountTTL, TokenTTL} /\ BS!Lifetime(g) \in Nat
BY Times DEF SessionTables, BS!Lifetime

LEMMA Makes ==
    ASSUME BS!SessionConstants, SessionTables, NEW g \in BS!Grants, grant[g].st = "unused", BS!Make(g)
    PROVE  /\ Kept /\ grant' \in [BS!Grants -> BS!Grant] /\ signed' \in [BS!Grants -> Nat]
           /\ grant'[g] = [st |-> "live", auth |-> now, until |-> now + BS!Lifetime(g)] /\ signed'[g] = now
           /\ \A h \in BS!Grants \ {g} : grant'[h] = grant[h] /\ signed'[h] = signed[h]
<1> DEFINE new == [st |-> "live", auth |-> now, until |-> now + BS!Lifetime(g)]
<1>1. now \in Nat /\ now + BS!Lifetime(g) \in Nat
    BY LifetimeOK, Times DEF SessionTables
<1>2. new \in BS!Grant
    BY <1>1 DEF BS!Grant
<1> HIDE DEF new
<1>3. grant' = [grant EXCEPT ![g] = new] /\ signed' = [signed EXCEPT ![g] = now]
    BY DEF BS!Make, new
<1>4. /\ grant' \in [BS!Grants -> BS!Grant] /\ signed' \in [BS!Grants -> Nat] /\ grant'[g] = new /\ signed'[g] = now
      /\ \A h \in BS!Grants \ {g} : grant'[h] = grant[h] /\ signed'[h] = signed[h]
    BY <1>1, <1>2, <1>3 DEF SessionTables
<1>5. Kept
    BY <1>4 DEF Kept
<1> QED
    BY <1>4, <1>5 DEF new

LEMMA Discards ==
    ASSUME SessionTables, NEW g \in BS!Grants, grant[g].st # "unused", BS!Discard(g), UNCHANGED signed
    PROVE  /\ Kept /\ grant' \in [BS!Grants -> BS!Grant]
           /\ grant'[g] = [grant[g] EXCEPT !.st = "gone"]
           /\ grant'[g].st = "gone" /\ grant'[g].auth = grant[g].auth /\ grant'[g].until = grant[g].until
           /\ \A h \in BS!Grants \ {g} : grant'[h] = grant[h]
<1>1. grant[g] \in BS!Grant /\ grant' = [grant EXCEPT ![g] = [grant[g] EXCEPT !.st = "gone"]]
    BY DEF SessionTables, BS!Discard
<1>2. /\ [grant[g] EXCEPT !.st = "gone"] \in BS!Grant
      /\ [grant[g] EXCEPT !.st = "gone"].st = "gone"
      /\ [grant[g] EXCEPT !.st = "gone"].auth = grant[g].auth
      /\ [grant[g] EXCEPT !.st = "gone"].until = grant[g].until
    BY <1>1 DEF BS!Grant
<1>3. /\ grant'[g] = [grant[g] EXCEPT !.st = "gone"] /\ grant' \in [BS!Grants -> BS!Grant]
      /\ \A h \in BS!Grants \ {g} : grant'[h] = grant[h]
    BY <1>1, <1>2 DEF SessionTables
<1> QED
    BY <1>2, <1>3 DEF Kept

\* The tables after a step that makes, discards or leaves grants alone, and writes nothing else
\* that they are related to.
LEMMA MakesTables ==
    ASSUME BS!SessionConstants, SessionTables, NEW g \in BS!Grants, grant[g].st = "unused", BS!Make(g), requests' \in 0..MaxRequests,
           UNCHANGED <<now, ttl, active, marker, verifier, revoked, out, overlap, admitted>>
    PROVE  SessionTables' /\ Kept
<1>1. now \in Nat /\ now <= now
    BY DEF SessionTables
<1>2. /\ Kept /\ grant' \in [BS!Grants -> BS!Grant] /\ signed' \in [BS!Grants -> Nat]
      /\ grant'[g] = [st |-> "live", auth |-> now, until |-> now + BS!Lifetime(g)] /\ signed'[g] = now
      /\ \A h \in BS!Grants \ {g} : grant'[h] = grant[h] /\ signed'[h] = signed[h]
    BY Makes
<1>3. \A h \in out : h # g
    BY DEF SessionTables
<1>4. ASSUME NEW h \in BS!Grants
      PROVE  grant'[h].auth = signed'[h] /\ signed'[h] <= now' /\ (grant'[h].st = "unused" => grant'[h].until = 0)
    <2>1. CASE h = g
        BY <1>1, <1>2, <2>1
    <2>2. CASE h # g
        <3>1. grant'[h] = grant[h] /\ signed'[h] = signed[h] /\ UNCHANGED now
            BY <1>2, <2>2
        <3> QED
            BY <3>1 DEF SessionTables
    <2> QED
        BY <2>1, <2>2
<1>5. \A h \in out' : h \notin Tokens /\ grant'[h].st = "gone"
    BY <1>3, <1>2 DEF SessionTables
<1> QED
    BY <1>4, <1>5, <1>2 DEF SessionTables

LEMMA DiscardsTables ==
    ASSUME SessionTables, NEW g \in BS!Grants, grant[g].st # "unused", BS!Discard(g), requests' \in 0..MaxRequests,
           UNCHANGED <<now, ttl, active, marker, verifier, signed, revoked, out, overlap, admitted>>
    PROVE  SessionTables' /\ Kept
BY Discards DEF SessionTables

LEMMA SameTables ==
    ASSUME SessionTables, UNCHANGED <<now, grant, marker, signed, revoked, out>>,
           ttl' \in TTLs, active' \in BOOLEAN, verifier' \subseteq Verifiers, requests' \in 0..MaxRequests,
           overlap' \in BOOLEAN, admitted' \subseteq BS!Grants
    PROVE  SessionTables' /\ Kept
BY SameKept DEF SessionTables

LEMMA Counted ==
    ASSUME BS!SessionConstants, SessionTables, requests < MaxRequests, requests' = requests + 1
    PROVE  requests' \in 0..MaxRequests
BY Times DEF SessionTables

LEMMA SessionStartOK ==
    ASSUME TypeInv, NEW p \in Procs, NEW l \in BS!Labels, NEW r \in BS!Request, BS!Start(p, l, r), UNCHANGED now, Kept, SessionTables',
           SessionReqOK(l, [r EXCEPT !.at = now])
    PROVE  TypeInv'
<1> DEFINE s == [r EXCEPT !.at = now]
<1>1. s \in BS!Request /\ BS!GotoWith(p, l, s)
    BY Known DEF BS!Start, BS!Request, SessionTables
<1> HIDE DEF s
<1> QED
    BY <1>1, StepTyped DEF s

\* A request that carries the grant g as it was read.
Carrying(g) == [BS!NoRequest EXCEPT !.grant = g, !.seen = grant[g], !.late = BS!Doomed(g), !.at = now]

LEMMA CarryingOK ==
    ASSUME TypeInv, NEW g \in BS!Grants
    PROVE  /\ Carrying(g) \in BS!Request /\ Carrying(g).grant = g /\ Carrying(g).seen = grant[g]
           /\ Carrying(g).late = BS!Doomed(g) /\ Carrying(g).at = now
<1>1. grant[g] \in BS!Grant /\ BS!Doomed(g) \in BOOLEAN /\ now \in Nat
    BY DEF TypeInv, BS!TypeOK, BS!Doomed
<1> QED
    BY <1>1, SessionNoRequestOK DEF Carrying, BS!Request, BS!NoRequest

\* A request that begins with a grant, at whichever page.
Opens(p, l, g) ==
    /\ BS!Present(g) /\ requests < MaxRequests /\ requests' = requests + 1
    /\ l \in {"judge", "admin"} /\ BS!GotoWith(p, l, Carrying(g))
    /\ UNCHANGED <<now, BS!kv, signed, revoked, out, overlap, admitted>>

LEMMA OpensOf ==
    ASSUME NEW p \in Procs, NEW g \in BS!Grants,
           \/ BS!BeginAuthorize(p, g) \/ BS!BeginPage(p, g) \/ BS!BeginUserinfo(p, g) \/ BS!BeginIntrospect(p, g) \/ BS!BeginAdminPage(p, g)
    PROVE  Opens(p, "judge", g) \/ Opens(p, "admin", g)
<1>1. [[BS!NoRequest EXCEPT !.grant = g, !.seen = grant[g], !.late = BS!Doomed(g)] EXCEPT !.at = now] = Carrying(g)
    BY DEF Carrying, BS!NoRequest
<1>2. BS!Begin(p, g) => Opens(p, "judge", g)
    BY <1>1 DEF BS!Begin, BS!Start, Opens
<1>3. BS!BeginAdminPage(p, g) => Opens(p, "admin", g)
    BY <1>1 DEF BS!BeginAdminPage, BS!Start, Opens
<1> QED
    BY <1>2, <1>3 DEF BS!BeginAuthorize, BS!BeginPage, BS!BeginUserinfo, BS!BeginIntrospect

\* What is present was made, and has not ended by now.
LEMMA PresentMade ==
    ASSUME BS!SessionConstants, SessionTables, NEW g \in BS!Grants, BS!Present(g)
    PROVE  (grant[g].st = "live" \/ (g \in Tokens /\ grant[g].st # "unused")) /\ now <= grant[g].until /\ g \notin out
<1>1. now \in Nat /\ 1 <= now /\ grant[g] \in BS!Grant
    BY Times DEF SessionTables
<1>2. now <= grant[g].until
    BY DEF BS!Present, BS!Verifies
<1>3. grant[g].st # "unused"
    BY <1>1, <1>2 DEF SessionTables
<1> QED
    BY <1>2, <1>3 DEF BS!Present, SessionTables

LEMMA OpensTyped ==
    ASSUME BS!SessionConstants, TypeInv, NEW p \in Procs, NEW l, NEW g \in BS!Grants, Opens(p, l, g)
    PROVE  TypeInv'
<1> DEFINE r == Carrying(g)
<1>1. SessionTables /\ grant[g].st # "unused" /\ requests' \in 0..MaxRequests
    BY Known, PresentMade, Counted DEF Opens
<1>2. SessionTables' /\ Kept
    BY <1>1, SameTables DEF Opens, BS!kv, SessionTables
<1>3. grant[g].auth = signed[g] /\ now \in Nat /\ now <= now + MaxFlight
    BY <1>1, Times DEF SessionTables
<1>4. r \in BS!Request /\ r.grant = g /\ r.seen = grant[g] /\ r.at = now
    BY CarryingOK
<1> HIDE DEF r
<1>5. SessionReqOK(l, r)
    BY <1>1, <1>3, <1>4 DEF SessionReqOK, Opens
<1> QED
    BY <1>2, <1>4, <1>5, StepTyped DEF Opens, BS!Labels, r

LEMMA AdmitTyped ==
    ASSUME TypeInv, NEW p \in Procs, pc[p] \in {"judge", "admin", "issue"}, BS!Admit(p) \/ UNCHANGED admitted
    PROVE  admitted' \subseteq BS!Grants
BY Known DEF BS!Admit, SessionReqOK, SessionTables

LEMMA JudgeTyped ==
    ASSUME TypeInv, NEW p \in Procs, BS!JudgeToken(p) \/ BS!JudgeAccount(p) \/ BS!JudgeAdmin(p) \/ BS!JudgeBrowser(p)
    PROVE  TypeInv'
<1>1. /\ SessionTables /\ pc[p] \in {"judge", "admin"} /\ SessionReqOK(pc[p], req[p])
      /\ UNCHANGED <<now, ttl, active, marker, verifier, requests, signed, revoked, out, overlap>>
    BY Known DEF BS!JudgeToken, BS!JudgeAccount, BS!JudgeAdmin, BS!JudgeBrowser, BS!At, BS!kv,
       BS!history
<1>2. /\ BS!Admit(p) \/ UNCHANGED admitted
      /\ UNCHANGED grant \/ (BS!Discard(req[p].grant) /\ UNCHANGED admitted)
    BY DEF BS!JudgeToken, BS!JudgeAccount, BS!JudgeAdmin, BS!JudgeBrowser, BS!kv, BS!history
<1>3. admitted' \subseteq BS!Grants
    BY <1>1, <1>2, AdmitTyped
<1>4. requests' \in 0..MaxRequests /\ ttl' \in TTLs /\ active' \in BOOLEAN /\ verifier' \subseteq Verifiers /\ overlap' \in BOOLEAN
    BY <1>1 DEF SessionTables
<1>5. SessionTables' /\ Kept
    <2>1. CASE UNCHANGED grant
        BY <1>1, <1>3, <1>4, <2>1, SameTables
    <2>2. CASE BS!Discard(req[p].grant) /\ UNCHANGED admitted
        BY <1>1, <1>4, <2>2, DiscardsTables DEF SessionReqOK
    <2> QED
        BY <1>2, <2>1, <2>2
<1>6. CASE BS!Finish(p)
    BY <1>1, <1>5, <1>6, FinishTyped
<1>7. CASE BS!Goto(p, "issue") /\ req[p].grant \in Browsers
    <2>1. SessionReqOK("issue", req[p])
        BY <1>1, <1>7 DEF SessionReqOK
    <2> QED
        BY <1>1, <1>5, <1>7, <2>1, GotoTyped DEF BS!Labels
<1> QED
    BY <1>6, <1>7 DEF BS!JudgeToken, BS!JudgeAccount, BS!JudgeAdmin, BS!JudgeBrowser

LEMMA IssueTyped ==
    ASSUME TypeInv, NEW p \in Procs, BS!ReuseSession(p) \/ BS!DeclineSession(p) \/ BS!Crash(p)
    PROVE  TypeInv'
<1>1. /\ SessionTables /\ SessionReqOK(pc[p], req[p]) /\ UNCHANGED <<now, BS!kv, requests, signed, revoked, out, overlap>>
      /\ UNCHANGED admitted \/ (pc[p] = "issue" /\ BS!Admit(p))
    BY Known DEF BS!ReuseSession, BS!DeclineSession, BS!Crash, BS!At, BS!kv, BS!history
<1>2. admitted' \subseteq BS!Grants
    BY <1>1, AdmitTyped DEF SessionTables
<1>3. SessionTables' /\ Kept
    BY <1>1, <1>2, SameTables DEF BS!kv, SessionTables
<1>4. CASE BS!Finish(p)
    BY <1>1, <1>3, <1>4, FinishTyped
<1>5. CASE BS!Goto(p, "slide") /\ pc[p] = "issue"
    <2>1. SessionReqOK("slide", req[p])
        BY <1>1, <1>5 DEF SessionReqOK
    <2> QED
        BY <1>1, <1>3, <1>5, <2>1, GotoTyped DEF BS!Labels
<1> QED
    BY <1>4, <1>5 DEF BS!ReuseSession, BS!DeclineSession, BS!Crash, BS!At

LEMMA ReadTyped ==
    ASSUME BS!SessionConstants, TypeInv, NEW p \in Procs, BS!ReadForSlide(p) PROVE TypeInv'
<1> DEFINE g == req[p].grant  r == [req[p] EXCEPT !.seen = grant[g]]
<1>1. /\ SessionTables /\ pc[p] = "slide" /\ SessionReqOK("slide", req[p]) /\ req[p] \in BS!Request /\ g \in BS!Grants /\ g \in Browsers
      /\ UNCHANGED <<now, ttl, active, marker, verifier, requests, signed, revoked, out, overlap, admitted>>
    BY Known DEF BS!ReadForSlide, BS!At, BS!history, SessionReqOK
<1>2. /\ UNCHANGED grant \/ BS!Discard(g)
      /\ requests' \in 0..MaxRequests /\ ttl' \in TTLs /\ active' \in BOOLEAN /\ verifier' \subseteq Verifiers
      /\ overlap' \in BOOLEAN /\ admitted' \subseteq BS!Grants
    BY <1>1 DEF BS!ReadForSlide, SessionTables
<1>3. SessionTables' /\ Kept
    BY <1>1, <1>2, SameTables, DiscardsTables DEF SessionReqOK
<1>4. CASE BS!GotoWith(p, "save", r) /\ BS!Present(g)
    <2>1. grant[g] \in BS!Grant /\ grant[g].auth = signed[g] /\ grant[g].st = "live"
        BY <1>1, <1>4, Times DEF SessionTables, BS!Present
    <2>2. r \in BS!Request /\ r.seen = grant[g] /\ r.grant = g /\ r.at = req[p].at
        BY <1>1, <2>1 DEF BS!Request
    <2> HIDE DEF r
    <2>3. SessionReqOK("save", r)
        BY <1>1, <2>1, <2>2 DEF SessionReqOK
    <2> QED
        BY <1>1, <1>3, <1>4, <2>2, <2>3, StepTyped DEF BS!Labels
<1>5. CASE BS!Goto(p, "account")
    <2>1. SessionReqOK("account", req[p])
        BY <1>1 DEF SessionReqOK
    <2> QED
        BY <1>1, <1>3, <1>5, <2>1, GotoTyped DEF BS!Labels
<1> QED
    BY <1>4, <1>5 DEF BS!ReadForSlide

\* The session that a slide puts back.
LEMMA Slides ==
    ASSUME BS!SessionConstants, TypeInv, NEW p \in Procs, BS!SlideSession(p)
    PROVE  /\ SessionTables /\ pc[p] = "save" /\ req[p].grant \in Browsers /\ req[p].seen.auth = signed[req[p].grant]
           /\ now <= req[p].at + MaxFlight /\ req[p] \in BS!Request /\ grant' \in [BS!Grants -> BS!Grant]
           /\ grant'[req[p].grant].auth = req[p].seen.auth /\ grant'[req[p].grant].until = now + ttl
           /\ grant'[req[p].grant].st = "live" /\ grant[req[p].grant].st # "unused"
           /\ \A h \in BS!Grants \ {req[p].grant} : grant'[h] = grant[h]
<1> DEFINE g == req[p].grant
<1>1. /\ SessionTables /\ pc[p] = "save" /\ SessionReqOK("save", req[p]) /\ req[p] \in BS!Request /\ g \in BS!Grants /\ g \in Browsers
      /\ grant' = [grant EXCEPT ![g] = BS!Slid(req[p].seen)]
    BY Known DEF BS!SlideSession, BS!At, SessionReqOK
<1>2. req[p].seen \in BS!Grant /\ now + ttl \in Nat
    BY <1>1, Times DEF SessionTables, BS!Request
<1>3. /\ BS!Slid(req[p].seen) \in BS!Grant /\ BS!Slid(req[p].seen).auth = req[p].seen.auth
      /\ BS!Slid(req[p].seen).until = now + ttl /\ BS!Slid(req[p].seen).st = req[p].seen.st
    BY <1>2 DEF BS!Slid, BS!Grant
<1>4. /\ grant'[g] = BS!Slid(req[p].seen) /\ grant' \in [BS!Grants -> BS!Grant]
      /\ \A h \in BS!Grants \ {g} : grant'[h] = grant[h]
    BY <1>1, <1>3 DEF SessionTables
<1> QED
    BY <1>1, <1>3, <1>4 DEF SessionReqOK

LEMMA SlideTyped ==
    ASSUME BS!SessionConstants, TypeInv, NEW p \in Procs, BS!SlideSession(p) PROVE TypeInv'
<1> DEFINE g == req[p].grant
<1>1. /\ UNCHANGED <<now, ttl, active, marker, verifier, requests, signed, revoked, overlap, admitted>>
      /\ out' = IF grant[g].st = "gone" THEN out \ {g} ELSE out
      /\ BS!Goto(p, "account")
    BY DEF BS!SlideSession
<1>2. Kept
    BY <1>1, Slides DEF Kept
<1>3. ASSUME NEW h \in BS!Grants
      PROVE  grant'[h].auth = signed'[h] /\ signed'[h] <= now' /\ (grant'[h].st = "unused" => grant'[h].until = 0)
    <2>1. CASE h = g
        BY <1>1, <2>1, Slides DEF SessionTables
    <2>2. CASE h # g
        <3>1. grant'[h] = grant[h] /\ SessionTables
            BY <2>2, Slides
        <3> QED
            BY <1>1, <3>1 DEF SessionTables
    <2> QED
        BY <2>1, <2>2
<1>4. \A h \in out' : h \notin Tokens /\ grant'[h].st = "gone"
    <2>1. \A h \in out' : h # g /\ h \in out /\ h \in BS!Grants
        BY <1>1, Slides DEF SessionTables
    <2> QED
        BY <2>1, Slides DEF SessionTables
<1>5. SessionTables'
    BY <1>1, <1>3, <1>4, Slides DEF SessionTables
<1>6. SessionReqOK(pc[p], req[p]) /\ pc[p] = "save"
    BY Known, Slides
<1>7. SessionReqOK("account", req[p])
    BY <1>6 DEF SessionReqOK
<1> QED
    BY <1>1, <1>2, <1>5, <1>7, GotoTyped DEF BS!Labels

LEMMA MakeTyped ==
    ASSUME BS!SessionConstants, TypeInv, NEW g \in BS!Grants,
           BS!CreateGrant(g) \/ \E p \in Procs : BS!CreateSessionCookie(p, g) \/ BS!ExchangeForAdmin(p, g)
    PROVE  TypeInv'
<1>1. SessionTables
    BY DEF TypeInv, BS!TypeOK, SessionTables
<1>2. CASE BS!CreateGrant(g)
    <2>1. /\ grant[g].st = "unused" /\ BS!Make(g) /\ requests' \in 0..MaxRequests
          /\ UNCHANGED <<now, ttl, active, marker, verifier, pc, req, revoked, out, overlap, admitted>>
        BY <1>1, <1>2, Counted DEF BS!CreateGrant
    <2> QED
        BY <1>1, <2>1, MakesTables, StillTyped
<1>3. ASSUME NEW p \in Procs, BS!CreateSessionCookie(p, g) \/ BS!ExchangeForAdmin(p, g)
      PROVE  TypeInv'
    <2>1. /\ grant[g].st = "unused" /\ BS!Finish(p) /\ (BS!Make(g) \/ UNCHANGED <<grant, signed>>)
          /\ UNCHANGED <<now, ttl, active, marker, verifier, requests, revoked, out, overlap, admitted>>
        BY <1>3 DEF BS!CreateSessionCookie, BS!ExchangeForAdmin
    <2>2. /\ requests' \in 0..MaxRequests /\ ttl' \in TTLs /\ active' \in BOOLEAN /\ verifier' \subseteq Verifiers
          /\ overlap' \in BOOLEAN /\ admitted' \subseteq BS!Grants
        BY <1>1, <2>1 DEF SessionTables
    <2>3. SessionTables' /\ Kept
        <3>1. CASE BS!Make(g)
            BY <1>1, <2>1, <2>2, <3>1, MakesTables
        <3>2. CASE UNCHANGED <<grant, signed>>
            BY <1>1, <2>1, <2>2, <3>2, SameTables
        <3> QED
            BY <2>1, <3>1, <3>2
    <2> QED
        BY <2>1, <2>3, FinishTyped
<1> QED
    BY <1>2, <1>3

\* A request that begins without a grant.
LEMMA BareOK ==
    ASSUME BS!SessionConstants, TypeInv PROVE /\ [BS!NoRequest EXCEPT !.at = now] \in BS!Request
                         /\ [BS!NoRequest EXCEPT !.at = now].at = now
                         /\ [BS!NoRequest EXCEPT !.at = now].late = FALSE
<1>1. now \in Nat
    BY Times DEF TypeInv, BS!TypeOK
<1> QED
    BY <1>1, SessionNoRequestOK DEF BS!Request, BS!NoRequest

LEMMA BareTyped ==
    ASSUME BS!SessionConstants, TypeInv, NEW p \in Procs,
           (\E v \in Verifiers : BS!AdminCallback(p, v)) \/ \E bar \in BOOLEAN : BS!BeginRevoke(p, bar)
    PROVE  TypeInv'
<1> DEFINE r == [BS!NoRequest EXCEPT !.at = now]
<1>1. /\ SessionTables /\ UNCHANGED <<now, grant, marker, signed, revoked, out, ttl, admitted>>
      /\ active' \in BOOLEAN /\ verifier' \subseteq Verifiers /\ overlap' \in BOOLEAN
      /\ requests < MaxRequests /\ requests' = requests + 1
      /\ \E l \in {"exchange", "mark"} : BS!GotoWith(p, l, r)
    BY Known DEF BS!AdminCallback, BS!BeginRevoke, BS!Start, SessionTables
<1>2. SessionTables' /\ Kept
    BY <1>1, SameTables, Counted DEF SessionTables
<1>3. now \in Nat /\ now <= now /\ now <= now + MaxFlight
    BY <1>1, Times DEF SessionTables
<1>4. r \in BS!Request /\ r.at = now
    BY BareOK
<1> HIDE DEF r
<1>5. \A l \in {"exchange", "mark"} : SessionReqOK(l, r)
    BY <1>3, <1>4 DEF SessionReqOK
<1> QED
    BY <1>1, <1>2, <1>4, <1>5, StepTyped DEF BS!Labels

LEMMA SessionDeleteTyped ==
    ASSUME BS!SessionConstants, TypeInv, NEW p \in Procs, NEW g \in BS!Grants, BS!Delete(p, g)
    PROVE  TypeInv'
<1> DEFINE r == [[BS!NoRequest EXCEPT !.grant = g] EXCEPT !.at = now]
<1>1. /\ SessionTables /\ g \in Browsers \cup Accounts /\ grant[g].st # "unused" /\ requests' \in 0..MaxRequests
      /\ BS!GotoWith(p, "logout", r) /\ BS!Discard(g)
      /\ UNCHANGED <<now, ttl, active, marker, verifier, signed, revoked, out, overlap, admitted>>
    BY Known, Counted DEF BS!Delete, BS!Start
<1>2. SessionTables' /\ Kept
    BY <1>1, DiscardsTables
<1>3. now \in Nat /\ now <= now /\ now <= now + MaxFlight
    BY <1>1, Times DEF SessionTables
<1>4. r \in BS!Request /\ r.at = now /\ r.grant = g
    BY <1>3, SessionNoRequestOK DEF BS!Request, BS!NoRequest
<1> HIDE DEF r
<1>5. SessionReqOK("logout", r)
    BY <1>1, <1>3, <1>4 DEF SessionReqOK
<1> QED
    BY <1>1, <1>2, <1>4, <1>5, StepTyped DEF BS!Labels

LEMMA AnswerTyped ==
    ASSUME BS!SessionConstants, TypeInv, NEW p \in Procs, BS!AnswerLogout(p) PROVE TypeInv'
<1>1. /\ SessionTables /\ req[p].grant \in Browsers \cup Accounts /\ BS!Finish(p)
      /\ UNCHANGED <<now, BS!kv, requests, signed, revoked, overlap, admitted>>
      /\ out' = IF grant[req[p].grant].st = "gone" THEN out \cup {req[p].grant} ELSE out
    BY Known DEF BS!AnswerLogout, BS!At, SessionReqOK
<1>2. req[p].grant \in BS!Grants /\ req[p].grant \notin Tokens
    BY <1>1, Times DEF BS!Grants
<1>3. SessionTables'
    BY <1>1, <1>2 DEF SessionTables, BS!kv
<1>4. Kept
    BY <1>1, SameKept DEF BS!kv
<1> QED
    BY <1>1, <1>3, <1>4, FinishTyped

LEMMA RevokeTyped ==
    ASSUME BS!SessionConstants, TypeInv, NEW p \in Procs, BS!RevokeUserSessions(p) PROVE TypeInv'
<1>1. /\ SessionTables /\ req[p].at \in Nat /\ req[p].at <= now /\ BS!Finish(p)
      /\ UNCHANGED <<now, ttl, active, grant, verifier, requests, signed, out, overlap, admitted>>
      /\ marker' = [at |-> req[p].at, until |-> now + MarkTTL]
      /\ revoked' = IF req[p].at > revoked THEN req[p].at ELSE revoked
    BY Known DEF BS!RevokeUserSessions, BS!At, SessionReqOK, BS!Request
<1>2. now + MarkTTL \in Nat
    BY <1>1, Times DEF SessionTables
<1>3. marker' \in BS!Marker /\ marker'.at <= now /\ marker'.until <= now + MarkTTL
    BY <1>1, <1>2 DEF BS!Marker
<1>4. SessionTables'
    BY <1>1, <1>3 DEF SessionTables
<1>5. Kept
    BY <1>1, SameKept
<1> QED
    BY <1>1, <1>4, <1>5, FinishTyped

LEMMA OtherTyped ==
    ASSUME BS!SessionConstants, TypeInv, BS!Activate \/ (\E v \in Verifiers : BS!RedirectAdmin(v)) \/ \E t \in TTLs : BS!UpdateSettings(t)
    PROVE  TypeInv'
<1>1. /\ SessionTables /\ UNCHANGED <<pc, req, now, grant, marker, signed, revoked, out, overlap, admitted>>
      /\ requests < MaxRequests /\ requests' = requests + 1
      /\ ttl' \in TTLs /\ active' \in BOOLEAN /\ verifier' \subseteq Verifiers
    BY DEF TypeInv, BS!TypeOK, SessionTables, BS!Activate, BS!RedirectAdmin, BS!UpdateSettings
<1>2. SessionTables' /\ Kept
    BY <1>1, Counted, SameTables DEF SessionTables
<1> QED
    BY <1>1, <1>2, StillTyped

LEMMA TickTyped ==
    ASSUME BS!SessionConstants, TypeInv, BS!Tick PROVE TypeInv'
<1>1. /\ now \in Nat /\ 1 <= now /\ now < MaxTime /\ now' = now + 1
      /\ UNCHANGED <<ttl, active, grant, marker, verifier, pc, req, requests, signed, revoked, out, overlap, admitted>>
      /\ \A p \in Procs : pc[p] # "idle" => now < req[p].at + MaxFlight
    BY Known DEF BS!Tick, BS!kv, BS!history, TypeInv, BS!TypeOK, BS!At
<1>2. now' \in 1..MaxTime
    BY <1>1, Times
<1>3. BS!TypeOK'
    BY <1>1, <1>2 DEF TypeInv, BS!TypeOK
<1>4. ASSUME NEW p \in Procs PROVE SessionReqOK(pc[p], req[p])'
    <2>1. req[p].at \in Nat /\ SessionReqOK(pc[p], req[p])
        BY Known DEF BS!Request
    <2> QED
        BY <1>1, <2>1, Times DEF SessionReqOK
<1>5. \A g \in BS!Grants : signed[g] \in Nat
    BY DEF TypeInv, BS!TypeOK
<1>6. marker.at \in Nat /\ marker.until \in Nat /\ revoked \in Nat
    BY DEF TypeInv, BS!TypeOK, BS!Marker
<1> QED
    BY <1>1, <1>3, <1>4, <1>5, <1>6, Times DEF TypeInv

\* The step of a request, whichever route leads to it.
Steps(p) ==
    \/ BS!JudgeToken(p) \/ BS!JudgeAccount(p) \/ BS!JudgeBrowser(p) \/ BS!JudgeAdmin(p)
    \/ BS!ReuseSession(p) \/ BS!DeclineSession(p) \/ BS!ReadForSlide(p) \/ BS!SlideSession(p)
    \/ BS!AnswerLogout(p) \/ BS!RevokeUserSessions(p) \/ BS!Crash(p)

LEMMA NextSteps ==
    ASSUME BS!Next
    PROVE  \/ \E p \in Procs :
                \/ Steps(p)
                \/ (\E v \in Verifiers : BS!AdminCallback(p, v)) \/ \E bar \in BOOLEAN : BS!BeginRevoke(p, bar)
                \/ \E g \in BS!Grants : Opens(p, "judge", g) \/ Opens(p, "admin", g) \/ BS!Delete(p, g)
           \/ \E g \in BS!Grants : BS!CreateGrant(g) \/ \E p \in Procs : BS!CreateSessionCookie(p, g) \/ BS!ExchangeForAdmin(p, g)
           \/ BS!Activate \/ (\E v \in Verifiers : BS!RedirectAdmin(v)) \/ \E t \in TTLs : BS!UpdateSettings(t)
           \/ BS!Tick
<1>1. ASSUME NEW p \in Procs, BS!Handler(p)
      PROVE  \/ Steps(p)
             \/ (\E v \in Verifiers : BS!AdminCallback(p, v)) \/ \E bar \in BOOLEAN : BS!BeginRevoke(p, bar)
             \/ \E g \in BS!Grants : Opens(p, "judge", g) \/ Opens(p, "admin", g) \/ BS!Delete(p, g)
             \/ \E g \in BS!Grants : BS!CreateSessionCookie(p, g) \/ BS!ExchangeForAdmin(p, g)
    <2>1. ASSUME NEW g \in BS!Grants, BS!HandleLogout(p, g) \/ BS!AdminLogout(p,
                 g) \/ BS!AccountLogout(p, g)
          PROVE  BS!Delete(p, g)
        BY <2>1 DEF BS!HandleLogout, BS!AdminLogout, BS!AccountLogout
    <2> QED
        BY <1>1, <2>1, OpensOf DEF BS!Handler, Steps
<1> QED
    BY <1>1 DEF BS!Next, BS!CreateIdpSession, BS!CreateAccountSession, BS!CreateAdminSession,
       BS!IssueAccessToken

LEMMA TypeNext ==
    ASSUME BS!SessionConstants PROVE TypeInv /\ [BS!Next]_(BS!vars) => TypeInv'
<1>1. ASSUME TypeInv, NEW p \in Procs, Steps(p) PROVE TypeInv'
    BY <1>1, JudgeTyped, IssueTyped, ReadTyped, SlideTyped, AnswerTyped, RevokeTyped DEF Steps
<1>2. ASSUME TypeInv, UNCHANGED BS!vars PROVE TypeInv'
    BY <1>2 DEF TypeInv, BS!TypeOK, SessionReqOK, BS!vars, BS!kv, BS!history
<1>3. ASSUME TypeInv, BS!Next PROVE TypeInv'
    BY <1>1, <1>3, NextSteps, OpensTyped, BareTyped, SessionDeleteTyped, MakeTyped, OtherTyped,
       TickTyped
<1> QED
    BY <1>2, <1>3

LEMMA TypeInit ==
    ASSUME BS!SessionConstants PROVE BS!Init => TypeInv
<1> SUFFICES ASSUME BS!Init PROVE TypeInv
    OBVIOUS
<1>1. BS!NoMarker \in BS!Marker /\ BS!NoMarker.at = 0 /\ BS!NoMarker.until = 0
    BY DEF BS!NoMarker, BS!Marker
<1>2. BS!TypeOK
    <2>1. 1 \in 1..MaxTime /\ 0 \in 0..MaxRequests
        BY Times
    <2> QED
        BY <1>1, <2>1, SessionNoRequestOK DEF BS!Init, BS!TypeOK, BS!Labels
<1>3. \A p \in Procs : SessionReqOK(pc[p], req[p])
    BY DEF BS!Init, SessionReqOK
<1>4. now + MarkTTL \in Nat /\ 0 <= now + MarkTTL
    BY <1>2, Times DEF BS!TypeOK
<1> QED
    BY <1>1, <1>2, <1>3, <1>4 DEF BS!Init, TypeInv, BS!NoGrant

-----------------------------------------------------------------------------
(* The marker outlives what it revokes. *)

LEMMA Short ==
    ASSUME BS!SessionConstants, ShortLived, SessionTables
    PROVE  /\ ttl \in Nat /\ ttl + MaxFlight < MarkTTL
           /\ \A g \in BS!Grants : BS!Lifetime(g) \in Nat /\ BS!Lifetime(g) + MaxFlight < MarkTTL
BY Times, LifetimeOK DEF ShortLived, SessionTables

\* A grant that this step leaves alone, or discards.
Stays(g) == grant'[g].st # "unused" => grant[g].st # "unused" /\ grant'[g].until = grant[g].until /\ signed'[g] = signed[g]

LEMMA FitsMade ==
    ASSUME BS!SessionConstants, ShortLived, SessionTables, NEW g \in BS!Grants, grant[g].st = "unused", BS!Make(g), UNCHANGED <<now, marker>>
    PROVE  Fits(g)' /\ \A h \in BS!Grants \ {g} : Stays(h)
<1>1. /\ grant'[g] = [st |-> "live", auth |-> now, until |-> now + BS!Lifetime(g)] /\ signed'[g] = now
      /\ \A h \in BS!Grants \ {g} : grant'[h] = grant[h] /\ signed'[h] = signed[h]
    BY Makes
<1>2. grant'[g].until = now + BS!Lifetime(g)
    BY <1>1
<1>3. now \in Nat /\ marker.at \in Nat /\ marker.at <= now
    BY DEF SessionTables, BS!Marker
<1>4. now + BS!Lifetime(g) + MaxFlight < now + MarkTTL
    BY <1>3, Short, Times
<1>5. ~(signed'[g] < marker'.at)
    BY <1>1, <1>3
<1> QED
    BY <1>1, <1>2, <1>4, <1>5 DEF Fits, Stays

LEMMA StaysAfterDiscard ==
    ASSUME SessionTables, NEW g \in BS!Grants, grant[g].st # "unused", BS!Discard(g), UNCHANGED signed
    PROVE  \A h \in BS!Grants : Stays(h)
BY Discards DEF Stays

LEMMA StaysSame == ASSUME UNCHANGED <<grant, signed>> PROVE \A h \in BS!Grants : Stays(h)
BY DEF Stays

LEMMA MarkerStep ==
    ASSUME TypeInv, MarkerInv, NEW p \in Procs, NEW l, NEW r, BS!GotoWith(p, l, r), UNCHANGED <<now, marker>>,
           \A g \in BS!Grants : Stays(g) \/ Fits(g)', l = "save" => SaveFits(r)
    PROVE  MarkerInv'
<1>1. /\ pc'[p] = l /\ req'[p] = r
      /\ \A q \in Procs \ {p} : pc'[q] = pc[q] /\ req'[q] = req[q]
    BY SessionMovesOne
<1>2. \A g \in BS!Grants : grant'[g].st # "unused" => Fits(g)'
    BY DEF MarkerInv, Fits, Stays
<1>3. \A q \in Procs : pc'[q] = "save" => SaveFits(req'[q])
    BY <1>1 DEF MarkerInv
<1>4. \A q \in Procs : pc'[q] = "save" => SaveFits(req[q])'
    BY <1>3 DEF SaveFits
<1> QED
    BY <1>2, <1>4 DEF MarkerInv

LEMMA FinishMarker ==
    ASSUME TypeInv, MarkerInv, NEW p \in Procs, BS!Finish(p), UNCHANGED <<now, marker>>,
           \A g \in BS!Grants : Stays(g) \/ Fits(g)'
    PROVE  MarkerInv'
BY MarkerStep DEF BS!Finish

LEMMA StillMarker ==
    ASSUME TypeInv, MarkerInv, UNCHANGED <<pc, req, now, marker>>, \A g \in BS!Grants : Stays(g) \/ Fits(g)'
    PROVE  MarkerInv'
<1>1. \A g \in BS!Grants : grant'[g].st # "unused" => Fits(g)'
    BY DEF MarkerInv, Fits, Stays
<1> QED
    BY <1>1 DEF MarkerInv, SaveFits

\* Steps that leave grants alone or discard one, and read none for a slide.
LEMMA QuietMarker ==
    ASSUME TypeInv, MarkerInv, NEW p \in Procs,
           \/ BS!JudgeToken(p) \/ BS!JudgeAccount(p) \/ BS!JudgeBrowser(p) \/ BS!JudgeAdmin(p)
           \/ BS!ReuseSession(p) \/ BS!DeclineSession(p) \/ BS!AnswerLogout(p) \/ BS!Crash(p)
    PROVE  MarkerInv'
<1>1. /\ UNCHANGED <<now, marker, signed>> /\ SessionTables
      /\ UNCHANGED grant \/ (pc[p] = "judge" /\ BS!Discard(req[p].grant))
      /\ BS!Finish(p) \/ BS!Goto(p, "issue") \/ BS!Goto(p, "slide")
    BY Known DEF BS!JudgeToken, BS!JudgeAccount, BS!JudgeBrowser, BS!JudgeAdmin, BS!ReuseSession,
       BS!DeclineSession, BS!AnswerLogout, BS!Crash,
                 BS!At, BS!kv, BS!history
<1>2. \A g \in BS!Grants : Stays(g)
    <2>1. CASE UNCHANGED grant
        BY <1>1, <2>1, StaysSame
    <2>2. CASE pc[p] = "judge" /\ BS!Discard(req[p].grant)
        BY <1>1, <2>2, Known, StaysAfterDiscard DEF SessionReqOK
    <2> QED
        BY <1>1, <2>1, <2>2
<1>3. ASSUME NEW l \in {"issue", "slide"}, BS!Goto(p, l) PROVE MarkerInv'
    BY <1>1, <1>2, <1>3, MarkerStep DEF BS!Goto
<1> QED
    BY <1>1, <1>2, <1>3, FinishMarker

\* A session that is read for a slide is not from before the marker: it is no longer there when the marker is not.
LEMMA ReadMarker ==
    ASSUME BS!SessionConstants, TypeInv, MarkerInv, NEW p \in Procs, BS!ReadForSlide(p)
    PROVE  MarkerInv'
<1> DEFINE g == req[p].grant  r == [req[p] EXCEPT !.seen = grant[g]]
<1>1. /\ SessionTables /\ pc[p] = "slide" /\ SessionReqOK("slide", req[p]) /\ req[p] \in BS!Request /\ g \in BS!Grants /\ g \in Browsers
      /\ UNCHANGED <<now, marker, signed>>
    BY Known DEF BS!ReadForSlide, BS!At, BS!history, SessionReqOK
<1>2. \A h \in BS!Grants : Stays(h)
    BY <1>1, StaysSame, StaysAfterDiscard DEF BS!ReadForSlide, SessionReqOK
<1>3. CASE BS!GotoWith(p, "save", r) /\ BS!Present(g) /\ ~BS!IsUserRevoked(grant[g].auth)
    <2>1. /\ grant[g] \in BS!Grant /\ grant[g].auth = signed[g] /\ grant[g].st = "live" /\ now <= grant[g].until
          /\ now \in Nat /\ marker.at \in Nat /\ marker.until \in Nat
        BY <1>1, <1>3, Times DEF SessionTables, BS!Present, BS!Marker
    <2>2. r.seen.auth = signed[g] /\ signed[g] \in Nat /\ grant[g].until \in Nat
        BY <1>1, <2>1 DEF BS!Request, SessionTables, BS!Grant
    <2>3. ~(signed[g] < marker.at)
        <3> SUFFICES ASSUME signed[g] < marker.at PROVE FALSE
            OBVIOUS
        <3>1. grant[g].until < marker.until
            BY <1>1, <2>1 DEF MarkerInv, Fits
        <3>2. ~(marker.until > now)
            BY <1>3, <2>1 DEF BS!IsUserRevoked
        <3> QED
            BY <2>1, <2>2, <3>1, <3>2
    <2>4. SaveFits(r)
        BY <2>2, <2>3 DEF SaveFits
    <2> HIDE DEF r, g
    <2> QED
        BY <1>1, <1>2, <1>3, <2>4, MarkerStep
<1>4. CASE BS!Goto(p, "account")
    BY <1>1, <1>2, <1>4, MarkerStep DEF BS!Goto
<1> QED
    BY <1>3, <1>4 DEF BS!ReadForSlide

\* A slide that a revocation overtook ends before the marker does.
LEMMA SlideMarker ==
    ASSUME BS!SessionConstants, ShortLived, TypeInv, MarkerInv, NEW p \in Procs, BS!SlideSession(p)
    PROVE  MarkerInv'
<1>0. PICK g : g = req[p].grant
    OBVIOUS
<1>1. UNCHANGED <<now, marker, signed>> /\ BS!Goto(p, "account")
    BY DEF BS!SlideSession
<1>2. /\ SessionTables /\ pc[p] = "save" /\ g \in Browsers /\ req[p].seen.auth = signed[g]
      /\ now <= req[p].at + MaxFlight /\ req[p] \in BS!Request
      /\ grant'[g].until = now + ttl
      /\ \A h \in BS!Grants \ {g} : grant'[h] = grant[h]
    BY <1>0, Slides
<1>3. now \in Nat /\ marker.until \in Nat /\ req[p].at \in Nat /\ MaxFlight \in Nat /\ MarkTTL \in Nat
    BY <1>2, Times DEF SessionTables, BS!Marker, BS!Request
<1>4. now + ttl + MaxFlight < now + MarkTTL
    BY <1>2, <1>3, Short
<1>5. signed[g] < marker.at => now + ttl < marker.until
    <2> SUFFICES ASSUME signed[g] < marker.at PROVE now + ttl < marker.until
        OBVIOUS
    <2>1. req[p].at + MarkTTL <= marker.until
        BY <1>2 DEF MarkerInv, SaveFits
    <2> QED
        BY <1>2, <1>3, <2>1, Short
<1>6. Fits(g)'
    <2>1. g \notin Tokens /\ g \in BS!Grants
        BY <1>2, Times DEF BS!Grants
    <2> QED
        BY <1>1, <1>2, <1>4, <1>5, <2>1 DEF Fits
<1>7. \A h \in BS!Grants : Stays(h) \/ h = g
    BY <1>1, <1>2 DEF Stays
<1> QED
    BY <1>1, <1>6, <1>7, MarkerStep DEF BS!Goto

LEMMA OpensMarker ==
    ASSUME TypeInv, MarkerInv, NEW p \in Procs, NEW l, NEW g \in BS!Grants, Opens(p, l, g)
    PROVE  MarkerInv'
BY StaysSame, MarkerStep DEF Opens, BS!kv

LEMMA BareMarker ==
    ASSUME TypeInv, MarkerInv, NEW p \in Procs,
           (\E v \in Verifiers : BS!AdminCallback(p, v)) \/ \E bar \in BOOLEAN : BS!BeginRevoke(p, bar)
    PROVE  MarkerInv'
<1>1. /\ UNCHANGED <<now, grant, marker, signed>>
      /\ \E l \in {"exchange", "mark"} : BS!GotoWith(p, l, [BS!NoRequest EXCEPT !.at = now])
    BY DEF BS!AdminCallback, BS!BeginRevoke, BS!Start
<1> QED
    BY <1>1, StaysSame, MarkerStep

LEMMA DeleteMarker ==
    ASSUME TypeInv, MarkerInv, NEW p \in Procs, NEW g \in BS!Grants, BS!Delete(p, g)
    PROVE  MarkerInv'
<1>1. /\ UNCHANGED <<now, marker, signed>> /\ SessionTables /\ grant[g].st # "unused" /\ BS!Discard(g)
      /\ BS!GotoWith(p, "logout", [[BS!NoRequest EXCEPT !.grant = g] EXCEPT !.at = now])
    BY Known DEF BS!Delete, BS!Start
<1> QED
    BY <1>1, StaysAfterDiscard, MarkerStep

LEMMA MakeMarker ==
    ASSUME BS!SessionConstants, ShortLived, TypeInv, MarkerInv, NEW g \in BS!Grants,
           BS!CreateGrant(g) \/ \E p \in Procs : BS!CreateSessionCookie(p, g) \/ BS!ExchangeForAdmin(p, g)
    PROVE  MarkerInv'
<1>1. /\ SessionTables /\ grant[g].st = "unused" /\ UNCHANGED <<now, marker>>
      /\ BS!Make(g) \/ UNCHANGED <<grant, signed>>
      /\ UNCHANGED <<pc, req>> \/ \E p \in Procs : BS!Finish(p)
    BY DEF BS!CreateGrant, BS!CreateSessionCookie, BS!ExchangeForAdmin, TypeInv, BS!TypeOK,
       SessionTables
<1>2. \A h \in BS!Grants : Stays(h) \/ Fits(h)'
    BY <1>1, FitsMade, StaysSame
<1> QED
    BY <1>1, <1>2, FinishMarker, StillMarker

\* A new marker outlives every grant there is, and every slide in flight.
LEMMA RevokeMarker ==
    ASSUME BS!SessionConstants, TypeInv, MarkerInv, NEW p \in Procs, BS!RevokeUserSessions(p)
    PROVE  MarkerInv'
<1>1. /\ SessionTables /\ BS!GotoWith(p, "idle", BS!NoRequest) /\ UNCHANGED <<now, grant, signed>>
      /\ marker' = [at |-> req[p].at, until |-> now + MarkTTL]
    BY Known DEF BS!RevokeUserSessions, BS!Finish
<1>2. /\ pc'[p] = "idle"
      /\ \A q \in Procs \ {p} : pc'[q] = pc[q] /\ req'[q] = req[q]
    BY <1>1, SessionMovesOne
<1>3. marker'.until = now + MarkTTL
    BY <1>1
<1>4. ASSUME NEW g \in BS!Grants, grant'[g].st # "unused" PROVE Fits(g)'
    <2>1. grant[g].until + MaxFlight < now + MarkTTL /\ grant[g].until \in Nat /\ now \in Nat
        BY <1>1, <1>4, Times DEF MarkerInv, Fits, SessionTables, BS!Grant
    <2> QED
        BY <1>1, <1>3, <2>1, Times DEF Fits
<1>5. ASSUME NEW q \in Procs, pc'[q] = "save" PROVE SaveFits(req[q])'
    <2>1. req'[q] = req[q] /\ req[q].at <= now /\ req[q].at \in Nat
        BY <1>2, <1>5, Known DEF SessionReqOK, BS!Request
    <2> QED
        BY <1>1, <1>3, <2>1, Times DEF SaveFits, SessionTables
<1> QED
    BY <1>4, <1>5 DEF MarkerInv

LEMMA TickMarker ==
    ASSUME BS!SessionConstants, TypeInv, MarkerInv, BS!Tick PROVE MarkerInv'
<1>1. /\ SessionTables /\ now \in Nat /\ now' = now + 1
      /\ UNCHANGED <<grant, marker, signed, pc, req>>
    BY Times DEF BS!Tick, BS!kv, BS!history, TypeInv, BS!TypeOK, SessionTables
<1>2. ASSUME NEW g \in BS!Grants, grant[g].st # "unused" PROVE Fits(g)'
    <2>1. Fits(g) /\ grant[g].until \in Nat
        BY <1>1, <1>2 DEF MarkerInv, SessionTables, BS!Grant
    <2> QED
        BY <1>1, <2>1, Times DEF Fits
<1> QED
    BY <1>1, <1>2 DEF MarkerInv, SaveFits

LEMMA MarkerNext ==
    ASSUME BS!SessionConstants
    PROVE  ShortLived /\ TypeInv /\ MarkerInv /\ [BS!Next]_(BS!vars) => MarkerInv'
<1>1. ASSUME ShortLived, TypeInv, MarkerInv, NEW p \in Procs, Steps(p) PROVE MarkerInv'
    BY <1>1, QuietMarker, ReadMarker, SlideMarker, RevokeMarker DEF Steps
<1>2. ASSUME TypeInv, MarkerInv, UNCHANGED BS!vars PROVE MarkerInv'
    BY <1>2 DEF MarkerInv, Fits, SaveFits, BS!vars, BS!kv, BS!history
<1>3. ASSUME TypeInv, MarkerInv, BS!Activate \/ (\E v \in Verifiers : BS!RedirectAdmin(v)) \/ \E t \in TTLs : BS!UpdateSettings(t)
      PROVE  MarkerInv'
    <2>1. UNCHANGED <<pc, req, now, grant, marker, signed>>
        BY <1>3 DEF BS!Activate, BS!RedirectAdmin, BS!UpdateSettings
    <2> QED
        BY <1>3, <2>1, StaysSame, StillMarker
<1>4. ASSUME ShortLived, TypeInv, MarkerInv, BS!Next PROVE MarkerInv'
    BY <1>1, <1>3, <1>4, NextSteps, OpensMarker, BareMarker, DeleteMarker, MakeMarker, TickMarker
<1> QED
    BY <1>2, <1>4

LEMMA MarkerInit == BS!Init => MarkerInv
BY DEF BS!Init, MarkerInv, BS!NoGrant

(***************************************************************************)
(* While every session lifetime that the settings offer is shorter than    *)
(* the marker's by the time a request may take, a browser session from     *)
(* before a revocation never outlives the marker, however often it was     *)
(* slid, whatever slides were in flight when the marker was written.       *)
(***************************************************************************)
THEOREM MarkerCoversSessions ==
    ASSUME BS!SessionConstants PROVE ShortLived /\ BS!Spec => []MarkerOutlivesSessions
<1>1. MarkerInv => MarkerOutlivesSessions
    BY DEF MarkerInv, Fits, MarkerOutlivesSessions, BS!Grants
<1>2. ShortLived => (BS!Spec => [](TypeInv /\ MarkerInv))
    <2> SUFFICES ASSUME ShortLived PROVE BS!Spec => [](TypeInv /\ MarkerInv)
        OBVIOUS
    <2>1. TypeInv /\ MarkerInv /\ [BS!Next]_(BS!vars) => (TypeInv /\ MarkerInv)'
        BY TypeNext, MarkerNext
    <2>2. BS!Init => TypeInv /\ MarkerInv
        BY TypeInit, MarkerInit
    <2> QED
        BY <2>1, <2>2, PTL DEF BS!Spec
<1> QED
    BY <1>1, <1>2, PTL

-----------------------------------------------------------------------------
(* Who was revoked is not admitted. *)

LEMMA LateStep ==
    ASSUME TypeInv, LateInv, NEW p \in Procs, NEW l, NEW r, BS!GotoWith(p, l, r), UNCHANGED <<marker, revoked, overlap>>,
           l # "mark", overlap \/ admitted' = admitted,
           l \in {"judge", "admin", "issue"} /\ r.late => overlap \/ LateOK(l, r)
    PROVE  LateInv'
<1>1. /\ pc'[p] = l /\ req'[p] = r
      /\ \A q \in Procs \ {p} : pc'[q] = pc[q] /\ req'[q] = req[q]
    BY SessionMovesOne
<1>2. CASE overlap
    BY <1>2 DEF LateInv
<1>3. CASE ~overlap
    <2>1. \A q, s \in Procs : Marking(q)' /\ Marking(s)' => revoked' <= req'[q].at /\ req'[q].at = req'[s].at
        BY <1>1, <1>3 DEF LateInv, Marking
    <2>2. \A q \in Procs : Late(q)' => LateOK(pc'[q], req'[q])
        BY <1>1, <1>3 DEF LateInv, Late
    <2>3. ASSUME NEW q \in Procs, Late(q)' PROVE LateOK(pc[q], req[q])'
        BY <2>2, <2>3 DEF LateOK
    <2> QED
        BY <1>3, <2>1, <2>3 DEF LateInv
<1> QED
    BY <1>2, <1>3

LEMMA FinishLate ==
    ASSUME TypeInv, LateInv, NEW p \in Procs, BS!Finish(p), UNCHANGED <<marker, revoked, overlap>>, overlap \/ admitted' = admitted
    PROVE  LateInv'
BY LateStep DEF BS!Finish

LEMMA StillLate ==
    ASSUME LateInv, UNCHANGED <<pc, req, marker, revoked, overlap, admitted>> PROVE LateInv'
BY DEF LateInv, Marking, Late, LateOK

\* The judgement refuses what is late, whoever makes it.
LEMMA LateRefused ==
    ASSUME BS!SessionConstants, TypeInv, LateInv, ~overlap, NEW p \in Procs, pc[p] \in {"judge", "admin", "issue"}, req[p].late
    PROVE  /\ pc[p] # "issue"
           /\ now <= req[p].seen.until \/ req[p].grant \in Tokens => BS!IsUserRevoked(req[p].seen.auth)
<1>1. Late(p) /\ LateOK(pc[p], req[p])
    BY DEF LateInv, Late
<1>2. /\ now \in Nat /\ marker.until \in Nat /\ req[p].seen.until \in Nat /\ req[p].at \in Nat
      /\ now <= req[p].at + MaxFlight
    BY Known, Times DEF SessionTables, BS!Marker, BS!Request, BS!Grant, SessionReqOK
<1> QED
    BY <1>1, <1>2, Times DEF LateOK, BS!IsUserRevoked

LEMMA AdmitsNone ==
    ASSUME BS!SessionConstants, TypeInv, LateInv, NEW p \in Procs, pc[p] \in {"judge", "admin", "issue"},
           BS!Admit(p), pc[p] # "issue" => (now <= req[p].seen.until \/ req[p].grant \in Tokens) /\ ~BS!IsUserRevoked(req[p].seen.auth)
    PROVE  overlap \/ admitted' = admitted
<1>1. req[p].late \in BOOLEAN
    BY Known DEF BS!Request
<1> QED
    BY <1>1, LateRefused DEF BS!Admit

LEMMA JudgeLate ==
    ASSUME BS!SessionConstants, TypeInv, LateInv, NEW p \in Procs,
           BS!JudgeToken(p) \/ BS!JudgeAccount(p) \/ BS!JudgeAdmin(p) \/ BS!ReuseSession(p)
    PROVE  LateInv'
<1>1. pc[p] \in {"judge", "admin", "issue"} /\ UNCHANGED <<marker, revoked, overlap>>
    BY DEF BS!JudgeToken, BS!JudgeAccount, BS!JudgeAdmin, BS!ReuseSession, BS!At, BS!kv
<1>2. overlap \/ admitted' = admitted
    <2>1. CASE UNCHANGED admitted
        BY <2>1
    <2>2. CASE /\ BS!Admit(p)
               /\ pc[p] # "issue" => (now <= req[p].seen.until \/ req[p].grant \in Tokens) /\ ~BS!IsUserRevoked(req[p].seen.auth)
        BY <1>1, <2>2, AdmitsNone
    <2> QED
        BY <2>1, <2>2 DEF BS!JudgeToken, BS!JudgeAccount, BS!JudgeAdmin, BS!ReuseSession,
           BS!Welcome, BS!At
<1>3. BS!Finish(p) \/ BS!Goto(p, "slide")
    BY DEF BS!JudgeToken, BS!JudgeAccount, BS!JudgeAdmin, BS!ReuseSession
<1> QED
    BY <1>1, <1>2, <1>3, FinishLate, LateStep DEF BS!Goto

\* A late request does not reach the code of single sign-on.
LEMMA JudgeBrowserLate ==
    ASSUME BS!SessionConstants, TypeInv, LateInv, NEW p \in Procs, BS!JudgeBrowser(p) PROVE LateInv'
<1>1. pc[p] = "judge" /\ UNCHANGED <<marker, revoked, overlap, admitted>>
    BY DEF BS!JudgeBrowser, BS!At, BS!history
<1>2. CASE BS!Welcome(p) /\ BS!Goto(p, "issue")
    <2>1. req[p].late => overlap
        BY <1>1, <1>2, LateRefused DEF BS!Welcome
    <2> QED
        BY <1>1, <1>2, <2>1, LateStep DEF BS!Goto
<1> QED
    BY <1>1, <1>2, FinishLate DEF BS!JudgeBrowser

LEMMA QuietLate ==
    ASSUME TypeInv, LateInv, NEW p \in Procs,
           \/ BS!DeclineSession(p) \/ BS!ReadForSlide(p) \/ BS!SlideSession(p) \/ BS!AnswerLogout(p) \/ BS!Crash(p)
           \/ \E g \in BS!Grants : BS!CreateSessionCookie(p, g) \/ BS!ExchangeForAdmin(p, g) \/ BS!Delete(p, g)
           \/ \E v \in Verifiers : BS!AdminCallback(p, v)
    PROVE  LateInv'
<1>1. UNCHANGED <<marker, revoked, overlap, admitted>>
    BY DEF BS!DeclineSession, BS!ReadForSlide, BS!SlideSession, BS!AnswerLogout, BS!Crash,
       BS!CreateSessionCookie, BS!ExchangeForAdmin,
           BS!Delete, BS!AdminCallback, BS!kv, BS!history
<1>2. BS!Finish(p) \/ \E l \in {"save", "account", "logout", "exchange"} : \E r : BS!GotoWith(p, l, r)
    BY DEF BS!DeclineSession, BS!ReadForSlide, BS!SlideSession, BS!AnswerLogout, BS!Crash,
       BS!CreateSessionCookie, BS!ExchangeForAdmin,
           BS!Delete, BS!AdminCallback, BS!Start, BS!Goto
<1> QED
    BY <1>1, <1>2, FinishLate, LateStep

LEMMA OpensLate ==
    ASSUME BS!SessionConstants, TypeInv, MarkerInv, LateInv, NEW p \in Procs, NEW l,
           NEW g \in BS!Grants, Opens(p, l, g)
    PROVE  LateInv'
<1> DEFINE r == Carrying(g)
<1>1. /\ r.grant = g /\ r.seen = grant[g] /\ r.late = BS!Doomed(g) /\ r.at = now
      /\ l \in {"judge", "admin"} /\ BS!GotoWith(p, l, r) /\ UNCHANGED <<marker, revoked, overlap, admitted>>
    BY CarryingOK DEF Opens, BS!kv
<1>2. /\ SessionTables /\ grant[g].st # "unused" /\ now <= grant[g].until /\ g \notin out
    BY Known, PresentMade DEF Opens
<1> HIDE DEF r
<1>3. ASSUME r.late, ~overlap PROVE LateOK(l, r)
    <2>1. signed[g] < marker.at /\ grant[g].auth = signed[g]
        BY <1>1, <1>2, <1>3 DEF BS!Doomed, LateInv, SessionTables
    <2>2. Fits(g)
        BY <1>2 DEF MarkerInv
    <2> QED
        BY <1>1, <1>2, <2>1, <2>2 DEF LateOK, Fits
<1> QED
    BY <1>1, <1>3, LateStep

\* Revocations that do not overlap reach the marker in the order of their times.
LEMMA BeginRevokeLate ==
    ASSUME BS!SessionConstants, TypeInv, LateInv, NEW p \in Procs, NEW bar, BS!BeginRevoke(p, bar)
    PROVE  LateInv'
<1> DEFINE r == [BS!NoRequest EXCEPT !.at = now]
<1>1. /\ BS!GotoWith(p, "mark", r) /\ UNCHANGED <<marker, revoked, admitted>> /\ SessionTables
      /\ overlap' = (overlap \/ \E q \in Procs : BS!At(q, "mark") /\ req[q].at # now)
    BY Known DEF BS!BeginRevoke, BS!Start
<1>2. r.at = now
    BY BareOK
<1> HIDE DEF r
<1>3. /\ pc'[p] = "mark" /\ req'[p] = r
      /\ \A q \in Procs \ {p} : pc'[q] = pc[q] /\ req'[q] = req[q]
    BY <1>1, SessionMovesOne
<1>4. CASE ~overlap'
    <2>1. ~overlap /\ \A q \in Procs : Marking(q) => req[q].at = now
        BY <1>1, <1>4 DEF BS!At, Marking
    <2>2. \A q \in Procs : Marking(q)' => req'[q].at = now
        BY <1>2, <1>3, <2>1 DEF Marking
    <2>3. revoked <= now
        BY <1>1 DEF SessionTables
    <2>4. \A q, s \in Procs : Marking(q)' /\ Marking(s)' => revoked' <= req'[q].at /\ req'[q].at = req'[s].at
        BY <1>1, <2>2, <2>3
    <2>5. \A q \in Procs : Late(q)' => Late(q) /\ pc'[q] = pc[q] /\ req'[q] = req[q]
        BY <1>3 DEF Late
    <2>6. ASSUME NEW q \in Procs, Late(q)' PROVE LateOK(pc[q], req[q])'
        BY <1>1, <2>1, <2>5, <2>6 DEF LateInv, LateOK
    <2> QED
        BY <1>1, <2>1, <2>4, <2>6 DEF LateInv
<1> QED
    BY <1>4 DEF LateInv

LEMMA RevokeLate ==
    ASSUME BS!SessionConstants, TypeInv, LateInv, NEW p \in Procs, BS!RevokeUserSessions(p)
    PROVE  LateInv'
<1>1. /\ SessionTables /\ BS!GotoWith(p, "idle", BS!NoRequest) /\ Marking(p) /\ UNCHANGED <<overlap, admitted, now>>
      /\ marker' = [at |-> req[p].at, until |-> now + MarkTTL]
      /\ revoked' = IF req[p].at > revoked THEN req[p].at ELSE revoked
    BY Known DEF BS!RevokeUserSessions, BS!Finish, BS!At, Marking
<1>2. /\ pc'[p] = "idle"
      /\ \A q \in Procs \ {p} : pc'[q] = pc[q] /\ req'[q] = req[q]
    BY <1>1, SessionMovesOne
<1>3. /\ req[p].at \in Nat /\ revoked \in Nat /\ marker.at \in Nat /\ marker.until \in Nat /\ now \in Nat
      /\ marker'.at = req[p].at /\ marker'.until = now + MarkTTL /\ marker.until <= now + MarkTTL
    BY <1>1, Known, Times DEF SessionTables, BS!Request, BS!Marker
<1>4. CASE ~overlap
    <2>1. revoked <= req[p].at /\ \A q \in Procs : Marking(q) => req[q].at = req[p].at
        BY <1>1, <1>4 DEF LateInv
    <2>2. revoked' = req[p].at /\ marker'.at = revoked' /\ marker.at <= marker'.at
        BY <1>1, <1>3, <1>4, <2>1 DEF LateInv
    <2>3. \A q \in Procs : Marking(q)' => req'[q].at = req[p].at
        BY <1>2, <2>1 DEF Marking
    <2>4. \A q, s \in Procs : Marking(q)' /\ Marking(s)' => revoked' <= req'[q].at /\ req'[q].at = req'[s].at
        BY <1>3, <2>2, <2>3
    <2>5. \A q \in Procs : Late(q)' => Late(q) /\ pc'[q] = pc[q] /\ req'[q] = req[q]
        BY <1>2 DEF Late
    <2>6. ASSUME NEW q \in Procs, Late(q)' PROVE LateOK(pc[q], req[q])'
        <3>1. LateOK(pc[q], req[q]) /\ pc'[q] = pc[q] /\ req'[q] = req[q]
            BY <1>4, <2>5, <2>6 DEF LateInv
        <3>2. req[q].seen.auth \in Nat /\ req[q].seen.until \in Nat
            BY Known DEF BS!Request, BS!Grant
        <3> QED
            BY <1>3, <2>2, <3>1, <3>2, Times DEF LateOK
    <2> QED
        BY <1>1, <1>4, <2>2, <2>4, <2>6 DEF LateInv
<1> QED
    BY <1>1, <1>4 DEF LateInv

LEMMA LateNext ==
    ASSUME BS!SessionConstants
    PROVE  TypeInv /\ MarkerInv /\ LateInv /\ [BS!Next]_(BS!vars) => LateInv'
<1>1. ASSUME TypeInv, LateInv, NEW p \in Procs, Steps(p) PROVE LateInv'
    BY <1>1, JudgeLate, JudgeBrowserLate, QuietLate, RevokeLate DEF Steps
<1>2. ASSUME LateInv, UNCHANGED BS!vars PROVE LateInv'
    BY <1>2, StillLate DEF BS!vars, BS!kv, BS!history
<1>3. ASSUME LateInv, BS!Tick \/ BS!Activate \/ (\E v \in Verifiers : BS!RedirectAdmin(v)) \/ (\E t \in TTLs : BS!UpdateSettings(t))
             \/ \E g \in BS!Grants : BS!CreateGrant(g)
      PROVE  LateInv'
    BY <1>3, StillLate DEF BS!Tick, BS!Activate, BS!RedirectAdmin, BS!UpdateSettings,
       BS!CreateGrant, BS!kv, BS!history
<1>4. ASSUME TypeInv, MarkerInv, LateInv, BS!Next PROVE LateInv'
    BY <1>1, <1>3, <1>4, NextSteps, OpensLate, BeginRevokeLate, QuietLate
<1> QED
    BY <1>2, <1>4

LEMMA LateInit == BS!Init => LateInv
BY DEF BS!Init, LateInv, BS!NoMarker, Marking, Late

(***************************************************************************)
(* Under the same bound, a request that begins after a revocation was      *)
(* answered is served on no session and no token from before it, nor one   *)
(* on a session that was logged out, while revocations with different      *)
(* times do not overlap.                                                   *)
(***************************************************************************)
THEOREM RevokedIsRefused ==
    ASSUME BS!SessionConstants PROVE ShortLived /\ BS!Spec => []RevokedStaysOut
<1>1. LateInv => RevokedStaysOut
    BY DEF LateInv, RevokedStaysOut
<1>2. ShortLived => (BS!Spec => []SessionIInv)
    <2> SUFFICES ASSUME ShortLived PROVE BS!Spec => []SessionIInv
        OBVIOUS
    <2>1. SessionIInv /\ [BS!Next]_(BS!vars) => SessionIInv'
        BY TypeNext, MarkerNext, LateNext DEF SessionIInv
    <2>2. BS!Init => SessionIInv
        BY TypeInit, MarkerInit, LateInit DEF SessionIInv
    <2> QED
        BY <2>1, <2>2, PTL DEF BS!Spec
<1>3. SessionIInv => LateInv
    BY DEF SessionIInv
<1> QED
    BY <1>1, <1>2, <1>3, PTL

(***************************************************************************)
(* Sessions, tokens, the marker and requests keep their types, and a grant *)
(* is put back only with the time of its own sign-in.                      *)
(***************************************************************************)
THEOREM SessionsTyped ==
    ASSUME BS!SessionConstants PROVE BS!Spec => []BS!TypeOK
<1>1. TypeInv => BS!TypeOK
    BY DEF TypeInv
<1> QED
    BY <1>1, TypeInit, TypeNext, PTL DEF BS!Spec
=============================================================================
