------------------------------ MODULE Accounts ------------------------------
(***************************************************************************)
(* User accounts: the record of a user in the users table, the index from  *)
(* email addresses to users in the index table, and the mailed tokens that *)
(* verify an address or reset a password (store.rs), under registration    *)
(* (lib.rs), provisioning (scim/mod.rs), login hooks (hooks.rs) and the    *)
(* administrators' operations (services/users.rs).  Email verification is  *)
(* required, as it is by default.                                          *)
(*                                                                         *)
(* A request in flight is a process p; each store operation is one step,   *)
(* except that two reads with no write of the request between them are one *)
(* step when the request reads the later one again before it acts on it.   *)
(***************************************************************************)
EXTENDS Requests, Naturals, FiniteSets

CONSTANTS
    Users, Emails, Tokens, NoUser, NoEmail, NoToken,
    MaxTries,       \* MAX_RETRIES of the read-modify-write loops
    MaxRequests     \* bound: requests that change an account

ASSUME AccountAssumption ==
    /\ NoUser \notin Users /\ NoEmail \notin Emails /\ NoToken \notin Tokens
    /\ MaxTries \in Nat \ {0} /\ MaxRequests \in Nat

VARIABLES
    record,     \* user:{id}
    idx,        \* email:{hmac}, the user that the index names
    tok,        \* invite:{token}
    managed,    \* users with a SCIM identity
    requests,   \* requests begun
    acked,      \* users whose creation was answered with success
    erased,     \* users whose erasure was answered with success
    proven,     \* addresses from which a verification token came back
    vouched,    \* users whose status an administrator, a hook or SCIM set
    last,       \* the password of the last reset that was stored
    torn        \* users whose keys a crash or an overlap with an erasure or an activation tore apart

kv == <<record, idx, tok, managed>>
history == <<requests, acked, erased, proven, vouched, last, torn>>
vars == <<kv, pc, req, history>>

\* barred stands for disabled and suspended, pw for the version of the password.
Statuses == {"absent", "pending", "active", "barred"}
Record == [st: Statuses, email: Emails \cup {NoEmail}, pw: Nat, rev: Nat]
NoRecord == [st |-> "absent", email |-> NoEmail, pw |-> 0, rev |-> 0]

Token == [st: {"unused", "there", "gone"}, role: {"verify", "reset"}, email: Emails \cup {NoEmail}]

Ops == {"none", "register", "provision", "verify", "reset", "hook", "rename", "activate", "erase"}
Request == [op: Ops, user: Users \cup {NoUser}, email: Emails \cup {NoEmail}, token: Tokens \cup {NoToken},
            to: Statuses, pw: Nat, seen: Record, tries: Nat]
NoRequest == [op |-> "none", user |-> NoUser, email |-> NoEmail, token |-> NoToken,
              to |-> "absent", pw |-> 0, seen |-> NoRecord, tries |-> 0]
Labels == {"idle", "index", "rollback", "resend", "vet", "invite", "join", "lookup", "read", "claim", "swap",
           "unclaim", "release", "cleanup", "overwrite", "erase", "dropindex", "droprecord"}

TypeOK ==
    /\ record \in [Users -> Record]
    /\ idx \in [Emails -> Users \cup {NoUser}]
    /\ tok \in [Tokens -> Token]
    /\ pc \in [Procs -> Labels] /\ req \in [Procs -> Request]
    /\ requests \in 0..MaxRequests
    /\ UNION {managed, acked, erased, vouched, torn} \subseteq Users
    /\ proven \subseteq Emails
    /\ last \in [Users -> Nat]
    /\ \A p \in Procs : req[p].tries < MaxTries

Init ==
    /\ record = [u \in Users |-> NoRecord]
    /\ idx = [e \in Emails |-> NoUser]
    /\ tok = [t \in Tokens |-> [st |-> "unused", role |-> "verify", email |-> NoEmail]]
    /\ managed = {} /\ requests = 0 /\ acked = {} /\ erased = {} /\ proven = {} /\ vouched = {} /\ torn = {}
    /\ pc = [p \in Procs |-> "idle"] /\ req = [p \in Procs |-> NoRequest]
    /\ last = [u \in Users |-> 0]

Finish(p) == GotoWith(p, "idle", NoRequest)
Start(p, label, r) ==
    /\ At(p, "idle") /\ requests < MaxRequests
    /\ GotoWith(p, label, r)
    /\ requests' = requests + 1

Stored(u) == record[u].st # "absent"
Write(u, st, email, pw) == record' = [record EXCEPT ![u] = [st |-> st, email |-> email, pw |-> pw, rev |-> @.rev + 1]]
Delete(u) == record' = [record EXCEPT ![u] = [NoRecord EXCEPT !.rev = record[u].rev]]

\* get_user_by_email: the record that the index leads to; the email in it is not compared.
Taken(e) == idx[e] # NoUser /\ Stored(idx[e])

\* Deleting an index key of which user u is not the owner tears its owner's account.
Unindex(e, u) ==
    /\ idx' = [idx EXCEPT ![e] = NoUser]
    /\ torn' = IF idx[e] \in {u, NoUser} THEN torn ELSE torn \cup {idx[e]}

(***************************************************************************)
(* create_user: the record of a new user, then the index key, which exists *)
(* already if the address is taken.  Self-registration starts pending;     *)
(* SCIM looks the address up first and starts active or disabled.          *)
(***************************************************************************)
\* Mutant: create_user forgets that verification is required.
InitialStatus_Unchecked(op, st) == "active"

InitialStatus(op, st) == IF op = "register" THEN "pending" ELSE st

CreateUser(p, op, u, e, st) ==
    /\ record[u].rev = 0
    /\ Start(p, "index", [NoRequest EXCEPT !.op = op, !.user = u, !.email = e, !.to = st])
    /\ Write(u, InitialStatus(op, st), e, 0)
    /\ UNCHANGED <<idx, tok, managed, acked, erased, proven, last, torn>>

BeginRegister(p, u, e) ==
    /\ CreateUser(p, "register", u, e, "active")
    /\ UNCHANGED vouched

BeginProvision(p, u, e, st) ==
    /\ ~Taken(e)
    /\ CreateUser(p, "provision", u, e, st)
    /\ vouched' = vouched \cup {u}

CreateIndex(p) ==
    /\ At(p, "index")
    /\ LET u == req[p].user e == req[p].email
       IN \/ /\ idx[e] = NoUser
             /\ idx' = [idx EXCEPT ![e] = u]
             /\ torn' = IF Stored(u) THEN torn ELSE torn \cup {u}
             /\ Goto(p, IF req[p].op = "provision" THEN "read" ELSE "vet")
          \/ /\ idx[e] # NoUser
             /\ Goto(p, "rollback")
             /\ UNCHANGED <<idx, torn>>
    /\ UNCHANGED <<record, tok, managed, requests, acked, erased, proven, vouched, last>>

RollBack(p) ==
    /\ At(p, "rollback")
    /\ Delete(req[p].user)
    /\ IF req[p].op = "register" THEN Goto(p, "resend") ELSE Finish(p)
    /\ UNCHANGED <<idx, tok, managed, history>>

\* handle_register: a duplicate of an account still pending has the link mailed again.
Resend(p) ==
    /\ At(p, "resend")
    /\ LET e == req[p].email
       IN IF Taken(e) /\ record[idx[e]].st = "pending"
          THEN GotoWith(p, "invite", [req[p] EXCEPT !.user = NoUser])
          ELSE Finish(p)
    /\ UNCHANGED <<kv, history>>

\* handle_register: the hooks deny the account, set its status or leave it alone.
Vet(p) ==
    /\ At(p, "vet")
    /\ \/ Goto(p, "erase")
       \/ Goto(p, "invite")
       \/ \E st \in {"active", "barred"} : GotoWith(p, "read", [req[p] EXCEPT !.to = st])
    /\ UNCHANGED <<kv, history>>

Acknowledge(u) == acked' = IF u = NoUser THEN acked ELSE acked \cup {u}

Invite(p, t) ==
    /\ At(p, "invite")
    /\ tok[t].st = "unused"
    /\ tok' = [tok EXCEPT ![t] = [st |-> "there", role |-> "verify", email |-> req[p].email]]
    /\ Acknowledge(req[p].user)
    /\ Finish(p)
    /\ UNCHANGED <<record, idx, managed, requests, erased, proven, vouched, last, torn>>

\* SCIM create_user: membership and identity, or the account is deleted again.
Join(p) ==
    /\ At(p, "join")
    /\ \/ /\ managed' = managed \cup {req[p].user}
          /\ Acknowledge(req[p].user)
          /\ Finish(p)
       \/ Goto(p, "erase") /\ UNCHANGED <<managed, acked>>
    /\ UNCHANGED <<record, idx, tok, requests, erased, proven, vouched, last, torn>>

(***************************************************************************)
(* Mailed tokens: initiate_password_reset mails one, and presenting one    *)
(* leads through the index to the user whose record is modified.           *)
(***************************************************************************)
StartReset(u, t) ==
    /\ Stored(u)
    /\ tok[t].st = "unused" /\ requests < MaxRequests
    /\ tok' = [tok EXCEPT ![t] = [st |-> "there", role |-> "reset", email |-> record[u].email]]
    /\ requests' = requests + 1
    /\ UNCHANGED <<record, idx, managed, pc, req, acked, erased, proven, vouched, last, torn>>

ExpireToken(t) ==
    /\ tok[t].st = "there"
    /\ tok' = [tok EXCEPT ![t].st = "gone"]
    /\ UNCHANGED <<record, idx, managed, pc, req, history>>

PresentToken(p, t) ==
    /\ tok[t].st = "there"
    /\ Start(p, "lookup", [NoRequest EXCEPT !.op = tok[t].role, !.token = t, !.email = tok[t].email,
                                            !.to = "active", !.pw = requests + 1])
    /\ proven' = IF tok[t].role = "verify" THEN proven \cup {tok[t].email} ELSE proven
    /\ UNCHANGED <<kv, acked, erased, vouched, last, torn>>

LookUp(p) ==
    /\ At(p, "lookup")
    /\ LET e == req[p].email
       IN \/ ~Taken(e) /\ Finish(p)
          \/ /\ Taken(e)
             /\ GotoWith(p, IF req[p].op = "verify" /\ record[idx[e]].st # "pending" THEN "cleanup" ELSE "read",
                         [req[p] EXCEPT !.user = idx[e]])
    /\ UNCHANGED <<kv, history>>

CleanUp(p) ==
    /\ At(p, "cleanup")
    /\ tok' = [tok EXCEPT ![req[p].token].st = "gone"]
    /\ Finish(p)
    /\ UNCHANGED <<record, idx, managed, history>>

(***************************************************************************)
(* update_user_rmw and update_user_provisioned: read with revision, modify,*)
(* compare and swap, at most MaxTries times.  A rename claims the index    *)
(* key of the new address before the swap, drops the old one after it, and *)
(* drops the new one again if the swap fails.                              *)
(***************************************************************************)
\* Mutant: the closure of handle_email_verification trusts the status read before the loop.
Modifies_Unchecked(r, seen) == TRUE

\* What the closures of the callers return: is there something to write?
Modifies(r, seen) ==
    CASE r.op = "verify"               -> seen.st = "pending"
      [] r.op \in {"hook", "register"} -> seen.st # r.to
      [] OTHER                         -> TRUE

Renames(r) == r.op = "rename" /\ r.seen.email # r.email

\* Where a request goes on after its write, and after an error of the loop.
AfterWrite(r) ==
    CASE r.op \in {"verify", "reset"} -> "cleanup"
      [] r.op = "register"            -> "invite"
      [] r.op = "provision"           -> "join"
      [] Renames(r)                   -> "release"
      [] OTHER                        -> "idle"
AfterError(r) ==
    CASE r.op = "register"  -> "invite"
      [] r.op = "provision" -> "erase"
      [] OTHER              -> "idle"

Proceed(p, label) == IF label = "idle" THEN Finish(p) ELSE Goto(p, label)

ReadUser(p) ==
    /\ At(p, "read")
    /\ LET seen == record[req[p].user]
           r == [req[p] EXCEPT !.seen = seen]
       IN \/ ~Stored(r.user) /\ Proceed(p, AfterError(r))
          \/ Stored(r.user) /\ ~Modifies(r, seen) /\ Proceed(p, AfterWrite(r))
          \/ /\ Stored(r.user) /\ Modifies(r, seen)
             /\ GotoWith(p, IF Renames(r) THEN "claim" ELSE "swap", r)
    /\ UNCHANGED <<kv, history>>

ClaimEmail(p) ==
    /\ At(p, "claim")
    /\ \/ /\ idx[req[p].email] = NoUser
          /\ idx' = [idx EXCEPT ![req[p].email] = req[p].user]
          /\ Goto(p, "swap")
       \/ idx[req[p].email] # NoUser /\ Finish(p) /\ UNCHANGED idx
    /\ UNCHANGED <<record, tok, managed, history>>

\* Mutant: the swap is a put, whatever is stored.
RevisionMatches_Ignored(p) == TRUE

RevisionMatches(p) == Stored(req[p].user) /\ record[req[p].user].rev = req[p].seen.rev

SwapUser(p) ==
    /\ At(p, "swap")
    /\ RevisionMatches(p)
    /\ LET r == req[p] u == r.user
       IN /\ Write(u, IF r.op = "reset" THEN r.seen.st ELSE r.to,
                      IF r.op = "rename" THEN r.email ELSE r.seen.email,
                      IF r.op = "reset" THEN r.pw ELSE r.seen.pw)
          /\ vouched' = IF r.op \in {"verify", "reset"} THEN vouched ELSE vouched \cup {u}
          /\ last' = IF r.op = "reset" THEN [last EXCEPT ![u] = r.pw] ELSE last
          /\ Proceed(p, AfterWrite(r))
    /\ UNCHANGED <<idx, tok, managed, requests, acked, erased, proven, torn>>

Retry(p) ==
    IF req[p].tries + 1 < MaxTries
    THEN GotoWith(p, "read", [req[p] EXCEPT !.tries = @ + 1])
    ELSE Proceed(p, AfterError(req[p]))

SwapConflict(p) ==
    /\ At(p, "swap")
    /\ ~RevisionMatches(p)
    /\ IF Renames(req[p]) THEN Goto(p, "unclaim") ELSE Retry(p)
    /\ UNCHANGED <<kv, history>>

\* Mutant: the index key of the new address is left behind.
UnclaimEmail_Kept(p) ==
    /\ At(p, "unclaim")
    /\ Retry(p)
    /\ UNCHANGED <<kv, history>>

UnclaimEmail(p) ==
    /\ At(p, "unclaim")
    /\ Unindex(req[p].email, req[p].user)
    /\ Retry(p)
    /\ UNCHANGED <<record, tok, managed, requests, acked, erased, proven, vouched, last>>

ReleaseEmail(p) ==
    /\ At(p, "release")
    /\ Unindex(req[p].seen.email, req[p].user)
    /\ Finish(p)
    /\ UNCHANGED <<record, tok, managed, requests, acked, erased, proven, vouched, last>>

\* apply_outcome of the post-login hooks; a login needs an active account.
BeginHook(p, u, st) ==
    /\ record[u].st = "active"
    /\ Start(p, "read", [NoRequest EXCEPT !.op = "hook", !.user = u, !.to = st])
    /\ UNCHANGED <<kv, acked, erased, proven, vouched, last, torn>>

\* SCIM update_user: PUT and PATCH of a provisioned user.
BeginRename(p, u, e, st) ==
    /\ u \in managed /\ Stored(u)
    /\ record[u].email # e => ~Taken(e)
    /\ Start(p, "read", [NoRequest EXCEPT !.op = "rename", !.user = u, !.email = e, !.to = st])
    /\ UNCHANGED <<kv, acked, erased, proven, vouched, last, torn>>

(***************************************************************************)
(* activate_user: the record read is written back with status active, with *)
(* no revision.                                                            *)
(***************************************************************************)
BeginActivate(p, u) ==
    /\ Stored(u)
    /\ Start(p, "overwrite", [NoRequest EXCEPT !.op = "activate", !.user = u, !.seen = record[u]])
    /\ UNCHANGED <<kv, acked, erased, proven, vouched, last, torn>>

OverwriteUser(p) ==
    /\ At(p, "overwrite")
    /\ LET u == req[p].user seen == req[p].seen
       IN /\ Write(u, "active", seen.email, seen.pw)
          /\ vouched' = vouched \cup {u}
          /\ torn' = IF record[u] = seen THEN torn ELSE torn \cup {u}
    /\ Finish(p)
    /\ UNCHANGED <<idx, tok, managed, requests, acked, erased, proven, last>>

(***************************************************************************)
(* delete_user: read the record, delete the index key of the address read, *)
(* delete the record.  SCIM deletes the identity, the management API not.  *)
(***************************************************************************)
BeginErase(p, u) ==
    /\ Stored(u)
    /\ Start(p, "erase", [NoRequest EXCEPT !.op = "erase", !.user = u])
    /\ UNCHANGED <<kv, acked, erased, proven, vouched, last, torn>>

ReadForErase(p) ==
    /\ At(p, "erase")
    /\ \/ ~Stored(req[p].user) /\ Finish(p)
       \/ /\ Stored(req[p].user)
          /\ GotoWith(p, "dropindex", [req[p] EXCEPT !.seen = record[req[p].user]])
    /\ UNCHANGED <<kv, history>>

DropIndex(p) ==
    /\ At(p, "dropindex")
    /\ Unindex(req[p].seen.email, req[p].user)
    /\ Goto(p, "droprecord")
    /\ UNCHANGED <<record, tok, managed, requests, acked, erased, proven, vouched, last>>

\* An index key that the user got after DropIndex, by a rename or its creation, stays.
DropRecord(p) ==
    /\ At(p, "droprecord")
    /\ LET u == req[p].user
       IN /\ Delete(u)
          /\ managed' \in {managed, managed \ {u}}
          /\ erased' = IF req[p].op = "erase" THEN erased \cup {u} ELSE erased
          /\ last' = [last EXCEPT ![u] = 0]
          /\ torn' = IF Stored(u) /\ idx[record[u].email] = u THEN torn \cup {u} ELSE torn
    /\ Finish(p)
    /\ UNCHANGED <<idx, tok, requests, acked, proven, vouched>>

\* An instance dies, or the store fails, between two steps of a request.
Crash(p) ==
    /\ ~At(p, "idle")
    /\ torn' = torn \cup ({req[p].user} \ {NoUser})
    /\ Finish(p)
    /\ UNCHANGED <<kv, requests, acked, erased, proven, vouched, last>>

Handler(p) ==
    \/ CreateIndex(p) \/ RollBack(p) \/ Resend(p) \/ Vet(p) \/ Join(p) \/ LookUp(p) \/ CleanUp(p)
    \/ ReadUser(p) \/ ClaimEmail(p) \/ SwapUser(p) \/ SwapConflict(p) \/ UnclaimEmail(p) \/ ReleaseEmail(p)
    \/ OverwriteUser(p) \/ ReadForErase(p) \/ DropIndex(p) \/ DropRecord(p) \/ Crash(p)
    \/ \E t \in Tokens : Invite(p, t) \/ PresentToken(p, t)
    \/ \E u \in Users : BeginActivate(p, u) \/ BeginErase(p, u)
    \/ \E u \in Users, e \in Emails : BeginRegister(p, u, e)
    \/ \E u \in Users, st \in {"active", "barred"} :
          \/ BeginHook(p, u, st)
          \/ \E e \in Emails : BeginProvision(p, u, e, st) \/ BeginRename(p, u, e, st)

Next ==
    \/ \E p \in Procs : Handler(p)
    \/ \E t \in Tokens : ExpireToken(t) \/ \E u \in Users : StartReset(u, t)

Spec == Init /\ [][Next]_vars

(***************************************************************************)
(* Properties.  torn holds the users hit by one of the overlaps that the   *)
(* code does not guard against; the others must be whole.                  *)
(***************************************************************************)
\* create_user, update_user_provisioned: the owner of an acknowledged account is found under the
\* address in its record at every moment until its erasure begins, so that login by password,
\* verification and reset reach it, whatever renames, retries and erasures of others overlap.
EmailIndexed ==
    \A u \in acked \ torn :
        Stored(u) /\ (\A p \in Procs : ~(At(p, "droprecord") /\ req[p].user = u))
        => idx[record[u].email] = u

\* update_user_provisioned: a rename that loses or fails gives the new address back and one that
\* succeeds the old one: outside a request at work on the user, the index names a user only
\* under the address of its record.
NoSquattedEmail ==
    \A e \in Emails :
        idx[e] \in Users \ torn =>
            \/ Stored(idx[e]) /\ record[idx[e]].email = e
            \/ \E p \in Procs : req[p].user = idx[e] /\ pc[p] \in {"swap", "unclaim", "release"}

\* handle_password_reset_complete, "update user atomically": the password of a stored reset is
\* not undone by a verification, a hook, a rename or an older reset that overlaps it.
ResetHolds == \A u \in Users \ torn : Stored(u) => record[u].pw = last[u]

\* require_email_verification: an account is active only if a verification token mailed to its
\* address has come back, or an administrator, a hook or SCIM set its status.
ActiveIsVerified ==
    \A u \in Users : record[u].st = "active" => u \in vouched \/ record[u].email \in proven

\* handle_email_verification: a disabled or suspended account becomes active again only by a
\* step of a hook, of SCIM or of an administrator, never by a verification link or a reset.
ReinstatedByAuthority ==
    [][\A u \in Users :
         record[u].st = "barred" /\ record'[u].st = "active"
         => \E p \in Procs : pc'[p] # pc[p] /\ req[p].user = u
                             /\ req[p].op \in {"register", "provision", "hook", "rename", "activate"}]_vars

\* delete_user against update_user_rmw and update_user_provisioned: a user whose erasure has been
\* answered is not stored again by a verification, a reset, a hook or a rename that read the record
\* before.  (activate_user has no revision and does store it again; it marks the user as torn.)
ErasureHolds == \A u \in erased \ torn : ~Stored(u)
=============================================================================
