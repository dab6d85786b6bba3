--------------------------- MODULE RefreshTokens ---------------------------
(***************************************************************************)
(* The refresh-token families of the token endpoint (token.rs) over the    *)
(* sessions table of the key-value store (store.rs).                       *)
(*                                                                         *)
(* Replicas keep no state between requests, so a request in flight is a    *)
(* process p: pc[p] says which store operation it performs next and req[p] *)
(* holds its local variables.  Every store operation is one atomic step;   *)
(* anything may happen between two of them.                                *)
(*                                                                         *)
(* A family is the chain of tokens that one grant (authorization code or   *)
(* device code) starts and every refresh extends; it is named by its first *)
(* token.  family, parent, birth, handed and revoking are history          *)
(* variables: steps read them only to choose a token that a client really  *)
(* holds (handed) or one that was never generated (family).                *)
(***************************************************************************)
EXTENDS Requests, Naturals, FiniteSets

CONSTANTS
    Users, Tokens,          \* user ids, token hashes
    NoUser, NoToken,        \* no value
    MaxTime,                \* bound of the clock
    IdleTTL,                \* 86400 * 30, token expiry and TTL_REFRESH_TOKEN
    AbsMax,                 \* refresh_absolute_max_secs()
    MarkerTTL               \* TTL_CONSUMED_MARKER

ASSUME NoValueAssumption == NoUser \notin Users /\ NoToken \notin Tokens
ASSUME TimeAssumption == {MaxTime, IdleTTL, AbsMax, MarkerTTL} \subseteq Nat

VARIABLES
    now,        \* unix_now()
    user,       \* users table: status of each user
    refresh,    \* refresh:{hash}
    idx,        \* refresh_idx:{user}:{hash} keys
    marker,     \* consumed:{hash}
    revokedAt,  \* revoked:user:{id}, 0 when absent
    family, parent, birth, handed, revoking

kv == <<user, refresh, idx, marker, revokedAt>>
history == <<family, parent, birth, handed, revoking>>
vars == <<now, kv, pc, req, history>>

(***************************************************************************)
(* Values.                                                                 *)
(***************************************************************************)
MaybeUser == Users \cup {NoUser}
MaybeToken == Tokens \cup {NoToken}

\* An entry is live, the CAS-swapped consumed marker, or not there.
Entry == [st: {"absent", "live", "consumed"}, user: MaybeUser,
          issued: Nat, expires: Nat, rev: 0..2]
Absent == [st |-> "absent", user |-> NoUser, issued |-> 0, expires |-> 0, rev |-> 0]
LiveEntry(u, issued, expires) ==
    [st |-> "live", user |-> u, issued |-> issued, expires |-> expires, rev |-> 1]
Consumed(e, until) ==
    [st |-> "consumed", user |-> e.user, issued |-> 0, expires |-> until, rev |-> e.rev + 1]

Marker == [user: MaybeUser, until: Nat]

Purposes == {"", "rotate", "delete"}   \* what a shared tail returns to
Request == [tok: MaybeToken, new: MaybeToken, user: MaybeUser, issued: Nat, at: Nat,
            rev: 0..2, list: SUBSET Tokens, why: Purposes]
NoRequest == [tok |-> NoToken, new |-> NoToken, user |-> NoUser, issued |-> 0, at |-> 0,
              rev |-> 0, list |-> {}, why |-> ""]

\* A request about to delete all tokens of u, because token t of u was replayed or for no token.
Sweep(u, t) == [NoRequest EXCEPT !.user = u, !.tok = t]

Labels == {"idle", "consume", "user", "save", "grant", "index", "retire", "forget", "erase",
           "marker", "entry", "revoke", "list", "sweep", "unindex", "erase_user"}

Live(t) == refresh[t].st = "live"
Min2(a, b) == IF a <= b THEN a ELSE b

TypeOK ==
    /\ now \in Nat
    /\ user \in [Users -> {"active", "disabled", "gone"}]
    /\ refresh \in [Tokens -> Entry]
    /\ idx \subseteq Users \X Tokens
    /\ marker \in [Tokens -> Marker]
    /\ revokedAt \in [Users -> Nat]
    /\ pc \in [Procs -> Labels]
    /\ req \in [Procs -> Request]
    /\ family \in [Tokens -> MaybeToken]
    /\ parent \in [Tokens -> MaybeToken]
    /\ birth \in [Tokens -> Nat]
    /\ handed \subseteq Tokens
    /\ revoking \subseteq Tokens

Init ==
    /\ now = 1
    /\ user = [u \in Users |-> "active"]
    /\ refresh = [t \in Tokens |-> Absent]
    /\ idx = {}
    /\ marker = [t \in Tokens |-> [user |-> NoUser, until |-> 0]]
    /\ revokedAt = [u \in Users |-> 0]
    /\ pc = [p \in Procs |-> "idle"]
    /\ req = [p \in Procs |-> NoRequest]
    /\ family = [t \in Tokens |-> NoToken]
    /\ birth = [t \in Tokens |-> 0]
    /\ parent = [t \in Tokens |-> NoToken]
    /\ handed = {} /\ revoking = {}

(***************************************************************************)
(* Control of a request: Goto keeps its locals, Finish drops them.         *)
(***************************************************************************)
Finish(p) == GotoWith(p, "idle", NoRequest)

\* The response reaches the client with the new token, or is lost.
Respond(p) == \/ handed' = handed \cup {req[p].new}
              \/ UNCHANGED handed

(***************************************************************************)
(* handle_code_exchange and handle_device_code, from the check of the user *)
(* to the response: a grant with offline_access starts a family.           *)
(***************************************************************************)
BeginGrant(p, u) ==
    /\ At(p, "idle")
    /\ user[u] = "active"
    /\ GotoWith(p, "grant", [NoRequest EXCEPT !.user = u])
    /\ UNCHANGED <<now, kv, history>>

SaveGranted(p, n) ==
    /\ At(p, "grant")
    /\ family[n] = NoToken
    /\ refresh' = [refresh EXCEPT ![n] = LiveEntry(req[p].user, now, now + IdleTTL)]
    /\ family' = [family EXCEPT ![n] = n]
    /\ birth' = [birth EXCEPT ![n] = now]
    /\ GotoWith(p, "index", [req[p] EXCEPT !.new = n])
    /\ UNCHANGED <<now, user, idx, marker, revokedAt, parent, handed, revoking>>

(***************************************************************************)
(* handle_refresh: read with revision, checks, CAS, mint, save, retire.    *)
(***************************************************************************)
Unexpired(t) == now <= refresh[t].expires /\ now <= refresh[t].issued + AbsMax

PresentRefresh(p, t) ==
    /\ At(p, "idle")
    /\ t \in handed
    /\ LET e == refresh[t]
           r == [NoRequest EXCEPT !.tok = t]
       IN \/ /\ Live(t) /\ Unexpired(t)
             /\ GotoWith(p, "consume", [r EXCEPT !.user = e.user, !.issued = e.issued,
                                                 !.at = now, !.rev = e.rev])
          \/ Live(t) /\ ~Unexpired(t) /\ GotoWith(p, "forget", r)
          \/ ~Live(t) /\ GotoWith(p, "marker", r)
    /\ UNCHANGED <<now, kv, history>>

\* Mutant: the swap ignores the revision.
RevisionMatches_Ignored(p) == TRUE

RevisionMatches(p) == refresh[req[p].tok].rev = req[p].rev

Consume(p) ==
    /\ At(p, "consume")
    /\ RevisionMatches(p)
    /\ refresh' = [refresh EXCEPT ![req[p].tok] = Consumed(@, now + MarkerTTL)]
    /\ Goto(p, "user")
    /\ UNCHANGED <<now, user, idx, marker, revokedAt, history>>

ConsumeConflict(p) ==
    /\ At(p, "consume")
    /\ ~RevisionMatches(p)
    /\ Finish(p)
    /\ UNCHANGED <<now, kv, history>>

LoadUser(p) ==
    /\ At(p, "user")
    /\ \/ user[req[p].user] = "active" /\ Goto(p, "save")
       \/ /\ user[req[p].user] = "disabled"
          /\ GotoWith(p, "list", Sweep(req[p].user, NoToken))
       \/ user[req[p].user] = "gone" /\ Finish(p)
    /\ UNCHANGED <<now, kv, history>>

\* Mutant: every rotation restarts the family's lifetime.
FamilyIssuedAt_Now(r) == r.at

\* issued_at is carried forward through the family.
FamilyIssuedAt(r) == r.issued

SaveRotated(p, n) ==
    /\ At(p, "save")
    /\ family[n] = NoToken
    /\ LET r == req[p]
       IN /\ refresh' = [refresh EXCEPT ![n] =
                LiveEntry(r.user, FamilyIssuedAt(r),
                          Min2(r.at + IdleTTL, FamilyIssuedAt(r) + AbsMax))]
          /\ family' = [family EXCEPT ![n] = family[r.tok]]
          /\ parent' = [parent EXCEPT ![n] = r.tok]
          /\ GotoWith(p, "index", [r EXCEPT !.new = n])
    /\ UNCHANGED <<now, user, idx, marker, revokedAt, birth, handed, revoking>>

\* Mutant: a rotated token is not indexed.
IndexKeys_GrantOnly(p) == IF req[p].tok = NoToken THEN {<<req[p].user, req[p].new>>} ELSE {}

IndexKeys(p) == {<<req[p].user, req[p].new>>}

\* The second write of save_refresh_token; a code exchange then answers. The key has the TTL of the
\* entry written before it and so outlives it: what is left of it then leads to no token, and the
\* model lets it stay.
IndexToken(p) ==
    /\ At(p, "index")
    /\ idx' = idx \cup IndexKeys(p)
    /\ \/ req[p].tok = NoToken /\ Finish(p) /\ Respond(p)
       \/ req[p].tok # NoToken /\ Goto(p, "retire") /\ UNCHANGED handed
    /\ UNCHANGED <<now, user, refresh, marker, revokedAt, family, parent, birth, revoking>>

\* Mutant: the entry is deleted without a consumed: key.
RetireToken_Unmarked(p) ==
    /\ At(p, "retire")
    /\ GotoWith(p, "forget", [req[p] EXCEPT !.why = "rotate"])
    /\ UNCHANGED <<now, kv, history>>

\* mark_refresh_consumed
RetireToken(p) ==
    /\ At(p, "retire")
    /\ marker' = [marker EXCEPT ![req[p].tok] =
            [user |-> req[p].user, until |-> now + MarkerTTL]]
    /\ GotoWith(p, "forget", [req[p] EXCEPT !.why = "rotate"])
    /\ UNCHANGED <<now, user, refresh, idx, revokedAt, history>>

(***************************************************************************)
(* delete_refresh_token: drop the index key of an entry that can still be  *)
(* deserialized, then the entry; rotation answers after it.                *)
(***************************************************************************)
ForgetIndex(p) ==
    /\ At(p, "forget")
    /\ LET t == req[p].tok
       IN idx' = IF Live(t) THEN idx \ {<<refresh[t].user, t>>} ELSE idx
    /\ Goto(p, "erase")
    /\ UNCHANGED <<now, user, refresh, marker, revokedAt, history>>

EraseToken(p) ==
    /\ At(p, "erase")
    /\ refresh' = [refresh EXCEPT ![req[p].tok] = Absent]
    /\ \/ req[p].why = "rotate" /\ Respond(p)
       \/ req[p].why # "rotate" /\ UNCHANGED handed
    /\ Finish(p)
    /\ UNCHANGED <<now, user, idx, marker, revokedAt, family, parent, birth, revoking>>

(***************************************************************************)
(* Replay detection: get_consumed_refresh, then the revocation of the user.*)
(***************************************************************************)
ReadMarker(p) ==
    /\ At(p, "marker")
    /\ LET m == marker[req[p].tok]
       IN \/ m.user # NoUser /\ GotoWith(p, "revoke", [req[p] EXCEPT !.user = m.user])
          \/ m.user = NoUser /\ Goto(p, "entry")
    /\ UNCHANGED <<now, kv, history>>

ReadEntry(p) ==
    /\ At(p, "entry")
    /\ LET e == refresh[req[p].tok]
       IN \/ e.st = "consumed" /\ GotoWith(p, "revoke", [req[p] EXCEPT !.user = e.user])
          \/ e.st # "consumed" /\ Finish(p)
    /\ UNCHANGED <<now, kv, history>>

\* revoke_user_sessions, then delete_user_refresh_tokens
RevokeUser(p) ==
    /\ At(p, "revoke")
    /\ revokedAt' = [revokedAt EXCEPT ![req[p].user] = now]
    /\ GotoWith(p, "list", Sweep(req[p].user, req[p].tok))
    /\ UNCHANGED <<now, user, refresh, idx, marker, history>>

(***************************************************************************)
(* delete_user_refresh_tokens: list the index, delete entry by entry, then *)
(* revoke_user_sessions.                                                   *)
(***************************************************************************)
ListTokens(p) ==
    /\ At(p, "list")
    /\ GotoWith(p, "sweep", [req[p] EXCEPT !.list = {t \in Tokens : <<req[p].user, t>> \in idx}])
    /\ UNCHANGED <<now, kv, history>>

SweepEntry(p, t) ==
    /\ At(p, "sweep")
    /\ t \in req[p].list
    /\ refresh' = [refresh EXCEPT ![t] = Absent]
    /\ GotoWith(p, "unindex", [req[p] EXCEPT !.new = t])
    /\ UNCHANGED <<now, user, idx, marker, revokedAt, history>>

SweepIndex(p) ==
    /\ At(p, "unindex")
    /\ idx' = idx \ {<<req[p].user, req[p].new>>}
    /\ GotoWith(p, "sweep", [req[p] EXCEPT !.list = @ \ {req[p].new}])
    /\ UNCHANGED <<now, user, refresh, marker, revokedAt, history>>

FinishSweep(p) ==
    /\ At(p, "sweep")
    /\ req[p].list = {}
    /\ revokedAt' = [revokedAt EXCEPT ![req[p].user] = now]
    /\ \/ req[p].why = "delete" /\ Goto(p, "erase_user")
       \/ req[p].why # "delete" /\ Finish(p)
    /\ UNCHANGED <<now, user, refresh, idx, marker, history>>

(***************************************************************************)
(* The other handlers that revoke: logout, password reset and MFA disable  *)
(* (sweep), SCIM deactivation (status, then sweep), user deletion (sweep,  *)
(* then the user record), POST /token/revoke (one token).                  *)
(***************************************************************************)
BeginSweep(p, u, why) ==
    /\ At(p, "idle")
    /\ user[u] # "gone"
    /\ GotoWith(p, "list", [Sweep(u, NoToken) EXCEPT !.why = why])
    /\ UNCHANGED <<now, kv, history>>

DisableUser(p, u) ==
    /\ At(p, "idle")
    /\ user[u] = "active"
    /\ user' = [user EXCEPT ![u] = "disabled"]
    /\ GotoWith(p, "list", Sweep(u, NoToken))
    /\ UNCHANGED <<now, refresh, idx, marker, revokedAt, history>>

EraseUser(p) ==
    /\ At(p, "erase_user")
    /\ user' = [user EXCEPT ![req[p].user] = "gone"]
    /\ Finish(p)
    /\ UNCHANGED <<now, refresh, idx, marker, revokedAt, history>>

\* activate_user puts back a record that it read before, even after an erasure.
ActivateUser(u) ==
    /\ user[u] # "active"
    /\ user' = [user EXCEPT ![u] = "active"]
    /\ UNCHANGED <<now, refresh, idx, marker, revokedAt, pc, req, history>>

BeginRevoke(p, t) ==
    /\ At(p, "idle")
    /\ t \in handed
    /\ Live(t)
    /\ revoking' = revoking \cup {t}
    /\ GotoWith(p, "forget", [NoRequest EXCEPT !.tok = t])
    /\ UNCHANGED <<now, kv, family, parent, birth, handed>>

(***************************************************************************)
(* Environment: a request dies (instance death, or an error of a store     *)
(* operation or of the signer that the handler propagates with `?`); keys  *)
(* reach their TTL; time passes.                                           *)
(***************************************************************************)
Crash(p) ==
    /\ ~At(p, "idle")
    /\ Finish(p)
    /\ UNCHANGED <<now, kv, history>>

ExpireKey(t) ==
    /\ \/ /\ refresh[t].st # "absent" /\ now >= refresh[t].expires
          /\ refresh' = [refresh EXCEPT ![t] = Absent]
          /\ UNCHANGED marker
       \/ /\ marker[t].user # NoUser /\ now >= marker[t].until
          /\ marker' = [marker EXCEPT ![t].user = NoUser]
          /\ UNCHANGED refresh
    /\ UNCHANGED <<now, user, idx, revokedAt, pc, req, history>>

Tick ==
    /\ now < MaxTime
    /\ now' = now + 1
    /\ UNCHANGED <<kv, pc, req, history>>

Handler(p) ==
    \/ \E u \in Users : BeginGrant(p, u) \/ DisableUser(p, u)
    \/ \E u \in Users, why \in {"", "delete"} : BeginSweep(p, u, why)
    \/ \E t \in Tokens : PresentRefresh(p, t) \/ BeginRevoke(p, t)
                         \/ SaveGranted(p, t) \/ SaveRotated(p, t) \/ SweepEntry(p, t)
    \/ Consume(p) \/ ConsumeConflict(p) \/ LoadUser(p) \/ IndexToken(p) \/ RetireToken(p)
    \/ ForgetIndex(p) \/ EraseToken(p) \/ ReadMarker(p) \/ ReadEntry(p) \/ RevokeUser(p)
    \/ ListTokens(p) \/ SweepIndex(p) \/ FinishSweep(p) \/ EraseUser(p)
    \/ Crash(p)

Next ==
    \/ \E p \in Procs : Handler(p)
    \/ \E u \in Users : ActivateUser(u)
    \/ \E t \in Tokens : ExpireKey(t)
    \/ Tick

Spec == Init /\ [][Next]_vars

(***************************************************************************)
(* Properties.                                                             *)
(***************************************************************************)
\* A request holds a family from its CAS of the old token to the write of the new one.
Holds(p, f) == pc[p] \in {"user", "save"} /\ family[req[p].tok] = f

\* Rotation never forks a family: however many requests present its tokens at once, at most
\* one entry of it is live or one request is about to write one (the CAS of
\* consume_refresh_token, taken before the successor is generated).
OneHolder ==
    /\ \A s, t \in Tokens : Live(s) /\ Live(t) /\ family[s] = family[t] => s = t
    /\ \A p, q \in Procs : \A f \in Tokens : Holds(p, f) /\ Holds(q, f) => p = q
    /\ \A t \in Tokens, p \in Procs : Live(t) => ~Holds(p, family[t])

\* Once a client holds the successor of a token, presenting the old one again is recognised
\* as a replay for the lifetime of the marker: the consumed: key was written before the entry
\* was deleted (mark_refresh_consumed precedes delete_refresh_token).
ReplayDetectable ==
    \A t \in handed : parent[t] # NoToken =>
        LET m == marker[parent[t]]
        IN m.user # NoUser \/ (0 < m.until /\ m.until <= now)

\* Every live token that a client holds is in its owner's index, so that
\* delete_user_refresh_tokens finds it, except one whose deletion a client asked for and one
\* that is no longer accepted because it expired.
HandedIsIndexed ==
    \A t \in handed : Live(t) /\ Unexpired(t) /\ t \notin revoking
                      => <<refresh[t].user, t>> \in idx

\* However often it is refreshed, no token of a family passes the checks of handle_refresh
\* more than AbsMax after the family was granted.
LifetimeBounded ==
    \A p \in Procs : At(p, "consume") => req[p].at <= birth[family[req[p].tok]] + AbsMax

\* The state of family f that TokenFamily speaks of.
FamilyState(f) ==
    IF family[f] # f THEN "none"
    ELSE IF \E t \in Tokens : Live(t) /\ family[t] = f THEN "current"
    ELSE IF \E p \in Procs : Holds(p, f) THEN "taken"
    ELSE "dead"

TF == INSTANCE TokenFamily WITH Families <- Tokens, state <- [f \in Tokens |-> FamilyState(f)]

\* Rotation at the grain of single store operations implements the abstract family: no
\* interleaving of refreshes, revocations, crashes and expiries revives a dead family or gives
\* it a second token.
ImplementsTokenFamily == TF!Spec
============================================================================
