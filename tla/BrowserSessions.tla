-------------------------- MODULE BrowserSessions ---------------------------
(***************************************************************************)
(* What a sign-in leaves with the user, and how it is taken back: browser  *)
(* sessions (the lid_session cookie, idp:{token}), account and admin       *)
(* sessions (lid_account, acct:{token}) and access tokens, under single    *)
(* sign-on at /authorize, the account pages, the admin panel, /userinfo    *)
(* and introspection, logout, and the revocation marker revoked:user:{id}, *)
(* for one user (account.rs, authorize.rs, admin/mod.rs, userinfo.rs,      *)
(* token.rs, service_client.rs, services/settings.rs, store.rs).           *)
(*                                                                         *)
(* A request in flight is a process p; each store operation is one step,   *)
(* but the marker and the status of the user are judged in one.  What is   *)
(* promised, with the state it speaks of, is in SessionPromise.            *)
(***************************************************************************)
EXTENDS Requests, SessionPromise, Naturals, FiniteSets

CONSTANTS
    Accounts, Tokens, Verifiers, None,
    TTLs,           \* values of idp_session_ttl_seconds that the settings take, a subset of what update_settings allows
    MarkTTL,        \* TTL_REVOCATION_MARKER
    AccountTTL, TokenTTL,
    MaxFlight,      \* bound: a request is answered, or dies, within this time
    MaxTime,        \* bound: the clock
    MaxRequests     \* bound: requests

Grants == Browsers \cup Accounts \cup Tokens

SessionConstants ==
    /\ None \notin Grants \cup Verifiers
    /\ Browsers \cap Accounts = {} /\ Browsers \cap Tokens = {} /\ Accounts \cap Tokens = {}
    /\ TTLs \subseteq Nat \ {0} /\ TTLs # {}
    /\ {MarkTTL, AccountTTL, TokenTTL, MaxFlight, MaxTime, MaxRequests} \subseteq Nat /\ MaxTime >= 1
ASSUME SessionAssumption == SessionConstants

VARIABLES
    ttl,        \* settings:global, idp_session_ttl_seconds
    active,     \* the user's status is active
    verifier,   \* admin_pkce:{state}, logins to the admin panel on their way through /authorize
    requests,   \* requests begun
    revoked,    \* time of the last revocation that was answered
    out         \* grants whose logout was answered

kv == <<ttl, active, grant, marker, verifier>>
history == <<requests, signed, revoked, out, overlap, admitted>>
vars == <<now, kv, pc, req, history>>

\* auth is auth_time, created_at or iat; until is expires_at or exp, and the lifetime of the key.
Grant == [st: {"unused", "live", "gone"}, auth: Nat, until: Nat]
NoGrant == [st |-> "unused", auth |-> 0, until |-> 0]
Marker == [at: Nat, until: Nat]
NoMarker == [at |-> 0, until |-> 0]
Request == [grant: Grants \cup {None}, seen: Grant, late: BOOLEAN, at: Nat]
NoRequest == [grant |-> None, seen |-> NoGrant, late |-> FALSE, at |-> 0]
Labels == {"idle", "judge", "admin", "issue", "slide", "save", "account", "exchange", "mark", "logout"}

TypeOK ==
    /\ now \in 1..MaxTime /\ ttl \in TTLs /\ active \in BOOLEAN
    /\ grant \in [Grants -> Grant] /\ marker \in Marker /\ verifier \subseteq Verifiers
    /\ pc \in [Procs -> Labels] /\ req \in [Procs -> Request]
    /\ requests \in 0..MaxRequests /\ signed \in [Grants -> Nat] /\ revoked \in Nat /\ overlap \in BOOLEAN
    /\ out \subseteq Grants /\ admitted \subseteq Grants

Init ==
    /\ now = 1 /\ ttl \in TTLs /\ active = TRUE
    /\ grant = [g \in Grants |-> NoGrant] /\ marker = NoMarker /\ verifier = {}
    /\ pc = [p \in Procs |-> "idle"] /\ req = [p \in Procs |-> NoRequest]
    /\ requests = 0 /\ signed = [g \in Grants |-> 0] /\ revoked = 0 /\ out = {} /\ overlap = FALSE /\ admitted = {}

Finish(p) == GotoWith(p, "idle", NoRequest)
Start(p, label, r) ==
    /\ At(p, "idle") /\ requests < MaxRequests
    /\ GotoWith(p, label, [r EXCEPT !.at = now])
    /\ requests' = requests + 1

(***************************************************************************)
(* Grants are made at the end of a sign-in (complete_login_with_amr), of a *)
(* single sign-on, of a login to the admin panel, and by the token         *)
(* endpoint.                                                               *)
(***************************************************************************)
Lifetime(g) == IF g \in Browsers THEN ttl ELSE IF g \in Accounts THEN AccountTTL ELSE TokenTTL
Make(g) ==
    /\ grant' = [grant EXCEPT ![g] = [st |-> "live", auth |-> now, until |-> now + Lifetime(g)]]
    /\ signed' = [signed EXCEPT ![g] = now]

CreateGrant(g) ==
    /\ active /\ grant[g].st = "unused" /\ requests < MaxRequests
    /\ Make(g)
    /\ requests' = requests + 1
    /\ UNCHANGED <<now, ttl, active, marker, verifier, pc, req, revoked, out, overlap, admitted>>
CreateIdpSession(g) == g \in Browsers /\ CreateGrant(g)
CreateAccountSession(g) == g \in Accounts /\ CreateGrant(g)
CreateAdminSession(g) == g \in Accounts /\ CreateGrant(g)
IssueAccessToken(g) == g \in Tokens /\ CreateGrant(g)

(***************************************************************************)
(* is_user_revoked compares by the second; an account page, the admin      *)
(* panel and /authorize also want the user active, /userinfo does not.     *)
(***************************************************************************)
\* Mutant: the marker is compared with the time of the request.
IsUserRevoked_Now(auth) == marker.until > now /\ now < marker.at

IsUserRevoked(auth) == marker.until > now /\ auth < marker.at

\* A token is a signed claim: its signature and its lifetime are all there is to check.
Verifies(g) == now <= grant[g].until
Present(g) == IF g \in Tokens THEN Verifies(g) ELSE grant[g].st = "live" /\ now <= grant[g].until
Doomed(g) == g \in out \/ signed[g] < revoked
Admit(p) == admitted' = IF req[p].late THEN admitted \cup {req[p].grant} ELSE admitted
Welcome(p) == active /\ now <= req[p].seen.until /\ ~IsUserRevoked(req[p].seen.auth)
Discard(g) == grant' = [grant EXCEPT ![g].st = "gone"]

Begin(p, g) ==
    /\ Present(g)
    /\ Start(p, "judge", [NoRequest EXCEPT !.grant = g, !.seen = grant[g], !.late = Doomed(g)])
    /\ UNCHANGED <<now, kv, signed, revoked, out, overlap, admitted>>
BeginAuthorize(p, g) == g \in Browsers /\ Begin(p, g)
BeginPage(p, g) == g \in Accounts /\ Begin(p, g)
BeginUserinfo(p, g) == g \in Tokens /\ Begin(p, g)
BeginIntrospect(p, g) == g \in Tokens /\ Begin(p, g)

\* verify_token_scoped; the lifetime of the token was checked before.
JudgeToken(p) ==
    /\ At(p, "judge") /\ req[p].grant \in Tokens
    /\ IF IsUserRevoked(req[p].seen.auth) THEN UNCHANGED admitted ELSE Admit(p)
    /\ Finish(p)
    /\ UNCHANGED <<now, kv, requests, signed, revoked, out, overlap>>

\* require_account_session.
JudgeAccount(p) ==
    /\ At(p, "judge") /\ req[p].grant \in Accounts
    /\ IF Welcome(p)
       THEN Admit(p) /\ UNCHANGED grant
       ELSE Discard(req[p].grant) /\ UNCHANGED admitted
    /\ Finish(p)
    /\ UNCHANGED <<now, ttl, active, marker, verifier, requests, signed, revoked, out, overlap>>

\* resolve_admin_session takes any of the three, wants the user active, and discards none.
BeginAdminPage(p, g) ==
    /\ Present(g)
    /\ Start(p, "admin", [NoRequest EXCEPT !.grant = g, !.seen = grant[g], !.late = Doomed(g)])
    /\ UNCHANGED <<now, kv, signed, revoked, out, overlap, admitted>>

JudgeAdmin(p) ==
    /\ At(p, "admin")
    /\ IF Welcome(p) THEN Admit(p) ELSE UNCHANGED admitted
    /\ Finish(p)
    /\ UNCHANGED <<now, kv, requests, signed, revoked, out, overlap>>

(***************************************************************************)
(* Single sign-on at /authorize: get_idp_session_from_headers, a second    *)
(* look at the marker and the status, the code, and then                   *)
(* refresh_idp_session_cookie_header, which reads the session again and    *)
(* puts it back with a new lifetime; an account session comes with it.     *)
(***************************************************************************)
JudgeBrowser(p) ==
    /\ At(p, "judge") /\ req[p].grant \in Browsers
    /\ IF Welcome(p) THEN Goto(p, "issue") /\ UNCHANGED grant ELSE Discard(req[p].grant) /\ Finish(p)
    /\ UNCHANGED <<now, ttl, active, marker, verifier, history>>

ReuseSession(p) ==
    /\ At(p, "issue")
    /\ IF active /\ ~IsUserRevoked(req[p].seen.auth)
       THEN Admit(p) /\ Goto(p, "slide")
       ELSE Finish(p) /\ UNCHANGED admitted
    /\ UNCHANGED <<now, kv, requests, signed, revoked, out, overlap>>

\* The request asks for more than the session shows (prompt, max_age, acr_values, id_token_hint).
DeclineSession(p) ==
    /\ At(p, "issue")
    /\ Finish(p)
    /\ UNCHANGED <<now, kv, history>>

ReadForSlide(p) ==
    /\ At(p, "slide")
    /\ LET g == req[p].grant
           fit == active /\ ~IsUserRevoked(grant[g].auth)
       IN IF Present(g) /\ fit
          THEN GotoWith(p, "save", [req[p] EXCEPT !.seen = grant[g]]) /\ UNCHANGED grant
          ELSE Goto(p, "account") /\ IF Present(g) THEN Discard(g) ELSE UNCHANGED grant
    /\ UNCHANGED <<now, ttl, active, marker, verifier, history>>

\* Mutant: sliding the session counts as a new authentication.
Slid_Reauthenticated(seen) == [seen EXCEPT !.auth = now, !.until = now + ttl]

Slid(seen) == [seen EXCEPT !.until = now + ttl]

\* The session is put without a revision: one that was deleted meanwhile is back.
SlideSession(p) ==
    /\ At(p, "save")
    /\ grant' = [grant EXCEPT ![req[p].grant] = Slid(req[p].seen)]
    /\ out' = IF grant[req[p].grant].st = "gone" THEN out \ {req[p].grant} ELSE out
    /\ Goto(p, "account")
    /\ UNCHANGED <<now, ttl, active, marker, verifier, requests, signed, revoked, overlap, admitted>>

CreateSessionCookie(p, g) ==
    /\ At(p, "account") /\ g \in Accounts /\ grant[g].st = "unused"
    /\ Make(g)
    /\ Finish(p)
    /\ UNCHANGED <<now, ttl, active, marker, verifier, requests, revoked, out, overlap, admitted>>

(***************************************************************************)
(* The admin panel's own flow: a verifier is stored under the state,       *)
(* consumed by the callback, and the code it comes with is exchanged.      *)
(***************************************************************************)
RedirectAdmin(v) ==
    /\ v \notin verifier /\ requests < MaxRequests
    /\ verifier' = verifier \cup {v}
    /\ requests' = requests + 1
    /\ UNCHANGED <<now, ttl, active, grant, marker, pc, req, signed, revoked, out, overlap, admitted>>

AdminCallback(p, v) ==
    /\ v \in verifier
    /\ verifier' = verifier \ {v}
    /\ Start(p, "exchange", NoRequest)
    /\ UNCHANGED <<now, ttl, active, grant, marker, signed, revoked, out, overlap, admitted>>

ExchangeForAdmin(p, g) ==
    /\ At(p, "exchange") /\ g \in Accounts /\ grant[g].st = "unused"
    /\ IF active THEN Make(g) ELSE UNCHANGED <<grant, signed>>
    /\ Finish(p)
    /\ UNCHANGED <<now, ttl, active, marker, verifier, requests, revoked, out, overlap, admitted>>

(***************************************************************************)
(* Logout, and revocation: by SCIM or an administrator, who disables or    *)
(* erases the user first, by the user, who disables MFA, and by a replayed *)
(* refresh token.                                                          *)
(***************************************************************************)
Delete(p, g) ==
    /\ g \in Browsers \cup Accounts /\ grant[g].st = "live"
    /\ Start(p, "logout", [NoRequest EXCEPT !.grant = g])
    /\ Discard(g)
    /\ UNCHANGED <<now, ttl, active, marker, verifier, signed, revoked, out, overlap, admitted>>

HandleLogout(p, g) == Delete(p, g)
AdminLogout(p, g) == Delete(p, g)
AccountLogout(p, g) == Delete(p, g)

AnswerLogout(p) ==
    /\ At(p, "logout")
    /\ out' = IF grant[req[p].grant].st = "gone" THEN out \cup {req[p].grant} ELSE out
    /\ Finish(p)
    /\ UNCHANGED <<now, kv, requests, signed, revoked, overlap, admitted>>

BeginRevoke(p, bar) ==
    /\ Start(p, "mark", NoRequest)
    /\ active' = (active /\ ~bar)
    /\ overlap' = (overlap \/ \E q \in Procs : At(q, "mark") /\ req[q].at # now)
    /\ UNCHANGED <<now, ttl, grant, marker, verifier, signed, revoked, out, admitted>>

RevokeUserSessions(p) ==
    /\ At(p, "mark")
    /\ marker' = [at |-> req[p].at, until |-> now + MarkTTL]
    /\ revoked' = IF req[p].at > revoked THEN req[p].at ELSE revoked
    /\ Finish(p)
    /\ UNCHANGED <<now, ttl, active, grant, verifier, requests, signed, out, overlap, admitted>>

Activate ==
    /\ ~active /\ requests < MaxRequests
    /\ active' = TRUE
    /\ requests' = requests + 1
    /\ UNCHANGED <<now, ttl, grant, marker, verifier, pc, req, signed, revoked, out, overlap, admitted>>

UpdateSettings(t) ==
    /\ t # ttl /\ requests < MaxRequests
    /\ ttl' = t
    /\ requests' = requests + 1
    /\ UNCHANGED <<now, active, grant, marker, verifier, pc, req, signed, revoked, out, overlap, admitted>>

\* An instance dies, or the store fails, between two steps of a request.
Crash(p) ==
    /\ ~At(p, "idle")
    /\ Finish(p)
    /\ UNCHANGED <<now, kv, history>>

Tick ==
    /\ now < MaxTime
    /\ \A p \in Procs : ~At(p, "idle") => now < req[p].at + MaxFlight
    /\ now' = now + 1
    /\ UNCHANGED <<kv, pc, req, history>>

Handler(p) ==
    \/ JudgeToken(p) \/ JudgeAccount(p) \/ JudgeBrowser(p) \/ JudgeAdmin(p) \/ ReuseSession(p) \/ DeclineSession(p) \/ ReadForSlide(p)
    \/ SlideSession(p) \/ AnswerLogout(p) \/ RevokeUserSessions(p) \/ Crash(p)
    \/ \E bar \in BOOLEAN : BeginRevoke(p, bar)
    \/ \E v \in Verifiers : AdminCallback(p, v)
    \/ \E g \in Grants :
          \/ BeginAuthorize(p, g) \/ BeginPage(p, g) \/ BeginUserinfo(p, g) \/ BeginIntrospect(p, g) \/ BeginAdminPage(p, g)
          \/ CreateSessionCookie(p, g) \/ ExchangeForAdmin(p, g)
          \/ HandleLogout(p, g) \/ AdminLogout(p, g) \/ AccountLogout(p, g)

Next ==
    \/ \E p \in Procs : Handler(p)
    \/ \E g \in Grants : CreateIdpSession(g) \/ CreateAccountSession(g) \/ CreateAdminSession(g) \/ IssueAccessToken(g)
    \/ \E v \in Verifiers : RedirectAdmin(v)
    \/ \E t \in TTLs : UpdateSettings(t)
    \/ Activate \/ Tick

Spec == Init /\ [][Next]_vars
=============================================================================
