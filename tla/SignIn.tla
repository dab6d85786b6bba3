------------------------------- MODULE SignIn -------------------------------
(***************************************************************************)
(* Signing in, from /authorize (authorize.rs, par.rs) to the authorization *)
(* code, device approval or SAML response of one authentication session:   *)
(* password and second factor (login.rs, totp.rs), passkey (management.rs),*)
(* external providers (social.rs, google.rs) and the admin panel's login   *)
(* (admin/mod.rs), over the short-lived records of store.rs, for one user. *)
(* The browser session that follows a sign-in is module BrowserSessions.   *)
(*                                                                         *)
(* A request in flight is a process p; each store operation is one step,   *)
(* except that a read whose result is checked again before it is used is   *)
(* one step with the operation before it.  A record that is written once   *)
(* and then deleted at the revision read is consumed in one step.  The     *)
(* clock ticks once per TOTP period.                                       *)
(***************************************************************************)
EXTENDS Requests, Naturals, FiniteSets

CONSTANTS
    Sessions, Pendings, Challenges, States, Pars, Recoveries,
    None, Admin,    \* no record; the session of a pending login to the admin panel
    MaxFailures,    \* max_login_failures
    LockTime,       \* lockout_duration, in ticks, as the lifetimes below
    MarkTTL,        \* lifetime of the marker of a used TOTP code: 90 s are 3 periods, no fewer than a code is good
    SessionTTL, PendingTTL, ParTTL,
    MfaLimit,       \* attempts per pending login that the limiter lets through
    MaxTries,       \* MAX_RETRIES of the compare-and-swap loops
    MaxTime,        \* bound: the clock
    MaxRequests     \* bound: requests

ASSUME SignInAssumption ==
    /\ {None, Admin} \cap (Sessions \cup Pendings \cup Challenges \cup States \cup Pars \cup Recoveries) = {}
    /\ None # Admin /\ IsFiniteSet(Procs)
    /\ (Recoveries \cup {None}) \cap Nat = {}
    /\ {MaxFailures, LockTime, MarkTTL, SessionTTL, PendingTTL, ParTTL, MfaLimit, MaxTries} \subseteq Nat \ {0}
    /\ MarkTTL >= 3 /\ MaxTime \in Nat \ {0} /\ MaxRequests \in Nat

VARIABLES
    now,
    par,        \* par:{request_uri}, when it lapses; None before and after
    session,    \* session:{id}
    pending,    \* mfa:{token}
    chal,       \* passkey:{token}, open or not
    state,      \* social_csrf:{token} and gcsrf:{token}, a visit to a provider
    lock,       \* lockout:{user}
    used,       \* totp_used:{user}:{step}, when the marker lapses
    active,     \* the user's status is active
    totp,       \* the user's totp_enabled
    recovery,   \* the user's recovery_codes
    tries,      \* rl:mfa:{token}, attempts counted
    requests,   \* requests begun
    minted,     \* sign-ins completed per session
    guesses,    \* wrong passwords recorded and answered as such since the counter was last reset
    spent,      \* second factors accepted, per TOTP step and recovery code
    restored    \* times a spent recovery code came back with an outdated record

kv == <<par, session, pending, chal, state, lock, used, active, totp, recovery, tries>>
history == <<requests, minted, guesses, spent, restored>>
vars == <<now, kv, pc, req, history>>

Steps == 0..(MaxTime + 1)
Factors == Steps \cup Recoveries

\* strict says that the client asked for the acr of TOTP.
Session == [st: {"unused", "open", "gone"}, strict: BOOLEAN, until: Nat]
NoSession == [st |-> "unused", strict |-> FALSE, until |-> 0]
Pending == [st: {"unused", "open", "gone"}, session: Sessions \cup {None, Admin}, until: Nat]
NoPending == [st |-> "unused", session |-> None, until |-> 0]
Visit == [session: Sessions \cup {None}, to: {"social", "google"}]
NoVisit == [session |-> None, to |-> "social"]
Lock == [n: Nat, until: Nat]
NoLock == [n |-> 0, until |-> 0]

Flows == {"none", "authorize", "password", "admin", "social", "google", "passkey", "mfa"}
Request == [flow: Flows, session: Sessions \cup {None, Admin}, pending: Pendings \cup {None}, par: Pars \cup {None},
            locked: BOOLEAN, factor: Factors \cup {None}, at: Nat, lock: Lock, codes: SUBSET Recoveries, tries: Nat]
NoRequest == [flow |-> "none", session |-> None, pending |-> None, par |-> None, locked |-> FALSE,
              factor |-> None, at |-> 0, lock |-> NoLock, codes |-> {}, tries |-> 0]
Labels == {"idle", "unpush", "open", "lockcheck", "verify", "failread", "failswap", "pend", "attempt",
           "mark", "readcodes", "swapcodes", "unpend", "hooks", "clear", "consume", "mint",
           "passkey", "provider", "activate"}

TypeOK ==
    /\ now \in 0..MaxTime
    /\ par \in [Pars -> Nat \cup {None}]
    /\ session \in [Sessions -> Session] /\ pending \in [Pendings -> Pending]
    /\ chal \in [Challenges -> {"unused", "open", "gone"}] /\ state \in [States -> Visit]
    /\ lock \in Lock /\ used \in [Steps -> Nat]
    /\ active \in BOOLEAN /\ totp \in BOOLEAN /\ recovery \subseteq Recoveries
    /\ tries \in [Pendings -> 0..MfaLimit]
    /\ pc \in [Procs -> Labels] /\ req \in [Procs -> Request]
    /\ requests \in 0..MaxRequests /\ minted \in [Sessions -> Nat] /\ guesses \in Nat /\ spent \in [Factors -> Nat]
    /\ restored \in [Recoveries -> Nat]

Init ==
    /\ now = 1
    /\ par = [r \in Pars |-> None]
    /\ session = [s \in Sessions |-> NoSession] /\ pending = [m \in Pendings |-> NoPending]
    /\ chal = [c \in Challenges |-> "unused"] /\ state = [t \in States |-> NoVisit]
    /\ lock = NoLock /\ used = [k \in Steps |-> 0]
    /\ active = TRUE /\ totp \in BOOLEAN /\ recovery = Recoveries
    /\ tries = [m \in Pendings |-> 0]
    /\ pc = [p \in Procs |-> "idle"] /\ req = [p \in Procs |-> NoRequest]
    /\ requests = 0 /\ minted = [s \in Sessions |-> 0] /\ guesses = 0 /\ spent = [f \in Factors |-> 0]
    /\ restored = [f \in Recoveries |-> 0]

Finish(p) == GotoWith(p, "idle", NoRequest)
Start(p, label, r) ==
    /\ At(p, "idle") /\ requests < MaxRequests
    /\ GotoWith(p, label, r)
    /\ requests' = requests + 1

\* get_auth_session and the check of created_at; get_mfa_pending and the check of expires_at.
Live(s) == session[s].st = "open" /\ now <= session[s].until
LivePending(m) == pending[m].st = "open" /\ now <= pending[m].until
IsLocked == lock.until > now

(***************************************************************************)
(* handle_par stores the pushed parameters; authorize::handle reads them,  *)
(* deletes them and opens an authentication session.  device.rs and        *)
(* saml/mod.rs open sessions too.  A browser session that spares the login *)
(* is not here.                                                            *)
(***************************************************************************)
PushRequest(r) ==
    /\ par[r] = None /\ requests < MaxRequests
    /\ par' = [par EXCEPT ![r] = now + ParTTL]
    /\ requests' = requests + 1
    /\ UNCHANGED <<now, session, pending, chal, state, lock, used, active, totp, recovery, tries,
                   pc, req, minted, guesses, spent, restored>>

BeginAuthorize(p, r) ==
    /\ IF r = None
       THEN Start(p, "open", [NoRequest EXCEPT !.flow = "authorize"])
       ELSE /\ par[r] # None /\ now <= par[r]
            /\ Start(p, "unpush", [NoRequest EXCEPT !.flow = "authorize", !.par = r, !.at = par[r]])
    /\ UNCHANGED <<now, kv, minted, guesses, spent, restored>>

\* delete_pushed_auth_request; expires_at is compared after the deletion.
Unpush(p) ==
    /\ At(p, "unpush")
    /\ par' = [par EXCEPT ![req[p].par] = None]
    /\ IF now <= req[p].at THEN Goto(p, "open") ELSE Finish(p)
    /\ UNCHANGED <<now, session, pending, chal, state, lock, used, active, totp, recovery, tries, history>>

OpenSession(p, s, strict) ==
    /\ At(p, "open") /\ session[s].st = "unused"
    /\ session' = [session EXCEPT ![s] = [st |-> "open", strict |-> strict, until |-> now + SessionTTL]]
    /\ Finish(p)
    /\ UNCHANGED <<now, par, pending, chal, state, lock, used, active, totp, recovery, tries, history>>

(***************************************************************************)
(* handle_login and handle_admin_login: the lock is read, the password is  *)
(* verified, a failure is counted.                                         *)
(***************************************************************************)
BeginLogin(p, s) ==
    /\ Live(s) /\ active
    /\ Start(p, "lockcheck", [NoRequest EXCEPT !.flow = "password", !.session = s])
    /\ UNCHANGED <<now, kv, minted, guesses, spent, restored>>

BeginAdminLogin(p) ==
    /\ active
    /\ Start(p, "lockcheck", [NoRequest EXCEPT !.flow = "admin", !.session = Admin])
    /\ UNCHANGED <<now, kv, minted, guesses, spent, restored>>

LockSeen == IsLocked

\* The login page verifies the password of a locked account too, the admin panel does not.
LockCheck(p) ==
    /\ At(p, "lockcheck") /\ req[p].flow = "password"
    /\ GotoWith(p, "verify", [req[p] EXCEPT !.locked = LockSeen])
    /\ UNCHANGED <<now, kv, history>>

AdminLockCheck(p) ==
    /\ At(p, "lockcheck") /\ req[p].flow = "admin"
    /\ IF LockSeen THEN Finish(p) ELSE Goto(p, "verify")
    /\ UNCHANGED <<now, kv, history>>

\* The first factor is verified: ask for the second, or complete the login.
AfterFirst(p) == IF totp THEN "pend" ELSE IF req[p].flow = "admin" THEN "clear" ELSE "hooks"

VerifyPassword(p) ==
    /\ At(p, "verify") /\ req[p].flow = "password"
    /\ \/ Goto(p, "failread")                           \* wrong
       \/ IF req[p].locked THEN Finish(p) ELSE Goto(p, AfterFirst(p))
    /\ UNCHANGED <<now, kv, history>>

\* The user may administrate nothing: refused, without a failure.
AdminVerifyPassword(p) ==
    /\ At(p, "verify") /\ req[p].flow = "admin"
    /\ Goto(p, "failread") \/ Finish(p) \/ Goto(p, AfterFirst(p))
    /\ UNCHANGED <<now, kv, history>>

(***************************************************************************)
(* record_failed_login: read, count, create or swap at the revision read.  *)
(* The record read stands for its revision: one that was deleted and       *)
(* counted up to the same value would be counted on in the same way.       *)
(***************************************************************************)
FailRead(p) ==
    /\ At(p, "failread")
    /\ GotoWith(p, "failswap", [req[p] EXCEPT !.lock = lock])
    /\ UNCHANGED <<now, kv, history>>

Elapsed(k) == k.until > 0 /\ k.until <= now
Counted(k) ==
    LET n == IF Elapsed(k) THEN 1 ELSE k.n + 1
    IN [n |-> n, until |-> IF n >= MaxFailures THEN now + LockTime ELSE IF Elapsed(k) THEN 0 ELSE k.until]

\* Mutant: the counter is put back without its revision.
LockRevisionMatches_Ignored(p) == TRUE

LockRevisionMatches(p) == lock = req[p].lock

\* A guess is a wrong password of which the answer tells that it is wrong. One that loses MaxTries
\* swaps is answered too, but no record tells of it: it is not counted.
FailSwap(p) ==
    /\ At(p, "failswap")
    /\ LET guess == IF req[p].locked THEN 0 ELSE 1
       IN \/ /\ LockRevisionMatches(p)
             /\ lock' = Counted(req[p].lock)
             /\ guesses' = guess + (IF Elapsed(req[p].lock) THEN 0 ELSE guesses)
             /\ Finish(p)
          \/ /\ ~LockRevisionMatches(p)
             /\ IF req[p].tries + 1 < MaxTries
                THEN GotoWith(p, "failread", [req[p] EXCEPT !.tries = @ + 1])
                ELSE Finish(p)
             /\ UNCHANGED <<lock, guesses>>
    /\ UNCHANGED <<now, par, session, pending, chal, state, used, active, totp, recovery, tries, requests, minted, spent, restored>>

\* TTL_LOCKOUT: a counter that nobody touches is forgotten, later than its lock ends.
ForgetFailures ==
    /\ lock # NoLock /\ ~IsLocked
    /\ lock' = NoLock /\ guesses' = 0
    /\ UNCHANGED <<now, par, session, pending, chal, state, used, active, totp, recovery, tries,
                   pc, req, requests, minted, spent, restored>>

(***************************************************************************)
(* handle_mfa and handle_admin_login_mfa: the limiter, the pending login,  *)
(* then a TOTP code or a recovery code.                                    *)
(***************************************************************************)
SavePending(p, m) ==
    /\ At(p, "pend") /\ pending[m].st = "unused"
    /\ pending' = [pending EXCEPT ![m] = [st |-> "open", session |-> req[p].session, until |-> now + PendingTTL]]
    /\ Finish(p)
    /\ UNCHANGED <<now, par, session, chal, state, lock, used, active, totp, recovery, tries, history>>

DropPending(m) == pending' = [pending EXCEPT ![m].st = "gone"]

\* session is that of the form, or Admin at the admin panel.
BeginMfa(p, m, s) ==
    /\ pending[m].st # "unused"
    /\ LET r == [NoRequest EXCEPT !.flow = "mfa", !.pending = m, !.session = s]
       IN \/ /\ tries[m] < MfaLimit
             /\ tries' = [tries EXCEPT ![m] = @ + 1]
             /\ Start(p, "attempt", r)
             /\ UNCHANGED pending
          \/ /\ tries[m] = MfaLimit
             /\ At(p, "idle") /\ requests < MaxRequests /\ requests' = requests + 1
             /\ DropPending(m)
             /\ UNCHANGED <<tries, pc, req>>
    /\ UNCHANGED <<now, par, session, chal, state, lock, used, active, totp, recovery, minted, guesses, spent, restored>>

\* verify_totp_step: the code of a step is good in the step before, in its own and in the one after.
Fits(f) == f \in Steps /\ now <= f + 1 /\ f <= now + 1

\* The code f of the form is looked at as a TOTP code, then as a recovery code.
Examine(p, f) ==
    \/ Fits(f) /\ GotoWith(p, "mark", [req[p] EXCEPT !.factor = f, !.at = now])
    \/ f \in Recoveries /\ GotoWith(p, "readcodes", [req[p] EXCEPT !.factor = f])
    \/ ~Fits(f) /\ f \notin Recoveries /\ Finish(p)

\* The status of the user is not looked at again.
Attempt(p, f) ==
    /\ At(p, "attempt") /\ req[p].session # Admin
    /\ LET m == req[p].pending s == req[p].session
           accepted == LivePending(m) /\ pending[m].session = s
       IN /\ IF accepted THEN UNCHANGED pending ELSE DropPending(m)
          /\ IF accepted /\ Live(s) THEN Examine(p, f) ELSE Finish(p)
    /\ UNCHANGED <<now, par, session, chal, state, lock, used, active, totp, recovery, tries, history>>

AdminAttempt(p, f) ==
    /\ At(p, "attempt") /\ req[p].session = Admin
    /\ LET m == req[p].pending
       IN IF LivePending(m) /\ pending[m].session = Admin /\ active THEN Examine(p, f) ELSE Finish(p)
    /\ UNCHANGED <<now, kv, history>>

\* Mutant: the marker lapses a step before the code does.
MarkerLapses_Early == now + MarkTTL - 1

MarkerLapses == now + MarkTTL

\* A code verified in one period and recorded in the next is not counted in spent.
RecordTotpUsed(p) ==
    /\ At(p, "mark")
    /\ LET f == req[p].factor
       IN \/ /\ used[f] <= now
             /\ used' = [used EXCEPT ![f] = MarkerLapses]
             /\ spent' = IF req[p].at = now THEN [spent EXCEPT ![f] = @ + 1] ELSE spent
             /\ Goto(p, "unpend")
          \/ used[f] > now /\ Finish(p) /\ UNCHANGED <<used, spent, restored>>
    /\ UNCHANGED <<now, par, session, pending, chal, state, lock, active, totp, recovery, tries, requests, minted, guesses, restored>>

\* An error of the store refuses the code at /login/mfa and accepts it at the admin panel.
RecordTotpFails(p) ==
    /\ At(p, "mark")
    /\ IF req[p].session = Admin THEN Goto(p, "unpend") ELSE Finish(p)
    /\ UNCHANGED <<now, kv, history>>

ReadRecoveryCodes(p) ==
    /\ At(p, "readcodes")
    /\ IF req[p].factor \in recovery
       THEN GotoWith(p, "swapcodes", [req[p] EXCEPT !.codes = recovery])
       ELSE Finish(p)
    /\ UNCHANGED <<now, kv, history>>

\* The codes read stand for the revision of the record: a swap at another revision with the same
\* codes would write the same codes.
CodesRevisionMatches(p) == recovery = req[p].codes

SwapRecoveryCodes(p) ==
    /\ At(p, "swapcodes")
    /\ \/ /\ CodesRevisionMatches(p)
          /\ recovery' = req[p].codes \ {req[p].factor}
          /\ spent' = [spent EXCEPT ![req[p].factor] = @ + 1]
          /\ Goto(p, "unpend")
       \/ /\ ~CodesRevisionMatches(p)
          /\ IF req[p].tries + 1 < MaxTries
             THEN GotoWith(p, "readcodes", [req[p] EXCEPT !.tries = @ + 1])
             ELSE Finish(p)
          /\ UNCHANGED <<recovery, spent, restored>>
    /\ UNCHANGED <<now, par, session, pending, chal, state, lock, used, active, totp, tries, requests, minted, guesses, restored>>

Unpend(p) ==
    /\ At(p, "unpend")
    /\ DropPending(req[p].pending)
    /\ Goto(p, IF req[p].session = Admin THEN "clear" ELSE "hooks")
    /\ UNCHANGED <<now, par, session, chal, state, lock, used, active, totp, recovery, tries, history>>

(***************************************************************************)
(* Passkeys: passkey_auth_options and passkey_auth_complete.               *)
(***************************************************************************)
PasskeyOptions(c) ==
    /\ chal[c] = "unused" /\ requests < MaxRequests
    /\ chal' = [chal EXCEPT ![c] = "open"]
    /\ requests' = requests + 1
    /\ UNCHANGED <<now, par, session, pending, state, lock, used, active, totp, recovery, tries,
                   pc, req, minted, guesses, spent, restored>>

BeginPasskey(p, c, s) ==
    /\ Live(s) /\ ~session[s].strict
    /\ chal[c] = "open"
    /\ chal' = [chal EXCEPT ![c] = "gone"]
    /\ Start(p, "passkey", [NoRequest EXCEPT !.flow = "passkey", !.session = s])
    /\ UNCHANGED <<now, par, session, pending, state, lock, used, active, totp, recovery, tries, minted, guesses, spent, restored>>

VerifyAssertion(p) ==
    /\ At(p, "passkey") /\ active /\ ~IsLocked
    /\ Goto(p, "consume")
    /\ UNCHANGED <<now, kv, history>>

\* verify_assertion: the signature, the counter, the origin or a flag is not right; or the user is not.
RefuseAssertion(p) ==
    /\ At(p, "passkey")
    /\ Finish(p)
    /\ UNCHANGED <<now, kv, history>>

(***************************************************************************)
(* External providers: start stores a state, callback consumes it and      *)
(* finds the user that the provider vouches for (module Credentials).      *)
(***************************************************************************)
StoreVisit(t, s, to) ==
    /\ Live(s) /\ state[t] = NoVisit /\ requests < MaxRequests
    /\ state' = [state EXCEPT ![t] = [session |-> s, to |-> to]]
    /\ requests' = requests + 1
    /\ UNCHANGED <<now, par, session, pending, chal, lock, used, active, totp, recovery, tries,
                   pc, req, minted, guesses, spent, restored>>
VisitProvider(t, s) == StoreVisit(t, s, "social")
VisitGoogle(t, s) == StoreVisit(t, s, "google")

ConsumeVisit(p, t, to) ==
    /\ state[t] # NoVisit /\ state[t].to = to
    /\ state' = [state EXCEPT ![t] = NoVisit]
    /\ Start(p, "provider", [NoRequest EXCEPT !.flow = to, !.session = state[t].session])
    /\ UNCHANGED <<now, par, session, pending, chal, lock, used, active, totp, recovery, tries, minted, guesses, spent, restored>>
BeginCallback(p, t) == ConsumeVisit(p, t, "social")
BeginGoogleCallback(p, t) == ConsumeVisit(p, t, "google")

\* The ID token has another issuer, audience or nonce, is expired, or its signature is wrong: the
\* state is spent all the same.
RefuseIdToken(p) == At(p, "provider") /\ req[p].flow = "social" /\ Finish(p) /\ UNCHANGED <<now, kv, history>>
RefuseGoogleIdToken(p) == At(p, "provider") /\ req[p].flow = "google" /\ Finish(p) /\ UNCHANGED <<now, kv, history>>

FindUser(p) ==
    /\ At(p, "provider") /\ Live(req[p].session) /\ active
    /\ Goto(p, AfterFirst(p))
    /\ UNCHANGED <<now, kv, history>>

(***************************************************************************)
(* complete_login_with_amr: post-login hooks, the failures forgotten, the  *)
(* session consumed, and only then the code, approval or SAML response.    *)
(* After a passkey the session is consumed first; the sign counter is      *)
(* stored, which may fail, the hooks run, and failures are not forgotten.  *)
(***************************************************************************)
RunHooks(p) ==
    /\ At(p, "hooks") /\ req[p].flow # "passkey"
    /\ Finish(p) \/ Goto(p, "clear")
    /\ UNCHANGED <<now, kv, history>>

CountAndRunHooks(p) ==
    /\ At(p, "hooks") /\ req[p].flow = "passkey"
    /\ Finish(p) \/ Goto(p, "mint")
    /\ UNCHANGED <<now, kv, history>>

ClearLoginAttempts(p) ==
    /\ At(p, "clear")
    /\ lock' = NoLock /\ guesses' = 0
    /\ IF req[p].session = Admin THEN Finish(p) ELSE Goto(p, "consume")
    /\ UNCHANGED <<now, par, session, pending, chal, state, used, active, totp, recovery, tries, requests, minted, spent, restored>>

\* Mutant: the session is read at the start and deleted at the end.
Consumable_Blind(s) == TRUE

Consumable(s) == Live(s)

ConsumeAuthSession(p) ==
    /\ At(p, "consume")
    /\ LET s == req[p].session
       IN \/ /\ Consumable(s)
             /\ session' = [session EXCEPT ![s].st = "gone"]
             /\ Goto(p, IF req[p].flow = "passkey" THEN "hooks" ELSE "mint")
          \/ ~Consumable(s) /\ Finish(p) /\ UNCHANGED session
    /\ UNCHANGED <<now, par, pending, chal, state, lock, used, active, totp, recovery, tries, history>>

Issue(p) ==
    /\ At(p, "mint")
    /\ minted' = [minted EXCEPT ![req[p].session] = @ + 1]
    /\ Finish(p)
    /\ UNCHANGED <<now, kv, requests, guesses, spent, restored>>
Mint(p) == req[p].flow # "passkey" /\ Issue(p)
MintForPasskey(p) == req[p].flow = "passkey" /\ Issue(p)

\* A hook or SCIM changes the status of the user, by compare-and-swap.
SetStatus ==
    /\ requests < MaxRequests
    /\ active' = ~active
    /\ requests' = requests + 1
    /\ UNCHANGED <<now, par, session, pending, chal, state, lock, used, totp, recovery, tries,
                   pc, req, minted, guesses, spent, restored>>

(***************************************************************************)
(* activate_user: an administrator's request reads the user's record, and  *)
(* then puts it back without its revision: a recovery code that was spent  *)
(* in between is on it again.                                              *)
(***************************************************************************)
BeginActivate(p) ==
    /\ Start(p, "activate", [NoRequest EXCEPT !.codes = recovery])
    /\ UNCHANGED <<now, kv, minted, guesses, spent, restored>>
PutActivated(p) ==
    /\ At(p, "activate")
    /\ active' = TRUE /\ recovery' = req[p].codes
    /\ restored' = [f \in Recoveries |-> IF f \in req[p].codes \ recovery THEN restored[f] + 1 ELSE restored[f]]
    /\ Finish(p)
    /\ UNCHANGED <<now, par, session, pending, chal, state, lock, used, totp, tries, requests, minted, guesses, spent>>

\* An instance dies, or the store fails, between two steps of a request.
Crash(p) ==
    /\ ~At(p, "idle")
    /\ Finish(p)
    /\ UNCHANGED <<now, kv, history>>

Tick ==
    /\ now < MaxTime
    /\ now' = now + 1
    /\ UNCHANGED <<kv, pc, req, history>>

Handler(p) ==
    \/ Unpush(p) \/ LockCheck(p) \/ VerifyPassword(p) \/ AdminVerifyPassword(p) \/ FailRead(p) \/ FailSwap(p)
    \/ RecordTotpUsed(p) \/ RecordTotpFails(p) \/ ReadRecoveryCodes(p) \/ SwapRecoveryCodes(p)
    \/ Unpend(p) \/ VerifyAssertion(p) \/ RefuseAssertion(p) \/ FindUser(p) \/ RefuseIdToken(p) \/ RefuseGoogleIdToken(p)
    \/ RunHooks(p) \/ CountAndRunHooks(p) \/ ClearLoginAttempts(p)
    \/ ConsumeAuthSession(p) \/ Mint(p) \/ MintForPasskey(p) \/ Crash(p)
    \/ BeginAdminLogin(p) \/ AdminLockCheck(p) \/ BeginActivate(p) \/ PutActivated(p)
    \/ \E f \in Factors : Attempt(p, f) \/ AdminAttempt(p, f)
    \/ \E r \in Pars \cup {None} : BeginAuthorize(p, r)
    \/ \E s \in Sessions : BeginLogin(p, s)
    \/ \E t \in States : BeginCallback(p, t) \/ BeginGoogleCallback(p, t)
    \/ \E m \in Pendings : SavePending(p, m) \/ \E s \in Sessions \cup {Admin} : BeginMfa(p, m, s)
    \/ \E s \in Sessions :
          \/ \E c \in Challenges : BeginPasskey(p, c, s)
          \/ \E strict \in BOOLEAN : OpenSession(p, s, strict)

Next ==
    \/ \E p \in Procs : Handler(p)
    \/ \E r \in Pars : PushRequest(r)
    \/ \E c \in Challenges : PasskeyOptions(c)
    \/ \E t \in States, s \in Sessions : VisitProvider(t, s) \/ VisitGoogle(t, s)
    \/ ForgetFailures \/ SetStatus \/ Tick

Spec == Init /\ [][Next]_vars

(***************************************************************************)
(* Properties.                                                             *)
(***************************************************************************)
\* consume_auth_session: one authentication session completes at most one sign-in, although the
\* password form, the second factor, passkeys and the callbacks of providers race for it.
OneSignInPerSession == \A s \in Sessions : minted[s] <= 1

\* record_failed_login, is_account_locked: however requests overlap, a user's password can be
\* guessed, and the guess recorded, at most MaxFailures times, plus once by each other request in
\* flight, before the account is locked or a sign-in or the passing of time resets the counter.
GuessesBounded == guesses < MaxFailures + Cardinality(Procs)

\* record_totp_used, update_user_rmw: a TOTP code is accepted once, and a recovery code once more
\* than activate_user put it back on the record after it was spent, by the login and the admin
\* panel together; for TOTP, of requests that verify and record the code in the same period and
\* of which the store records the marker.
FactorSpentOnce ==
    /\ \A f \in Steps : spent[f] <= 1
    /\ \A f \in Recoveries : spent[f] <= 1 + restored[f]
=============================================================================
