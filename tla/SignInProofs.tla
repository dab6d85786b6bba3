---------------------------- MODULE SignInProofs ----------------------------
(***************************************************************************)
(* Theorems about SignIn for any number of requests, sessions, codes and   *)
(* lifetimes: one sign-in per session, second factors that are spent once, *)
(* and the bound on the guesses of a password; then, as CR, about          *)
(* Credentials.                                                            *)
(***************************************************************************)
EXTENDS SignIn, CredentialPromise, FiniteSetTheorems, TLAPS

Mfa == {"attempt", "mark", "readcodes", "swapcodes", "unpend"}
Guessing == {"verify", "failread", "failswap"}

\* What a request with locals r knows when it is about to take step l.
ReqOK(l, r) ==
    /\ l \in {"lockcheck"} \cup Guessing => r.flow \in {"password", "admin"}
    /\ l \in Mfa => r.flow = "mfa" /\ r.session \in Sessions \cup {Admin}
    /\ l = "passkey" => r.flow = "passkey"
    /\ l = "provider" => r.flow \in {"social", "google"}
    /\ r.flow \in {"password", "social", "google", "passkey"} => r.session \in Sessions
    /\ r.flow = "admin" => r.session = Admin
    /\ r.flow = "passkey" => l \in {"passkey", "consume", "hooks", "mint"}
    /\ l \in {"hooks", "consume", "mint"} => r.session \in Sessions
    /\ l = "clear" => r.session \in Sessions \cup {Admin}
    /\ l = "mark" => r.factor \in Steps /\ r.at <= r.factor + 1 /\ r.factor <= r.at + 1 /\ r.at <= now
    /\ l = "readcodes" => r.factor \in Recoveries
    /\ l = "swapcodes" => r.factor \in r.codes
RequestOK(p) == ReqOK(pc[p], req[p])

\* A request that consumed its session and has not answered yet: a passkey runs its hooks after it.
Minting(l, r) == l = "mint" \/ (l = "hooks" /\ r.flow = "passkey")
Mints(p, s) == Minting(pc[p], req[p]) /\ req[p].session = s

MintOK(s) ==
    /\ \A p \in Procs : Mints(p, s) => session[s].st = "gone" /\ minted[s] = 0
    /\ \A p, q \in Procs : Mints(p, s) /\ Mints(q, s) => p = q
    /\ minted[s] <= 1
    /\ minted[s] > 0 => session[s].st = "gone"

\* The marker of a code that was accepted outlives the code; an accepted recovery code is gone until
\* an outdated record brings it back.
FactorOK(f) ==
    /\ f \in Steps => spent[f] <= 1 /\ (spent[f] > 0 => used[f] > f + 1)
    /\ f \in Recoveries => spent[f] + (IF f \in recovery THEN 1 ELSE 0) <= 1 + restored[f]

\* Requests that saw no lock and may still count, and answer, a wrong password.
Open(l, r) == l \in Guessing /\ ~r.locked
Guessers == {p \in Procs : Open(pc[p], req[p])}

\* While the account is locked there are guesses to come from these only.
GuessOK ==
    /\ guesses < MaxFailures + Cardinality(Procs)
    /\ IF lock.n < MaxFailures THEN lock.until = 0 /\ guesses <= lock.n ELSE lock.until > 0
    /\ IsLocked => guesses + Cardinality(Guessers) < MaxFailures + Cardinality(Procs)

\* A visit to a provider is on behalf of a session.
VisitsOK == \A t \in States : state[t] # NoVisit => state[t].session \in Sessions

IInv ==
    /\ TypeOK /\ VisitsOK
    /\ \A p \in Procs : RequestOK(p)
    /\ \A s \in Sessions : MintOK(s)
    /\ \A f \in Factors : FactorOK(f)
    /\ GuessOK

\* The tables and counts that steps write without consequence for the others.
Tables ==
    /\ par \in [Pars -> Nat \cup {None}] /\ pending \in [Pendings -> Pending]
    /\ chal \in [Challenges -> {"unused", "open", "gone"}] /\ state \in [States -> Visit] /\ VisitsOK
    /\ lock \in Lock /\ active \in BOOLEAN /\ totp \in BOOLEAN /\ tries \in [Pendings -> 0..MfaLimit]
    /\ requests \in 0..MaxRequests /\ guesses \in Nat

LEMMA SameTables ==
    ASSUME IInv, UNCHANGED <<par, pending, chal, state, lock, active, totp, tries, requests, guesses>>
    PROVE  Tables'
BY DEF IInv, TypeOK, Tables, VisitsOK

\* The step of request p.
LEMMA MovesOne ==
    ASSUME IInv, NEW p \in Procs, NEW label, NEW r, GotoWith(p, label, r)
    PROVE  /\ pc'[p] = label /\ req'[p] = r
           /\ \A q \in Procs \ {p} : pc'[q] = pc[q] /\ req'[q] = req[q]
BY DEF IInv, TypeOK, GotoWith

LEMMA Counts == IsFiniteSet(Procs) /\ Cardinality(Procs) \in Nat /\ MaxFailures \in Nat \ {0}
BY SignInAssumption, FS_CardinalityType

\* A step that counts nothing keeps the bound, when it starts no guess on a locked account.
LEMMA NoGuess ==
    ASSUME IInv, NEW p \in Procs, NEW label, NEW r, GotoWith(p, label, r), UNCHANGED <<now, lock, guesses>>,
           Open(label, r) /\ IsLocked => Open(pc[p], req[p])
    PROVE  GuessOK'
<1>1. /\ pc'[p] = label /\ req'[p] = r
      /\ \A q \in Procs \ {p} : pc'[q] = pc[q] /\ req'[q] = req[q]
    BY MovesOne
<1>2. ASSUME IsLocked PROVE guesses + Cardinality(Guessers') < MaxFailures + Cardinality(Procs)
    <2>1. Guessers' \subseteq Guessers /\ Guessers \subseteq Procs
        BY <1>1, <1>2 DEF Guessers
    <2>2. /\ Cardinality(Guessers') <= Cardinality(Guessers)
          /\ Cardinality(Guessers) \in Nat /\ Cardinality(Guessers') \in Nat
        BY <2>1, Counts, FS_Subset, FS_CardinalityType
    <2>3. guesses \in Nat /\ guesses + Cardinality(Guessers) < MaxFailures + Cardinality(Procs)
        BY <1>2 DEF IInv, GuessOK, TypeOK
    <2> QED
        BY <2>2, <2>3, Counts
<1>3. IsLocked' <=> IsLocked
    BY DEF IsLocked
<1> QED
    BY <1>2, <1>3 DEF IInv, GuessOK

\* Nor does one that clears the counter.
LEMMA Cleared ==
    ASSUME IInv, now' \in Nat, lock' = NoLock, guesses' = 0 PROVE GuessOK'
<1>1. lock'.n = 0 /\ lock'.until = 0
    BY DEF NoLock
<1>2. ~IsLocked'
    BY <1>1 DEF IsLocked
<1> QED
    BY <1>1, <1>2, Counts DEF GuessOK

\* Factors and sessions that a step leaves alone.
LEMMA SameFactors ==
    ASSUME IInv, UNCHANGED <<used, recovery, spent, restored>> PROVE \A f \in Factors : FactorOK(f)'
BY DEF IInv, FactorOK

LEMMA SameMints ==
    ASSUME IInv, NEW p \in Procs, NEW label, NEW r, GotoWith(p, label, r), UNCHANGED <<session, minted>>,
           Minting(label, r) => Minting(pc[p], req[p]) /\ r.session = req[p].session
    PROVE  \A s \in Sessions : MintOK(s)'
<1> SUFFICES ASSUME NEW s \in Sessions PROVE MintOK(s)'
    OBVIOUS
<1>1. /\ pc'[p] = label /\ req'[p] = r
      /\ \A q \in Procs \ {p} : pc'[q] = pc[q] /\ req'[q] = req[q]
    BY MovesOne
<1>2. \A q \in Procs : Mints(q, s)' => Mints(q, s)
    BY <1>1 DEF Mints
<1>3. MintOK(s)
    BY DEF IInv
<1> HIDE DEF Mints
<1> QED
    BY <1>2, <1>3 DEF MintOK

\* What the other requests know stays so.
LEMMA OthersKnow ==
    ASSUME IInv, NEW q \in Procs, pc'[q] = pc[q], req'[q] = req[q], now' \in Nat, now <= now'
    PROVE  RequestOK(q)'
<1>1. ReqOK(pc[q], req[q]) /\ req[q].at \in Nat /\ now \in Nat
    BY DEF IInv, RequestOK, TypeOK, Request
<1>2. req[q].at <= now => req[q].at <= now'
    BY <1>1
<1> QED
    BY <1>1, <1>2 DEF RequestOK, ReqOK

LEMMA Typed ==
    ASSUME IInv, Tables', NEW p \in Procs, NEW label \in Labels, NEW r \in Request, GotoWith(p, label, r), now' = now,
           session' \in [Sessions -> Session], used' \in [Steps -> Nat], recovery' \subseteq Recoveries,
           minted' \in [Sessions -> Nat], spent' \in [Factors -> Nat], restored' \in [Recoveries -> Nat]
    PROVE  TypeOK' /\ VisitsOK'
<1>1. pc' \in [Procs -> Labels] /\ req' \in [Procs -> Request]
    BY DEF IInv, TypeOK, GotoWith
<1>2. now' \in 0..MaxTime
    BY DEF IInv, TypeOK
<1> QED
    BY <1>1, <1>2 DEF TypeOK, Tables

\* The step of a request.
LEMMA StepOK ==
    ASSUME IInv, NEW p \in Procs, NEW label \in Labels, NEW r \in Request, GotoWith(p, label, r), now' = now,
           session' \in [Sessions -> Session], used' \in [Steps -> Nat], recovery' \subseteq Recoveries,
           minted' \in [Sessions -> Nat], spent' \in [Factors -> Nat], restored' \in [Recoveries -> Nat], Tables', GuessOK', ReqOK(label, r),
           \A s \in Sessions : MintOK(s)', \A f \in Factors : FactorOK(f)'
    PROVE  IInv'
<1>1. /\ pc'[p] = label /\ req'[p] = r
      /\ \A q \in Procs \ {p} : pc'[q] = pc[q] /\ req'[q] = req[q]
    BY MovesOne
<1>2. TypeOK' /\ VisitsOK'
    BY Typed
<1>3. now' \in Nat /\ now <= now'
    BY DEF IInv, TypeOK
<1>4. RequestOK(p)'
    BY <1>1 DEF RequestOK, ReqOK
<1> QED
    BY <1>1, <1>2, <1>3, <1>4, OthersKnow DEF IInv

\* A step that neither consumes a session, mints nor spends a factor.
LEMMA MoveOK ==
    ASSUME IInv, NEW p \in Procs, NEW label \in Labels, NEW r \in Request, GotoWith(p, label, r),
           UNCHANGED <<now, session, used, recovery, minted, spent, restored>>, Tables', GuessOK', ReqOK(label, r),
           Minting(label, r) => Minting(pc[p], req[p]) /\ r.session = req[p].session
    PROVE  IInv'
BY SameFactors, SameMints, StepOK DEF IInv, TypeOK

LEMMA NoRequestOK ==
    NoRequest \in Request /\ ReqOK("idle", NoRequest) /\ ~Minting("idle", NoRequest) /\ ~Open("idle", NoRequest)
<1>1. NoRequest \in Request
    BY DEF NoRequest, Request, Flows, NoLock, Lock
<1>2. NoRequest.flow = "none"
    BY DEF NoRequest
<1> QED
    BY <1>1, <1>2 DEF ReqOK, Minting, Open, Mfa, Guessing

\* The step that ends a request.
LEMMA FinishOK ==
    ASSUME IInv, NEW p \in Procs, Finish(p), UNCHANGED <<now, session, used, recovery, minted, spent, restored>>, Tables',
           UNCHANGED <<lock, guesses>> \/ GuessOK'
    PROVE  IInv'
<1>1. "idle" \in Labels /\ GotoWith(p, "idle", NoRequest)
    BY DEF Labels, Finish
<1>2. GuessOK'
    BY <1>1, NoGuess, NoRequestOK
<1> QED
    BY <1>1, <1>2, NoRequestOK, MoveOK

\* A request that goes on, with locals r or its own.
LEMMA GoOnOK ==
    ASSUME IInv, NEW p \in Procs, NEW label \in Labels, NEW r \in Request, GotoWith(p, label, r),
           UNCHANGED <<now, session, used, recovery, minted, spent, restored>>, Tables', UNCHANGED <<lock, guesses>>,
           ReqOK(label, r), Minting(label, r) => Minting(pc[p], req[p]) /\ r.session = req[p].session,
           Open(label, r) /\ IsLocked => Open(pc[p], req[p])
    PROVE  IInv'
BY NoGuess, MoveOK

\* The first step of a request.
LEMMA StartOK ==
    ASSUME IInv, NEW p \in Procs, NEW label \in Labels, NEW r \in Request, Start(p, label, r),
           UNCHANGED <<now, session, used, recovery, minted, spent, restored, lock, guesses, active, totp>>,
           par' \in [Pars -> Nat \cup {None}], pending' \in [Pendings -> Pending],
           chal' \in [Challenges -> {"unused", "open", "gone"}], state' \in [States -> Visit], VisitsOK',
           tries' \in [Pendings -> 0..MfaLimit],
           ReqOK(label, r), ~Minting(label, r), ~Open(label, r)
    PROVE  IInv'
<1>1. GotoWith(p, label, r) /\ requests' \in 0..MaxRequests
    BY SignInAssumption DEF Start, IInv, TypeOK
<1>2. Tables'
    BY <1>1 DEF Tables, IInv, TypeOK
<1> QED
    BY <1>1, <1>2, GoOnOK

LEMMA Locals ==
    ASSUME IInv, NEW p \in Procs PROVE req[p] \in Request /\ pc[p] \in Labels /\ ReqOK(pc[p], req[p])
BY DEF IInv, TypeOK, RequestOK

(***************************************************************************)
(* Steps that move no request.                                             *)
(***************************************************************************)
LEMMA EnvironmentOK ==
    ASSUME IInv, UNCHANGED <<pc, req, session, used, recovery, minted, spent, restored>>, Tables',
           now' \in 0..MaxTime, now <= now', UNCHANGED <<now, lock, guesses>> \/ GuessOK'
    PROVE  IInv'
<1>1. TypeOK' /\ VisitsOK'
    BY DEF IInv, TypeOK, Tables
<1>2. \A q \in Procs : RequestOK(q)'
    BY SignInAssumption, OthersKnow
<1>3. \A s \in Sessions : MintOK(s)'
    BY DEF IInv, MintOK, Mints
<1>4. GuessOK'
    <2>1. CASE UNCHANGED <<now, lock, guesses>>
        BY <2>1 DEF IInv, GuessOK, IsLocked, Guessers
    <2> QED
        BY <2>1
<1> QED
    BY <1>1, <1>2, <1>3, <1>4, SameFactors DEF IInv

LEMMA TableWritesOK ==
    ASSUME IInv,
           \/ \E r \in Pars : PushRequest(r)
           \/ \E c \in Challenges : PasskeyOptions(c)
           \/ \E t \in States, s \in Sessions : VisitProvider(t, s) \/ VisitGoogle(t, s)
           \/ SetStatus
    PROVE  IInv'
<1>1. ASSUME NEW r \in Pars, PushRequest(r) PROVE IInv'
    <2>1. par' \in [Pars -> Nat \cup {None}]
        BY <1>1, SignInAssumption DEF PushRequest, IInv, TypeOK
    <2>2. Tables' /\ now' \in 0..MaxTime /\ now <= now'
        BY <1>1, <2>1, SignInAssumption DEF PushRequest, IInv, TypeOK, Tables, VisitsOK
    <2> QED
        BY <1>1, <2>2, EnvironmentOK DEF PushRequest
<1>2. ASSUME NEW c \in Challenges, PasskeyOptions(c) PROVE IInv'
    <2>2. Tables' /\ now' \in 0..MaxTime /\ now <= now'
        BY <1>2, SignInAssumption DEF PasskeyOptions, IInv, TypeOK, Tables, VisitsOK
    <2> QED
        BY <1>2, <2>2, EnvironmentOK DEF PasskeyOptions
<1>3. ASSUME NEW t \in States, NEW s \in Sessions, NEW to \in {"social", "google"}, StoreVisit(t, s, to) PROVE IInv'
    <2>1. state' \in [States -> Visit] /\ VisitsOK'
        BY <1>3 DEF StoreVisit, IInv, TypeOK, VisitsOK, Visit
    <2>2. Tables' /\ now' \in 0..MaxTime /\ now <= now'
        BY <1>3, <2>1, SignInAssumption DEF StoreVisit, IInv, TypeOK, Tables
    <2> QED
        BY <1>3, <2>2, EnvironmentOK DEF StoreVisit
<1>4. ASSUME SetStatus PROVE IInv'
    <2>2. Tables' /\ now' \in 0..MaxTime /\ now <= now'
        BY <1>4, SignInAssumption DEF SetStatus, IInv, TypeOK, Tables, VisitsOK
    <2> QED
        BY <1>4, <2>2, EnvironmentOK DEF SetStatus
<1> QED
    BY <1>1, <1>2, <1>3, <1>4 DEF VisitProvider, VisitGoogle

LEMMA NoLockTyped == NoLock \in Lock
BY DEF NoLock, Lock

LEMMA ForgetFailuresOK == ASSUME IInv, ForgetFailures PROVE IInv'
<1>1. Tables' /\ now' \in 0..MaxTime /\ now <= now'
    BY NoLockTyped DEF ForgetFailures, IInv, TypeOK, Tables, VisitsOK
<1>2. GuessOK'
    BY <1>1, Cleared, SignInAssumption DEF ForgetFailures
<1> QED
    BY <1>1, <1>2, EnvironmentOK DEF ForgetFailures

LEMMA TickOK == ASSUME IInv, Tick PROVE IInv'
<1>1. now \in Nat /\ now' \in 0..MaxTime /\ now <= now'
    BY SignInAssumption DEF Tick, IInv, TypeOK
<1>2. Tables'
    BY SameTables DEF Tick, kv, history
<1>3. lock \in Lock
    BY DEF IInv, TypeOK
<1>4. IsLocked' => IsLocked
    BY <1>1, <1>3, SignInAssumption DEF Tick, kv, IsLocked, Lock
<1>5. GuessOK'
    BY <1>4 DEF Tick, kv, history, IInv, GuessOK, Guessers
<1> QED
    BY <1>1, <1>2, <1>5, EnvironmentOK DEF Tick, kv, history

(***************************************************************************)
(* The first step of each request.                                         *)
(***************************************************************************)
LEMMA BeginAuthorizeOK == ASSUME IInv, NEW p \in Procs, NEW u \in Pars \cup {None}, BeginAuthorize(p, u) PROVE IInv'
<1> DEFINE r == IF u = None THEN [NoRequest EXCEPT !.flow = "authorize"]
                ELSE [NoRequest EXCEPT !.flow = "authorize", !.par = u, !.at = par[u]]
           label == IF u = None THEN "open" ELSE "unpush"
<1>1. Start(p, label, r)
    BY DEF BeginAuthorize
<1>2. u # None => par[u] \in Nat
    BY DEF BeginAuthorize, IInv, TypeOK
<1>3. r \in Request /\ r.flow = "authorize"
    BY <1>2 DEF NoRequest, Request, Flows, NoLock, Lock
<1>4. label \in Labels /\ ReqOK(label, r) /\ ~Minting(label, r) /\ ~Open(label, r)
    BY <1>3 DEF Labels, ReqOK, Minting, Open, Mfa, Guessing
<1> HIDE DEF r, label
<1> QED
    BY <1>1, <1>3, <1>4, StartOK DEF BeginAuthorize, kv, IInv, TypeOK, VisitsOK

LEMMA BeginLoginOK ==
    ASSUME IInv, NEW p \in Procs, BeginAdminLogin(p) \/ \E s \in Sessions : BeginLogin(p, s) PROVE IInv'
<1>1. PICK flow \in {"password", "admin"}, s \in Sessions \cup {Admin} :
        /\ flow = "password" => s \in Sessions
        /\ flow = "admin" => s = Admin
        /\ Start(p, "lockcheck", [NoRequest EXCEPT !.flow = flow, !.session = s])
        /\ UNCHANGED <<now, kv, minted, guesses, spent, restored>>
    BY DEF BeginAdminLogin, BeginLogin
<1> DEFINE r == [NoRequest EXCEPT !.flow = flow, !.session = s]
<1>2. r \in Request /\ r.flow = flow /\ r.session = s
    BY DEF NoRequest, Request, Flows, NoLock, Lock
<1>3. "lockcheck" \in Labels /\ ReqOK("lockcheck", r) /\ ~Minting("lockcheck", r) /\ ~Open("lockcheck", r)
    BY <1>1, <1>2 DEF Labels, ReqOK, Minting, Open, Mfa, Guessing
<1>4. Start(p, "lockcheck", r)
    BY <1>1
<1> HIDE DEF r
<1> QED
    BY <1>1, <1>2, <1>3, <1>4, StartOK DEF kv, IInv, TypeOK, VisitsOK

LEMMA DropTyped ==
    ASSUME IInv, NEW m \in Pendings, DropPending(m) PROVE pending' \in [Pendings -> Pending]
BY DEF DropPending, IInv, TypeOK, Pending

LEMMA BeginMfaOK ==
    ASSUME IInv, NEW p \in Procs, NEW m \in Pendings, NEW s \in Sessions \cup {Admin}, BeginMfa(p, m, s) PROVE IInv'
<1> DEFINE r == [NoRequest EXCEPT !.flow = "mfa", !.pending = m, !.session = s]
<1>1. r \in Request /\ r.flow = "mfa" /\ r.session = s
    BY DEF NoRequest, Request, Flows, NoLock, Lock
<1>2. "attempt" \in Labels /\ ReqOK("attempt", r) /\ ~Minting("attempt", r) /\ ~Open("attempt", r)
    BY <1>1 DEF Labels, ReqOK, Minting, Open, Mfa, Guessing
<1>3. CASE tries[m] < MfaLimit /\ tries' = [tries EXCEPT ![m] = @ + 1] /\ Start(p, "attempt", r) /\ UNCHANGED pending
    <2>1. tries' \in [Pendings -> 0..MfaLimit]
        BY <1>3, SignInAssumption DEF IInv, TypeOK
    <2> HIDE DEF r
    <2> QED
        BY <1>1, <1>2, <1>3, <2>1, StartOK DEF BeginMfa, IInv, TypeOK, VisitsOK
<1>4. CASE /\ requests < MaxRequests /\ requests' = requests + 1
           /\ DropPending(m) /\ UNCHANGED <<tries, pc, req>>
    <2>1. Tables' /\ now' \in 0..MaxTime /\ now <= now'
        BY <1>4, DropTyped, SignInAssumption DEF BeginMfa, IInv, TypeOK, Tables, VisitsOK
    <2> QED
        BY <1>4, <2>1, EnvironmentOK DEF BeginMfa
<1> QED
    BY <1>3, <1>4 DEF BeginMfa

LEMMA BeginPasskeyOK ==
    ASSUME IInv, NEW p \in Procs, NEW c \in Challenges, NEW s \in Sessions, BeginPasskey(p, c, s) PROVE IInv'
<1> DEFINE r == [NoRequest EXCEPT !.flow = "passkey", !.session = s]
<1>1. r \in Request /\ r.flow = "passkey" /\ r.session = s
    BY DEF NoRequest, Request, Flows, NoLock, Lock
<1>2. "passkey" \in Labels /\ ReqOK("passkey", r) /\ ~Minting("passkey", r) /\ ~Open("passkey", r)
    BY <1>1 DEF Labels, ReqOK, Minting, Open, Mfa, Guessing
<1>3. chal' \in [Challenges -> {"unused", "open", "gone"}]
    BY DEF BeginPasskey, IInv, TypeOK
<1>4. Start(p, "passkey", r)
    BY DEF BeginPasskey
<1> HIDE DEF r
<1> QED
    BY <1>1, <1>2, <1>3, <1>4, StartOK DEF BeginPasskey, IInv, TypeOK, VisitsOK

LEMMA ConsumeVisitOK ==
    ASSUME IInv, NEW p \in Procs, NEW t \in States, NEW to \in {"social", "google"}, ConsumeVisit(p, t, to)
    PROVE  IInv'
<1>0. state[t].session \in Sessions
    BY DEF ConsumeVisit, IInv, VisitsOK
<1> DEFINE r == [NoRequest EXCEPT !.flow = to, !.session = state[t].session]
<1>1. r \in Request /\ r.flow = to /\ r.session \in Sessions
    BY <1>0 DEF NoRequest, Request, Flows, NoLock, Lock
<1>2. "provider" \in Labels /\ ReqOK("provider", r) /\ ~Minting("provider", r) /\ ~Open("provider", r)
    BY <1>1 DEF Labels, ReqOK, Minting, Open, Mfa, Guessing
<1>3. state' \in [States -> Visit] /\ VisitsOK'
    BY DEF ConsumeVisit, IInv, TypeOK, VisitsOK, NoVisit, Visit
<1>4. Start(p, "provider", r)
    BY DEF ConsumeVisit
<1> HIDE DEF r
<1> QED
    BY <1>1, <1>2, <1>3, <1>4, StartOK DEF ConsumeVisit, IInv, TypeOK

(***************************************************************************)
(* The steps up to the password.                                           *)
(***************************************************************************)
LEMMA UnpushOK == ASSUME IInv, NEW p \in Procs, Unpush(p) PROVE IInv'
<1>1. par' \in [Pars -> Nat \cup {None}]
    BY DEF Unpush, IInv, TypeOK
<1>2. Tables'
    BY <1>1 DEF Unpush, history, IInv, TypeOK, Tables, VisitsOK
<1>3. CASE Goto(p, "open")
    <2>1. "open" \in Labels /\ ReqOK("open", req[p]) /\ ~Minting("open", req[p]) /\ ~Open("open", req[p])
        BY Locals DEF Unpush, At, Labels, ReqOK, Minting, Open, Mfa, Guessing
    <2> QED
        BY <1>2, <1>3, <2>1, Locals, GoOnOK DEF Unpush, history, Goto
<1>4. CASE Finish(p)
    BY <1>2, <1>4, FinishOK DEF Unpush, history
<1> QED
    BY <1>3, <1>4 DEF Unpush

LEMMA OpenSessionOK ==
    ASSUME IInv, NEW p \in Procs, NEW s \in Sessions, NEW strict \in BOOLEAN, OpenSession(p, s, strict) PROVE IInv'
<1>1. session' \in [Sessions -> Session]
    BY SignInAssumption DEF OpenSession, IInv, TypeOK, Session
<1>2. Tables'
    BY SameTables DEF OpenSession, history
<1>3. GotoWith(p, "idle", NoRequest) /\ "idle" \in Labels
    BY DEF OpenSession, Finish, Labels
<1>4. GuessOK'
    BY <1>3, NoGuess, NoRequestOK DEF OpenSession, history
<1>5. ASSUME NEW t \in Sessions PROVE MintOK(t)'
    <2>1. MintOK(t) /\ minted[t] \in Nat /\ minted' = minted
        BY DEF IInv, TypeOK, OpenSession, history
    <2>2. \A q \in Procs : Mints(q, t)' => Mints(q, t)
        BY <1>3, MovesOne, NoRequestOK DEF Mints
    <2>3. session[t].st = "gone" => session'[t] = session[t]
        BY DEF OpenSession, IInv, TypeOK
    <2> QED
        BY <2>1, <2>2, <2>3 DEF MintOK
<1> QED
    BY <1>1, <1>2, <1>3, <1>4, <1>5, NoRequestOK, SameFactors, StepOK DEF OpenSession, history, IInv, TypeOK

LEMMA LockCheckOK == ASSUME IInv, NEW p \in Procs, LockCheck(p) PROVE IInv'
<1> DEFINE r == [req[p] EXCEPT !.locked = LockSeen]
<1>0. LockSeen \in BOOLEAN
    BY DEF LockSeen, IsLocked
<1>1. r \in Request /\ r.locked = LockSeen /\ r.flow = req[p].flow /\ r.session = req[p].session
    BY <1>0, Locals DEF Request
<1>2. req[p].flow = "password" /\ req[p].session \in Sessions
    BY Locals DEF LockCheck, At, ReqOK
<1>3. "verify" \in Labels /\ ReqOK("verify", r) /\ ~Minting("verify", r)
    BY <1>1, <1>2 DEF Labels, ReqOK, Minting, Mfa, Guessing
<1>4. ~(Open("verify", r) /\ IsLocked)
    BY <1>1 DEF Open, LockSeen
<1>5. Tables'
    BY SameTables DEF LockCheck, kv, history
<1>6. GotoWith(p, "verify", r)
    BY DEF LockCheck
<1> HIDE DEF r
<1> QED
    BY <1>1, <1>3, <1>4, <1>5, <1>6, GoOnOK DEF LockCheck, kv, history

\* A request that goes on with its own locals, or ends, and changes nothing else.
LEMMA OnlyGoesOn ==
    ASSUME IInv, NEW p \in Procs, UNCHANGED <<now, kv, history>>, NEW label, Goto(p, label) \/ Finish(p),
           Goto(p, label) => /\ label \in Labels /\ ReqOK(label, req[p])
                             /\ Minting(label, req[p]) => Minting(pc[p], req[p])
                             /\ Open(label, req[p]) /\ IsLocked => Open(pc[p], req[p])
    PROVE  IInv'
<1>1. Tables'
    BY SameTables DEF kv, history
<1>2. CASE Goto(p, label)
    BY <1>1, <1>2, Locals, GoOnOK DEF Goto, kv, history
<1>3. CASE Finish(p)
    BY <1>1, <1>3, FinishOK DEF kv, history
<1> QED
    BY <1>2, <1>3

LEMMA AdminLockCheckOK == ASSUME IInv, NEW p \in Procs, AdminLockCheck(p) PROVE IInv'
<1>1. CASE LockSeen /\ Finish(p)
    BY <1>1, SameTables, FinishOK DEF AdminLockCheck, kv, history
<1>2. CASE ~LockSeen /\ Goto(p, "verify")
    <2>1. "verify" \in Labels /\ ReqOK("verify", req[p]) /\ ~Minting("verify", req[p])
        BY Locals DEF AdminLockCheck, At, Labels, ReqOK, Minting, Mfa, Guessing
    <2> QED
        BY <1>2, <2>1, OnlyGoesOn DEF AdminLockCheck, LockSeen
<1> QED
    BY <1>1, <1>2 DEF AdminLockCheck

\* After the first factor.
LEMMA AfterFirstOK ==
    ASSUME IInv, NEW p \in Procs, pc[p] = "verify" \/ pc[p] = "provider"
    PROVE  LET label == AfterFirst(p)
           IN label \in Labels /\ ReqOK(label, req[p]) /\ ~Minting(label, req[p]) /\ ~Open(label, req[p])
<1>1. req[p].flow = "admin" => AfterFirst(p) \in {"pend", "clear"}
    BY DEF AfterFirst
<1>2. req[p].flow # "admin" => AfterFirst(p) \in {"pend", "hooks"}
    BY DEF AfterFirst
<1>3. /\ req[p].flow \in {"password", "admin", "social", "google"} /\ ReqOK(pc[p], req[p])
      /\ req[p].flow = "admin" => req[p].session = Admin
      /\ req[p].flow # "admin" => req[p].session \in Sessions
    BY Locals DEF ReqOK, Guessing
<1> QED
    BY <1>1, <1>2, <1>3 DEF Labels, ReqOK, Minting, Open, Mfa, Guessing

LEMMA VerifyPasswordOK ==
    ASSUME IInv, NEW p \in Procs, VerifyPassword(p) \/ AdminVerifyPassword(p) PROVE IInv'
<1>1. pc[p] = "verify" /\ UNCHANGED <<now, kv, history>>
    BY DEF VerifyPassword, AdminVerifyPassword, At
<1>2. "failread" \in Labels /\ ReqOK("failread", req[p]) /\ ~Minting("failread", req[p])
    BY <1>1, Locals DEF Labels, ReqOK, Minting, Mfa, Guessing
<1>3. Open("failread", req[p]) => Open(pc[p], req[p])
    BY <1>1 DEF Open, Guessing
<1>4. \/ Goto(p, "failread")
      \/ Finish(p)
      \/ Goto(p, AfterFirst(p))
    BY DEF VerifyPassword, AdminVerifyPassword
<1>5. CASE Goto(p, "failread") \/ Finish(p)
    BY <1>1, <1>2, <1>3, <1>5, OnlyGoesOn
<1>6. CASE Goto(p, AfterFirst(p))
    BY <1>1, <1>6, AfterFirstOK, OnlyGoesOn
<1> QED
    BY <1>4, <1>5, <1>6

(***************************************************************************)
(* A wrong password is counted.                                            *)
(***************************************************************************)
LEMMA FailReadOK == ASSUME IInv, NEW p \in Procs, FailRead(p) PROVE IInv'
<1> DEFINE r == [req[p] EXCEPT !.lock = lock]
<1>1. r \in Request /\ r.flow = req[p].flow /\ r.session = req[p].session /\ r.locked = req[p].locked
    BY Locals DEF Request, IInv, TypeOK
<1>2. pc[p] = "failread" /\ req[p].flow \in {"password", "admin"}
    BY Locals DEF FailRead, At, ReqOK, Guessing
<1>3. ReqOK(pc[p], req[p])
    BY Locals
<1>4. "failswap" \in Labels /\ ReqOK("failswap", r) /\ ~Minting("failswap", r)
    BY <1>1, <1>2, <1>3 DEF Labels, ReqOK, Minting, Mfa, Guessing
<1>5. Open("failswap", r) => Open(pc[p], req[p])
    BY <1>1, <1>2 DEF Open, Guessing
<1>6. Tables' /\ GotoWith(p, "failswap", r)
    BY SameTables DEF FailRead, kv, history
<1> HIDE DEF r
<1> QED
    BY <1>1, <1>4, <1>5, <1>6, GoOnOK DEF FailRead, kv, history

\* The swap succeeds: of the requests that may still guess, p is one less.
LEMMA CountedOK ==
    ASSUME IInv, NEW p \in Procs, At(p, "failswap"), Finish(p), now' = now, lock' = Counted(lock),
           guesses' = (IF req[p].locked THEN 0 ELSE 1) + (IF Elapsed(lock) THEN 0 ELSE guesses)
    PROVE  GuessOK' /\ lock' \in Lock /\ guesses' \in Nat
<1> DEFINE guess == IF req[p].locked THEN 0 ELSE 1
           F == MaxFailures
           C == Cardinality(Procs)
           K == Cardinality(Guessers)
<1>1. GuessOK /\ lock \in Lock /\ guesses \in Nat /\ now \in Nat /\ LockTime \in Nat \ {0}
    BY SignInAssumption DEF IInv, TypeOK
<1>2. C \in Nat /\ F \in Nat \ {0} /\ guess \in {0, 1}
    BY Counts
<1>3. K \in Nat /\ K <= C /\ C > 0 /\ guess <= K /\ Cardinality(Guessers') = K - guess
    <2>1. IsFiniteSet(Procs) /\ Guessers \subseteq Procs
        BY Counts DEF Guessers
    <2>2. K \in Nat /\ K <= C /\ IsFiniteSet(Guessers)
        BY <2>1, FS_Subset, FS_CardinalityType
    <2>3. C > 0
        BY <2>1, <1>2, FS_EmptySet
    <2>4. /\ pc'[p] = "idle"
          /\ \A q \in Procs \ {p} : pc'[q] = pc[q] /\ req'[q] = req[q]
        BY MovesOne DEF Finish
    <2>5. CASE req[p].locked
        <3>1. Guessers' = Guessers
            BY <2>4, <2>5 DEF Guessers, Open, Guessing, At
        <3> QED
            BY <2>2, <2>3, <2>5, <3>1
    <2>6. CASE ~req[p].locked
        <3>1. Guessers' = Guessers \ {p} /\ p \in Guessers
            BY <2>4, <2>6 DEF Guessers, Open, Guessing, At
        <3>2. Cardinality(Guessers \ {p}) = K - 1 /\ Cardinality(Guessers \ {p}) \in Nat
            BY <2>2, <3>1, FS_RemoveElement, FS_CardinalityType
        <3> QED
            BY <2>2, <2>3, <2>6, <3>1, <3>2
    <2> QED
        BY <2>5, <2>6
<1>4. lock.n \in Nat /\ lock.until \in Nat
    BY <1>1 DEF Lock
<1>5. Cardinality(Guessers)' = K - guess
    BY <1>3
<1>6. guesses' = guess + (IF Elapsed(lock) THEN 0 ELSE guesses)
    OBVIOUS
<1> HIDE DEF guess, F, C, K
<1>7. CASE Elapsed(lock)
    <2>1. lock'.n = 1 /\ lock'.until = (IF 1 >= F THEN now + LockTime ELSE 0) /\ lock' \in Lock
        BY <1>1, <1>2, <1>4, <1>7 DEF Counted, Lock, F
    <2>2. guesses' = guess /\ guesses' \in Nat
        BY <1>2, <1>6, <1>7
    <2>3. GuessOK'
        BY <1>1, <1>2, <1>3, <1>5, <2>1, <2>2 DEF GuessOK, IsLocked, F, C
    <2> QED
        BY <2>1, <2>2, <2>3
<1>8. CASE ~Elapsed(lock)
    <2>1. /\ lock'.n = lock.n + 1 /\ lock' \in Lock
          /\ lock'.until = IF lock.n + 1 >= F THEN now + LockTime ELSE lock.until
        BY <1>1, <1>2, <1>4, <1>8 DEF Counted, Lock, F
    <2>2. guesses' = guess + guesses
        BY <1>6, <1>8
    <2>3. /\ IF lock.n < F THEN lock.until = 0 /\ guesses <= lock.n ELSE lock.until > 0
          /\ lock.until > now => guesses + K < F + C
        BY <1>1 DEF GuessOK, IsLocked, F, C, K
    <2>4. lock.n >= F => guesses + K < F + C
        BY <1>1, <1>2, <1>4, <1>8, <2>3 DEF Elapsed
    <2>5. guesses' + (K - guess) < F + C
        BY <1>1, <1>2, <1>3, <1>4, <2>2, <2>3, <2>4
    <2>6. guesses' < F + C
        BY <1>1, <1>2, <1>3, <1>4, <2>2, <2>3, <2>5
    <2>7. IF lock'.n < F THEN lock'.until = 0 /\ guesses' <= lock'.n ELSE lock'.until > 0
        BY <1>1, <1>2, <1>4, <2>1, <2>2, <2>3
    <2>8. GuessOK'
        BY <1>3, <2>5, <2>6, <2>7 DEF GuessOK, F, C
    <2> QED
        BY <1>1, <1>2, <2>1, <2>2, <2>8
<1> QED
    BY <1>7, <1>8

LEMMA FailSwapOK == ASSUME IInv, NEW p \in Procs, FailSwap(p) PROVE IInv'
<1>0. UNCHANGED <<now, par, session, pending, chal, state, used, active, totp, recovery, tries, requests, minted, spent, restored>>
    BY DEF FailSwap
<1>1. CASE Finish(p) /\ UNCHANGED <<lock, guesses>>
    BY <1>0, <1>1, SameTables, FinishOK
<1>2. CASE LockRevisionMatches(p) /\ lock' = Counted(req[p].lock) /\ Finish(p)
    <2>1. guesses' = (IF req[p].locked THEN 0 ELSE 1) + (IF Elapsed(lock) THEN 0 ELSE guesses)
        BY <1>2 DEF FailSwap, LockRevisionMatches
    <2>2. GuessOK' /\ lock' \in Lock /\ guesses' \in Nat
        BY <1>0, <1>2, <2>1, CountedOK DEF LockRevisionMatches, FailSwap
    <2>3. Tables'
        BY <1>0, <2>2 DEF IInv, TypeOK, Tables, VisitsOK
    <2> QED
        BY <1>0, <1>2, <2>2, <2>3, FinishOK
<1>3. CASE GotoWith(p, "failread", [req[p] EXCEPT !.tries = @ + 1]) /\ UNCHANGED <<lock, guesses>>
    <2> DEFINE r == [req[p] EXCEPT !.tries = @ + 1]
    <2>1. r \in Request /\ r.flow = req[p].flow /\ r.session = req[p].session /\ r.locked = req[p].locked
        BY Locals DEF Request
    <2>2. pc[p] = "failswap" /\ req[p].flow \in {"password", "admin"} /\ ReqOK(pc[p], req[p])
        BY Locals DEF FailSwap, At, ReqOK, Guessing
    <2>3. "failread" \in Labels /\ ReqOK("failread", r) /\ ~Minting("failread", r)
        BY <2>1, <2>2 DEF Labels, ReqOK, Minting, Mfa, Guessing
    <2>4. Open("failread", r) => Open(pc[p], req[p])
        BY <2>1, <2>2 DEF Open, Guessing
    <2>5. Tables' /\ GotoWith(p, "failread", r)
        BY <1>0, <1>3, SameTables
    <2> HIDE DEF r
    <2> QED
        BY <1>0, <1>3, <2>1, <2>3, <2>4, <2>5, GoOnOK
<1> QED
    BY <1>1, <1>2, <1>3 DEF FailSwap

(***************************************************************************)
(* The second factor.                                                      *)
(***************************************************************************)
LEMMA SavePendingOK == ASSUME IInv, NEW p \in Procs, NEW m \in Pendings, SavePending(p, m) PROVE IInv'
<1>1. pending' \in [Pendings -> Pending]
    BY Locals, SignInAssumption DEF SavePending, IInv, TypeOK, Pending, Request
<1>2. Tables'
    BY <1>1 DEF SavePending, history, IInv, TypeOK, Tables, VisitsOK
<1> QED
    BY <1>2, FinishOK DEF SavePending, history

LEMMA ExamineOK ==
    ASSUME IInv, NEW p \in Procs, NEW f \in Factors, At(p, "attempt"), Examine(p, f) \/ Finish(p), Tables',
           UNCHANGED <<now, session, used, recovery, minted, spent, restored, lock, guesses>>
    PROVE  IInv'
<1>0. ReqOK(pc[p], req[p]) /\ req[p] \in Request /\ pc[p] = "attempt" /\ now \in Nat
    BY Locals DEF At, IInv, TypeOK
<1>1. req[p].flow = "mfa" /\ req[p].session \in Sessions \cup {Admin}
    BY <1>0 DEF ReqOK, Mfa
<1>2. CASE Fits(f) /\ GotoWith(p, "mark", [req[p] EXCEPT !.factor = f, !.at = now])
    <2> DEFINE r == [req[p] EXCEPT !.factor = f, !.at = now]
    <2>1. r \in Request /\ r.flow = req[p].flow /\ r.session = req[p].session /\ r.factor = f /\ r.at = now
        BY <1>0 DEF Request
    <2>2. ReqOK("mark", r) /\ "mark" \in Labels /\ ~Minting("mark", r) /\ ~Open("mark", r)
        BY <1>0, <1>1, <1>2, <2>1 DEF Fits, ReqOK, Labels, Minting, Open, Mfa, Guessing
    <2>3. GotoWith(p, "mark", r)
        BY <1>2
    <2> HIDE DEF r
    <2> QED
        BY <2>1, <2>2, <2>3, GoOnOK
<1>3. CASE f \in Recoveries /\ GotoWith(p, "readcodes", [req[p] EXCEPT !.factor = f])
    <2> DEFINE r == [req[p] EXCEPT !.factor = f]
    <2>1. r \in Request /\ r.flow = req[p].flow /\ r.session = req[p].session /\ r.factor = f
        BY <1>0 DEF Request
    <2>2. ReqOK("readcodes", r) /\ "readcodes" \in Labels /\ ~Minting("readcodes", r) /\ ~Open("readcodes", r)
        BY <1>0, <1>1, <1>3, <2>1 DEF ReqOK, Labels, Minting, Open, Mfa, Guessing
    <2>3. GotoWith(p, "readcodes", r)
        BY <1>3
    <2> HIDE DEF r
    <2> QED
        BY <2>1, <2>2, <2>3, GoOnOK
<1>4. CASE Finish(p)
    BY <1>4, FinishOK
<1> QED
    BY <1>2, <1>3, <1>4 DEF Examine

\* A request that attempts a second factor names a pending login.
LEMMA AttemptOK ==
    ASSUME IInv, NEW p \in Procs, NEW f \in Factors, Attempt(p, f) \/ AdminAttempt(p, f) PROVE IInv'
<1>1. At(p, "attempt") /\ (Examine(p, f) \/ Finish(p))
    BY DEF Attempt, AdminAttempt
<1>2. UNCHANGED <<now, par, session, chal, state, lock, used, active, totp, recovery, tries, history>>
    BY DEF Attempt, AdminAttempt, kv
<1>3. pending' = pending \/ pending' = [pending EXCEPT ![req[p].pending].st = "gone"]
    BY DEF Attempt, AdminAttempt, kv, DropPending
<1>4. pending' \in [Pendings -> Pending]
    BY <1>3 DEF IInv, TypeOK, Pending
<1>5. Tables'
    BY <1>2, <1>4 DEF history, IInv, TypeOK, Tables, VisitsOK
<1> QED
    BY <1>1, <1>2, <1>5, ExamineOK DEF history

\* A code is looked at for a step after the last in which it is good only when its marker is there.
LEMMA RecordTotpUsedOK == ASSUME IInv, NEW p \in Procs, RecordTotpUsed(p) PROVE IInv'
<1>0. /\ ReqOK(pc[p], req[p]) /\ req[p] \in Request /\ pc[p] = "mark" /\ now \in Nat
      /\ used \in [Steps -> Nat] /\ spent \in [Factors -> Nat]
    BY Locals, SignInAssumption DEF RecordTotpUsed, At, IInv, TypeOK
<1>f. PICK f \in Steps : f = req[p].factor
    BY <1>0 DEF ReqOK
<1>1. /\ f \in Steps /\ f \in Nat /\ req[p].at \in Nat /\ f \notin Recoveries
      /\ req[p].at <= f + 1 /\ f <= req[p].at + 1 /\ req[p].at <= now
      /\ req[p].flow = "mfa" /\ req[p].session \in Sessions \cup {Admin}
    BY <1>0, <1>f, SignInAssumption DEF ReqOK, Mfa, Steps, Request
<1>2. UNCHANGED <<now, par, session, pending, chal, state, lock, active, totp, recovery, tries, requests, minted, guesses, restored>>
    BY DEF RecordTotpUsed
<1>3. Tables'
    BY <1>2, SameTables
<1>4. CASE Finish(p) /\ UNCHANGED <<used, spent>>
    BY <1>2, <1>3, <1>4, FinishOK
<1>5. CASE /\ used[f] <= now /\ used' = [used EXCEPT ![f] = MarkerLapses]
           /\ spent' = IF req[p].at = now THEN [spent EXCEPT ![f] = @ + 1] ELSE spent
           /\ Goto(p, "unpend")
    <2>1. MarkerLapses \in Nat /\ MarkerLapses > f + 1
        BY <1>0, <1>1, SignInAssumption DEF MarkerLapses
    <2>2. FactorOK(f) /\ f \in Factors
        BY <1>1 DEF IInv, Factors
    <2>3. req[p].at = now => spent[f] = 0
        BY <1>0, <1>1, <1>5, <2>2 DEF FactorOK
    <2>4. used' \in [Steps -> Nat] /\ spent' \in [Factors -> Nat]
        BY <1>0, <1>5, <2>1, <2>2
    <2>5. FactorOK(f)'
        BY <1>0, <1>1, <1>2, <1>5, <2>1, <2>2, <2>3 DEF FactorOK
    <2>6. ASSUME NEW g \in Factors, g # f PROVE FactorOK(g)'
        BY <1>0, <1>2, <1>5, <2>6 DEF FactorOK, IInv
    <2>7. GotoWith(p, "unpend", req[p]) /\ "unpend" \in Labels
        BY <1>5 DEF Goto, Labels
    <2>8. ReqOK("unpend", req[p]) /\ ~Minting("unpend", req[p]) /\ ~Open("unpend", req[p])
        BY <1>0, <1>1 DEF ReqOK, Mfa, Minting, Open, Guessing
    <2>9. \A s \in Sessions : MintOK(s)'
        BY <1>2, <2>7, <2>8, SameMints
    <2>10. GuessOK'
        BY <1>2, <2>7, <2>8, NoGuess
    <2>11. \A g \in Factors : FactorOK(g)'
        BY <2>5, <2>6
    <2> QED
        BY <1>0, <1>2, <1>3, <2>4, <2>7, <2>8, <2>9, <2>10, <2>11, StepOK DEF IInv, TypeOK
<1> QED
    BY <1>4, <1>5, <1>f DEF RecordTotpUsed

\* A request with a second factor goes on.
LEMMA MfaGoesOn ==
    ASSUME IInv, NEW p \in Procs, pc[p] \in Mfa
    PROVE  /\ ReqOK("unpend", req[p]) /\ ~Minting("unpend", req[p]) /\ ~Open("unpend", req[p])
           /\ LET label == IF req[p].session = Admin THEN "clear" ELSE "hooks"
              IN ReqOK(label, req[p]) /\ ~Minting(label, req[p]) /\ ~Open(label, req[p])
<1>1. /\ ReqOK(pc[p], req[p]) /\ req[p] \in Request
      /\ req[p].flow = "mfa" /\ req[p].session \in Sessions \cup {Admin}
    BY Locals DEF ReqOK
<1> QED
    BY <1>1 DEF ReqOK, Mfa, Minting, Open, Guessing

LEMMA RecordTotpFailsOK == ASSUME IInv, NEW p \in Procs, RecordTotpFails(p) PROVE IInv'
<1>1. pc[p] \in Mfa
    BY DEF RecordTotpFails, At, Mfa
<1>2. "unpend" \in Labels /\ UNCHANGED <<now, kv, history>> /\ (Goto(p, "unpend") \/ Finish(p))
    BY DEF Labels, RecordTotpFails
<1> QED
    BY <1>1, <1>2, MfaGoesOn, OnlyGoesOn

LEMMA ReadRecoveryCodesOK == ASSUME IInv, NEW p \in Procs, ReadRecoveryCodes(p) PROVE IInv'
<1>0. UNCHANGED <<now, kv, history>> /\ pc[p] = "readcodes" /\ ReqOK(pc[p], req[p]) /\ req[p] \in Request
    BY Locals DEF ReadRecoveryCodes, At
<1>1. CASE Finish(p)
    BY <1>0, <1>1, SameTables, FinishOK DEF kv, history
<1>2. CASE req[p].factor \in recovery /\ GotoWith(p, "swapcodes", [req[p] EXCEPT !.codes = recovery])
    <2> DEFINE r == [req[p] EXCEPT !.codes = recovery]
    <2>1. /\ r \in Request /\ r.flow = req[p].flow /\ r.session = req[p].session
          /\ r.factor = req[p].factor /\ r.codes = recovery
        BY <1>0 DEF Request, IInv, TypeOK
    <2>2. ReqOK("swapcodes", r) /\ "swapcodes" \in Labels /\ ~Minting("swapcodes", r) /\ ~Open("swapcodes", r)
        BY <1>0, <1>2, <2>1 DEF ReqOK, Labels, Minting, Open, Mfa, Guessing
    <2>3. GotoWith(p, "swapcodes", r) /\ Tables'
        BY <1>0, <1>2, SameTables DEF kv, history
    <2> HIDE DEF r
    <2> QED
        BY <1>0, <2>1, <2>2, <2>3, GoOnOK DEF kv, history
<1> QED
    BY <1>1, <1>2 DEF ReadRecoveryCodes

\* The code that is taken is in the record that is swapped, and not in the one put back.
LEMMA SwapRecoveryCodesOK == ASSUME IInv, NEW p \in Procs, SwapRecoveryCodes(p) PROVE IInv'
<1>0. /\ ReqOK(pc[p], req[p]) /\ req[p] \in Request /\ pc[p] = "swapcodes"
      /\ spent \in [Factors -> Nat] /\ recovery \subseteq Recoveries
    BY Locals DEF SwapRecoveryCodes, At, IInv, TypeOK
<1>f. PICK f \in Factors : f = req[p].factor
    BY <1>0 DEF ReqOK, Request, Factors
<1>1. /\ f \in req[p].codes /\ f \in Recoveries /\ f \notin Steps
      /\ req[p].flow = "mfa" /\ req[p].session \in Sessions \cup {Admin}
    BY <1>0, <1>f, SignInAssumption DEF ReqOK, Mfa, Steps, Request
<1>2. UNCHANGED <<now, par, session, pending, chal, state, lock, used, active, totp, tries, requests, minted, guesses, restored>>
    BY DEF SwapRecoveryCodes
<1>3. Tables'
    BY <1>2, SameTables
<1>4. CASE Finish(p) /\ UNCHANGED <<recovery, spent>>
    BY <1>2, <1>3, <1>4, FinishOK
<1>5. CASE GotoWith(p, "readcodes", [req[p] EXCEPT !.tries = @ + 1]) /\ UNCHANGED <<recovery, spent>>
    <2> DEFINE r == [req[p] EXCEPT !.tries = @ + 1]
    <2>1. r \in Request /\ r.flow = req[p].flow /\ r.session = req[p].session /\ r.factor = f
        BY <1>0, <1>f DEF Request
    <2>2. ReqOK("readcodes", r) /\ "readcodes" \in Labels /\ ~Minting("readcodes", r) /\ ~Open("readcodes", r)
        BY <1>0, <1>1, <2>1 DEF ReqOK, Labels, Minting, Open, Mfa, Guessing
    <2>3. GotoWith(p, "readcodes", r)
        BY <1>5
    <2> HIDE DEF r
    <2> QED
        BY <1>2, <1>3, <1>5, <2>1, <2>2, <2>3, GoOnOK
<1>6. CASE /\ CodesRevisionMatches(p) /\ recovery' = req[p].codes \ {f}
           /\ spent' = [spent EXCEPT ![f] = @ + 1] /\ Goto(p, "unpend")
    <2>1. FactorOK(f) /\ f \in Factors /\ recovery' = recovery \ {f} /\ f \in recovery
        BY <1>1, <1>6 DEF IInv, Factors, CodesRevisionMatches
    <2>2. spent[f] <= restored[f] /\ spent[f] \in Nat /\ restored[f] \in Nat /\ restored' = restored
        BY <1>0, <1>1, <1>2, <2>1 DEF FactorOK, IInv, TypeOK
    <2>3. spent' \in [Factors -> Nat] /\ recovery' \subseteq Recoveries
        BY <1>0, <1>6, <2>1
    <2>4. FactorOK(f)'
        BY <1>0, <1>1, <1>6, <2>1, <2>2 DEF FactorOK
    <2>5. ASSUME NEW g \in Factors, g # f PROVE FactorOK(g)'
        BY <1>0, <1>2, <1>6, <2>1, <2>5 DEF FactorOK, IInv
    <2>6. GotoWith(p, "unpend", req[p]) /\ "unpend" \in Labels /\ pc[p] \in Mfa
        BY <1>0, <1>6 DEF Goto, Labels, Mfa
    <2>7. ReqOK("unpend", req[p]) /\ ~Minting("unpend", req[p]) /\ ~Open("unpend", req[p])
        BY <2>6, MfaGoesOn
    <2>8. (\A s \in Sessions : MintOK(s)') /\ GuessOK'
        BY <1>2, <2>6, <2>7, SameMints, NoGuess
    <2>9. \A g \in Factors : FactorOK(g)'
        BY <2>4, <2>5
    <2> QED
        BY <1>0, <1>2, <1>3, <2>3, <2>6, <2>7, <2>8, <2>9, StepOK DEF IInv, TypeOK
<1> QED
    BY <1>4, <1>5, <1>6, <1>f DEF SwapRecoveryCodes

LEMMA UnpendOK == ASSUME IInv, NEW p \in Procs, Unpend(p) PROVE IInv'
<1> DEFINE label == IF req[p].session = Admin THEN "clear" ELSE "hooks"
<1>1. pc[p] \in Mfa /\ label \in Labels /\ GotoWith(p, label, req[p])
    BY DEF Unpend, At, Mfa, Labels, Goto
<1>2. ReqOK(label, req[p]) /\ ~Minting(label, req[p]) /\ ~Open(label, req[p])
    BY <1>1, MfaGoesOn
<1>3. pending' \in [Pendings -> Pending]
    BY DEF Unpend, DropPending, IInv, TypeOK, Pending
<1>4. Tables'
    BY <1>3 DEF Unpend, history, IInv, TypeOK, Tables, VisitsOK
<1> HIDE DEF label
<1> QED
    BY <1>1, <1>2, <1>4, Locals, GoOnOK DEF Unpend, history

(***************************************************************************)
(* Passkeys, providers and the end of a sign-in.                           *)
(***************************************************************************)
LEMMA AssertionOK == ASSUME IInv, NEW p \in Procs, VerifyAssertion(p) \/ RefuseAssertion(p) PROVE IInv'
<1>1. pc[p] = "passkey" /\ UNCHANGED <<now, kv, history>> /\ (Goto(p, "consume") \/ Finish(p))
    BY DEF VerifyAssertion, RefuseAssertion, At
<1>2. "consume" \in Labels /\ ReqOK("consume", req[p]) /\ ~Minting("consume", req[p]) /\ ~Open("consume", req[p])
    BY <1>1, Locals DEF ReqOK, Labels, Minting, Open, Mfa, Guessing
<1> QED
    BY <1>1, <1>2, OnlyGoesOn

LEMMA CallbackOK ==
    ASSUME IInv, NEW p \in Procs, RefuseIdToken(p) \/ RefuseGoogleIdToken(p) \/ FindUser(p) PROVE IInv'
<1>1. UNCHANGED <<now, kv, history>> /\ pc[p] = "provider" /\ (Goto(p, AfterFirst(p)) \/ Finish(p))
    BY DEF RefuseIdToken, RefuseGoogleIdToken, FindUser, At
<1> QED
    BY <1>1, AfterFirstOK, OnlyGoesOn

LEMMA HooksOK == ASSUME IInv, NEW p \in Procs, RunHooks(p) \/ CountAndRunHooks(p) PROVE IInv'
<1>0. pc[p] = "hooks" /\ UNCHANGED <<now, kv, history>> /\ ReqOK(pc[p], req[p])
    BY Locals DEF RunHooks, CountAndRunHooks, At
<1>1. CASE RunHooks(p)
    <2>1. req[p].flow # "passkey" /\ (Goto(p, "clear") \/ Finish(p))
        BY <1>1 DEF RunHooks
    <2>2. "clear" \in Labels /\ ReqOK("clear", req[p]) /\ ~Minting("clear", req[p]) /\ ~Open("clear", req[p])
        BY <1>0, <2>1 DEF ReqOK, Labels, Minting, Open, Mfa, Guessing
    <2> QED
        BY <1>0, <2>1, <2>2, OnlyGoesOn
<1>2. CASE CountAndRunHooks(p)
    <2>1. req[p].flow = "passkey" /\ (Goto(p, "mint") \/ Finish(p))
        BY <1>2 DEF CountAndRunHooks
    <2>2. "mint" \in Labels /\ ReqOK("mint", req[p]) /\ Minting(pc[p], req[p]) /\ ~Open("mint", req[p])
        BY <1>0, <2>1 DEF ReqOK, Labels, Minting, Open, Mfa, Guessing
    <2> QED
        BY <1>0, <2>1, <2>2, OnlyGoesOn
<1> QED
    BY <1>1, <1>2

LEMMA ClearLoginAttemptsOK == ASSUME IInv, NEW p \in Procs, ClearLoginAttempts(p) PROVE IInv'
<1>0. /\ ReqOK(pc[p], req[p]) /\ pc[p] = "clear" /\ lock' = NoLock /\ guesses' = 0
      /\ UNCHANGED <<now, par, session, pending, chal, state, used, active, totp, recovery, tries, requests, minted, spent, restored>>
    BY Locals DEF ClearLoginAttempts, At
<1>1. Tables' /\ GuessOK'
    <2>1. now' \in Nat
        BY <1>0 DEF IInv, TypeOK
    <2>2. Tables'
        BY <1>0, NoLockTyped DEF IInv, TypeOK, Tables, VisitsOK
    <2> QED
        BY <1>0, <2>1, <2>2, Cleared
<1>2. CASE Finish(p)
    BY <1>0, <1>1, <1>2, FinishOK
<1>3. CASE req[p].session # Admin /\ Goto(p, "consume")
    <2>1. "consume" \in Labels /\ ReqOK("consume", req[p]) /\ ~Minting("consume", req[p])
        BY <1>0, <1>3 DEF ReqOK, Labels, Minting, Mfa, Guessing
    <2> QED
        BY <1>0, <1>1, <1>3, <2>1, Locals, MoveOK DEF Goto
<1> QED
    BY <1>2, <1>3 DEF ClearLoginAttempts

\* The session is open when it is consumed: no other request minted for it or is about to.
LEMMA ConsumeAuthSessionOK == ASSUME IInv, NEW p \in Procs, ConsumeAuthSession(p) PROVE IInv'
<1>0. /\ ReqOK(pc[p], req[p]) /\ req[p] \in Request /\ pc[p] = "consume"
      /\ UNCHANGED <<now, par, pending, chal, state, lock, used, active, totp, recovery, tries, history>>
    BY Locals DEF ConsumeAuthSession, At
<1>1. PICK s \in Sessions : s = req[p].session
    BY <1>0 DEF ReqOK
<1>2. Tables'
    BY <1>0, SameTables DEF history
<1>3. CASE Finish(p) /\ UNCHANGED session
    BY <1>0, <1>2, <1>3, FinishOK DEF history
<1>4. CASE /\ Consumable(s) /\ session' = [session EXCEPT ![s].st = "gone"]
           /\ Goto(p, IF req[p].flow = "passkey" THEN "hooks" ELSE "mint")
    <2>1. PICK label \in {"hooks", "mint"} :
            /\ label = "hooks" <=> req[p].flow = "passkey"
            /\ GotoWith(p, label, req[p])
        BY <1>4 DEF Goto
    <2>2. label \in Labels /\ ReqOK(label, req[p]) /\ Minting(label, req[p]) /\ ~Open(label, req[p])
        BY <1>0, <2>1 DEF ReqOK, Labels, Minting, Open, Mfa, Guessing
    <2>3. session' \in [Sessions -> Session] /\ minted' = minted /\ minted \in [Sessions -> Nat]
        BY <1>0, <1>4 DEF history, IInv, TypeOK, Session
    <2>4. /\ pc'[p] = label /\ req'[p] = req[p]
          /\ \A q \in Procs \ {p} : pc'[q] = pc[q] /\ req'[q] = req[q]
        BY <2>1, MovesOne
    <2>5. /\ session[s].st = "open" /\ session'[s].st = "gone"
          /\ \A t \in Sessions \ {s} : session'[t] = session[t]
        BY <1>4 DEF Consumable, Live, IInv, TypeOK
    <2>6. MintOK(s)'
        <3>1. MintOK(s)
            BY DEF IInv
        <3>2. minted[s] = 0 /\ \A q \in Procs : ~Mints(q, s)
            BY <2>3, <2>5, <3>1 DEF MintOK
        <3>3. \A q \in Procs : Mints(q, s)' => q = p
            BY <2>4, <3>2 DEF Mints
        <3> QED
            BY <2>3, <2>5, <3>2, <3>3 DEF MintOK
    <2>7. ASSUME NEW t \in Sessions, t # s PROVE MintOK(t)'
        <3>1. MintOK(t)
            BY DEF IInv
        <3>2. \A q \in Procs : Mints(q, t)' => Mints(q, t)
            BY <1>1, <2>4, <2>7 DEF Mints
        <3> QED
            BY <2>3, <2>5, <2>7, <3>1, <3>2 DEF MintOK
    <2>8. GuessOK'
        BY <1>0, <2>1, <2>2, NoGuess DEF history
    <2>9. \A f \in Factors : FactorOK(f)'
        BY <1>0, SameFactors DEF history
    <2>10. \A t \in Sessions : MintOK(t)'
        BY <2>6, <2>7
    <2> QED
        BY <1>0, <1>2, <2>1, <2>2, <2>3, <2>8, <2>9, <2>10, StepOK DEF history, IInv, TypeOK
<1> QED
    BY <1>1, <1>3, <1>4 DEF ConsumeAuthSession

\* The one request that consumed the session answers.
LEMMA IssueOK == ASSUME IInv, NEW p \in Procs, Issue(p) PROVE IInv'
<1>0. ReqOK(pc[p], req[p]) /\ req[p] \in Request /\ pc[p] = "mint" /\ UNCHANGED <<now, kv, requests, guesses, spent, restored>>
    BY Locals DEF Issue, At
<1>1. PICK s \in Sessions : s = req[p].session
    BY <1>0 DEF ReqOK
<1>2. minted' = [minted EXCEPT ![s] = @ + 1] /\ GotoWith(p, "idle", NoRequest) /\ "idle" \in Labels
    BY <1>1 DEF Issue, Finish, Labels
<1>3. minted \in [Sessions -> Nat] /\ minted' \in [Sessions -> Nat] /\ session' = session
    BY <1>0, <1>2 DEF kv, IInv, TypeOK
<1>4. \A t \in Sessions, q \in Procs : Mints(q, t)' => Mints(q, t) /\ q # p
    BY <1>2, MovesOne, NoRequestOK DEF Mints
<1>5. MintOK(s)'
    <2>1. MintOK(s) /\ Mints(p, s)
        BY <1>0, <1>1 DEF IInv, Mints, Minting
    <2>2. minted[s] = 0 /\ session[s].st = "gone" /\ \A q \in Procs : Mints(q, s) => q = p
        BY <2>1 DEF MintOK
    <2>3. \A q \in Procs : ~Mints(q, s)'
        BY <1>4, <2>2
    <2>4. minted'[s] = 1
        BY <1>2, <1>3, <2>2
    <2> QED
        BY <1>3, <2>2, <2>3, <2>4 DEF MintOK
<1>6. ASSUME NEW t \in Sessions, t # s PROVE MintOK(t)'
    <2>1. MintOK(t) /\ minted'[t] = minted[t]
        BY <1>2, <1>3, <1>6 DEF IInv
    <2> QED
        BY <1>3, <1>4, <2>1 DEF MintOK
<1>7. Tables' /\ GuessOK'
    BY <1>0, <1>2, SameTables, NoGuess, NoRequestOK DEF kv
<1>8. (\A t \in Sessions : MintOK(t)') /\ \A f \in Factors : FactorOK(f)'
    BY <1>0, <1>5, <1>6, SameFactors DEF kv
<1> QED
    BY <1>0, <1>2, <1>3, <1>7, <1>8, NoRequestOK, StepOK DEF kv, IInv, TypeOK

\* activate_user counts every code that its outdated record brings back.
LEMMA ActivateOK == ASSUME IInv, NEW p \in Procs, BeginActivate(p) \/ PutActivated(p) PROVE IInv'
<1>1. CASE BeginActivate(p)
    <2> DEFINE r == [NoRequest EXCEPT !.codes = recovery]
    <2>1. r \in Request /\ r.flow = "none"
        BY DEF NoRequest, Request, Flows, NoLock, Lock, IInv, TypeOK
    <2>2. "activate" \in Labels /\ ReqOK("activate", r) /\ ~Minting("activate", r) /\ ~Open("activate", r)
        BY <2>1 DEF Labels, ReqOK, Minting, Open, Mfa, Guessing
    <2>3. Start(p, "activate", r) /\ UNCHANGED <<now, kv, minted, guesses, spent, restored>>
        BY <1>1 DEF BeginActivate
    <2> HIDE DEF r
    <2> QED
        BY <2>1, <2>2, <2>3, StartOK DEF kv, IInv, TypeOK, VisitsOK
<1>2. CASE PutActivated(p)
    <2>1. /\ req[p].codes \subseteq Recoveries /\ GotoWith(p, "idle", NoRequest) /\ "idle" \in Labels
          /\ active' = TRUE /\ recovery' = req[p].codes
          /\ UNCHANGED <<now, par, session, pending, chal, state, lock, used, totp, tries, requests, minted, guesses, spent>>
        BY <1>2, Locals DEF PutActivated, Finish, Labels, Request
    <2>2. restored' = [f \in Recoveries |-> IF f \in req[p].codes \ recovery THEN restored[f] + 1 ELSE restored[f]]
        BY <1>2 DEF PutActivated
    <2>3. restored \in [Recoveries -> Nat] /\ spent \in [Factors -> Nat] /\ Recoveries \subseteq Factors
        BY DEF IInv, TypeOK, Factors
    <2>4. restored' \in [Recoveries -> Nat]
        BY <2>2, <2>3
    <2>5. ASSUME NEW f \in Factors PROVE FactorOK(f)'
        <3>1. FactorOK(f)
            BY DEF IInv
        <3>2. CASE f \notin Recoveries
            BY <2>1, <3>1, <3>2 DEF FactorOK
        <3>3. CASE f \in Recoveries
            <4>1. /\ restored'[f] = IF f \in recovery' \ recovery THEN restored[f] + 1 ELSE restored[f]
                  /\ restored[f] \in Nat /\ spent[f] \in Nat /\ f \notin Steps
                BY <2>1, <2>2, <2>3, <3>3, SignInAssumption DEF Steps
            <4>2. spent[f] + (IF f \in recovery THEN 1 ELSE 0) <= 1 + restored[f]
                BY <3>1, <3>3 DEF FactorOK
            <4>3. spent[f] + (IF f \in recovery' THEN 1 ELSE 0) <= 1 + restored'[f]
                BY <4>1, <4>2
            <4> QED
                BY <2>1, <4>1, <4>3 DEF FactorOK
        <3> QED
            BY <3>2, <3>3
    <2>6. Tables'
        BY <2>1 DEF IInv, TypeOK, Tables, VisitsOK
    <2>7. (\A s \in Sessions : MintOK(s)') /\ GuessOK'
        BY <2>1, NoRequestOK, SameMints, NoGuess
    <2> QED
        BY <2>1, <2>3, <2>4, <2>5, <2>6, <2>7, NoRequestOK, StepOK DEF IInv, TypeOK
<1> QED
    BY <1>1, <1>2

LEMMA CrashOK == ASSUME IInv, NEW p \in Procs, Crash(p) PROVE IInv'
BY SameTables, FinishOK DEF Crash, kv, history

(***************************************************************************)
(* Every step preserves the invariant.                                     *)
(***************************************************************************)
LEMMA HandlerOK == ASSUME IInv, NEW p \in Procs, Handler(p) PROVE IInv'
<1>1. CASE \/ Unpush(p) \/ LockCheck(p) \/ AdminLockCheck(p) \/ VerifyPassword(p) \/ AdminVerifyPassword(p)
           \/ FailRead(p) \/ FailSwap(p)
    BY <1>1, UnpushOK, LockCheckOK, AdminLockCheckOK, VerifyPasswordOK, FailReadOK, FailSwapOK
<1>2. CASE \/ RecordTotpUsed(p) \/ RecordTotpFails(p) \/ ReadRecoveryCodes(p) \/ SwapRecoveryCodes(p) \/ Unpend(p)
           \/ \E f \in Factors : Attempt(p, f) \/ AdminAttempt(p, f)
           \/ \E m \in Pendings : SavePending(p, m)
    BY <1>2, RecordTotpUsedOK, RecordTotpFailsOK, ReadRecoveryCodesOK, SwapRecoveryCodesOK, UnpendOK, AttemptOK,
       SavePendingOK
<1>3. CASE \/ VerifyAssertion(p) \/ RefuseAssertion(p) \/ FindUser(p) \/ RefuseIdToken(p) \/ RefuseGoogleIdToken(p)
           \/ RunHooks(p) \/ CountAndRunHooks(p) \/ ClearLoginAttempts(p) \/ ConsumeAuthSession(p)
           \/ Mint(p) \/ MintForPasskey(p) \/ Crash(p)
    BY <1>3, AssertionOK, CallbackOK, HooksOK, ClearLoginAttemptsOK, ConsumeAuthSessionOK, IssueOK, CrashOK
       DEF Mint, MintForPasskey
<1>4. CASE \/ BeginAdminLogin(p) \/ \E s \in Sessions : BeginLogin(p, s)
           \/ \E r \in Pars \cup {None} : BeginAuthorize(p, r)
           \/ \E t \in States : BeginCallback(p, t) \/ BeginGoogleCallback(p, t)
    BY <1>4, BeginLoginOK, BeginAuthorizeOK, ConsumeVisitOK DEF BeginCallback, BeginGoogleCallback
<1>5. CASE \/ \E m \in Pendings, s \in Sessions \cup {Admin} : BeginMfa(p, m, s)
           \/ \E s \in Sessions, c \in Challenges : BeginPasskey(p, c, s)
           \/ \E s \in Sessions, strict \in BOOLEAN : OpenSession(p, s, strict)
    BY <1>5, BeginMfaOK, BeginPasskeyOK, OpenSessionOK
<1>6. CASE BeginActivate(p) \/ PutActivated(p)
    BY <1>6, ActivateOK
<1> QED
    BY <1>1, <1>2, <1>3, <1>4, <1>5, <1>6 DEF Handler

LEMMA NextOK == ASSUME IInv, [Next]_vars PROVE IInv'
<1>1. ASSUME UNCHANGED vars PROVE IInv'
    <2>1. Tables' /\ now' \in 0..MaxTime /\ now <= now'
        BY <1>1, SameTables, SignInAssumption DEF vars, kv, history, IInv, TypeOK
    <2> QED
        BY <1>1, <2>1, EnvironmentOK DEF vars, kv, history
<1> QED
    BY <1>1, HandlerOK, TableWritesOK, ForgetFailuresOK, TickOK DEF Next

LEMMA InitOK == ASSUME Init PROVE IInv
<1>1. TypeOK
    <2>1. lock \in Lock /\ req \in [Procs -> Request] /\ pc \in [Procs -> Labels]
        BY NoLockTyped, NoRequestOK DEF Init, Labels
    <2>2. session \in [Sessions -> Session] /\ pending \in [Pendings -> Pending] /\ state \in [States -> Visit]
        BY DEF Init, Session, NoSession, Pending, NoPending, Visit, NoVisit
    <2>3. restored \in [Recoveries -> Nat] /\ spent \in [Factors -> Nat] /\ minted \in [Sessions -> Nat]
        BY DEF Init
    <2>4. /\ used \in [Steps -> Nat] /\ tries \in [Pendings -> 0..MfaLimit]
          /\ now \in 0..MaxTime /\ requests \in 0..MaxRequests /\ par \in [Pars -> Nat \cup {None}]
        BY SignInAssumption DEF Init
    <2>5. chal \in [Challenges -> {"unused", "open", "gone"}] /\ totp \in BOOLEAN /\ guesses \in Nat
        BY DEF Init
    <2> QED
        BY <2>1, <2>2, <2>3, <2>4, <2>5 DEF Init, TypeOK
<1>2. \A p \in Procs : RequestOK(p) /\ ~Minting(pc[p], req[p]) /\ ~Open(pc[p], req[p])
    BY NoRequestOK DEF Init, RequestOK, ReqOK
<1>3. \A s \in Sessions : MintOK(s)
    BY <1>2 DEF Init, MintOK, Mints
<1>4. \A f \in Factors : FactorOK(f)
    BY DEF Init, FactorOK, Factors
<1>5. VisitsOK
    BY DEF Init, VisitsOK
<1>6. GuessOK
    <2>1. lock.n = 0 /\ lock.until = 0 /\ ~IsLocked
        BY DEF Init, NoLock, IsLocked
    <2> QED
        BY <2>1, Counts DEF Init, GuessOK
<1> QED
    BY <1>1, <1>2, <1>3, <1>4, <1>5, <1>6 DEF IInv

(***************************************************************************)
(* The theorems.                                                           *)
(***************************************************************************)
\* Whatever requests overlap, crash or come back late, what the handlers of login.rs, totp.rs,
\* management.rs, social.rs, google.rs and admin/mod.rs know between their store operations holds.
THEOREM Invariance == Spec => []IInv
<1>1. Init => IInv
    BY InitOK
<1>2. IInv /\ [Next]_vars => IInv'
    BY NextOK
<1> QED
    BY <1>1, <1>2, PTL DEF Spec

\* The records of store.rs that a sign-in reads and writes, and the locals of its handlers, keep
\* their types.
THEOREM TypeCorrect == Spec => []TypeOK
<1>1. IInv => TypeOK
    BY DEF IInv
<1> QED
    BY <1>1, Invariance, PTL

\* consume_auth_session deletes the session at the revision read: for any number of requests,
\* however the password form, second factors, passkeys and callbacks of providers race for it, one
\* authentication session completes at most one sign-in.
THEOREM OneSignIn == Spec => []OneSignInPerSession
<1>1. IInv => OneSignInPerSession
    BY DEF IInv, MintOK, OneSignInPerSession
<1> QED
    BY <1>1, Invariance, PTL

\* record_totp_used and the swap of the recovery codes: a second factor is spent once. The marker
\* outlives every period in which its code is good (MarkTTL >= 3), and a recovery code leaves the
\* record in the swap that accepts it; it is spent again only as often as activate_user, which
\* writes without a revision, put it back.
THEOREM FactorsSpentOnce == Spec => []FactorSpentOnce
<1>1. ASSUME IInv PROVE FactorSpentOnce
    <2>1. /\ \A f \in Steps : spent[f] <= 1
          /\ \A f \in Recoveries : spent[f] + (IF f \in recovery THEN 1 ELSE 0) <= 1 + restored[f]
        BY <1>1 DEF IInv, FactorOK, Factors
    <2>2. \A f \in Recoveries : spent[f] \in Nat /\ restored[f] \in Nat
        BY <1>1 DEF IInv, TypeOK, Factors
    <2> QED
        BY <2>1, <2>2 DEF FactorSpentOnce
<1> QED
    BY <1>1, Invariance, PTL

\* record_failed_login and is_account_locked: for every limit and number of concurrent requests,
\* the wrong passwords recorded and answered since the last reset are fewer than the limit and
\* the requests together. Only a request that read the lock before it was set can add to them.
THEOREM GuessesAreBounded == Spec => []GuessesBounded
<1>1. IInv => GuessesBounded
    BY DEF IInv, GuessOK, GuessesBounded
<1> QED
    BY <1>1, Invariance, PTL

-----------------------------------------------------------------------------
(***************************************************************************)
(* What an account signs in with: theorems about Credentials for any       *)
(* number of requests, users, passkeys and identities.  A constant or      *)
(* variable that both modules declare stands for Credentials' own from     *)
(* here on; nothing is said of both at once.                               *)
(***************************************************************************)
\* What only Credentials declares, and its definitions under the name CR.
CONSTANTS Subjects, Passkeys
VARIABLES address, challenge, index, link, fresh
CR == INSTANCE Credentials

\* What a request with locals r knows when it is about to take step l.
CredentialReqOK(l, r) ==
    /\ l \notin {"idle", "find", "create"} => r.user \in Users
    /\ l \in {"check", "push", "index", "drop", "unindex"} => r.key \in Passkeys
    /\ l = "setup" => r.via \in {"account", "api"}
    /\ l \in {"find", "create"} => r.seen.keys = {}
CredentialRequestOK(p) == CredentialReqOK(pc[p], req[p])
TypeInv ==
    /\ CR!TypeOK /\ \A p \in Procs : CredentialRequestOK(p)
    /\ \A k \in Passkeys : challenge[k].st # "unused" => challenge[k].user \in Users

\* The request holds the one registration of the passkey k, before and after it is on the record.
Holds(p, k) == pc[p] \in {"check", "push"} /\ req[p].key = k
\* k is on no record yet, and on none that was read.
Virgin(k) == challenge[k].st # "used" \/ \E p \in Procs : Holds(p, k)
Removing(p, k) == pc[p] \in {"drop", "unindex"} /\ req[p].key = k
KeyInv ==
    /\ \A k \in Passkeys, p, q \in Procs : Holds(p, k) /\ Holds(q, k) => p = q
    /\ \A k \in Passkeys, p \in Procs :
          Holds(p, k) \/ Removing(p, k) => challenge[k].st = "used" /\ challenge[k].user = req[p].user
    /\ \A k \in Passkeys : Virgin(k) => k \notin removed /\ \A p \in Procs : ~Removing(p, k)
    /\ \A k \in Passkeys, u \in Users : k \in user[u].keys => ~Virgin(k) /\ challenge[k].user = u
    /\ \A k \in Passkeys, p \in Procs : k \in req[p].seen.keys => ~Virgin(k) /\ challenge[k].user = req[p].user
    /\ \A k \in Passkeys, p \in Procs :
          pc[p] = "unindex" /\ req[p].key = k => req[p].user \in clobbered \/ k \notin user[req[p].user].keys
    /\ RemovedStaysRemoved

\* Who is created and not being erased holds the address.
AddressInv ==
    /\ \A p \in Procs : pc[p] = "erase" => req[p].user \in doomed
    /\ torn \/ \A u \in Users \ (doomed \cup clobbered \cup cut) : CR!Live(u) /\ ~Creating(u) => address = u

-----------------------------------------------------------------------------
(* The state has its types, and requests know what they lead to. *)

CredentialTables ==
    /\ user \in [Users -> CR!User] /\ address \in Users \cup {None}
    /\ challenge \in [Passkeys -> CR!Challenge] /\ index \in [Passkeys -> Users \cup {None}]
    /\ link \in [Subjects -> Users \cup {None}] /\ fresh \in Nat
    /\ requests \in 0..MaxRequests /\ removed \subseteq Passkeys /\ torn \in BOOLEAN
    /\ doomed \subseteq Users /\ clobbered \subseteq Users /\ cut \subseteq Users
    /\ \A k \in Passkeys : challenge[k].st # "unused" => challenge[k].user \in Users

LEMMA CredentialMovesOne ==
    ASSUME TypeInv, NEW p \in Procs, NEW l, NEW r, CR!GotoWith(p, l, r)
    PROVE  /\ pc'[p] = l /\ req'[p] = r
           /\ \A q \in Procs \ {p} : pc'[q] = pc[q] /\ req'[q] = req[q]
BY DEF TypeInv, CR!TypeOK, CR!GotoWith

LEMMA Known ==
    ASSUME TypeInv, NEW p \in Procs
    PROVE  req[p] \in CR!Request /\ pc[p] \in CR!Labels /\ CredentialReqOK(pc[p], req[p]) /\ CredentialTables
BY DEF TypeInv, CR!TypeOK, CredentialRequestOK, CredentialTables

LEMMA StepTyped ==
    ASSUME TypeInv, NEW p \in Procs, NEW l \in CR!Labels, NEW r \in CR!Request, CR!GotoWith(p, l, r), CredentialReqOK(l, r), CredentialTables'
    PROVE  TypeInv'
<1>1. /\ pc'[p] = l /\ req'[p] = r
      /\ \A q \in Procs \ {p} : pc'[q] = pc[q] /\ req'[q] = req[q]
    BY CredentialMovesOne
<1>2. CR!TypeOK'
    BY DEF TypeInv, CR!TypeOK, CredentialTables, CR!GotoWith
<1>3. \A q \in Procs : CredentialRequestOK(q)'
    BY <1>1 DEF TypeInv, CredentialRequestOK, CredentialReqOK
<1> QED
    BY <1>2, <1>3 DEF TypeInv, CredentialTables

LEMMA CredentialNoRequestOK == CR!NoUser \in CR!User /\ CR!NewUser \in CR!User /\ CR!NoRequest \in CR!Request /\ CredentialReqOK("idle", CR!NoRequest)
<1>1. CR!NoUser \in CR!User /\ CR!NewUser \in CR!User
    BY DEF CR!NoUser, CR!NewUser, CR!User
<1> QED
    BY <1>1 DEF CR!NoRequest, CR!Request, CredentialReqOK

LEMMA FinishTyped ==
    ASSUME TypeInv, NEW p \in Procs, CR!Finish(p), CredentialTables' PROVE TypeInv'
BY CredentialNoRequestOK, StepTyped DEF CR!Finish, CR!Labels

LEMMA GotoTyped ==
    ASSUME TypeInv, NEW p \in Procs, NEW l \in CR!Labels, CR!Goto(p, l), CredentialReqOK(l,
           req[p]), CredentialTables'
    PROVE  TypeInv'
BY Known, StepTyped DEF CR!Goto

\* A request that begins by reading the record of u.
Opens(p, u, l, r) ==
    /\ CR!Start(p, l, u, r)
    /\ l \in {"setup", "confirm", "disable", "drop", "erase", "activate"} /\ r \in CR!Request
    /\ l = "setup" => r.via \in {"account", "api"}
    /\ l = "drop" => r.key \in Passkeys /\ r.key \in user[u].keys
    /\ IF l = "erase" THEN doomed' = doomed \cup {u} ELSE UNCHANGED doomed
Consumes(p, k) == CR!ConsumePasskeyChallenge(p, k)

\* The step of a request, whichever route leads to it.
CredentialSteps(p) ==
    \/ CR!StoreSecret(p) \/ CR!EnableMfa(p) \/ CR!DisableMfa(p)
    \/ CR!RefuseAttestation(p) \/ CR!CheckCredential(p) \/ CR!PushCredential(p) \/ CR!IndexCredential(p)
    \/ CR!DropCredential(p) \/ CR!UnindexCredential(p)
    \/ CR!FindByEmail(p) \/ CR!HandleRegister(p) \/ CR!RegistrationClosed(p) \/ CR!ClaimAddress(p) \/ CR!RollBack(p)
    \/ CR!AdoptUser(p) \/ CR!LinkNewUser(p) \/ CR!HookAllows(p) \/ CR!HookDenies(p)
    \/ CR!DeleteSocialIdentity(p) \/ CR!UnindexAddress(p) \/ CR!UnindexPasskeys(p) \/ CR!DeleteRecord(p) \/ CR!PutActivated(p)
    \/ CR!Crash(p)

LEMMA OpensOf ==
    ASSUME NEW p \in Procs, NEW u \in Users,
           \/ CR!BeginMfaDisable(p, u) \/ CR!BeginErase(p, u) \/ CR!BeginActivate(p, u)
           \/ CR!MfaSetup(p, u) \/ CR!AccountMfaSetup(p, u) \/ CR!MfaConfirm(p, u) \/ CR!AccountMfaConfirm(p, u)
           \/ \E k \in Passkeys : CR!PasskeysDelete(p, u, k) \/ CR!DeletePasskey(p, u, k) \/ CR!DeletePasskeyInPanel(p, u, k)
    PROVE  \E l, r : Opens(p, u, l, r)
<1>1. CASE CR!BeginMfaDisable(p, u)
    <2>1. Opens(p, u, "disable", CR!NoRequest)
        BY <1>1, CredentialNoRequestOK DEF CR!BeginMfaDisable, Opens
    <2> QED
        BY <2>1
<1>2. CASE CR!BeginErase(p, u)
    <2>1. Opens(p, u, "erase", CR!NoRequest)
        BY <1>2, CredentialNoRequestOK DEF CR!BeginErase, Opens
    <2> QED
        BY <2>1
<1>3. CASE CR!BeginActivate(p, u)
    <2>1. Opens(p, u, "activate", CR!NoRequest)
        BY <1>3, CredentialNoRequestOK DEF CR!BeginActivate, Opens
    <2> QED
        BY <2>1
<1>4. ASSUME NEW s \in {"account", "api"}, CR!BeginMfaSetup(p, u, s)
      PROVE  \E l, r : Opens(p, u, l, r)
    <2> DEFINE r == [CR!NoRequest EXCEPT !.via = s]
    <2>1. r \in CR!Request /\ r.via = s
        BY CredentialNoRequestOK DEF CR!Request, CR!NoRequest
    <2> HIDE DEF r
    <2>2. CR!Start(p, "setup", u, r) /\ UNCHANGED doomed
        BY <1>4 DEF CR!BeginMfaSetup, r
    <2>3. Opens(p, u, "setup", r)
        BY <2>1, <2>2 DEF Opens
    <2> QED
        BY <2>3
<1>5. ASSUME NEW s \in {"account", "api"}, CR!BeginMfaConfirm(p, u, s)
      PROVE  \E l, r : Opens(p, u, l, r)
    <2> DEFINE r == [CR!NoRequest EXCEPT !.via = s]
    <2>1. r \in CR!Request
        BY CredentialNoRequestOK DEF CR!Request, CR!NoRequest
    <2> HIDE DEF r
    <2>2. CR!Start(p, "confirm", u, r) /\ UNCHANGED doomed
        BY <1>5 DEF CR!BeginMfaConfirm, r
    <2>3. Opens(p, u, "confirm", r)
        BY <2>1, <2>2 DEF Opens
    <2> QED
        BY <2>3
<1>6. ASSUME NEW k \in Passkeys, CR!BeginDeletePasskey(p, u, k) PROVE \E l, r : Opens(p, u, l, r)
    <2> DEFINE r == [CR!NoRequest EXCEPT !.key = k]
    <2>1. r \in CR!Request /\ r.key = k
        BY CredentialNoRequestOK DEF CR!Request, CR!NoRequest
    <2> HIDE DEF r
    <2>2. CR!Start(p, "drop", u, r) /\ UNCHANGED doomed /\ k \in user[u].keys
        BY <1>6 DEF CR!BeginDeletePasskey, r
    <2>3. Opens(p, u, "drop", r)
        BY <2>1, <2>2 DEF Opens
    <2> QED
        BY <2>3
<1>7. ASSUME CR!MfaSetup(p, u) \/ CR!AccountMfaSetup(p, u) PROVE \E l, r : Opens(p, u, l, r)
    BY <1>4, <1>7 DEF CR!MfaSetup, CR!AccountMfaSetup
<1>8. ASSUME CR!MfaConfirm(p, u) \/ CR!AccountMfaConfirm(p, u) PROVE \E l, r : Opens(p, u, l, r)
    BY <1>5, <1>8 DEF CR!MfaConfirm, CR!AccountMfaConfirm
<1>9. ASSUME NEW k \in Passkeys, CR!PasskeysDelete(p, u, k) \/ CR!DeletePasskey(p, u, k) \/ CR!DeletePasskeyInPanel(p, u, k)
      PROVE  \E l, r : Opens(p, u, l, r)
    BY <1>6, <1>9 DEF CR!PasskeysDelete, CR!DeletePasskey, CR!DeletePasskeyInPanel
<1> QED
    BY <1>1, <1>2, <1>3, <1>7, <1>8, <1>9

LEMMA NextSteps ==
    ASSUME CR!Next
    PROVE  \/ \E p \in Procs :
                \/ CredentialSteps(p)
                \/ \E s \in Subjects : CR!BeginCallback(p, s)
                \/ \E k \in Passkeys : Consumes(p, k)
                \/ \E u \in Users : CR!CreateUser(p, u) \/ \E l, r : Opens(p, u, l, r)
           \/ \E u \in Users, k \in Passkeys : CR!OpenChallenge(u, k)
<1>1. ASSUME NEW p \in Procs, CR!Handler(p)
      PROVE  \/ CredentialSteps(p)
             \/ \E s \in Subjects : CR!BeginCallback(p, s)
             \/ \E k \in Passkeys : Consumes(p, k)
             \/ \E u \in Users : CR!CreateUser(p, u) \/ \E l, r : Opens(p, u, l, r)
    <2>1. \/ CredentialSteps(p)
          \/ \E s \in Subjects : CR!SocialCallback(p, s) \/ CR!GoogleCallback(p, s)
          \/ \E k \in Passkeys : CR!PasskeysRegister(p, k) \/ CR!PasskeyRegisterComplete(p, k) \/ CR!AdminPasskeyRegisterComplete(p, k)
          \/ \E u \in Users :
                \/ CR!CreateUser(p, u)
                \/ \/ CR!BeginMfaDisable(p, u) \/ CR!BeginErase(p, u) \/ CR!BeginActivate(p, u)
                   \/ CR!MfaSetup(p, u) \/ CR!AccountMfaSetup(p, u) \/ CR!MfaConfirm(p, u) \/ CR!AccountMfaConfirm(p, u)
                   \/ \E k \in Passkeys : CR!PasskeysDelete(p, u, k) \/ CR!DeletePasskey(p, u, k) \/ CR!DeletePasskeyInPanel(p, u, k)
        BY <1>1 DEF CR!Handler, CredentialSteps
    <2> QED
        BY <2>1, OpensOf DEF CR!SocialCallback, CR!GoogleCallback, CR!PasskeysRegister,
           CR!PasskeyRegisterComplete,
                             CR!AdminPasskeyRegisterComplete, Consumes
<1> QED
    BY <1>1 DEF CR!Next, CR!PasskeysPage, CR!PasskeyRegisterOptions

LEMMA ModifyTyped ==
    ASSUME CredentialTables, NEW p \in Procs, NEW allowed, NEW new \in CR!User, CR!Modify(p, allowed, new)
    PROVE  user' \in [Users -> CR!User]
BY DEF CredentialTables, CR!Modify

LEMMA OpensTyped ==
    ASSUME CR!CredentialConstants, TypeInv, NEW p \in Procs, NEW u \in Users, NEW l, NEW r,
           Opens(p, u, l, r)
    PROVE  TypeInv'
<1> DEFINE s == [r EXCEPT !.user = u, !.seen = user[u]]
<1>1. CredentialTables /\ r \in CR!Request /\ user[u] \in CR!User /\ CR!GotoWith(p, l, s) /\ CR!Count
    BY Known DEF Opens, CR!Start, CredentialTables
<1>2. s \in CR!Request /\ s.user = u /\ s.key = r.key /\ s.via = r.via
    BY <1>1 DEF CR!Request
<1>3. CredentialReqOK(l, s) /\ l \in CR!Labels
    BY <1>2 DEF Opens, CredentialReqOK, CR!Labels
<1>4. requests' \in 0..MaxRequests
    BY <1>1 DEF CR!CredentialConstants, CR!Count, CredentialTables
<1>5. doomed' \subseteq Users
    BY <1>1 DEF Opens, CredentialTables
<1>6. CredentialTables'
    BY <1>1, <1>4, <1>5 DEF Opens, CR!Start, CredentialTables, CR!kv
<1> HIDE DEF s
<1> QED
    BY <1>1, <1>2, <1>3, <1>6, StepTyped

LEMMA CredentialCounted ==
    ASSUME CR!CredentialConstants, CredentialTables, CR!Count PROVE requests' \in 0..MaxRequests
BY DEF CR!CredentialConstants, CR!Count, CredentialTables

LEMMA ConsumesTyped ==
    ASSUME CR!CredentialConstants, TypeInv, NEW p \in Procs, NEW k \in Passkeys, Consumes(p, k)
    PROVE  TypeInv'
<1> DEFINE s == [CR!NoRequest EXCEPT !.user = challenge[k].user, !.key = k]
<1>1. /\ CredentialTables /\ CR!GotoWith(p, "check", s) /\ challenge[k].st = "open" /\ challenge' = [challenge EXCEPT ![k].st = "used"]
      /\ challenge[k].user \in Users /\ requests' \in 0..MaxRequests
      /\ UNCHANGED <<user, address, index, link, fresh, removed, doomed, clobbered, cut, torn>>
    BY Known, CredentialCounted DEF Consumes, CR!ConsumePasskeyChallenge, CR!Consumed,
       CredentialTables
<1>2. s \in CR!Request /\ s.user \in Users /\ s.key = k
    BY <1>1, CredentialNoRequestOK DEF CR!Request, CR!NoRequest
<1>3. CredentialReqOK("check", s)
    BY <1>2 DEF CredentialReqOK
<1>4. CredentialTables'
    BY <1>1 DEF CredentialTables, CR!Challenge
<1> HIDE DEF s
<1> QED
    BY <1>1, <1>2, <1>3, <1>4, StepTyped DEF CR!Labels

LEMMA BeginCallbackTyped ==
    ASSUME CR!CredentialConstants, TypeInv, NEW p \in Procs, NEW s \in Subjects,
           CR!BeginCallback(p, s)
    PROVE  TypeInv'
<1> DEFINE r == [CR!NoRequest EXCEPT !.sub = s, !.via = "provider"]
<1>1. /\ CredentialTables /\ requests' \in 0..MaxRequests
      /\ UNCHANGED <<user, address, challenge, index, link, fresh, removed, doomed, clobbered, cut, torn>>
    BY Known, CredentialCounted DEF CR!BeginCallback, CR!kv
<1>2. CredentialTables'
    BY <1>1 DEF CredentialTables
<1>3. r \in CR!Request
    BY CredentialNoRequestOK DEF CR!Request, CR!NoRequest
<1>4. CredentialReqOK("find", r)
    BY DEF CredentialReqOK, CR!NoRequest, CR!NoUser
<1>5. CASE CR!GotoWith(p, "find", r)
    <2> HIDE DEF r
    <2> QED
        BY <1>2, <1>3, <1>4, <1>5, StepTyped DEF CR!Labels
<1>6. CASE UNCHANGED <<pc, req>>
    BY <1>2, <1>6 DEF TypeInv, CR!TypeOK, CredentialTables, CredentialRequestOK
<1> QED
    BY <1>5, <1>6 DEF CR!BeginCallback

LEMMA CreateTyped ==
    ASSUME TypeInv, NEW p \in Procs, NEW u \in Users, CR!CreateUser(p, u) PROVE TypeInv'
<1> DEFINE r == [req[p] EXCEPT !.user = u]
<1>1. /\ CredentialTables /\ req[p] \in CR!Request /\ CR!GotoWith(p, "claim", r)
      /\ user' = [user EXCEPT ![u] = CR!NewUser]
      /\ UNCHANGED <<address, challenge, index, link, fresh, requests, removed, doomed, clobbered, cut, torn>>
    BY Known DEF CR!CreateUser, CR!history
<1>2. r \in CR!Request /\ r.user = u
    BY <1>1 DEF CR!Request
<1>3. CredentialReqOK("claim", r)
    BY <1>2 DEF CredentialReqOK
<1>4. CredentialTables'
    BY <1>1, CredentialNoRequestOK DEF CredentialTables
<1> HIDE DEF r
<1> QED
    BY <1>1, <1>2, <1>3, <1>4, StepTyped DEF CR!Labels

LEMMA ClaimTyped ==
    ASSUME TypeInv, NEW p \in Procs, CR!ClaimAddress(p) \/ CR!RollBack(p) PROVE TypeInv'
<1>1. /\ CredentialTables /\ req[p].user \in Users
      /\ UNCHANGED <<challenge, index, link, fresh, requests, removed, doomed, clobbered, cut, torn>>
    BY Known DEF CR!ClaimAddress, CR!RollBack, CR!At, CredentialReqOK, CR!history
<1>2. [CR!NoUser EXCEPT !.st = "erased"] \in CR!User
    BY CredentialNoRequestOK DEF CR!User
<1>3. user' \in [Users -> CR!User] /\ address' \in Users \cup {None}
    BY <1>1, <1>2 DEF CR!ClaimAddress, CR!RollBack, CredentialTables
<1>4. CredentialTables'
    BY <1>1, <1>3 DEF CredentialTables
<1>5. CASE CR!Finish(p)
    BY <1>4, <1>5, FinishTyped
<1>6. ASSUME NEW l \in {"link", "hooks", "rollback"}, CR!Goto(p, l) PROVE TypeInv'
    BY <1>1, <1>4, <1>6, GotoTyped DEF CredentialReqOK, CR!Labels
<1> QED
    BY <1>5, <1>6 DEF CR!ClaimAddress, CR!RollBack

LEMMA HandleRegisterTyped ==
    ASSUME CR!CredentialConstants, TypeInv, NEW p \in Procs, CR!HandleRegister(p) PROVE TypeInv'
<1> DEFINE r == [CR!NoRequest EXCEPT !.via = "form"]
<1>1. /\ CredentialTables /\ requests' \in 0..MaxRequests /\ CR!GotoWith(p, "create", r)
      /\ UNCHANGED <<user, address, challenge, index, link, fresh, removed, doomed, clobbered, cut, torn>>
    BY Known, CredentialCounted DEF CR!HandleRegister, CR!kv
<1>2. CredentialTables'
    BY <1>1 DEF CredentialTables
<1>3. r \in CR!Request
    BY CredentialNoRequestOK DEF CR!Request, CR!NoRequest
<1>4. CredentialReqOK("create", r)
    BY DEF CredentialReqOK, CR!NoRequest, CR!NoUser
<1> HIDE DEF r
<1> QED
    BY <1>1, <1>2, <1>3, <1>4, StepTyped DEF CR!Labels

LEMMA OpenChallengeTyped ==
    ASSUME CR!CredentialConstants, TypeInv, NEW u \in Users, NEW k \in Passkeys, CR!OpenChallenge(u, k)
    PROVE  TypeInv'
<1>1. CredentialTables /\ requests' \in 0..MaxRequests /\ UNCHANGED <<pc, req>>
    BY CredentialCounted DEF TypeInv, CR!TypeOK, CredentialTables, CR!OpenChallenge
<1>2. CredentialTables'
    BY <1>1 DEF CredentialTables, CR!OpenChallenge, CR!Challenge
<1> QED
    BY <1>1, <1>2 DEF TypeInv, CR!TypeOK, CredentialTables, CredentialRequestOK

LEMMA MfaTyped ==
    ASSUME TypeInv, NEW p \in Procs, CR!StoreSecret(p) \/ CR!EnableMfa(p) \/ CR!DisableMfa(p)
    PROVE  TypeInv'
<1> DEFINE u == req[p].user
<1>0. fresh + 1 \in Nat /\ fresh' \in Nat
    <2>1. fresh \in Nat
        BY DEF TypeInv, CR!TypeOK
    <2>2. fresh' \in {fresh, fresh + 1}
        BY DEF CR!StoreSecret, CR!EnableMfa, CR!DisableMfa
    <2> QED
        BY <2>1, <2>2
<1>1. /\ CredentialTables /\ CR!Finish(p) /\ u \in Users /\ user[u] \in CR!User
      /\ UNCHANGED <<address, challenge, index, link, requests, removed, doomed, clobbered, cut, torn>>
    BY Known DEF CR!StoreSecret, CR!EnableMfa, CR!DisableMfa, CR!At, CredentialReqOK,
       CredentialTables, CR!history
<1>2. /\ [user[u] EXCEPT !.secret = fresh + 1] \in CR!User
      /\ [user[u] EXCEPT !.on = TRUE, !.codes = fresh + 1] \in CR!User
      /\ [user[u] EXCEPT !.secret = 0, !.on = FALSE, !.codes = 0] \in CR!User
    BY <1>0, <1>1 DEF CR!User
<1>3. user' \in [Users -> CR!User]
    BY <1>1, <1>2, ModifyTyped DEF CR!StoreSecret, CR!EnableMfa, CR!DisableMfa
<1>4. CredentialTables'
    BY <1>0, <1>1, <1>3 DEF CredentialTables
<1> QED
    BY <1>1, <1>4, FinishTyped

LEMMA PasskeyTyped ==
    ASSUME TypeInv, NEW p \in Procs,
           \/ CR!RefuseAttestation(p) \/ CR!CheckCredential(p) \/ CR!PushCredential(p) \/ CR!IndexCredential(p)
           \/ CR!DropCredential(p) \/ CR!UnindexCredential(p)
    PROVE  TypeInv'
<1> DEFINE u == req[p].user  k == req[p].key
<1>1. /\ CredentialTables /\ u \in Users /\ user[u] \in CR!User /\ k \in Passkeys
      /\ UNCHANGED <<address, challenge, link, fresh, requests, doomed, clobbered, cut, torn>>
    BY Known DEF CR!RefuseAttestation, CR!CheckCredential, CR!PushCredential, CR!IndexCredential,
       CR!DropCredential, CR!UnindexCredential,
                 CR!At, CredentialReqOK, CredentialTables, CR!history, CR!kv
<1>2. /\ [user[u] EXCEPT !.keys = @ \cup {k}] \in CR!User
      /\ [user[u] EXCEPT !.keys = @ \ {k}] \in CR!User
    BY <1>1 DEF CR!User
<1>3. user' \in [Users -> CR!User]
    <2>1. UNCHANGED user \/ CR!PushCredential(p) \/ CR!DropCredential(p)
        BY DEF CR!RefuseAttestation, CR!CheckCredential, CR!IndexCredential, CR!UnindexCredential,
           CR!kv
    <2> QED
        BY <1>1, <1>2, <2>1, ModifyTyped DEF CR!PushCredential, CR!DropCredential, CredentialTables
<1>4. index' \in [Passkeys -> Users \cup {None}] /\ removed' \subseteq Passkeys
    BY <1>1 DEF CR!RefuseAttestation, CR!CheckCredential, CR!PushCredential, CR!IndexCredential,
       CR!DropCredential, CR!UnindexCredential,
                CredentialTables, CR!history, CR!kv
<1>5. CredentialTables'
    BY <1>1, <1>3, <1>4 DEF CredentialTables
<1>6. CASE CR!Finish(p)
    BY <1>5, <1>6, FinishTyped
<1>7. ASSUME NEW l \in {"push", "index", "unindex"}, CR!Goto(p, l) PROVE TypeInv'
    BY <1>1, <1>5, <1>7, GotoTyped DEF CredentialReqOK, CR!Labels
<1> QED
    BY <1>6, <1>7 DEF CR!RefuseAttestation, CR!CheckCredential, CR!PushCredential,
       CR!IndexCredential, CR!DropCredential, CR!UnindexCredential

LEMMA CallbackTyped ==
    ASSUME TypeInv, NEW p \in Procs,
           \/ CR!FindByEmail(p) \/ CR!RegistrationClosed(p) \/ CR!AdoptUser(p) \/ CR!LinkNewUser(p) \/ CR!HookAllows(p) \/ CR!HookDenies(p)
           \/ CR!DeleteSocialIdentity(p)
    PROVE  TypeInv'
<1>1. /\ CredentialTables /\ req[p] \in CR!Request /\ CredentialReqOK(pc[p], req[p])
      /\ UNCHANGED <<user, address, challenge, index, fresh, requests, removed, clobbered, cut, torn>>
    BY Known DEF CR!FindByEmail, CR!RegistrationClosed, CR!AdoptUser, CR!LinkNewUser,
       CR!HookAllows, CR!HookDenies, CR!DeleteSocialIdentity,
                 CR!history, CR!kv
<1>2. link' \in [Subjects -> Users \cup {None}]
    BY <1>1 DEF CredentialTables, CR!Request, CR!FindByEmail, CR!RegistrationClosed, CR!AdoptUser,
       CR!LinkNewUser, CR!HookAllows, CR!HookDenies,
                CR!DeleteSocialIdentity, CR!SaveSocialIdentity, CR!kv
<1>3. doomed' \subseteq Users
    BY <1>1 DEF CredentialTables, CredentialReqOK, CR!At, CR!FindByEmail, CR!RegistrationClosed,
       CR!AdoptUser, CR!LinkNewUser, CR!HookAllows, CR!HookDenies,
                CR!DeleteSocialIdentity, CR!history
<1>4. CredentialTables'
    BY <1>1, <1>2, <1>3 DEF CredentialTables
<1>5. ASSUME CR!Finish(p) PROVE TypeInv'
    BY <1>4, <1>5, FinishTyped
<1>6. CASE CR!FindByEmail(p)
    <2>1. CASE CR!Held /\ CR!GotoWith(p, "adopt", [req[p] EXCEPT !.user = address])
        <3>1. address \in Users
            BY <1>1, <2>1 DEF CR!Held, CredentialTables
        <3>2. [req[p] EXCEPT !.user = address] \in CR!Request /\ CredentialReqOK("adopt", [req[p] EXCEPT !.user = address])
            BY <1>1, <3>1 DEF CR!Request, CredentialReqOK
        <3> QED
            BY <1>4, <2>1, <3>2, StepTyped DEF CR!Labels
    <2>2. CASE CR!Goto(p, "create")
        <3>1. CredentialReqOK("create", req[p])
            BY <1>1, <1>6 DEF CR!FindByEmail, CR!At, CredentialReqOK
        <3> QED
            BY <1>4, <2>2, <3>1, GotoTyped DEF CR!Labels
    <2> QED
        BY <1>6, <2>1, <2>2 DEF CR!FindByEmail
<1>7. CASE CR!LinkNewUser(p)
    BY <1>1, <1>4, <1>7, GotoTyped DEF CR!LinkNewUser, CR!At, CredentialReqOK, CR!Labels
<1>8. CASE CR!HookDenies(p)
    <2>1. req[p].user \in Users /\ user[req[p].user] \in CR!User
        BY <1>1, <1>8 DEF CR!HookDenies, CR!At, CredentialReqOK, CredentialTables
    <2>2. CASE CR!GotoWith(p, "erase", [req[p] EXCEPT !.seen = user[req[p].user]])
        <3> DEFINE r == [req[p] EXCEPT !.seen = user[req[p].user]]
        <3>1. r \in CR!Request /\ CredentialReqOK("erase", r)
            BY <1>1, <2>1 DEF CR!Request, CredentialReqOK
        <3> HIDE DEF r
        <3>2. CR!GotoWith(p, "erase", r)
            BY <2>2 DEF r
        <3> QED
            BY <1>4, <3>1, <3>2, StepTyped DEF CR!Labels
    <2>3. CASE CR!Goto(p, "unlink")
        BY <1>4, <2>1, <2>3, GotoTyped DEF CredentialReqOK, CR!Labels
    <2> QED
        BY <1>5, <1>8, <2>2, <2>3 DEF CR!HookDenies, CR!Unlink
<1> QED
    BY <1>5, <1>6, <1>7, <1>8 DEF CR!RegistrationClosed, CR!AdoptUser, CR!HookAllows,
       CR!DeleteSocialIdentity

LEMMA ErasureTyped ==
    ASSUME TypeInv, NEW p \in Procs, CR!UnindexAddress(p) \/ CR!UnindexPasskeys(p) \/ CR!DeleteRecord(p) \/ CR!PutActivated(p)
    PROVE  TypeInv'
<1>1. /\ CredentialTables /\ req[p] \in CR!Request /\ req[p].user \in Users /\ req[p].seen \in CR!User
      /\ UNCHANGED <<challenge, link, fresh, requests, removed, doomed, cut>>
    BY Known DEF CR!UnindexAddress, CR!UnindexPasskeys, CR!DeleteRecord, CR!PutActivated, CR!At,
       CredentialReqOK, CR!Request, CR!history
<1>2. [CR!NoUser EXCEPT !.st = "erased"] \in CR!User
    BY CredentialNoRequestOK DEF CR!User
<1>3. user' \in [Users -> CR!User]
    BY <1>1, <1>2 DEF CR!UnindexAddress, CR!UnindexPasskeys, CR!DeleteRecord, CR!PutActivated,
       CredentialTables
<1>4. index' \in [Passkeys -> Users \cup {None}] /\ address' \in Users \cup {None}
    BY <1>1 DEF CR!UnindexAddress, CR!UnindexPasskeys, CR!DeleteRecord, CR!PutActivated,
       CredentialTables
<1>5. torn' \in BOOLEAN /\ clobbered' \subseteq Users
    BY <1>1 DEF CR!UnindexAddress, CR!UnindexPasskeys, CR!DeleteRecord, CR!PutActivated,
       CredentialTables, CR!history
<1>6. CredentialTables'
    BY <1>1, <1>3, <1>4, <1>5 DEF CredentialTables
<1>7. CASE CR!Finish(p)
    BY <1>6, <1>7, FinishTyped
<1>8. ASSUME NEW l \in {"unkey", "bury", "unlink"}, CR!Goto(p, l) PROVE TypeInv'
    BY <1>1, <1>6, <1>8, GotoTyped DEF CredentialReqOK, CR!Labels
<1> QED
    BY <1>7, <1>8 DEF CR!UnindexAddress, CR!UnindexPasskeys, CR!DeleteRecord, CR!Unlink, CR!PutActivated

LEMMA CrashTyped == ASSUME TypeInv, NEW p \in Procs, CR!Crash(p) PROVE TypeInv'
<1>1. cut' \subseteq Users
    BY Known DEF CR!Crash, CredentialReqOK, CredentialTables
<1>2. CR!Finish(p) /\ CredentialTables'
    BY <1>1, Known DEF CR!Crash, CR!kv, CredentialTables
<1> QED
    BY <1>2, FinishTyped

LEMMA TypeNext ==
    ASSUME CR!CredentialConstants PROVE TypeInv /\ [CR!Next]_(CR!vars) => TypeInv'
<1>1. ASSUME TypeInv, NEW p \in Procs, CredentialSteps(p) PROVE TypeInv'
    BY <1>1, MfaTyped, PasskeyTyped, CallbackTyped, HandleRegisterTyped, ClaimTyped, ErasureTyped, CrashTyped
       DEF CredentialSteps
<1>2. ASSUME TypeInv, UNCHANGED CR!vars PROVE TypeInv'
    BY <1>2 DEF TypeInv, CR!TypeOK, CredentialRequestOK, CR!vars, CR!kv, CR!history
<1>3. ASSUME TypeInv, CR!Next PROVE TypeInv'
    BY <1>1, <1>3, NextSteps, OpensTyped, ConsumesTyped, BeginCallbackTyped, CreateTyped,
       OpenChallengeTyped
<1> QED
    BY <1>2, <1>3

LEMMA TypeInit ==
    ASSUME CR!CredentialConstants PROVE CR!Init => TypeInv
<1> SUFFICES ASSUME CR!Init PROVE TypeInv
    OBVIOUS
<1>1. CR!TypeOK
    <2>1. requests \in 0..MaxRequests /\ fresh \in Nat
        BY DEF CR!CredentialConstants, CR!Init
    <2>2. challenge \in [Passkeys -> CR!Challenge]
        BY DEF CR!Init, CR!Challenge
    <2>3. user \in [Users -> CR!User] /\ req \in [Procs -> CR!Request] /\ pc \in [Procs -> CR!Labels]
        BY CredentialNoRequestOK DEF CR!Init, CR!Labels
    <2> QED
        BY <2>1, <2>2, <2>3 DEF CR!Init, CR!TypeOK
<1>2. \A p \in Procs : CredentialRequestOK(p)
    BY CredentialNoRequestOK DEF CR!Init, CredentialRequestOK
<1> QED
    BY <1>1, <1>2 DEF TypeInv, CR!Init

(***************************************************************************)
(* Type correctness: records, indexes, challenges and what requests carry. *)
(***************************************************************************)
THEOREM CredentialsTyped ==
    ASSUME CR!CredentialConstants PROVE CR!Spec => []CR!TypeOK
<1>1. TypeInv => CR!TypeOK
    BY DEF TypeInv
<1> QED
    BY <1>1, TypeInit, TypeNext, PTL DEF CR!Spec

-----------------------------------------------------------------------------
(* One account per person. *)

\* A step of p that leaves the address alone: nobody comes to life but the user whom p goes on to
\* create, and p leaves nobody half created but in cut.
LEMMA AddressKept ==
    ASSUME TypeInv, AddressInv, NEW p \in Procs, NEW l, NEW r, CR!GotoWith(p, l, r),
           l = "erase" => r.user \in doomed', doomed \subseteq doomed', clobbered \subseteq clobbered', cut \subseteq cut',
           \A u \in Users \ clobbered' : CR!Live(u)' => CR!Live(u) \/ (l \in {"claim", "rollback"} /\ r.user = u),
           \/ pc[p] \notin {"claim", "rollback"} \/ req[p].user \in cut' \/ user'[req[p].user].st # "live"
           \/ l \in {"claim", "rollback"} /\ r.user = req[p].user,
           UNCHANGED <<address, torn>>
    PROVE  AddressInv'
<1>1. /\ pc'[p] = l /\ req'[p] = r
      /\ \A q \in Procs \ {p} : pc'[q] = pc[q] /\ req'[q] = req[q]
    BY CredentialMovesOne
<1>2. \A q \in Procs : pc'[q] = "erase" => req'[q].user \in doomed'
    BY <1>1 DEF AddressInv
<1>3. ASSUME NEW u \in Users \ (clobbered' \cup cut'), CR!Live(u)', ~Creating(u)'
      PROVE  CR!Live(u) /\ ~Creating(u)
    <2>1. ~(l \in {"claim", "rollback"} /\ r.user = u)
        BY <1>1, <1>3 DEF Creating
    <2>2. ASSUME NEW q \in Procs, pc[q] \in {"claim", "rollback"}, req[q].user = u PROVE FALSE
        <3>1. q = p
            BY <1>1, <1>3, <2>2 DEF Creating
        <3> QED
            BY <1>3, <2>1, <2>2, <3>1 DEF CR!Live
    <2> QED
        BY <1>3, <2>1, <2>2 DEF Creating
<1>4. torn' \/ \A u \in Users \ (doomed' \cup clobbered' \cup cut') : CR!Live(u)' /\ ~Creating(u)' => address' = u
    BY <1>3 DEF AddressInv
<1> QED
    BY <1>2, <1>4 DEF AddressInv

\* Whoever is being created by another request still is.
LEMMA CreatingKept ==
    ASSUME TypeInv, NEW p \in Procs, NEW l, NEW r, CR!GotoWith(p, l, r), NEW u,
           Creating(u), pc[p] \notin {"claim", "rollback"} \/ req[p].user # u
    PROVE  Creating(u)'
BY CredentialMovesOne DEF Creating

LEMMA SameLive == ASSUME UNCHANGED user PROVE \A u \in Users : CR!Live(u)' => CR!Live(u)
BY DEF CR!Live

LEMMA ModifyLive ==
    ASSUME TypeInv, NEW p \in Procs, NEW allowed, NEW new, CR!Modify(p, allowed, new), req[p].user \in Users
    PROVE  \A u \in Users : CR!Live(u)' => CR!Live(u)
BY DEF TypeInv, CR!TypeOK, CR!Modify, CR!Live

LEMMA OpensAddress ==
    ASSUME TypeInv, AddressInv, NEW p \in Procs, NEW u \in Users, NEW l, NEW r, Opens(p, u, l, r)
    PROVE  AddressInv'
<1> DEFINE s == [r EXCEPT !.user = u, !.seen = user[u]]
<1>1. /\ CR!GotoWith(p, l, s) /\ UNCHANGED <<address, torn, user, clobbered, cut>> /\ r \in CR!Request
      /\ pc[p] = "idle" /\ doomed \subseteq doomed'
      /\ l = "erase" => u \in doomed'
    BY DEF Opens, CR!Start, CR!At, CR!kv
<1>2. s.user = u
    BY <1>1 DEF CR!Request
<1> HIDE DEF s
<1> QED
    BY <1>1, <1>2, SameLive, AddressKept

LEMMA CreateAddress ==
    ASSUME TypeInv, AddressInv, NEW p \in Procs, NEW u \in Users, CR!CreateUser(p, u)
    PROVE  AddressInv'
<1> DEFINE r == [req[p] EXCEPT !.user = u]
<1>1. /\ UNCHANGED <<address, doomed, clobbered, cut, torn>> /\ pc[p] = "create" /\ req[p] \in CR!Request
      /\ CR!GotoWith(p, "claim", r) /\ user' = [user EXCEPT ![u] = CR!NewUser]
    BY Known DEF CR!CreateUser, CR!At, CR!history
<1>2. r.user = u
    BY <1>1 DEF CR!Request
<1>3. \A v \in Users : CR!Live(v)' => CR!Live(v) \/ v = u
    BY <1>1 DEF TypeInv, CR!TypeOK, CR!Live
<1> HIDE DEF r
<1> QED
    BY <1>1, <1>2, <1>3, AddressKept

\* A new user takes the address only when nobody holds it who is created and not being erased.
LEMMA ClaimAddressAddress ==
    ASSUME CR!CredentialConstants, TypeInv, AddressInv, NEW p \in Procs, CR!ClaimAddress(p)
    PROVE  AddressInv'
<1> DEFINE u == req[p].user
<1>1. UNCHANGED <<user, doomed, clobbered, cut, torn>> /\ pc[p] = "claim"
    BY DEF CR!ClaimAddress, CR!At, CR!history
<1>2. CASE CR!Goto(p, "rollback") /\ UNCHANGED address
    BY <1>1, <1>2, SameLive, AddressKept DEF CR!Goto
<1>3. ASSUME address = None, address' = u, NEW l, CR!GotoWith(p, l, req[p]), l \in {"link", "hooks"}
      PROVE  AddressInv'
    <2>1. \A q \in Procs : pc'[q] = "erase" => req'[q].user \in doomed'
        BY <1>1, <1>3, CredentialMovesOne DEF AddressInv
    <2>2. ASSUME ~torn', NEW v \in Users \ (doomed \cup clobbered \cup cut), v # u, CR!Live(v)
          PROVE  Creating(v)'
        <3>1. Creating(v)
            BY <1>1, <1>3, <2>2 DEF CR!CredentialConstants, AddressInv
        <3> QED
            BY <1>3, <2>2, <3>1, CreatingKept
    <2> QED
        BY <1>1, <1>3, <2>1, <2>2, SameLive DEF AddressInv
<1> QED
    BY <1>2, <1>3 DEF CR!ClaimAddress, CR!AddressFree, CR!Goto

LEMMA RollBackAddress ==
    ASSUME TypeInv, AddressInv, NEW p \in Procs, CR!RollBack(p) PROVE AddressInv'
<1>1. /\ UNCHANGED <<address, doomed, clobbered, cut, torn>> /\ req[p].user \in Users
      /\ user' = [user EXCEPT ![req[p].user] = [CR!NoUser EXCEPT !.st = "erased"]]
      /\ CR!GotoWith(p, "idle", CR!NoRequest)
    BY Known DEF CR!RollBack, CR!At, CR!Finish, CR!history, CredentialReqOK
<1>2. user'[req[p].user].st # "live" /\ \A v \in Users : CR!Live(v)' => CR!Live(v)
    BY <1>1 DEF TypeInv, CR!TypeOK, CR!Live, CR!NoUser
<1> QED
    BY <1>1, <1>2, AddressKept

\* Whom a crash leaves half created is in cut.
LEMMA CrashAddress == ASSUME TypeInv, AddressInv, NEW p \in Procs, CR!Crash(p) PROVE AddressInv'
<1>1. /\ UNCHANGED <<user, address, doomed, clobbered, torn>> /\ cut \subseteq cut'
      /\ pc[p] \in {"claim", "rollback"} => req[p].user \in cut'
      /\ CR!GotoWith(p, "idle", CR!NoRequest)
    BY DEF CR!Crash, CR!Finish, CR!kv
<1> QED
    BY <1>1, SameLive, AddressKept

\* Steps that leave the address to who holds it.
LEMMA QuietAddress ==
    ASSUME TypeInv, AddressInv, NEW p \in Procs,
           \/ CR!StoreSecret(p) \/ CR!EnableMfa(p) \/ CR!DisableMfa(p)
           \/ CR!RefuseAttestation(p) \/ CR!CheckCredential(p) \/ CR!PushCredential(p) \/ CR!IndexCredential(p)
           \/ CR!DropCredential(p) \/ CR!UnindexCredential(p)
           \/ CR!FindByEmail(p) \/ CR!HandleRegister(p) \/ CR!RegistrationClosed(p) \/ CR!AdoptUser(p) \/ CR!LinkNewUser(p) \/ CR!HookAllows(p)
           \/ CR!DeleteSocialIdentity(p)
    PROVE  AddressInv'
<1>1. UNCHANGED <<address, torn, doomed, clobbered, cut>> /\ pc[p] \notin {"claim", "rollback"}
    BY DEF CR!StoreSecret, CR!EnableMfa, CR!DisableMfa, CR!RefuseAttestation, CR!CheckCredential,
       CR!PushCredential, CR!IndexCredential,
           CR!DropCredential, CR!UnindexCredential, CR!FindByEmail, CR!HandleRegister,
           CR!RegistrationClosed, CR!AdoptUser, CR!LinkNewUser, CR!HookAllows,
           CR!DeleteSocialIdentity, CR!At, CR!kv, CR!history
<1>2. \A u \in Users : CR!Live(u)' => CR!Live(u)
    <2>1. CASE CR!StoreSecret(p) \/ CR!EnableMfa(p) \/ CR!DisableMfa(p) \/ CR!PushCredential(p) \/ CR!DropCredential(p)
        <3>1. req[p].user \in Users
            BY <2>1, Known DEF CR!StoreSecret, CR!EnableMfa, CR!DisableMfa, CR!PushCredential,
               CR!DropCredential, CR!At, CredentialReqOK
        <3> DEFINE u == req[p].user
        <3>2. user' = user \/ \E new : CR!Live(u) /\ user' = [user EXCEPT ![u] = new]
            BY <2>1 DEF CR!StoreSecret, CR!EnableMfa, CR!DisableMfa, CR!PushCredential,
               CR!DropCredential, CR!Modify
        <3> HIDE DEF u
        <3> QED
            BY <3>1, <3>2 DEF TypeInv, CR!TypeOK, CR!Live, u
    <2>2. CASE UNCHANGED user
        BY <2>2, SameLive
    <2> QED
        BY <2>1, <2>2 DEF CR!RefuseAttestation, CR!CheckCredential, CR!IndexCredential,
           CR!UnindexCredential, CR!FindByEmail, CR!HandleRegister,
                          CR!RegistrationClosed, CR!AdoptUser, CR!LinkNewUser, CR!HookAllows,
                          CR!DeleteSocialIdentity, CR!kv
<1>3. ASSUME NEW l, NEW r, CR!GotoWith(p, l, r), l # "erase" PROVE AddressInv'
    <2> QED
        BY <1>1, <1>2, <1>3, AddressKept
<1>4. CASE CR!Finish(p)
    BY <1>3, <1>4 DEF CR!Finish
<1>5. ASSUME NEW l, CR!Goto(p, l), l # "erase" PROVE AddressInv'
    BY <1>3, <1>5 DEF CR!Goto
<1>6. CASE CR!CheckCredential(p) \/ CR!PushCredential(p) \/ CR!DropCredential(p) \/ CR!LinkNewUser(p)
    BY <1>4, <1>5, <1>6 DEF CR!CheckCredential, CR!PushCredential, CR!DropCredential, CR!LinkNewUser
<1>7. CASE CR!FindByEmail(p) \/ CR!HandleRegister(p)
    BY <1>3, <1>5, <1>7 DEF CR!FindByEmail, CR!HandleRegister
<1> QED
    BY <1>4, <1>6, <1>7 DEF CR!StoreSecret, CR!EnableMfa, CR!DisableMfa, CR!RefuseAttestation,
       CR!IndexCredential, CR!UnindexCredential,
                           CR!RegistrationClosed, CR!AdoptUser, CR!HookAllows,
                           CR!DeleteSocialIdentity

LEMMA HookDeniesAddress ==
    ASSUME TypeInv, AddressInv, NEW p \in Procs, CR!HookDenies(p) PROVE AddressInv'
<1> DEFINE r == [req[p] EXCEPT !.seen = user[req[p].user]]
<1>1. /\ UNCHANGED <<address, torn, user, clobbered, cut>> /\ pc[p] = "hooks" /\ doomed' = doomed \cup {req[p].user}
      /\ req[p] \in CR!Request
    BY Known DEF CR!HookDenies, CR!At, CR!kv
<1>2. r.user = req[p].user
    BY <1>1 DEF CR!Request
<1>3. CR!GotoWith(p, "erase", r) \/ CR!GotoWith(p, "unlink", req[p]) \/ CR!GotoWith(p, "idle", CR!NoRequest)
    BY DEF CR!HookDenies, CR!Unlink, CR!Finish, CR!Goto
<1> HIDE DEF r
<1> QED
    BY <1>1, <1>2, <1>3, SameLive, AddressKept

\* The address goes with a user who is being erased, or it is torn from another.
LEMMA UnindexAddressAddress ==
    ASSUME CR!CredentialConstants, TypeInv, AddressInv, NEW p \in Procs, CR!UnindexAddress(p)
    PROVE  AddressInv'
<1>1. /\ UNCHANGED <<user, doomed, clobbered, cut>> /\ pc[p] = "erase" /\ req[p].user \in doomed
      /\ torn' = (torn \/ address \notin {None, req[p].user}) /\ CR!GotoWith(p, "unkey", req[p])
    BY DEF CR!UnindexAddress, CR!At, CR!Goto, AddressInv
<1>2. \A q \in Procs : pc'[q] = "erase" => req'[q].user \in doomed'
    BY <1>1, CredentialMovesOne DEF AddressInv
<1>3. ASSUME ~torn', NEW u \in Users \ (doomed \cup clobbered \cup cut), CR!Live(u) PROVE Creating(u)'
    <2>1. ~torn /\ address \in {None, req[p].user}
        BY <1>1, <1>3
    <2>2. u # None /\ u # req[p].user
        BY <1>1 DEF CR!CredentialConstants
    <2>3. Creating(u)
        BY <1>3, <2>1, <2>2 DEF AddressInv
    <2> QED
        BY <1>1, <2>3, CreatingKept
<1> QED
    BY <1>1, <1>2, <1>3, SameLive DEF AddressInv

LEMMA BuriesAddress ==
    ASSUME TypeInv, AddressInv, NEW p \in Procs, CR!UnindexPasskeys(p) \/ CR!DeleteRecord(p) \/ CR!PutActivated(p)
    PROVE  AddressInv'
<1>1. /\ UNCHANGED <<address, torn, doomed, cut>> /\ clobbered \subseteq clobbered' /\ req[p].user \in Users
      /\ pc[p] \notin {"claim", "rollback"}
    BY Known DEF CR!UnindexPasskeys, CR!DeleteRecord, CR!PutActivated, CR!history, CR!At,
       CredentialReqOK
<1>2. PICK l, r : CR!GotoWith(p, l, r) /\ l # "erase"
    <2>1. ASSUME CR!Finish(p) PROVE \E l, r : CR!GotoWith(p, l, r) /\ l # "erase"
        BY <2>1 DEF CR!Finish
    <2>2. ASSUME NEW l, CR!Goto(p, l), l # "erase"
          PROVE  \E m, r : CR!GotoWith(p, m, r) /\ m # "erase"
        BY <2>2 DEF CR!Goto
    <2> QED
        BY <2>1, <2>2 DEF CR!UnindexPasskeys, CR!DeleteRecord, CR!Unlink, CR!PutActivated
<1>3. ASSUME NEW u \in Users \ clobbered', CR!Live(u)' PROVE CR!Live(u)
    <2>1. CASE UNCHANGED user
        BY <1>3, <2>1, SameLive
    <2>2. CASE CR!DeleteRecord(p)
        BY <1>1, <1>3, <2>2 DEF CR!DeleteRecord, TypeInv, CR!TypeOK, CR!Live, CR!NoUser
    <2>3. CASE CR!PutActivated(p)
        BY <1>1, <1>3, <2>3 DEF CR!PutActivated, TypeInv, CR!TypeOK, CR!Live
    <2> QED
        BY <2>1, <2>2, <2>3 DEF CR!UnindexPasskeys
<1> QED
    BY <1>1, <1>2, <1>3, AddressKept

LEMMA AddressNext ==
    ASSUME CR!CredentialConstants PROVE TypeInv /\ AddressInv /\ [CR!Next]_(CR!vars) => AddressInv'
<1>1. ASSUME TypeInv, AddressInv, NEW p \in Procs, CredentialSteps(p) PROVE AddressInv'
    BY <1>1, QuietAddress, ClaimAddressAddress, RollBackAddress, CrashAddress, HookDeniesAddress,
       UnindexAddressAddress, BuriesAddress
       DEF CredentialSteps
<1>2. ASSUME TypeInv, AddressInv, NEW p \in Procs, NEW k \in Passkeys, Consumes(p, k)
      PROVE  AddressInv'
    <2>1. UNCHANGED <<user, address, doomed, clobbered, cut, torn>> /\ pc[p] = "idle"
        BY <1>2 DEF Consumes, CR!ConsumePasskeyChallenge, CR!At
    <2>2. CR!GotoWith(p, "check", [CR!NoRequest EXCEPT !.user = challenge[k].user, !.key = k])
        BY <1>2 DEF Consumes, CR!ConsumePasskeyChallenge
    <2> QED
        BY <1>2, <2>1, <2>2, SameLive, AddressKept
<1>3. ASSUME TypeInv, AddressInv, NEW p \in Procs, NEW s \in Subjects, CR!BeginCallback(p, s)
      PROVE  AddressInv'
    <2>1. UNCHANGED <<user, address, doomed, clobbered, cut, torn>> /\ pc[p] = "idle"
        BY <1>3 DEF CR!BeginCallback, CR!At, CR!kv
    <2>2. CASE CR!GotoWith(p, "find", [CR!NoRequest EXCEPT !.sub = s, !.via = "provider"])
        BY <1>3, <2>1, <2>2, SameLive, AddressKept
    <2>3. CASE UNCHANGED <<pc, req>>
        BY <1>3, <2>1, <2>3 DEF AddressInv, CR!Live, Creating
    <2> QED
        BY <1>3, <2>2, <2>3 DEF CR!BeginCallback
<1>4. ASSUME AddressInv, UNCHANGED CR!vars PROVE AddressInv'
    BY <1>4 DEF AddressInv, CR!Live, Creating, CR!vars, CR!kv, CR!history
<1>5. ASSUME AddressInv, NEW u \in Users, NEW k \in Passkeys, CR!OpenChallenge(u, k)
      PROVE  AddressInv'
    BY <1>5 DEF CR!OpenChallenge, AddressInv, CR!Live, Creating
<1>6. ASSUME TypeInv, AddressInv, CR!Next PROVE AddressInv'
    BY <1>1, <1>2, <1>3, <1>5, <1>6, NextSteps, OpensAddress, CreateAddress
<1> QED
    BY <1>4, <1>6

LEMMA AddressInit == CR!Init => AddressInv
BY DEF CR!Init, AddressInv, CR!Live, CR!NoUser

(***************************************************************************)
(* A person has at most one account that is created and not being erased,  *)
(* however many callbacks, registrations and erasures overlap, crash or    *)
(* fail. Not counted are records that activate_user put back and those     *)
(* that a crash left inside create_user, and nothing is said once an       *)
(* erasure tore the address from another account.                          *)
(***************************************************************************)
THEOREM PersonHasOneAccount ==
    ASSUME CR!CredentialConstants PROVE CR!Spec => []OneAccountPerPerson
<1>1. AddressInv => OneAccountPerPerson
    BY DEF AddressInv, OneAccountPerPerson, CR!Live
<1> QED
    BY <1>1, TypeInit, TypeNext, AddressInit, AddressNext, PTL DEF CR!Spec

-----------------------------------------------------------------------------
(* The secret of MFA that is on. *)

LEMMA SecretStep ==
    ASSUME TypeInv, CR!Next, NEW u \in Users \ clobbered', user[u].on, user'[u].on, user'[u].secret # user[u].secret
    PROVE  \E p \in Procs : CR!At(p, "setup") /\ req[p].via = "api" /\ req[p].user = u
<1> USE DEF TypeInv, CR!TypeOK
<1>1. user' # user
    OBVIOUS
<1>2. ASSUME NEW p \in Procs, CR!StoreSecret(p)
      PROVE  CR!At(p, "setup") /\ req[p].via = "api" /\ req[p].user = u
    <2>1. /\ CR!At(p, "setup") /\ CR!Modify(p, CR!SetupAllowed(p), [user[req[p].user] EXCEPT !.secret = fresh + 1])
          /\ req[p].via \in {"account", "api"}
        BY <1>2, Known DEF CR!StoreSecret, CR!At, CredentialReqOK
    <2>2. req[p].user = u /\ CR!SetupAllowed(p)
        BY <2>1 DEF CR!Modify
    <2> QED
        BY <2>1, <2>2 DEF CR!SetupAllowed
<1>3. ASSUME NEW p \in Procs,
             CR!EnableMfa(p) \/ CR!DisableMfa(p) \/ CR!PushCredential(p) \/ CR!DropCredential(p)
      PROVE  FALSE
    <2>1. user[u] \in CR!User
        OBVIOUS
    <2>2. CASE CR!EnableMfa(p)
        BY <2>1, <2>2 DEF CR!EnableMfa, CR!Modify, CR!User
    <2>3. CASE CR!DisableMfa(p)
        BY <2>1, <2>3 DEF CR!DisableMfa, CR!Modify, CR!User
    <2>4. CASE CR!PushCredential(p)
        BY <2>1, <2>4 DEF CR!PushCredential, CR!Modify, CR!User
    <2>5. CASE CR!DropCredential(p)
        BY <2>1, <2>5 DEF CR!DropCredential, CR!Modify, CR!User
    <2> QED
        BY <1>3, <2>2, <2>3, <2>4, <2>5
<1>4. ASSUME NEW p \in Procs, CR!RollBack(p) \/ CR!DeleteRecord(p) \/ CR!PutActivated(p) PROVE FALSE
    BY <1>4 DEF CR!RollBack, CR!DeleteRecord, CR!PutActivated, CR!NoUser
<1>5. ASSUME NEW v \in Users, NEW p \in Procs, CR!CreateUser(p, v) PROVE FALSE
    BY <1>5 DEF CR!CreateUser, CR!NewUser, CR!NoUser
<1>6. ASSUME NEW p \in Procs, CredentialSteps(p), ~CR!StoreSecret(p) PROVE FALSE
    BY <1>1, <1>3, <1>4, <1>6
       DEF CredentialSteps, CR!RefuseAttestation, CR!CheckCredential, CR!IndexCredential, CR!UnindexCredential, CR!FindByEmail, CR!HandleRegister, CR!RegistrationClosed,
           CR!ClaimAddress, CR!AdoptUser, CR!LinkNewUser, CR!HookAllows, CR!HookDenies, CR!DeleteSocialIdentity, CR!UnindexAddress, CR!UnindexPasskeys,
           CR!Crash, CR!kv
<1> QED
    BY <1>1, <1>2, <1>5, <1>6, NextSteps
       DEF CR!BeginCallback, Consumes, CR!ConsumePasskeyChallenge, Opens, CR!Start, CR!OpenChallenge, CR!kv

(***************************************************************************)
(* While MFA stays on, no step changes the secret that codes are checked   *)
(* against, but a set-up of the management API.                            *)
(***************************************************************************)
THEOREM EnabledSecretStays ==
    ASSUME CR!CredentialConstants PROVE CR!Spec => EnabledSecretFixed
<1>1. TypeInv /\ [CR!Next]_(CR!vars) =>
        [\A u \in Users \ clobbered' :
            user[u].on /\ user'[u].on /\ user'[u].secret # user[u].secret
            => \E p \in Procs : At(p, "setup") /\ req[p].via = "api" /\ req[p].user = u]_user
    BY SecretStep DEF At, CR!At, CR!vars, CR!kv
<1> QED
    BY <1>1, TypeInit, TypeNext, PTL DEF CR!Spec, EnabledSecretFixed

-----------------------------------------------------------------------------
(* A passkey that was removed stays removed. *)

\* What a record, or a copy of one, of the user u may hold.
Registered(k, u) == ~Virgin(k) /\ challenge[k].user = u

LEMMA KeyStep ==
    ASSUME TypeInv, KeyInv, NEW p \in Procs, NEW l, NEW r, CR!GotoWith(p, l, r),
           UNCHANGED <<challenge, removed>>, clobbered \subseteq clobbered',
           l \in {"check", "push"} => Holds(p, r.key) /\ r.user = req[p].user,
           \A k \in Passkeys : k \in r.seen.keys => Registered(k, r.user),
           l \in {"drop", "unindex"} => Registered(r.key, r.user),
           l = "unindex" => r.user \in clobbered' \/ r.key \notin user'[r.user].keys,
           \A u \in Users, k \in Passkeys :
              k \in user'[u].keys => k \in user[u].keys \/ (u \in clobbered' /\ Registered(k, u)),
           \A q \in Procs : pc[q] = "unindex" => req[q].user \in Users
    PROVE  KeyInv'
<1>1. /\ pc'[p] = l /\ req'[p] = r
      /\ \A q \in Procs \ {p} : pc'[q] = pc[q] /\ req'[q] = req[q]
    BY CredentialMovesOne
<1>2. \A q \in Procs, k \in Passkeys : Holds(q, k)' => Holds(q, k) /\ req'[q].user = req[q].user
    BY <1>1 DEF Holds
<1>3. \A k \in Passkeys : Virgin(k)' => Virgin(k)
    BY <1>2 DEF Virgin
<1>4. \A q \in Procs, k \in Passkeys :
        Removing(q, k)' => Registered(k, req'[q].user)
    BY <1>1 DEF Removing, KeyInv, Registered
<1>5. \A k \in Passkeys : Registered(k, challenge[k].user) => challenge[k].st = "used"
    BY DEF Registered, Virgin
<1>6. \A k \in Passkeys, q, s \in Procs : Holds(q, k)' /\ Holds(s, k)' => q = s
    BY <1>2 DEF KeyInv
<1>7. \A k \in Passkeys, q \in Procs :
        Holds(q, k)' \/ Removing(q, k)' => challenge'[k].st = "used" /\ challenge'[k].user = req'[q].user
    BY <1>2, <1>4, <1>5 DEF KeyInv, Registered
<1>8. \A k \in Passkeys : Virgin(k)' => k \notin removed' /\ \A q \in Procs : ~Removing(q, k)'
    BY <1>3, <1>4 DEF KeyInv, Registered
<1>9. \A k \in Passkeys, u \in Users : k \in user'[u].keys => ~Virgin(k)' /\ challenge'[k].user = u
    BY <1>3 DEF KeyInv, Registered
<1>10. \A k \in Passkeys, q \in Procs : k \in req'[q].seen.keys => ~Virgin(k)' /\ challenge'[k].user = req'[q].user
    BY <1>1, <1>3 DEF KeyInv, Registered
<1>11. \A k \in Passkeys, q \in Procs :
          pc'[q] = "unindex" /\ req'[q].key = k => req'[q].user \in clobbered' \/ k \notin user'[req'[q].user].keys
    BY <1>1 DEF KeyInv
<1>12. RemovedStaysRemoved'
    <2> SUFFICES ASSUME NEW u \in Users \ clobbered', NEW k \in user'[u].keys, k \in removed
                 PROVE  FALSE
        BY DEF RemovedStaysRemoved
    <2>1. k \in Passkeys
        BY DEF TypeInv, CR!TypeOK
    <2> QED
        BY <2>1 DEF KeyInv, RemovedStaysRemoved
<1> QED
    BY <1>6, <1>7, <1>8, <1>9, <1>10, <1>11, <1>12 DEF KeyInv

LEMMA UnindexKnown ==
    ASSUME TypeInv PROVE \A q \in Procs : pc[q] = "unindex" => req[q].user \in Users
BY Known DEF CredentialReqOK

LEMMA FinishKeys ==
    ASSUME TypeInv, KeyInv, NEW p \in Procs, CR!Finish(p), UNCHANGED <<challenge, removed>>, clobbered \subseteq clobbered',
           \A u \in Users, k \in Passkeys :
              k \in user'[u].keys => k \in user[u].keys \/ (u \in clobbered' /\ Registered(k, u))
    PROVE  KeyInv'
<1>1. CR!NoRequest.seen.keys = {}
    BY DEF CR!NoRequest, CR!NoUser
<1> QED
    BY <1>1, UnindexKnown, KeyStep DEF CR!Finish

\* A step of a request that is neither about to register nor to remove a passkey.
LEMMA GotoKeys ==
    ASSUME TypeInv, KeyInv, NEW p \in Procs, NEW l, NEW r, CR!GotoWith(p, l, r),
           l \notin {"check", "push", "drop", "unindex"}, r.seen.keys = {} \/ (r.seen = req[p].seen /\ r.user = req[p].user),
           UNCHANGED <<challenge, removed>>, clobbered \subseteq clobbered',
           \A u \in Users, k \in Passkeys : k \in user'[u].keys => k \in user[u].keys
    PROVE  KeyInv'
<1>1. \A k \in Passkeys : k \in r.seen.keys => Registered(k, r.user)
    BY DEF KeyInv, Registered
<1> QED
    BY <1>1, UnindexKnown, KeyStep

LEMMA SameKeys ==
    ASSUME UNCHANGED user
    PROVE  \A u \in Users, k \in Passkeys : k \in user'[u].keys => k \in user[u].keys
OBVIOUS

LEMMA OpensKeys ==
    ASSUME TypeInv, KeyInv, NEW p \in Procs, NEW u \in Users, NEW l, NEW r, Opens(p, u, l, r)
    PROVE  KeyInv'
<1> DEFINE s == [r EXCEPT !.user = u, !.seen = user[u]]
<1>1. /\ CR!GotoWith(p, l, s) /\ UNCHANGED <<challenge, removed, user, clobbered>> /\ r \in CR!Request
      /\ l \notin {"check", "push", "unindex"}
    BY DEF Opens, CR!Start, CR!kv
<1>2. s.user = u /\ s.seen = user[u] /\ s.key = r.key
    BY <1>1 DEF CR!Request
<1>3. \A k \in Passkeys : k \in user[u].keys => Registered(k, u)
    BY DEF KeyInv, Registered
<1>4. l = "drop" => r.key \in Passkeys /\ r.key \in user[u].keys
    BY DEF Opens
<1> HIDE DEF s
<1> QED
    BY <1>1, <1>2, <1>3, <1>4, UnindexKnown, SameKeys, KeyStep

LEMMA ConsumesKeys ==
    ASSUME TypeInv, KeyInv, NEW p \in Procs, NEW k \in Passkeys, Consumes(p, k) PROVE KeyInv'
<1> DEFINE s == [CR!NoRequest EXCEPT !.user = challenge[k].user, !.key = k]
<1>1. /\ pc[p] = "idle" /\ CR!GotoWith(p, "check", s) /\ challenge[k].st = "open" /\ challenge' = CR!Consumed(k)
      /\ UNCHANGED <<user, removed, clobbered>>
    BY DEF Consumes, CR!ConsumePasskeyChallenge, CR!At
<1>2. s.user = challenge[k].user /\ s.key = k /\ s.seen.keys = {}
    BY DEF CR!NoRequest, CR!NoUser
<1> HIDE DEF s
<1>3. /\ pc'[p] = "check" /\ req'[p] = s
      /\ \A q \in Procs \ {p} : pc'[q] = pc[q] /\ req'[q] = req[q]
    BY <1>1, CredentialMovesOne
<1>4. /\ challenge'[k].st = "used" /\ challenge'[k].user = challenge[k].user
      /\ \A j \in Passkeys : j # k => challenge'[j] = challenge[j]
    BY <1>1 DEF TypeInv, CR!TypeOK, CR!Challenge, CR!Consumed
<1>5. \A q \in Procs, j \in Passkeys : /\ Holds(q, j)' <=> Holds(q, j) \/ (q = p /\ j = k)
                                       /\ Removing(q, j)' <=> Removing(q, j) /\ q # p
    BY <1>1, <1>2, <1>3 DEF Holds, Removing
<1>6. \A q \in Procs : ~Holds(q, k) /\ ~Holds(p, k)
    BY <1>1 DEF KeyInv
<1>7. \A j \in Passkeys : ~Holds(p, j)
    BY <1>1 DEF Holds
<1>8. \A j \in Passkeys : Virgin(j)' <=> Virgin(j)
    BY <1>1, <1>4, <1>5 DEF Virgin
<1>9. \A j \in Passkeys, q, r \in Procs : Holds(q, j)' /\ Holds(r, j)' => q = r
    BY <1>5, <1>6, <1>7 DEF KeyInv
<1>10. \A j \in Passkeys, q \in Procs :
        Holds(q, j)' \/ Removing(q, j)' => challenge'[j].st = "used" /\ challenge'[j].user = req'[q].user
    BY <1>1, <1>2, <1>3, <1>4, <1>5, <1>7 DEF KeyInv
<1>11. \A j \in Passkeys : Virgin(j)' => j \notin removed' /\ \A q \in Procs : ~Removing(q, j)'
    BY <1>1, <1>5, <1>8 DEF KeyInv
<1>12. \A j \in Passkeys, u \in Users : j \in user'[u].keys => ~Virgin(j)' /\ challenge'[j].user = u
    BY <1>1, <1>4, <1>8 DEF KeyInv
<1>13. \A j \in Passkeys, q \in Procs : j \in req'[q].seen.keys => ~Virgin(j)' /\ challenge'[j].user = req'[q].user
    BY <1>2, <1>3, <1>4, <1>8 DEF KeyInv
<1>14. \A j \in Passkeys, q \in Procs :
          pc'[q] = "unindex" /\ req'[q].key = j => req'[q].user \in clobbered' \/ j \notin user'[req'[q].user].keys
    BY <1>1, <1>3 DEF KeyInv
<1>15. RemovedStaysRemoved'
    BY <1>1 DEF KeyInv, RemovedStaysRemoved
<1> QED
    BY <1>9, <1>10, <1>11, <1>12, <1>13, <1>14, <1>15 DEF KeyInv

LEMMA OpenChallengeKeys ==
    ASSUME TypeInv, KeyInv, NEW u \in Users, NEW k \in Passkeys, CR!OpenChallenge(u, k)
    PROVE  KeyInv'
<1>1. /\ UNCHANGED <<user, removed, clobbered, pc, req>> /\ challenge[k].st = "unused"
      /\ challenge' = [challenge EXCEPT ![k] = [st |-> "open", user |-> u]]
    BY DEF CR!OpenChallenge
<1>2. /\ challenge'[k].st # "used"
      /\ \A j \in Passkeys : j # k => challenge'[j] = challenge[j]
    BY <1>1 DEF TypeInv, CR!TypeOK
<1>3. \A q \in Procs, j \in Passkeys : (Holds(q, j)' <=> Holds(q, j)) /\ (Removing(q, j)' <=> Removing(q, j))
    BY <1>1 DEF Holds, Removing
<1>4. \A j \in Passkeys : Virgin(j)' <=> Virgin(j)
    BY <1>1, <1>2, <1>3 DEF Virgin
<1>5. Virgin(k)
    BY <1>1 DEF Virgin
<1>6. \A q \in Procs : ~Holds(q, k) /\ ~Removing(q, k)
    BY <1>1 DEF KeyInv
<1>7. \A j \in Passkeys, q \in Procs :
        Holds(q, j)' \/ Removing(q, j)' => challenge'[j].st = "used" /\ challenge'[j].user = req'[q].user
    BY <1>1, <1>2, <1>3, <1>6 DEF KeyInv
<1>8. \A j \in Passkeys, v \in Users : j \in user'[v].keys => ~Virgin(j)' /\ challenge'[j].user = v
    BY <1>1, <1>2, <1>4, <1>5 DEF KeyInv
<1>9. \A j \in Passkeys, q \in Procs : j \in req'[q].seen.keys => ~Virgin(j)' /\ challenge'[j].user = req'[q].user
    BY <1>1, <1>2, <1>4, <1>5 DEF KeyInv
<1> QED
    BY <1>1, <1>3, <1>4, <1>7, <1>8, <1>9 DEF KeyInv, RemovedStaysRemoved

\* A new record holds no passkey.
LEMMA NewUserKeys ==
    ASSUME TypeInv, NEW u \in Users, user' = [user EXCEPT ![u] = CR!NewUser]
    PROVE  \A v \in Users, k \in Passkeys : k \in user'[v].keys => k \in user[v].keys
BY DEF TypeInv, CR!TypeOK, CR!NewUser, CR!NoUser

LEMMA CreateKeys ==
    ASSUME TypeInv, KeyInv, NEW p \in Procs, NEW u \in Users, CR!CreateUser(p, u)
    PROVE  KeyInv'
<1> DEFINE r == [req[p] EXCEPT !.user = u]
<1>1. /\ UNCHANGED <<challenge, removed, clobbered>> /\ req[p] \in CR!Request /\ req[p].seen.keys = {}
      /\ user' = [user EXCEPT ![u] = CR!NewUser] /\ CR!GotoWith(p, "claim", r)
    BY Known DEF CR!CreateUser, CR!At, CR!history, CredentialReqOK
<1>2. r.seen.keys = {}
    BY <1>1 DEF CR!Request
<1> HIDE DEF r
<1> QED
    BY <1>1, <1>2, NewUserKeys, GotoKeys

LEMMA HandleRegisterKeys ==
    ASSUME TypeInv, KeyInv, NEW p \in Procs, CR!HandleRegister(p) PROVE KeyInv'
<1> DEFINE r == [CR!NoRequest EXCEPT !.via = "form"]
<1>1. UNCHANGED <<user, challenge, removed, clobbered>> /\ CR!GotoWith(p, "create", r)
    BY DEF CR!HandleRegister, CR!kv
<1>2. r.seen.keys = {}
    BY DEF CR!NoRequest, CR!NoUser
<1> HIDE DEF r
<1> QED
    BY <1>1, <1>2, SameKeys, GotoKeys

LEMMA BeginCallbackKeys ==
    ASSUME TypeInv, KeyInv, NEW p \in Procs, NEW s \in Subjects, CR!BeginCallback(p, s)
    PROVE  KeyInv'
<1> DEFINE r == [CR!NoRequest EXCEPT !.sub = s, !.via = "provider"]
<1>1. UNCHANGED <<user, challenge, removed, clobbered>>
    BY DEF CR!BeginCallback, CR!kv
<1>2. r.seen.keys = {}
    BY DEF CR!NoRequest, CR!NoUser
<1>3. CASE CR!GotoWith(p, "find", r)
    <2> HIDE DEF r
    <2> QED
        BY <1>1, <1>2, <1>3, SameKeys, GotoKeys
<1>4. CASE UNCHANGED <<pc, req>>
    BY <1>1, <1>4 DEF KeyInv, Holds, Virgin, Removing, RemovedStaysRemoved
<1> QED
    BY <1>3, <1>4 DEF CR!BeginCallback

LEMMA MfaKeys ==
    ASSUME TypeInv, KeyInv, NEW p \in Procs,
           CR!StoreSecret(p) \/ CR!EnableMfa(p) \/ CR!DisableMfa(p)
    PROVE  KeyInv'
<1> DEFINE u == req[p].user
<1>1. /\ CR!Finish(p) /\ u \in Users /\ UNCHANGED <<challenge, removed, clobbered>>
    BY Known DEF CR!StoreSecret, CR!EnableMfa, CR!DisableMfa, CR!At, CredentialReqOK, CR!history
<1>2. user' = user \/ \E new : new.keys = user[u].keys /\ user' = [user EXCEPT ![u] = new]
    <2>1. user[u] \in CR!User
        BY <1>1, Known DEF CredentialTables
    <2>2. /\ [user[u] EXCEPT !.secret = fresh + 1].keys = user[u].keys
          /\ [user[u] EXCEPT !.on = TRUE, !.codes = fresh + 1].keys = user[u].keys
          /\ [user[u] EXCEPT !.secret = 0, !.on = FALSE, !.codes = 0].keys = user[u].keys
        BY <2>1 DEF CR!User
    <2>3. ASSUME NEW allowed, NEW new, CR!Modify(p, allowed, new), new.keys = user[u].keys
          PROVE  user' = user \/ \E n : n.keys = user[u].keys /\ user' = [user EXCEPT ![u] = n]
        BY <2>3 DEF CR!Modify
    <2> QED
        BY <2>2, <2>3 DEF CR!StoreSecret, CR!EnableMfa, CR!DisableMfa
<1> HIDE DEF u
<1>3. \A v \in Users, k \in Passkeys : k \in user'[v].keys => k \in user[v].keys
    BY <1>1, <1>2 DEF TypeInv, CR!TypeOK
<1> QED
    BY <1>1, <1>3, FinishKeys

LEMMA CheckKeys ==
    ASSUME TypeInv, KeyInv, NEW p \in Procs, CR!RefuseAttestation(p) \/ CR!CheckCredential(p)
    PROVE  KeyInv'
<1>1. pc[p] = "check" /\ UNCHANGED <<user, challenge, removed, clobbered>> /\ (CR!Finish(p) \/ CR!Goto(p, "push"))
    BY DEF CR!RefuseAttestation, CR!CheckCredential, CR!At, CR!kv, CR!history
<1>2. CASE CR!Goto(p, "push")
    <2>1. Holds(p, req[p].key)
        BY <1>1 DEF Holds
    <2>2. \A k \in Passkeys : k \in req[p].seen.keys => Registered(k, req[p].user)
        BY DEF KeyInv, Registered
    <2> QED
        BY <1>1, <1>2, <2>1, <2>2, UnindexKnown, SameKeys, KeyStep DEF CR!Goto
<1> QED
    BY <1>1, <1>2, SameKeys, FinishKeys


LEMMA PushKeys ==
    ASSUME TypeInv, KeyInv, NEW p \in Procs, CR!PushCredential(p) PROVE KeyInv'
<1> DEFINE u == req[p].user
<1>0. PICK k : k = req[p].key
    OBVIOUS
<1>1. /\ u \in Users /\ k \in Passkeys /\ user[u] \in CR!User /\ pc[p] = "push" /\ UNCHANGED <<challenge, removed, clobbered>>
    BY <1>0, Known DEF CR!PushCredential, CR!At, CredentialReqOK, CR!history, CredentialTables
<1>2. CASE ~CR!Live(u)
    BY <1>1, <1>2, SameKeys, FinishKeys DEF CR!PushCredential, CR!Modify
<1>3. CASE CR!Live(u)
    <2>1. user' = [user EXCEPT ![u] = [user[u] EXCEPT !.keys = @ \cup {k}]] /\ CR!GotoWith(p, "index", req[p])
        BY <1>0, <1>3 DEF CR!PushCredential, CR!Modify, CR!Goto
    <2>2. \A v \in Users, j \in Passkeys : j \in user'[v].keys <=> j \in user[v].keys \/ (v = u /\ j = k)
        BY <1>1, <2>1 DEF TypeInv, CR!TypeOK, CR!User
    <2>3. /\ pc'[p] = "index" /\ req'[p] = req[p]
          /\ \A q \in Procs \ {p} : pc'[q] = pc[q] /\ req'[q] = req[q]
        BY <2>1, CredentialMovesOne
    <2>4. Holds(p, k) /\ challenge[k].st = "used" /\ challenge[k].user = u
        BY <1>0, <1>1 DEF Holds, KeyInv
    <2>5. Virgin(k) /\ k \notin removed /\ \A q \in Procs : ~Removing(q, k)
        BY <1>1, <2>4 DEF Virgin, KeyInv
    <2>6. \A q \in Procs, j \in Passkeys :
            (Holds(q, j)' <=> Holds(q, j) /\ q # p) /\ (Removing(q, j)' <=> Removing(q, j))
        BY <1>1, <2>3 DEF Holds, Removing
    <2>7. \A j \in Passkeys : Holds(p, j) => j = k
        BY <1>0 DEF Holds
    <2> HIDE DEF u
    <2>18. \A q \in Procs : ~Holds(q, k)'
        BY <1>1, <2>4, <2>6 DEF KeyInv
    <2>8. ASSUME NEW j \in Passkeys PROVE Virgin(j)' <=> Virgin(j) /\ j # k
        <3>1. challenge' = challenge
            BY <1>1
        <3>2. CASE j = k
            BY <2>4, <2>18, <3>1, <3>2 DEF Virgin
        <3>3. CASE j # k
            <4>1. \A q \in Procs : Holds(q, j)' <=> Holds(q, j)
                BY <2>6, <2>7, <3>3
            <4> QED
                BY <3>1, <3>3, <4>1 DEF Virgin
        <3> QED
            BY <3>2, <3>3
    <2>9. \A j \in Passkeys, q, s \in Procs : Holds(q, j)' /\ Holds(s, j)' => q = s
        BY <2>6 DEF KeyInv
    <2>10. \A j \in Passkeys, q \in Procs :
            Holds(q, j)' \/ Removing(q, j)' => challenge'[j].st = "used" /\ challenge'[j].user = req'[q].user
        BY <1>1, <2>3, <2>6 DEF KeyInv
    <2>11. \A j \in Passkeys : Virgin(j)' => j \notin removed' /\ \A q \in Procs : ~Removing(q, j)'
        BY <1>1, <2>6, <2>8 DEF KeyInv
    <2>12. \A j \in Passkeys, v \in Users : j \in user'[v].keys => ~Virgin(j)' /\ challenge'[j].user = v
        BY <1>1, <2>2, <2>4, <2>8 DEF KeyInv
    <2>13. \A j \in Passkeys, q \in Procs : j \in req'[q].seen.keys => ~Virgin(j)' /\ challenge'[j].user = req'[q].user
        BY <1>1, <2>3, <2>8 DEF KeyInv
    <2>14. \A j \in Passkeys, q \in Procs :
            pc'[q] = "unindex" /\ req'[q].key = j => req'[q].user \in clobbered' \/ j \notin user'[req'[q].user].keys
        <3>1. ASSUME NEW q \in Procs, pc'[q] = "unindex"
              PROVE  pc[q] = "unindex" /\ req'[q] = req[q] /\ req[q].key # k
            BY <1>1, <2>3, <2>5, <3>1 DEF Removing
        <3> QED
            BY <1>1, <2>2, <3>1, UnindexKnown DEF KeyInv
    <2>15. RemovedStaysRemoved'
        <3> SUFFICES ASSUME NEW v \in Users \ clobbered', NEW j \in user'[v].keys, j \in removed
                     PROVE  FALSE
            BY <1>1 DEF RemovedStaysRemoved
        <3>1. j \in Passkeys
            BY DEF TypeInv, CR!TypeOK
        <3> QED
            BY <1>1, <2>2, <2>5, <3>1 DEF KeyInv, RemovedStaysRemoved
    <2> QED
        BY <2>9, <2>10, <2>11, <2>12, <2>13, <2>14, <2>15 DEF KeyInv
<1> QED
    BY <1>2, <1>3

LEMMA DropKeys ==
    ASSUME TypeInv, KeyInv, NEW p \in Procs, CR!DropCredential(p) PROVE KeyInv'
<1> DEFINE u == req[p].user  k == req[p].key
<1>1. /\ u \in Users /\ k \in Passkeys /\ user[u] \in CR!User /\ pc[p] = "drop" /\ UNCHANGED <<challenge, removed, clobbered>>
    BY Known DEF CR!DropCredential, CR!At, CredentialReqOK, CR!history, CredentialTables
<1>2. CASE ~CR!Live(u)
    BY <1>1, <1>2, SameKeys, FinishKeys DEF CR!DropCredential, CR!Modify
<1>3. CASE CR!Live(u)
    <2>1. user' = [user EXCEPT ![u] = [user[u] EXCEPT !.keys = @ \ {k}]] /\ CR!GotoWith(p, "unindex", req[p])
        BY <1>3 DEF CR!DropCredential, CR!Modify, CR!Goto
    <2>2. \A v \in Users, j \in Passkeys : j \in user'[v].keys <=> j \in user[v].keys /\ ~(v = u /\ j = k)
        BY <1>1, <2>1 DEF TypeInv, CR!TypeOK, CR!User
    <2>3. Removing(p, k)
        BY <1>1 DEF Removing
    <2>4. Registered(k, u)
        BY <1>1, <2>3 DEF KeyInv, Registered
    <2>5. \A j \in Passkeys : j \in req[p].seen.keys => Registered(j, u)
        BY DEF KeyInv, Registered
    <2> QED
        BY <1>1, <2>1, <2>2, <2>4, <2>5, UnindexKnown, KeyStep
<1> QED
    BY <1>2, <1>3

LEMMA UnindexKeys ==
    ASSUME TypeInv, KeyInv, NEW p \in Procs, CR!UnindexCredential(p) PROVE KeyInv'
<1> DEFINE u == req[p].user
<1>0. PICK k : k = req[p].key
    OBVIOUS
<1>1. /\ u \in Users /\ k \in Passkeys /\ pc[p] = "unindex" /\ UNCHANGED <<challenge, user, clobbered>>
      /\ CR!GotoWith(p, "idle", CR!NoRequest) /\ removed' = removed \cup {k}
    BY <1>0, Known DEF CR!UnindexCredential, CR!At, CredentialReqOK, CR!Finish
<1>2. Removing(p, k)
    BY <1>0, <1>1 DEF Removing
<1>3. ~Virgin(k) /\ challenge[k].user = u /\ (u \in clobbered \/ k \notin user[u].keys)
    BY <1>0, <1>1, <1>2 DEF KeyInv
<1>4. \A v \in Users \ clobbered : k \notin user[v].keys
    BY <1>1, <1>3 DEF KeyInv
<1>5. CR!NoRequest.seen.keys = {}
    BY DEF CR!NoRequest, CR!NoUser
<1>6. /\ pc'[p] = "idle" /\ req'[p] = CR!NoRequest
      /\ \A q \in Procs \ {p} : pc'[q] = pc[q] /\ req'[q] = req[q]
    BY <1>1, CredentialMovesOne
<1>7. \A q \in Procs, j \in Passkeys :
        (Holds(q, j)' <=> Holds(q, j)) /\ (Removing(q, j)' <=> Removing(q, j) /\ q # p)
    BY <1>1, <1>6 DEF Holds, Removing
<1>8. \A j \in Passkeys : Virgin(j)' <=> Virgin(j)
    BY <1>1, <1>7 DEF Virgin
<1> HIDE DEF u
<1>9. \A j \in Passkeys, q \in Procs :
        Holds(q, j)' \/ Removing(q, j)' => challenge'[j].st = "used" /\ challenge'[j].user = req'[q].user
    <2>1. ASSUME NEW j \in Passkeys, NEW q \in Procs, Holds(q, j)' PROVE q # p
        BY <1>6, <2>1 DEF Holds
    <2> QED
        BY <1>1, <1>6, <1>7, <2>1 DEF KeyInv
<1>10. \A j \in Passkeys : Virgin(j)' => j \notin removed' /\ \A q \in Procs : ~Removing(q, j)'
    BY <1>1, <1>3, <1>7, <1>8 DEF KeyInv
<1>11. \A j \in Passkeys, q \in Procs : j \in req'[q].seen.keys => ~Virgin(j)' /\ challenge'[j].user = req'[q].user
    BY <1>1, <1>5, <1>6, <1>8 DEF KeyInv
<1>12. \A j \in Passkeys, q \in Procs :
          pc'[q] = "unindex" /\ req'[q].key = j => req'[q].user \in clobbered' \/ j \notin user'[req'[q].user].keys
    BY <1>1, <1>6 DEF KeyInv
<1>13. RemovedStaysRemoved'
    BY <1>1, <1>4 DEF KeyInv, RemovedStaysRemoved
<1>14. \A j \in Passkeys, v \in Users : j \in user'[v].keys => ~Virgin(j)' /\ challenge'[j].user = v
    BY <1>1, <1>8 DEF KeyInv
<1>15. \A j \in Passkeys, q, s \in Procs : Holds(q, j)' /\ Holds(s, j)' => q = s
    BY <1>7 DEF KeyInv
<1> QED
    BY <1>9, <1>10, <1>11, <1>12, <1>13, <1>14, <1>15 DEF KeyInv

\* Steps that end a request or go on with it, and leave every record's passkeys alone.
LEMMA QuietKeys ==
    ASSUME TypeInv, KeyInv, NEW p \in Procs,
           \/ CR!IndexCredential(p) \/ CR!RegistrationClosed(p) \/ CR!ClaimAddress(p) \/ CR!AdoptUser(p) \/ CR!LinkNewUser(p) \/ CR!HookAllows(p)
           \/ CR!DeleteSocialIdentity(p) \/ CR!UnindexAddress(p) \/ CR!UnindexPasskeys(p) \/ CR!Crash(p)
    PROVE  KeyInv'
<1>1. /\ UNCHANGED <<user, challenge, removed, clobbered>>
      /\ CR!Finish(p) \/ \E l \in {"link", "hooks", "rollback", "unkey", "bury"} : CR!Goto(p, l)
    BY DEF CR!IndexCredential, CR!RegistrationClosed, CR!ClaimAddress, CR!AdoptUser, CR!LinkNewUser, CR!HookAllows,
       CR!DeleteSocialIdentity,
           CR!UnindexAddress, CR!UnindexPasskeys, CR!Crash, CR!kv, CR!history
<1>2. ASSUME NEW l \in {"link", "hooks", "rollback", "unkey", "bury"}, CR!Goto(p, l) PROVE KeyInv'
    BY <1>1, <1>2, SameKeys, GotoKeys DEF CR!Goto
<1> QED
    BY <1>1, <1>2, SameKeys, FinishKeys

LEMMA FindKeys ==
    ASSUME TypeInv, KeyInv, NEW p \in Procs, CR!FindByEmail(p) PROVE KeyInv'
<1> DEFINE r == [req[p] EXCEPT !.user = address]
<1>1. UNCHANGED <<user, challenge, removed, clobbered>> /\ req[p] \in CR!Request /\ req[p].seen.keys = {}
    BY Known DEF CR!FindByEmail, CR!At, CredentialReqOK, CR!kv, CR!history
<1>2. r.seen.keys = {}
    BY <1>1 DEF CR!Request
<1>3. CR!GotoWith(p, "adopt", r) \/ CR!GotoWith(p, "create", req[p])
    BY DEF CR!FindByEmail, CR!Goto
<1> HIDE DEF r
<1> QED
    BY <1>1, <1>2, <1>3, SameKeys, GotoKeys

LEMMA HookDeniesKeys ==
    ASSUME TypeInv, KeyInv, NEW p \in Procs, CR!HookDenies(p) PROVE KeyInv'
<1> DEFINE u == req[p].user  r == [req[p] EXCEPT !.seen = user[u]]
<1>1. UNCHANGED <<user, challenge, removed, clobbered>> /\ req[p] \in CR!Request /\ u \in Users
    BY Known DEF CR!HookDenies, CR!At, CredentialReqOK, CR!kv
<1>2. r.seen = user[u] /\ r.user = u
    BY <1>1 DEF CR!Request
<1>3. \A k \in Passkeys : k \in r.seen.keys => Registered(k, r.user)
    BY <1>1, <1>2 DEF KeyInv, Registered
<1>4. CR!GotoWith(p, "erase", r) \/ CR!GotoWith(p, "unlink", req[p]) \/ CR!Finish(p)
    BY DEF CR!HookDenies, CR!Unlink, CR!Goto
<1>5. CASE CR!GotoWith(p, "erase", r)
    <2> HIDE DEF r, u
    <2> QED
        BY <1>1, <1>3, <1>5, UnindexKnown, SameKeys, KeyStep
<1>6. CASE CR!GotoWith(p, "unlink", req[p])
    BY <1>1, <1>6, SameKeys, GotoKeys
<1>7. CASE CR!Finish(p)
    BY <1>1, <1>7, SameKeys, FinishKeys
<1> QED
    BY <1>4, <1>5, <1>6, <1>7

LEMMA BuryKeys ==
    ASSUME TypeInv, KeyInv, NEW p \in Procs, CR!DeleteRecord(p) \/ CR!RollBack(p) PROVE KeyInv'
<1>1. /\ UNCHANGED <<challenge, removed, clobbered>> /\ req[p].user \in Users
      /\ user' = [user EXCEPT ![req[p].user] = [CR!NoUser EXCEPT !.st = "erased"]]
    BY Known DEF CR!DeleteRecord, CR!RollBack, CR!At, CredentialReqOK, CR!history
<1>2. [CR!NoUser EXCEPT !.st = "erased"].keys = {}
    BY DEF CR!NoUser
<1>3. \A v \in Users, k \in Passkeys : k \in user'[v].keys => k \in user[v].keys
    BY <1>1, <1>2 DEF TypeInv, CR!TypeOK
<1>4. CASE CR!Goto(p, "unlink")
    BY <1>1, <1>3, <1>4, GotoKeys DEF CR!Goto
<1>5. CASE CR!Finish(p)
    BY <1>1, <1>3, <1>5, FinishKeys
<1> QED
    BY <1>4, <1>5 DEF CR!DeleteRecord, CR!Unlink, CR!RollBack

\* What activate_user puts back, it read: its passkeys are registered, and if the record changed
\* since, the user is clobbered.
LEMMA PutKeys ==
    ASSUME TypeInv, KeyInv, NEW p \in Procs, CR!PutActivated(p) PROVE KeyInv'
<1> DEFINE u == req[p].user
<1>1. /\ UNCHANGED <<challenge, removed>> /\ u \in Users /\ CR!Finish(p)
      /\ user' = [user EXCEPT ![u] = req[p].seen]
      /\ clobbered' = IF user[u] = req[p].seen THEN clobbered ELSE clobbered \cup {u}
    BY Known DEF CR!PutActivated, CR!At, CredentialReqOK
<1>2. \A k \in Passkeys : k \in req[p].seen.keys => Registered(k, u)
    BY DEF KeyInv, Registered
<1>3. \A v \in Users, k \in Passkeys :
        k \in user'[v].keys => k \in user[v].keys \/ (v \in clobbered' /\ Registered(k, v))
    BY <1>1, <1>2 DEF TypeInv, CR!TypeOK
<1> HIDE DEF u
<1>4. clobbered \subseteq clobbered'
    BY <1>1
<1> QED
    BY <1>1, <1>3, <1>4, FinishKeys

LEMMA KeyNext == TypeInv /\ KeyInv /\ [CR!Next]_(CR!vars) => KeyInv'
<1>1. ASSUME TypeInv, KeyInv, NEW p \in Procs, CredentialSteps(p) PROVE KeyInv'
    BY <1>1, MfaKeys, CheckKeys, PushKeys, DropKeys, UnindexKeys, QuietKeys, FindKeys, HandleRegisterKeys,
       HookDeniesKeys, BuryKeys, PutKeys
       DEF CredentialSteps
<1>2. ASSUME KeyInv, UNCHANGED CR!vars PROVE KeyInv'
    BY <1>2 DEF KeyInv, Holds, Virgin, Removing, RemovedStaysRemoved, CR!vars, CR!kv, CR!history
<1>3. ASSUME TypeInv, KeyInv, CR!Next PROVE KeyInv'
    BY <1>1, <1>3, NextSteps, OpensKeys, ConsumesKeys, BeginCallbackKeys, CreateKeys,
       OpenChallengeKeys
<1> QED
    BY <1>2, <1>3

LEMMA KeyInit == CR!Init => KeyInv
<1> SUFFICES ASSUME CR!Init PROVE KeyInv
    OBVIOUS
<1>1. \A p \in Procs, k \in Passkeys : ~Holds(p, k) /\ ~Removing(p, k) /\ Virgin(k)
    BY DEF CR!Init, Holds, Removing, Virgin
<1>2. (\A p \in Procs : req[p].seen.keys = {} /\ pc[p] = "idle") /\ \A u \in Users : user[u].keys = {}
    BY DEF CR!Init, CR!NoRequest, CR!NoUser
<1> QED
    BY <1>1, <1>2 DEF KeyInv, CR!Init, RemovedStaysRemoved

(***************************************************************************)
(* A passkey whose removal was answered is on no record again, unless      *)
(* activate_user put back one it read before: every passkey is registered  *)
(* once, because the challenge is consumed, for the user who opened it,    *)
(* and what any request still holds of it was registered before.           *)
(***************************************************************************)
THEOREM RemovedPasskeyStaysRemoved ==
    ASSUME CR!CredentialConstants PROVE CR!Spec => []RemovedStaysRemoved
<1>1. KeyInv => RemovedStaysRemoved
    BY DEF KeyInv
<1> QED
    BY <1>1, TypeInit, TypeNext, KeyInit, KeyNext, PTL DEF CR!Spec
=============================================================================
