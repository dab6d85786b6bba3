------------------------------- MODULE Saml ---------------------------------
(***************************************************************************)
(* The SAML identity provider: service providers (saml_sp:{id}), the       *)
(* signing-key ring (saml:key-v{n} and saml:key-ring-pointer-v{n}, both    *)
(* only ever created) with its rotation lock (a key with a TTL),           *)
(* authentication requests, their reservations and login flows, and the    *)
(* responses that are signed (saml/mod.rs, saml/keys.rs, services/saml.rs, *)
(* login.rs, store.rs).                                                    *)
(*                                                                         *)
(* Every service provider of the model has the same entity id, so that the *)
(* records contend for it. A request in flight is a process p, each write  *)
(* to the store is one step, and a process may die before any step.        *)
(***************************************************************************)
EXTENDS Requests, Naturals, FiniteSets

CONSTANTS
    Sps, AuthnRequests, Sessions, None,
    FirstSp,        \* the service provider that is registered at the start
    IssueInstant,   \* when the service provider issued each of AuthnRequests
    MaxAge,         \* AuthnRequestAgePolicy, also TTL_AUTH_SESSION: 600 s
    LockTTL,        \* lifetime of saml:rotation-lock: 60 s
    KeyGrace,       \* KEY_GRACE_SECS
    MaxTime,        \* bound: the clock
    MaxRequests,    \* bound: requests
    MaxCrashes      \* bound: handlers that die

\* A request makes one version at most.
Versions == 1..MaxRequests + 1

ASSUME SamlAssumption ==
    /\ None \notin Procs \cup Sps \cup Sessions \cup AuthnRequests
    /\ FirstSp \in Sps /\ IssueInstant \in [AuthnRequests -> Nat]
    /\ {LockTTL, KeyGrace, MaxTime, MaxRequests, MaxCrashes} \subseteq Nat /\ MaxAge \in Nat \ {0}

VARIABLES
    now,
    sp,         \* saml_sp:{id}
    key,        \* saml:key-v{n}: None, or who generated the key
    pointer,    \* saml:key-ring-pointer-v{n}
    lock,       \* saml:rotation-lock: the time it lapses, 0 when it is free
    reserved,   \* saml_request:{sp}:{hash}: the time the reservation lapses
    session,    \* sess:{id} and saml_flow:{id} of a SAML login
    requests, crashes,
    answered,   \* responses sent, per service provider and request
    late,       \* history: requests reserved a second time at or after the age at which they are refused
    orphaned    \* history: versions whose writer died between key and pointer

vars == <<now, sp, key, pointer, lock, reserved, session, pc, req, requests, crashes, answered, late, orphaned>>

NoPointer == [made |-> FALSE, previous |-> 0, grace |-> 0]
NoSession == [st |-> "unused", sp |-> None, authn |-> None, created |-> 0]
NoRing == [version |-> 0, key |-> None]
\* route: what is under way; then: what to do with the key ring; value: what is written to the service provider.
NoRequest ==
    [route |-> "none", then |-> "none", sp |-> None, authn |-> None, session |-> None, ring |-> NoRing, value |-> "none"]
Routes == {"none", "sso", "login", "resume", "rotate", "metadata", "admin"}
Labels == {"idle", "ring", "init", "initpointer", "reread", "receive", "reserve", "hooks", "save", "sign",
           "consume", "resume", "lock", "key", "pointer", "release", "publish", "put", "delete"}
SpStates == {"unused", "enabled", "disabled", "deleted"}
Registered(s) == sp[s] \in {"enabled", "disabled"}

TypeOK ==
    /\ now \in 0..MaxTime /\ sp \in [Sps -> SpStates]
    /\ key \in [Versions -> Procs \cup {None}]
    /\ pointer \in [Versions -> [made: BOOLEAN, previous: 0..MaxRequests, grace: Nat]]
    /\ lock \in Nat /\ reserved \in [Sps \X AuthnRequests -> Nat]
    /\ session \in [Sessions -> [st: {"unused", "open", "claimed", "gone"}, sp: Sps \cup {None},
                                 authn: AuthnRequests \cup {None}, created: 0..MaxTime]]
    /\ pc \in [Procs -> Labels] /\ \A p \in Procs : req[p].route \in Routes
    /\ requests \in 0..MaxRequests /\ crashes \in 0..MaxCrashes
    /\ answered \in [Sps \X AuthnRequests -> Nat]
    /\ late \subseteq Sps \X AuthnRequests /\ orphaned \subseteq Nat

Init ==
    /\ now = 0 /\ sp = [s \in Sps |-> IF s = FirstSp THEN "enabled" ELSE "unused"]
    /\ key = [v \in Versions |-> None] /\ pointer = [v \in Versions |-> NoPointer]
    /\ lock = 0 /\ reserved = [x \in Sps \X AuthnRequests |-> 0]
    /\ session = [s \in Sessions |-> NoSession]
    /\ pc = [p \in Procs |-> "idle"] /\ req = [p \in Procs |-> NoRequest]
    /\ requests = 0 /\ crashes = 0 /\ answered = [x \in Sps \X AuthnRequests |-> 0]
    /\ late = {} /\ orphaned = {}

Finish(p) == GotoWith(p, "idle", NoRequest)
Start(p, label, r) == At(p, "idle") /\ requests < MaxRequests /\ requests' = requests + 1 /\ GotoWith(p, label, r)

(***************************************************************************)
(* The key ring: the pointer with the highest version names the current    *)
(* key. Reading it is one step, as none of its records is ever changed.    *)
(***************************************************************************)
Pointers == {v \in Versions : pointer[v].made}
Newest == CHOOSE v \in Pointers : \A w \in Pointers : w <= v
Ring == [version |-> Newest, key |-> key[Newest]]
\* rotate_key_ring lets its lock go whatever happened before.
Fail(p) == IF req[p].route = "rotate" THEN Goto(p, "release") ELSE Finish(p)
UseRing(p) ==
    IF key[Newest] = None THEN Fail(p) ELSE GotoWith(p, req[p].then, [req[p] EXCEPT !.ring = Ring])

ReadRing(p) ==
    /\ At(p, "ring")
    /\ IF Pointers = {} THEN Goto(p, "init") ELSE UseRing(p)
    /\ UNCHANGED <<now, sp, key, pointer, lock, reserved, session, requests, crashes, answered, late, orphaned>>

\* Mutant: the key is put whether its version exists or not.
Vacant_Overwrite(v) == TRUE

\* kv_create_raw of saml:key-v{n}.
Vacant(v) == key[v] = None

InitKey(p) ==
    /\ At(p, "init")
    /\ IF Vacant(1)
       THEN key' = [key EXCEPT ![1] = p] /\ Goto(p, "initpointer")
       ELSE Goto(p, "reread") /\ UNCHANGED key
    /\ UNCHANGED <<now, sp, pointer, lock, reserved, session, requests, crashes, answered, late, orphaned>>

InitPointer(p) ==
    /\ At(p, "initpointer")
    /\ pointer' = [pointer EXCEPT ![1] = [NoPointer EXCEPT !.made = TRUE]]
    /\ GotoWith(p, req[p].then, [req[p] EXCEPT !.ring = [version |-> 1, key |-> p]])
    /\ UNCHANGED <<now, sp, key, lock, reserved, session, requests, crashes, answered, late, orphaned>>

\* The key was there and its pointer is not: the ring disappeared during initialization.
RereadRing(p) ==
    /\ At(p, "reread")
    /\ IF Pointers = {} THEN Fail(p) ELSE UseRing(p)
    /\ UNCHANGED <<now, sp, key, pointer, lock, reserved, session, requests, crashes, answered, late, orphaned>>

\* GET /saml/metadata: the current certificate, and the previous one until its grace is over.
BeginMetadata(p) ==
    /\ Start(p, "ring", [NoRequest EXCEPT !.route = "metadata", !.then = "publish"])
    /\ UNCHANGED <<now, sp, key, pointer, lock, reserved, session, crashes, answered, late, orphaned>>
Published ==
    IF Pointers = {} THEN {}
    ELSE {key[Newest]} \cup (IF now < pointer[Newest].grace THEN {key[pointer[Newest].previous]} ELSE {})
Publish(p) ==
    /\ At(p, "publish") /\ Finish(p)
    /\ UNCHANGED <<now, sp, key, pointer, lock, reserved, session, requests, crashes, answered, late, orphaned>>

(***************************************************************************)
(* Rotation.                                                               *)
(***************************************************************************)
BeginRotate(p) ==
    /\ Start(p, "lock", [NoRequest EXCEPT !.route = "rotate", !.then = "key"])
    /\ UNCHANGED <<now, sp, key, pointer, lock, reserved, session, crashes, answered, late, orphaned>>
RotateSamlKey(p) == BeginRotate(p)
RotateKeyInPanel(p) == BeginRotate(p)

\* Mutant: the lock is created without a lifetime.
LockUntil_Forever == MaxTime + 1

LockUntil == now + LockTTL

LockFree == lock <= now
AcquireLock(p) ==
    /\ At(p, "lock")
    /\ IF LockFree
       THEN lock' = LockUntil /\ Goto(p, "ring")
       ELSE Finish(p) /\ UNCHANGED lock
    /\ UNCHANGED <<now, sp, key, pointer, reserved, session, requests, crashes, answered, late, orphaned>>

\* Mutant: the pointer is created before the key.
SaveKey_PointerFirst(p) ==
    LET v == req[p].ring.version + 1 IN
    /\ At(p, "key")
    /\ IF ~pointer[v].made
       THEN pointer' = [pointer EXCEPT ![v] = [made |-> TRUE, previous |-> v - 1, grace |-> now + KeyGrace]] /\ Goto(p, "pointer")
       ELSE Goto(p, "release") /\ UNCHANGED pointer
    /\ UNCHANGED <<now, sp, key, lock, reserved, session, requests, crashes, answered, late, orphaned>>

SaveKey(p) ==
    LET v == req[p].ring.version + 1 IN
    /\ At(p, "key")
    /\ IF Vacant(v)
       THEN key' = [key EXCEPT ![v] = p] /\ Goto(p, "pointer")
       ELSE Goto(p, "release") /\ UNCHANGED key
    /\ UNCHANGED <<now, sp, pointer, lock, reserved, session, requests, crashes, answered, late, orphaned>>
SavePointer(p) ==
    LET v == req[p].ring.version + 1 IN
    /\ At(p, "pointer")
    /\ pointer' = [pointer EXCEPT ![v] = [made |-> TRUE, previous |-> v - 1, grace |-> now + KeyGrace]]
    /\ Goto(p, "release")
    /\ UNCHANGED <<now, sp, key, lock, reserved, session, requests, crashes, answered, late, orphaned>>

\* Whoever holds it by now.
ReleaseLock(p) ==
    /\ At(p, "release")
    /\ lock' = 0 /\ Finish(p)
    /\ UNCHANGED <<now, sp, key, pointer, reserved, session, requests, crashes, answered, late, orphaned>>
(***************************************************************************)
(* Single sign-on. start tries the enabled service providers of its list;  *)
(* the library checks the age of the request.                              *)
(***************************************************************************)
BeginSso(p, s, a) ==
    /\ sp[s] = "enabled" /\ IssueInstant[a] <= now
    /\ Start(p, "ring", [NoRequest EXCEPT !.route = "sso", !.then = "receive", !.sp = s, !.authn = a])
    /\ UNCHANGED <<now, sp, key, pointer, lock, reserved, session, crashes, answered, late, orphaned>>

\* validation(): an old request is refused.
Fresh(a) == now <= IssueInstant[a] + MaxAge

ReceiveRequest(p) ==
    LET r == req[p] IN
    /\ At(p, "receive")
    /\ \/ ~Fresh(r.authn) /\ Finish(p)
       \/ Fresh(r.authn) /\ r.route = "sso" /\ Goto(p, "reserve")      \* the browser has a session
       \/ /\ Fresh(r.authn) /\ r.route = "sso"                         \* or has none, or ForceAuthn
          /\ GotoWith(p, "reserve", [r EXCEPT !.route = "login"])
       \/ /\ Fresh(r.authn) /\ r.route = "resume"
          /\ GotoWith(p, "ring", [r EXCEPT !.then = "sign"])
    /\ UNCHANGED <<now, sp, key, pointer, lock, reserved, session, requests, crashes, answered, late, orphaned>>
\* IsPassive, and the user would have to sign in.
RefusePassive(p) ==
    /\ At(p, "receive") /\ req[p].route = "sso" /\ Finish(p)
    /\ UNCHANGED <<now, sp, key, pointer, lock, reserved, session, requests, crashes, answered, late, orphaned>>

\* Mutant: the reservation lapses before the request is too old.
ReservedUntil_Short == now + MaxAge - 1

ReservedUntil == now + MaxAge

\* The handler checked the request's age some time ago, and the first reservation has lapsed since.
Late(x) == reserved[x] # 0 /\ now >= IssueInstant[x[2]] + MaxAge

Reserve(p) ==
    LET x == <<req[p].sp, req[p].authn>> IN
    /\ At(p, "reserve")
    /\ IF reserved[x] > now
       THEN Finish(p) /\ UNCHANGED <<reserved, late>>
       ELSE /\ reserved' = [reserved EXCEPT ![x] = ReservedUntil]
            /\ late' = IF Late(x) THEN late \cup {x} ELSE late
            /\ Goto(p, IF req[p].route = "sso" THEN "hooks" ELSE "save")
    /\ UNCHANGED <<now, sp, key, pointer, lock, session, requests, crashes, answered, orphaned>>

\* post-login hooks; a denial ends the request.
RunHooks(p) ==
    /\ At(p, "hooks")
    /\ GotoWith(p, "ring", [req[p] EXCEPT !.then = "sign"]) \/ Finish(p)
    /\ UNCHANGED <<now, sp, key, pointer, lock, reserved, session, requests, crashes, answered, late, orphaned>>

\* save_auth_session, then save_saml_flow; nobody knows the session's id before both.
SaveFlow(p, s) ==
    /\ At(p, "save") /\ session[s].st = "unused"
    /\ session' = [session EXCEPT ![s] = [st |-> "open", sp |-> req[p].sp, authn |-> req[p].authn, created |-> now]]
    /\ Finish(p)
    /\ UNCHANGED <<now, sp, key, pointer, lock, reserved, requests, crashes, answered, late, orphaned>>

(***************************************************************************)
(* A login ends: complete_login_with_amr consumes the authentication       *)
(* session, complete_after_login the flow.                                 *)
(***************************************************************************)
Alive(s) == now <= session[s].created + MaxAge
ConsumeAuthSession(p, s) ==
    /\ session[s].st = "open" /\ Alive(s)
    /\ Start(p, "consume", [NoRequest EXCEPT !.route = "resume", !.then = "receive", !.session = s])
    /\ session' = [session EXCEPT ![s].st = "claimed"]
    /\ UNCHANGED <<now, sp, key, pointer, lock, reserved, crashes, answered, late, orphaned>>
ConsumeFlow(p) ==
    LET s == req[p].session IN
    /\ At(p, "consume")
    /\ IF session[s].st = "claimed" /\ Alive(s)
       THEN /\ session' = [session EXCEPT ![s].st = "gone"]
            /\ GotoWith(p, "resume", [req[p] EXCEPT !.sp = session[s].sp, !.authn = session[s].authn])
       ELSE Finish(p) /\ UNCHANGED session
    /\ UNCHANGED <<now, sp, key, pointer, lock, reserved, requests, crashes, answered, late, orphaned>>
\* The service provider is looked up again.
ResumeFlow(p) ==
    /\ At(p, "resume")
    /\ IF sp[req[p].sp] = "enabled" /\ Alive(req[p].session) THEN Goto(p, "ring") ELSE Finish(p)
    /\ UNCHANGED <<now, sp, key, pointer, lock, reserved, session, requests, crashes, answered, late, orphaned>>

IssueResponse(p) ==
    /\ At(p, "sign")
    /\ answered' = [answered EXCEPT ![<<req[p].sp, req[p].authn>>] = @ + 1]
    /\ Finish(p)
    /\ UNCHANGED <<now, sp, key, pointer, lock, reserved, session, requests, crashes, late, orphaned>>
\* The account is not active, or the ACS URL is not registered.
RefuseResponse(p) ==
    /\ At(p, "sign") /\ Finish(p)
    /\ UNCHANGED <<now, sp, key, pointer, lock, reserved, session, requests, crashes, answered, late, orphaned>>

(***************************************************************************)
(* Service providers, from the management API and the admin panel: read,   *)
(* then put or deleted.                                                    *)
(***************************************************************************)
BeginCreateSp(p, s) ==
    /\ sp[s] = "unused" /\ \A t \in Sps : ~Registered(t)
    /\ Start(p, "put", [NoRequest EXCEPT !.route = "admin", !.sp = s, !.value = "enabled"])
    /\ UNCHANGED <<now, sp, key, pointer, lock, reserved, session, crashes, answered, late, orphaned>>
CreateSp(p, s) == BeginCreateSp(p, s)
CreateSpInPanel(p, s) == BeginCreateSp(p, s)
BeginUpdateSp(p, s) ==
    /\ Registered(s)
    /\ \E v \in {"enabled", "disabled"} :
           Start(p, "put", [NoRequest EXCEPT !.route = "admin", !.sp = s, !.value = v])
    /\ UNCHANGED <<now, sp, key, pointer, lock, reserved, session, crashes, answered, late, orphaned>>
BeginDeleteSp(p, s) ==
    /\ Registered(s)
    /\ Start(p, "delete", [NoRequest EXCEPT !.route = "admin", !.sp = s])
    /\ UNCHANGED <<now, sp, key, pointer, lock, reserved, session, crashes, answered, late, orphaned>>
RemoveSp(p, s) == BeginDeleteSp(p, s)
RemoveSpInPanel(p, s) == BeginDeleteSp(p, s)
\* The admin panel's form leaves the state as it read it.
BeginEditSp(p, s) ==
    /\ Registered(s)
    /\ Start(p, "put", [NoRequest EXCEPT !.route = "admin", !.sp = s, !.value = sp[s]])
    /\ UNCHANGED <<now, sp, key, pointer, lock, reserved, session, crashes, answered, late, orphaned>>
\* The admin panel's toggle: the opposite of what it read.
BeginToggleSp(p, s) ==
    /\ Registered(s)
    /\ Start(p, "put", [NoRequest EXCEPT !.route = "admin", !.sp = s,
                        !.value = IF sp[s] = "enabled" THEN "disabled" ELSE "enabled"])
    /\ UNCHANGED <<now, sp, key, pointer, lock, reserved, session, crashes, answered, late, orphaned>>
SaveSp(p) ==
    /\ At(p, "put")
    /\ sp' = [sp EXCEPT ![req[p].sp] = req[p].value]
    /\ Finish(p)
    /\ UNCHANGED <<now, key, pointer, lock, reserved, session, requests, crashes, answered, late, orphaned>>
DeleteSp(p) ==
    /\ At(p, "delete")
    /\ sp' = [sp EXCEPT ![req[p].sp] = "deleted"]
    /\ Finish(p)
    /\ UNCHANGED <<now, key, pointer, lock, reserved, session, requests, crashes, answered, late, orphaned>>

(***************************************************************************)
(* Environment: time, and handlers that die. A lock that is left behind    *)
(* must lapse within the bound of the clock.                               *)
(***************************************************************************)
Tick ==
    /\ now < MaxTime /\ now' = now + 1
    /\ UNCHANGED <<sp, key, pointer, lock, reserved, session, pc, req, requests, crashes, answered, late, orphaned>>
\* The version whose key p has stored and whose pointer it is about to create.
Pointing(p) ==
    IF At(p, "initpointer") THEN {1} ELSE IF At(p, "pointer") THEN {req[p].ring.version + 1} ELSE {}
Crash(p) ==
    /\ ~At(p, "idle") /\ crashes < MaxCrashes /\ now + LockTTL <= MaxTime
    /\ crashes' = crashes + 1 /\ orphaned' = orphaned \cup Pointing(p) /\ Finish(p)
    /\ UNCHANGED <<now, sp, key, pointer, lock, reserved, session, requests, answered, late>>

Begin(p) ==
    \/ BeginMetadata(p) \/ RotateSamlKey(p) \/ RotateKeyInPanel(p)
    \/ \E s \in Sps : CreateSp(p, s) \/ CreateSpInPanel(p, s) \/ BeginUpdateSp(p, s) \/ BeginEditSp(p, s)
                      \/ BeginToggleSp(p, s) \/ RemoveSp(p, s) \/ RemoveSpInPanel(p, s)
    \/ \E s \in Sps, a \in AuthnRequests : BeginSso(p, s, a)
    \/ \E s \in Sessions : ConsumeAuthSession(p, s)
Step(p) ==
    \/ ReadRing(p) \/ InitKey(p) \/ InitPointer(p) \/ RereadRing(p) \/ Publish(p)
    \/ AcquireLock(p) \/ SaveKey(p) \/ SavePointer(p) \/ ReleaseLock(p)
    \/ ReceiveRequest(p) \/ RefusePassive(p) \/ Reserve(p) \/ RunHooks(p)
    \/ \E s \in Sessions : SaveFlow(p, s)
    \/ ConsumeFlow(p) \/ ResumeFlow(p) \/ IssueResponse(p) \/ RefuseResponse(p)
    \/ SaveSp(p) \/ DeleteSp(p)
Next == Tick \/ \E p \in Procs : Begin(p) \/ Step(p) \/ Crash(p)

\* The clock advances, and a handler that does not die goes on.
Fairness == WF_vars(Tick) /\ \A p \in Procs : WF_vars(Step(p))
Spec == Init /\ [][Next]_vars /\ Fairness

(***************************************************************************)
(* Properties.                                                             *)
(***************************************************************************)
(* An authentication request is answered at most once by a service         *)
(* provider's record, over single sign-on and login, however it is         *)
(* repeated: the reservation lasts until the age at which the library,     *)
(* whose own replay check is off, refuses the request. Both limits are     *)
(* 600 s, without a margin: excepted is a request that a handler reserves  *)
(* a second time at or after that age, which it checked before.            *)
OneResponsePerRequest == \A x \in (Sps \X AuthnRequests) \ late : answered[x] <= 1

(* What a handler is about to sign with is in the metadata, although       *)
(* rotations went on since it read the ring, unless two of them passed it  *)
(* by or the grace of the previous certificate is over: a key, once stored *)
(* under a version, is never replaced by that of a rotation that lost the  *)
(* lock while it worked.                                                   *)
SignerPublished ==
    \A p \in Procs : At(p, "sign") =>
        \/ req[p].ring.key \in Published
        \/ Newest > req[p].ring.version + 1
        \/ Newest = req[p].ring.version + 1 /\ pointer[Newest].grace <= now

\* A pointer has its key, and versions have no gap.
PointersKeyed ==
    \A v \in Pointers :
        /\ key[v] # None
        /\ v > 1 => pointer[v].previous = v - 1 /\ pointer[v - 1].made
\* A key has its pointer, or is about to get it, unless its writer died in between.
KeysPointed ==
    \A v \in Versions : key[v] # None =>
        pointer[v].made \/ v \in orphaned \/ \E p \in Procs : v \in Pointing(p)

(* However initialisations, rotations and crashes interleave, a pointer    *)
(* names a stored key and a stored predecessor, and what blocks a version, *)
(* a key without a pointer, is left behind only by a handler that died     *)
(* between those two writes. The code does not repair such a version: the  *)
(* first one leaves a ring that cannot be read (keys.rs:89-93), a later    *)
(* one a ring that can be read and no longer rotated.                      *)
RingComplete == PointersKeyed /\ KeysPointed

(* The rotation lock never stays: it is released by its holder, or lapses  *)
(* when the holder died.                                                   *)
LockEventuallyFree == ~LockFree ~> LockFree
=============================================================================
