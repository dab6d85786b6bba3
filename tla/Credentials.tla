---------------------------- MODULE Credentials -----------------------------
(***************************************************************************)
(* The credentials on a user's record and the keys that lead to it: TOTP   *)
(* enrolment on the account pages and over the management API, passkeys    *)
(* with their challenges and the index passkey:{credential}, identities of *)
(* providers with social:{provider}:{sub}, registration through a          *)
(* provider, and erasure (account.rs, management.rs, services/users.rs,    *)
(* passkeys.rs, social.rs, google.rs, store.rs).                           *)
(*                                                                         *)
(* All of Subjects are identities of one person, whose verified address is *)
(* the one address of the model. update_user_rmw is one step: it repeats   *)
(* its closure on the record it swaps (module Accounts has its retries).   *)
(* What is promised, with the state it speaks of, is in CredentialPromise. *)
(***************************************************************************)
EXTENDS CredentialPromise, Naturals

CONSTANTS
    Subjects, None,
    Passkeys,       \* challenge tokens, each with the credential that the authenticator makes for it
    MaxRequests     \* bound: requests

CredentialConstants ==
    /\ None \notin Users /\ MaxRequests \in Nat
ASSUME CredentialAssumption == CredentialConstants

VARIABLES
    address,    \* email:{hmac}, the user who holds the person's address
    challenge,  \* passkey:{token} in the sessions table
    index,      \* passkey:{credential} in the index table
    link,       \* social:{provider}:{sub}
    fresh,      \* TOTP secrets and batches of recovery codes drawn so far
    requests    \* requests begun

kv == <<user, address, challenge, index, link, fresh>>
history == <<requests, removed, doomed, clobbered, cut, torn>>
vars == <<kv, pc, req, history>>

User == [st: {"none", "live", "erased"}, secret: Nat, on: BOOLEAN, codes: Nat, keys: SUBSET Passkeys]
NoUser == [st |-> "none", secret |-> 0, on |-> FALSE, codes |-> 0, keys |-> {}]
NewUser == [NoUser EXCEPT !.st = "live"]
Challenge == [st: {"unused", "open", "used"}, user: Users \cup {None}]
Request == [user: Users \cup {None}, seen: User, key: Passkeys \cup {None}, sub: Subjects \cup {None},
            via: {"account", "api", "provider", "form", "none"}]
NoRequest == [user |-> None, seen |-> NoUser, key |-> None, sub |-> None, via |-> "none"]
Labels == {"idle", "setup", "confirm", "disable", "check", "push", "index", "drop", "unindex",
           "find", "create", "claim", "rollback", "link", "adopt", "hooks", "erase", "unkey", "bury", "unlink", "activate"}

TypeOK ==
    /\ user \in [Users -> User] /\ address \in Users \cup {None}
    /\ challenge \in [Passkeys -> Challenge] /\ index \in [Passkeys -> Users \cup {None}]
    /\ link \in [Subjects -> Users \cup {None}] /\ fresh \in Nat
    /\ pc \in [Procs -> Labels] /\ req \in [Procs -> Request]
    /\ requests \in 0..MaxRequests /\ removed \subseteq Passkeys /\ torn \in BOOLEAN
    /\ doomed \subseteq Users /\ clobbered \subseteq Users /\ cut \subseteq Users

Init ==
    /\ user = [u \in Users |-> NoUser] /\ address = None
    /\ challenge = [k \in Passkeys |-> [st |-> "unused", user |-> None]]
    /\ index = [k \in Passkeys |-> None] /\ link = [s \in Subjects |-> None] /\ fresh = 0
    /\ pc = [p \in Procs |-> "idle"] /\ req = [p \in Procs |-> NoRequest]
    /\ requests = 0 /\ removed = {} /\ doomed = {} /\ clobbered = {} /\ cut = {} /\ torn = FALSE

Finish(p) == GotoWith(p, "idle", NoRequest)
Live(u) == user[u].st = "live"
Count == requests < MaxRequests /\ requests' = requests + 1

\* A request begins by reading a record (require_account_session, require_caller and get_user).
Start(p, label, u, r) ==
    /\ At(p, "idle") /\ Live(u) /\ Count
    /\ GotoWith(p, label, [r EXCEPT !.user = u, !.seen = user[u]])
    /\ UNCHANGED <<kv, removed, clobbered, cut, torn>>

\* The swap of update_user_rmw: nothing is written when the record is gone or the closure refuses.
Modify(p, allowed, new) ==
    LET u == req[p].user
    IN user' = IF Live(u) /\ allowed THEN [user EXCEPT ![u] = new] ELSE user

(***************************************************************************)
(* TOTP enrolment: set-up stores a secret, a code for it enables MFA and   *)
(* draws recovery codes.                                                   *)
(***************************************************************************)
BeginMfaSetup(p, u, s) ==
    /\ Start(p, "setup", u, [NoRequest EXCEPT !.via = s])
    /\ ~user[u].on
    /\ UNCHANGED doomed
MfaSetup(p, u) == BeginMfaSetup(p, u, "api")
AccountMfaSetup(p, u) == BeginMfaSetup(p, u, "account")

\* Mutant: the account page, too, leaves the check to the reading.
SetupAllowed_Stale(p) == TRUE

SetupAllowed(p) == req[p].via = "account" => ~user[req[p].user].on

StoreSecret(p) ==
    /\ At(p, "setup")
    /\ Modify(p, SetupAllowed(p), [user[req[p].user] EXCEPT !.secret = fresh + 1])
    /\ fresh' = fresh + 1
    /\ Finish(p)
    /\ UNCHANGED <<address, challenge, index, link, history>>

BeginMfaConfirm(p, u, s) ==
    /\ Start(p, "confirm", u, [NoRequest EXCEPT !.via = s])
    /\ user[u].secret # 0
    /\ s = "account" => ~user[u].on
    /\ UNCHANGED doomed
MfaConfirm(p, u) == BeginMfaConfirm(p, u, "api")
AccountMfaConfirm(p, u) == BeginMfaConfirm(p, u, "account")

EnableMfa(p) ==
    /\ At(p, "confirm")
    /\ Modify(p, req[p].via = "account" => ~user[req[p].user].on,
              [user[req[p].user] EXCEPT !.on = TRUE, !.codes = fresh + 1])
    /\ fresh' = fresh + 1
    /\ Finish(p)
    /\ UNCHANGED <<address, challenge, index, link, history>>

\* mfa_disable wants the password, the API's disable_mfa only the caller; sessions are revoked next.
BeginMfaDisable(p, u) ==
    /\ Start(p, "disable", u, NoRequest)
    /\ UNCHANGED doomed

DisableMfa(p) ==
    /\ At(p, "disable")
    /\ Modify(p, TRUE, [user[req[p].user] EXCEPT !.secret = 0, !.on = FALSE, !.codes = 0])
    /\ Finish(p)
    /\ UNCHANGED <<address, challenge, index, link, fresh, history>>

(***************************************************************************)
(* Passkeys: a challenge for the user, consumed by the registration, which *)
(* appends the credential to the record and then indexes it.               *)
(***************************************************************************)
OpenChallenge(u, k) ==
    /\ Count /\ Live(u) /\ challenge[k].st = "unused"
    /\ challenge' = [challenge EXCEPT ![k] = [st |-> "open", user |-> u]]
    /\ UNCHANGED <<user, address, index, link, fresh, pc, req, removed, doomed, clobbered, cut, torn>>
PasskeysPage(u, k) == OpenChallenge(u, k)
PasskeyRegisterOptions(u, k) == OpenChallenge(u, k)

\* Mutant: the challenge is read and not deleted.
Consumed_Kept(k) == challenge

Consumed(k) == [challenge EXCEPT ![k].st = "used"]

ConsumePasskeyChallenge(p, k) ==
    /\ At(p, "idle") /\ Count /\ challenge[k].st = "open"
    /\ challenge' = Consumed(k)
    /\ GotoWith(p, "check", [NoRequest EXCEPT !.user = challenge[k].user, !.key = k])
    /\ UNCHANGED <<user, address, index, link, fresh, removed, doomed, clobbered, cut, torn>>
PasskeysRegister(p, k) == ConsumePasskeyChallenge(p, k)
PasskeyRegisterComplete(p, k) == ConsumePasskeyChallenge(p, k)
AdminPasskeyRegisterComplete(p, k) == ConsumePasskeyChallenge(p, k)

GetUserByPasskey(k) == IF index[k] = None THEN FALSE ELSE Live(index[k])

\* verify_registration: the attestation does not answer this challenge, origin or relying party.
RefuseAttestation(p) ==
    /\ At(p, "check")
    /\ Finish(p)
    /\ UNCHANGED <<kv, history>>

CheckCredential(p) ==
    /\ At(p, "check")
    /\ LET u == req[p].user
       IN IF Live(u) /\ req[p].key \notin user[u].keys /\ ~GetUserByPasskey(req[p].key)
          THEN Goto(p, "push")
          ELSE Finish(p)
    /\ UNCHANGED <<kv, history>>

PushCredential(p) ==
    /\ At(p, "push")
    /\ Modify(p, TRUE, [user[req[p].user] EXCEPT !.keys = @ \cup {req[p].key}])
    /\ IF Live(req[p].user) THEN Goto(p, "index") ELSE Finish(p)
    /\ UNCHANGED <<address, challenge, index, link, fresh, history>>

IndexCredential(p) ==
    /\ At(p, "index")
    /\ index' = [index EXCEPT ![req[p].key] = req[p].user]
    /\ Finish(p)
    /\ UNCHANGED <<user, address, challenge, link, fresh, history>>

BeginDeletePasskey(p, u, k) ==
    /\ Start(p, "drop", u, [NoRequest EXCEPT !.key = k])
    /\ k \in user[u].keys
    /\ UNCHANGED doomed
PasskeysDelete(p, u, k) == BeginDeletePasskey(p, u, k)
DeletePasskey(p, u, k) == BeginDeletePasskey(p, u, k)
DeletePasskeyInPanel(p, u, k) == BeginDeletePasskey(p, u, k)

DropCredential(p) ==
    /\ At(p, "drop")
    /\ Modify(p, TRUE, [user[req[p].user] EXCEPT !.keys = @ \ {req[p].key}])
    /\ IF Live(req[p].user) THEN Goto(p, "unindex") ELSE Finish(p)
    /\ UNCHANGED <<address, challenge, index, link, fresh, history>>

UnindexCredential(p) ==
    /\ At(p, "unindex")
    /\ index' = [index EXCEPT ![req[p].key] = None]
    /\ removed' = removed \cup {req[p].key}
    /\ Finish(p)
    /\ UNCHANGED <<user, address, challenge, link, fresh, requests, doomed, clobbered, cut, torn>>

(***************************************************************************)
(* A callback of a provider signs in the user that the identity is linked  *)
(* to, links the user who holds the address, or registers one; the form of *)
(* /api/register creates a user without looking. A hook may deny either,   *)
(* and the user and the link are taken back.                               *)
(***************************************************************************)
BeginCallback(p, s) ==
    /\ At(p, "idle") /\ Count
    /\ IF link[s] = None
       THEN GotoWith(p, "find", [NoRequest EXCEPT !.sub = s, !.via = "provider"])
       ELSE UNCHANGED <<pc, req>>
    /\ UNCHANGED <<kv, removed, doomed, clobbered, cut, torn>>
SocialCallback(p, s) == BeginCallback(p, s)
GoogleCallback(p, s) == BeginCallback(p, s)

Held == IF address = None THEN FALSE ELSE Live(address)

FindByEmail(p) ==
    /\ At(p, "find")
    /\ IF Held THEN GotoWith(p, "adopt", [req[p] EXCEPT !.user = address]) ELSE Goto(p, "create")
    /\ UNCHANGED <<kv, history>>

\* The form does not look for the address: create_user does.
HandleRegister(p) ==
    /\ At(p, "idle") /\ Count
    /\ GotoWith(p, "create", [NoRequest EXCEPT !.via = "form"])
    /\ UNCHANGED <<kv, removed, doomed, clobbered, cut, torn>>

RegistrationClosed(p) ==
    /\ At(p, "create")
    /\ Finish(p)
    /\ UNCHANGED <<kv, history>>

\* Mutant: the address is not claimed by a create.
AddressFree_Unchecked == TRUE

AddressFree == address = None

\* create_user puts the record first,
CreateUser(p, u) ==
    /\ At(p, "create") /\ user[u].st = "none"
    /\ user' = [user EXCEPT ![u] = NewUser]
    /\ GotoWith(p, "claim", [req[p] EXCEPT !.user = u])
    /\ UNCHANGED <<address, challenge, index, link, fresh, history>>

\* then it creates the key of the address, which fails if it is there,
ClaimAddress(p) ==
    /\ At(p, "claim")
    /\ IF AddressFree
       THEN /\ address' = req[p].user
            /\ Goto(p, IF req[p].via = "provider" THEN "link" ELSE "hooks")
       ELSE Goto(p, "rollback") /\ UNCHANGED address
    /\ UNCHANGED <<user, challenge, index, link, fresh, history>>

\* and takes the record back if the address was not free.
RollBack(p) ==
    /\ At(p, "rollback")
    /\ user' = [user EXCEPT ![req[p].user] = [NoUser EXCEPT !.st = "erased"]]
    /\ Finish(p)
    /\ UNCHANGED <<address, challenge, index, link, fresh, history>>

SaveSocialIdentity(p) == link' = [link EXCEPT ![req[p].sub] = req[p].user]

AdoptUser(p) ==
    /\ At(p, "adopt")
    /\ SaveSocialIdentity(p)
    /\ Finish(p)
    /\ UNCHANGED <<user, address, challenge, index, fresh, history>>

LinkNewUser(p) ==
    /\ At(p, "link")
    /\ SaveSocialIdentity(p)
    /\ Goto(p, "hooks")
    /\ UNCHANGED <<user, address, challenge, index, fresh, history>>

HookAllows(p) ==
    /\ At(p, "hooks")
    /\ Finish(p)
    /\ UNCHANGED <<kv, history>>

\* After delete_user, the callback of a provider also deletes the link.
Unlink(p) == IF req[p].via = "provider" THEN Goto(p, "unlink") ELSE Finish(p)

HookDenies(p) ==
    /\ At(p, "hooks")
    /\ IF Live(req[p].user)
       THEN GotoWith(p, "erase", [req[p] EXCEPT !.seen = user[req[p].user]])
       ELSE Unlink(p)
    /\ doomed' = doomed \cup {req[p].user}
    /\ UNCHANGED <<kv, requests, removed, clobbered, cut, torn>>

DeleteSocialIdentity(p) ==
    /\ At(p, "unlink")
    /\ link' = [link EXCEPT ![req[p].sub] = None]
    /\ Finish(p)
    /\ UNCHANGED <<user, address, challenge, index, fresh, history>>

(***************************************************************************)
(* Erasure (delete_user): the address, the passkeys of the record that was *)
(* read, the record.                                                       *)
(***************************************************************************)
BeginErase(p, u) ==
    /\ Start(p, "erase", u, NoRequest)
    /\ doomed' = doomed \cup {u}

UnindexAddress(p) ==
    /\ At(p, "erase")
    /\ address' = None
    /\ torn' = (torn \/ address \notin {None, req[p].user})
    /\ Goto(p, "unkey")
    /\ UNCHANGED <<user, challenge, index, link, fresh, requests, removed, doomed, clobbered, cut>>

UnindexPasskeys(p) ==
    /\ At(p, "unkey")
    /\ index' = [k \in Passkeys |-> IF k \in req[p].seen.keys THEN None ELSE index[k]]
    /\ Goto(p, "bury")
    /\ UNCHANGED <<user, address, challenge, link, fresh, history>>

DeleteRecord(p) ==
    /\ At(p, "bury")
    /\ user' = [user EXCEPT ![req[p].user] = [NoUser EXCEPT !.st = "erased"]]
    /\ Unlink(p)
    /\ UNCHANGED <<address, challenge, index, link, fresh, history>>

\* activate_user puts back the record that it read.
BeginActivate(p, u) ==
    /\ Start(p, "activate", u, NoRequest)
    /\ UNCHANGED doomed

PutActivated(p) ==
    /\ At(p, "activate")
    /\ user' = [user EXCEPT ![req[p].user] = req[p].seen]
    /\ clobbered' = IF user[req[p].user] = req[p].seen THEN clobbered ELSE clobbered \cup {req[p].user}
    /\ Finish(p)
    /\ UNCHANGED <<address, challenge, index, link, fresh, requests, removed, doomed, cut, torn>>

\* A crash; inside create_user also a store error, which the handler answers and leaves at that.
Crash(p) ==
    /\ ~At(p, "idle")
    /\ cut' = IF pc[p] \in {"claim", "rollback"} THEN cut \cup {req[p].user} ELSE cut
    /\ Finish(p)
    /\ UNCHANGED <<kv, requests, removed, doomed, clobbered, torn>>

Handler(p) ==
    \/ StoreSecret(p) \/ EnableMfa(p) \/ DisableMfa(p)
    \/ RefuseAttestation(p) \/ CheckCredential(p) \/ PushCredential(p) \/ IndexCredential(p)
    \/ DropCredential(p) \/ UnindexCredential(p)
    \/ FindByEmail(p) \/ HandleRegister(p) \/ RegistrationClosed(p) \/ ClaimAddress(p) \/ RollBack(p)
    \/ AdoptUser(p) \/ LinkNewUser(p) \/ HookAllows(p) \/ HookDenies(p)
    \/ DeleteSocialIdentity(p) \/ UnindexAddress(p) \/ UnindexPasskeys(p) \/ DeleteRecord(p) \/ PutActivated(p)
    \/ Crash(p)
    \/ \E s \in Subjects : SocialCallback(p, s) \/ GoogleCallback(p, s)
    \/ \E k \in Passkeys : PasskeysRegister(p, k) \/ PasskeyRegisterComplete(p, k) \/ AdminPasskeyRegisterComplete(p, k)
    \/ \E u \in Users :
          \/ BeginMfaDisable(p, u) \/ CreateUser(p, u) \/ BeginErase(p, u) \/ BeginActivate(p, u)
          \/ MfaSetup(p, u) \/ AccountMfaSetup(p, u) \/ MfaConfirm(p, u) \/ AccountMfaConfirm(p, u)
          \/ \E k \in Passkeys : PasskeysDelete(p, u, k) \/ DeletePasskey(p, u, k) \/ DeletePasskeyInPanel(p, u, k)

Next ==
    \/ \E p \in Procs : Handler(p)
    \/ \E u \in Users, k \in Passkeys : PasskeysPage(u, k) \/ PasskeyRegisterOptions(u, k)

Spec == Init /\ [][Next]_vars
=============================================================================
