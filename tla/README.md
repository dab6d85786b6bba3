# TLA+ verification of jetauth

jetauth is an OpenID Connect provider: a WebAssembly component
(`oidc-gateway`) that keeps no state of its own.  Any number of instances
serve requests at the same time, and everything they share is in the tables of
a key-value service (lattice-db) reached over NATS.  What can go wrong lies in
how the store operations of concurrent requests interleave, in instances that
die between two of them, and in time.  This directory models the
protocol state of the gateway, checks it with TLC and proves the central
invariants with TLAPS.

`PROJECT.json` lists the components, the runs, the mutants, the map from
definitions to source lines, the hazards and the theorems.

## 1. Inventory

| Component | State (table: keys) | Operations | Hard behaviour | Correct means |
|---|---|---|---|---|
| Refresh tokens (`token.rs`, `store.rs`) | sessions: `refresh:`, `consumed:`, index `user_refresh:`; `revoked_at` | grant, rotate, replay detection, revoke, sweep of a user | three keys per token, concurrent refreshes, crash between writes, replays | a family has one usable token; replays are recognised; every token a client holds can be revoked; a family ends |
| Authorization codes, consent (`login.rs`, `token.rs`) | sessions: `code:`; users: `consent:` | issue, consent page, redeem | unconditional write-back, concurrent redemption, expiry | redeemed once, in time, for scopes that the user allowed |
| Device grant (`device.rs`, `token.rs`) | sessions: device and user codes; cache: approval tokens; limiter | start, submit, log in, confirm, poll | two people on one code, double posts, lockout racing a confirmation | tokens are minted once, for the one whose approval was stored last |
| Signing keys (`key_manager.rs`, `jwt.rs`) | keys: one record per key and generation, `meta:current` | bootstrap, rotate, publish, purge, sign | rotations that race with each other, with publication and with signing | the ring names the stored keys; verifiers find the signer of every live token |
| User accounts (`store.rs`, `lib.rs`, `services/users.rs`, `scim/mod.rs`, `hooks.rs`) | users: `user:`; user-idx: `email:`; sessions: `invite:` | register, provision, verify, reset, rename, hook status, activate, erase | two tables per account, read-modify-write, stale writes | owners stay reachable, updates are not lost, only the entitled activate |
| Sign-in (`authorize.rs`, `par.rs`, `login.rs`, `totp.rs`, `social.rs`, `google.rs`) | sessions: `par:`, `session:`, `mfa:`, `passkey:`, `social_csrf:`, `gcsrf:`, `lockout:`, `totp_used:` | push, authorize, password, second factor, passkey, provider callback, admin login | a session raced for by five kinds of callback, counters under contention, codes with a window | one sign-in per session, guesses are bounded, a second factor works once |
| Browser sessions (`account.rs`, `authorize.rs`, `userinfo.rs`, `admin/mod.rs`) | sessions: `idp:`, `acct:`, `revoked:user:`; cache: `admin_pkce:`; the session lifetime in the settings | single sign-on, slide, page, userinfo, introspect, log out, revoke | a session is put back while it is revoked; three lifetimes against that of the marker | what was revoked is not accepted again |
| Credentials (`account.rs`, `management.rs`, `passkeys.rs`, `social.rs`, `google.rs`) | MFA fields and passkeys of `user:`; user-idx: `passkey:`, `social:`; challenges | enrol, confirm, disable, register and remove a passkey, sign up through a provider, erase | check-then-write over several tables, two surfaces with different closures | an enabled secret stays, a removed passkey stays removed, one account per person |
| SAML (`saml/`, `services/saml.rs`) | keys: `saml:key-v`, `saml:key-ring-pointer-v`; lock, reservations, flows; service providers | sign on, resume, respond, rotate, publish metadata, edit providers | a lock with a lifetime, create-once versions, replays | one response per request, the signer is published, the ring survives a crash, the lock is freed |
| Provisioning (`scim/mod.rs`, `services/scim.rs`) | `scim_connection:`, `scim_identity:`, `scim_user:`, memberships | create, put, patch, delete, list; edit a connection | four keys per user with rollback, ETags checked before a blind put | a connection keeps, and reaches only, the users it made |
| Directory (`services/tenants.rs`, `services/authz.rs`, `services/hooks.rs`, `hooks.rs`, `admin/mod.rs`) | tenants: `tenant:`, both keys of a membership; `invite:`; `meta:bootstrap_done`; `hook:`, `hookver:` | tenants, members, invitations, hooks, bootstrap | two-key memberships, outdated roles in tokens, claims, versions | roles are handed down, both keys or none, one bootstrap, what ran is on record |
| Limits (`abuse.rs`) | cache: window counters | check_rate | CAS contention, window boundary | never more than the limit in a window, fail closed |
| Clients (`services/clients.rs`, `registration.rs`) | clients table | CRUD, dynamic registration | get-then-put | a replaced secret is not accepted |
| Regions (`service_client.rs`, `region_authority.rs`) | lookup cache, replicated configuration | lookup, replicate | unordered, unacknowledged messages, stale cache | regions converge |
| Pages, e-mail worker, password hasher, CLI | none of their own | rendering, hashing, transport | - | - |

Components interact through the store only: a sign-in consumes an
authentication session and ends in an authorization code, a device approval or
a SAML response, and leaves a browser session behind, redeeming a code grants a refresh token, every token is signed with the
ring, and disabling or erasing an account sweeps its refresh tokens.  There are
no locks between instances (except the SAML rotation lock); atomicity comes
from `create`, `cas` and `cas_delete` of the store, on revisions.

## 2. The model of the store

All modules use the same conventions.

- A request in flight is a process `p` with a label `pc[p]` and local values
  `req[p]` (module *Requests*, which all the others extend).  **Each write to
  the store is one step, and so is each read that something may overtake before
  its result is used**.  Checks on local values belong to the step of the read
  before them.  What is taken together is listed under *Merged steps*.
- A key holds a record with the revision `rev` of the key.  Revisions grow with
  every write and survive deletion, as in the store (a sequence number of the
  underlying stream).  `cas` succeeds if the key is there with the revision read.
- `Crash(p)` ends a request anywhere between two steps.  It stands for the
  death of an instance and for an error of the store that the handler passes
  on with `?`.  Store errors that the code ignores (`let _ =`) are taken not to
  happen separately: a skipped best-effort write is covered only where it is
  the last thing the request does.
- Keys with a TTL may be dropped by the store once it has elapsed
  (`ExpireKey`), not necessarily at once.  The index keys of refresh tokens have
  the lifetime of the entry that is written before them (`store.rs:2097`), so
  they outlive it; *RefreshTokens* lets them stay.  `Tick` advances the one clock that
  the instances share, up to `MaxTime`.
- Refusals that change nothing (wrong client, wrong DPoP key, wrong PKCE
  verifier, rate limit, invalid input) are left out: they are early returns.
- History variables (named in each module) record what was issued and
  answered; in guards they appear only as bounds, to keep identifiers fresh, and
  to say which page a user has in front of them.

**Liveness and fairness.**  `Saml` states the one liveness property, that the
rotation lock never stays.  Its specification assumes weak fairness of the
clock and of each handler's next step.  The first is time; the second is the
runtime, which runs a handler until it returns or dies, and a death is a
`Crash`, which takes the handler to its end.  Nothing is assumed of new
requests.  Elsewhere `Spec` is `Init /\ [][Next]_vars`: requests may stop at any
step, and the code waits for nothing but the store.  `CHECK_DEADLOCK FALSE` is
set because a state with no request in flight and all bounds used up is a normal
end.

**Merged steps.**  These operations follow each other in the code and are one
step of a model:
- a loop that reads, applies a closure and swaps on the revision
  (`update_user_rmw`), in *Credentials*, *SignIn* (`SetStatus`), *Provisioning*,
  *RefreshTokens* and *Directory*: a swap that succeeds did read the record it
  replaces, so only the retries are lost, and *Accounts* has those;
- a record that is written once, read and then deleted at the revision read
  (authentication sessions, pending logins, challenges, provider state): of two
  readers one succeeds, whatever lies between;
- reads that follow each other: the index and the record of a user, an identity
  and its user, the ring and its keys, roles and tenants at the start of a request;
- the writes that belong to another module: *Directory* and *Provisioning* take
  `create_user` for one step (*Accounts* has record, index and rollback,
  *Credentials* record and claim), *Provisioning* takes a membership for one
  record (*Directory* has both keys), *RefreshTokens* an erasure for one;
- the cached flag that a superadmin exists, with the record that it is about: a
  flag that is missing is made good by a scan of the users;
- `activate_user` in *RefreshTokens*: an activation may come at any time,
  whatever the record is then, which includes every time between its read and
  its write.

**Exemptions.**  Where we found that the code leaves an overlap or a crash
unguarded, the model has it, a history variable marks what it hit (`torn`,
`clobbered`, `overlap`, `cut`, `late`, `orphaned`, `restored`, `revived`, and in
`Provisioning` edits that were not `alone`), and the invariants speak of
everything else.  Each is listed under *Known divergences*.  A mutant shows for
each invariant that the exemption does not swallow it.

## 3. Modules

**RefreshTokens** models `handle_refresh`, the part of `handle_code_exchange`
that grants a token, `handle_revoke`, `delete_user_refresh_tokens` and its
callers (logout, replay, SCIM, erasure), and the functions of `store.rs` they
use.  `refresh`, `marker` and `idx` are the three kinds of keys.
`BeginGrant, SaveGranted, IndexToken` is a grant; `PresentRefresh, Consume,
LoadUser, SaveRotated, IndexToken, RetireToken, ForgetIndex, EraseToken` a
rotation; `ReadMarker, ReadEntry, RevokeUser` the way of a replay; `ListTokens,
SweepEntry, SweepIndex, FinishSweep` a sweep.  **TokenFamily** is the abstract
promise: a family goes from `none` to `current`, to `taken` by a refresh and
back, and once `dead` stays dead.  `RefreshTokens` instantiates it with the
refinement mapping `FamilyState`.

**AuthCodes** models codes for one user and one third-party client.
`IssueCode` is `complete_login_with_amr` and the single-sign-on branch of
`/authorize`; `PostConsent, SaveApproved, RecallConsent, RecordConsent` is
`handle_consent`; `PresentCode, ConsumeCode, MintTokens, DiscardCode` is
`handle_code_exchange`.

**DeviceGrant** models `start`, `submit`, the confirmation page and the polling
grant.  A login on the browser leg (`CompleteLogin`) hands out an approval
token.  `Poll` requires that the code was published, which stands for the
device having received its answer.

**KeyRing** models `rotate_keys`, `bootstrap_meta`, `create_or_load_*`,
`get_public_keys`, `load_keys` and `sign`.  Keys are numbered by their kid;
`tokens` records which key signed what.  The two readings of `load_keys` are
one step.  The revision that `bootstrap_meta` returns after losing the
creation is that of the ring it re-reads.

**Accounts** models the record of a user, the e-mail index and the mailed
tokens.  `CreateUser, CreateIndex, RollBack` is `create_user`, reached from
`BeginRegister` (then hooks in `Vet`, the mail in `Invite`) and
`BeginProvision` (then `Join`).  `ReadUser, SwapUser, SwapConflict` is
`update_user_rmw` with the closures of its callers (`Modifies`); a rename adds
`ClaimEmail, UnclaimEmail, ReleaseEmail` (`update_user_provisioned`).
`BeginActivate, OverwriteUser` is `activate_user`; `ReadForErase, DropIndex,
DropRecord` is `delete_user`.  Verification is required (the default), and
all users are local to the region.  The code does not guard some overlaps:
an erasure that meets a rename or a creation of the same user or deletes an
index key that has passed to another user, and an activation that writes over
a newer record.  The model has them all; the history variable `torn` collects
the users they and crashes hit, and the invariants speak of the others.

**SignIn** models one user's sign-ins, for one tick per TOTP period.  `par`,
`session`, `pending`, `chal`, `state`, `lock` and `used` are the short-lived
records of `store.rs`; `active`, `totp` and `recovery` the fields of the user
they meet.  `PushRequest, BeginAuthorize, Unpush, OpenSession` is `/par` and
`/authorize`; `BeginLogin, LockCheck, VerifyPassword, FailRead, FailSwap` the
password form with `record_failed_login`; `SavePending, BeginMfa, Attempt,
RecordTotpUsed, ReadRecoveryCodes, SwapRecoveryCodes, Unpend` the second factor;
`PasskeyOptions, BeginPasskey, VerifyAssertion` the passkey; `VisitProvider,
BeginCallback, FindUser` and their Google twins the providers; `Admin...` the
login of the admin panel, which shares lockout and markers.  All end in
`RunHooks, ConsumeAuthSession, Mint`.  `SetStatus` is a status change by a hook
or through SCIM, which swaps on the revision; `BeginActivate, PutActivated` is
`activate_user`, which puts back the whole record it read, with a recovery code
that was used since (`restored`).

**BrowserSessions** models what a sign-in leaves: a browser session, an account
or admin session and an access token are *grants* with the time of their
sign-in.  `Begin...` starts a request on a grant, `Judge...` decides on it
with the revocation marker and the user's status, `ReuseSession, ReadForSlide,
SlideSession` is single sign-on with `refresh_idp_session_cookie_header`,
`RevokeUserSessions` puts the marker, `AnswerLogout` ends a logout,
`UpdateSettings` changes the lifetime of sessions, `RedirectAdmin,
AdminCallback, ExchangeForAdmin` is the login of the panel through
`/authorize`.  Timing assumption: a request is answered or dies within
`MaxFlight`.  Without it a request could hold a session over the lifetime of
the marker, 30 days.

**Credentials** models the TOTP fields, passkeys and provider identities of
users who are all one person with one address.  `MfaSetup` and `MfaConfirm` are
the management API's, `AccountMfaSetup` and `AccountMfaConfirm` the account pages';
`ConsumePasskeyChallenge, CheckCredential, PushCredential, IndexCredential`
registers a passkey; `SocialCallback, FindByEmail, CreateUser, ClaimAddress,
LinkNewUser, HookDenies, DeleteSocialIdentity` signs up through a provider and
`HandleRegister, CreateUser, ClaimAddress` through the form.  `CreateUser` and
`ClaimAddress` are the two writes of `create_user`: the record, then the index
key, and `RollBack` deletes the record when the key is taken.  A crash, or an
error of the second write, leaves a record without a key (`cut`);
`UnindexAddress, UnindexPasskeys, DeleteRecord` is `delete_user` and
`BeginActivate, PutActivated` is `activate_user`.

**Saml** models the key ring (`ReadRing, InitKey, InitPointer, RereadRing`),
its rotation (`AcquireLock, SaveKey, SavePointer, ReleaseLock`), metadata
(`Publish`), sign-on (`BeginSso, ReceiveRequest, Reserve, RunHooks, SaveFlow`),
the way back from a login (`ConsumeAuthSession, ConsumeFlow, ResumeFlow`), the
response (`IssueResponse`) and the service providers.  All service providers of
the model have one entity id, so that they contend for it.  Time may pass
between the age check of a request and its reservation, and a reservation is
gone in the second its lifetime ends, as every key with a TTL may be.  `late`
marks requests that a handler reserves a second time at or after the age at
which they are refused, having checked it earlier; `orphaned` marks a key version
whose writer died before it wrote the pointer.

**Provisioning** models SCIM: a creation is `BeginCreate, CreateUser, SetStatus,
AddMembership, CreatePrimary, CreateSecondary` with the rollbacks `Unprimary,
Unmember, UndoUser, UndoMemberships`; an update `BeginPut` or `BeginPatch`,
`UpdateUser, SavePrimary, SaveSecondary`; a removal `RemoveUser,
RemoveMemberships, DeletePrimary, DeleteSecondary`; an edit of a connection
`BeginEdit, ReadConnection, PutConnection` or `DeleteConnection`, with one action
per endpoint of the API and the panel.  The two reads of `identity_and_user` are
one step, whether an address is free is left open (*Accounts* has the index), and
a membership is one record (*Directory* has its two keys).  `BeginActivate,
PutActivated` is `activate_user` of an administrator; `revived` are the users it
put back after they were removed.

**Directory** models tenants, memberships, invitations, roles, hooks and the
bootstrap.  `fwd` and `rev` are the two keys of a membership (`PutFwd, PutRev,
DeleteFwd, DeleteRev`).  A request through the API acts with the claims of the
caller's token, which `IssueToken` fixed some time ago, one through the panel
with the roles now stored (`Caller`); `MayGrant` is the rule of `add_member` and
`invite_user`.  `HookSetsSuperadmin, HookGrant` is `apply_outcome`;
`BeginActivate, PutActivated` is `activate_user` (it puts back a superadmin flag
and an erased user, not the memberships);
`BeginHookUpdate, BeginHookForm, RereadHook, PutHook, SaveHookVersion` is
`update_hook`; `BeginBootstrap, BootstrapHook, ClaimBootstrap, CreateAdmin,
CreateOrganization` is `handle_bootstrap_submit`.  `Init` is a new authority or
one that is established, with a superadmin and a manager.

**How the modules fit.**  *SignIn* ends where *AuthCodes*, *DeviceGrant* and
*Saml* begin (the consumed authentication session); *AuthCodes* ends where
*RefreshTokens* begins; *BrowserSessions* starts with a grant that *SignIn*
completed, and takes the revocation marker that *RefreshTokens*' sweep leaves
aside.  The user's record is split by field: *Accounts* has address, status and
password, *Credentials* the factors, *Directory* the superadmin flag and
memberships.  The split is sound where the fields are written by
`update_user_rmw`, whose closure touches only its own.  `activate_user` writes
the whole record and so is an action of every module that has a part of it:
*Accounts*, *SignIn*, *Credentials*, *Provisioning* and *Directory* have its read
and its put as two steps, each for its own fields; *RefreshTokens* and
*BrowserSessions*, which know the status alone, have its effect on the status.

The `MC*` modules add only the symmetry sets and the issue instant of *Saml*.

## 4. Runs

| Run | Instance | Shows |
|---|---|---|
| `refresh_rotation` | 1 user, 2 tokens, 2 requests, clock fixed | `OneHolder`: no fork; `HandedIsIndexed`: every usable token can be swept; `ImplementsTokenFamily`: refinement |
| `refresh_lifetime` | 1 request at a time, 4 s, lifetimes 2 s | `LifetimeBounded`: rotation does not prolong a family; `ReplayDetectable`: a rotated token stays recognisable |
| `auth_codes` | 2 codes, 2 scopes, 2 requests, 2 posts of consent forms, 3 s, codes live 1 s | `RedeemedOncePerWrite`, `RedeemedInTime`, `ConsentBeforeTokens` |
| `device_grant` | 1 device, 2 users, 2 approval tokens, 2 requests, lock after 1 attempt | `MintedOnce`, `MintsLastDecision`, `MintsForApprover` |
| `key_ring` | 1 algorithm, 2 requests, 3 generations, 2 attempts | `RingMatchesMaterial`, `SignerPublished`, `NothingResurrected` |
| `accounts` | 2 users, 2 addresses, 2 tokens, 2 requests at once, 4 in all, 2 attempts | `EmailIndexed`, `NoSquattedEmail`, `ResetHolds`, `ActiveIsVerified`, `ErasureHolds`, `ReinstatedByAuthority` |
| `sign_in` | 1 session and the admin panel, 2 pending logins, 1 each of challenge, visit, pushed request and recovery code, lock after 2 failures for 2 periods, 4 periods, 2 requests at once, 4 in all | `OneSignInPerSession`, `GuessesBounded`, `FactorSpentOnce` |
| `browser_sessions` | 1 grant of each kind, session lifetimes 1 and 2, marker 4, clock to 6, 2 requests at once, 4 in all | `RevokedStaysOut`, `MarkerOutlivesSessions` |
| `credentials` | 3 users, 1 provider identity, 1 passkey, 2 requests at once, 6 in all | `RemovedStaysRemoved`, `OneAccountPerPerson`, `EnabledSecretFixed` |
| `saml` | 2 service providers, 1 request, 2 flows, lock 1, request age and grace 2, clock to 3, 2 requests at once, 3 in all, 1 crash | `OneResponsePerRequest`, `SignerPublished`, `RingComplete`, and the liveness property `LockEventuallyFree` |
| `provisioning` | 2 connections, 4 users, 2 external ids, 2 requests at once, 3 in all, 1 crash or refused write | `Manageable`, `OwnUsersOnly`, `LoneEditHolds` |
| `directory` | 2 tenants, 3 users, 1 invitation, 1 hook, roles owner and member asked for, 2 requests at once, 3 in all, 1 crash, both initial states | `BootstrapOnce`, `RankFromAbove`, `ViewsAgree`, `RanIsOnRecord` |

**Bounds.**  The races in this code are between two handlers over one object
(a family, a code, a session, the ring, an account, a membership), so two
requests at once and one or two objects reach them; a crash and a new request
add a third actor in sequence.  Two tokens make one rotation or two families;
three generations make two rotations, which is what retiring, expiring and
purging take.  Lifetimes are 1 to 4 ticks, enough for "before", "at" and
"after"; the ratios that matter are those of the code: the marker of a TOTP
code lives 3 periods, which is how long the code is good, a SAML reservation as
long as a request is accepted, without a margin.  Three users in *Credentials* are an account, its
successor and a third that could be a second account of the same person; six
requests make one, take it away, make the next and still leave two that
overlap.  Three or four requests in the other modules are one that prepares and
two or three that race.  Where a bound cuts behaviour off, it is a named
constant in a guard: `MaxTime`, `MaxSubmits`, `MaxRequests`, `MaxCrashes`,
`MaxFaults`, `MaxVersion`, `MaxKids`, `MaxTokens`, and the sets.  The limits
that the code itself has (`MaxTries`, `MaxAttempts`, `MaxFailures`, `MfaLimit`)
are smaller than in the code.  Two lifetimes and two requests together are too
many states for one run of `RefreshTokens`, hence the two runs.  Type invariants
are stated in every module; the run `refresh_rotation` checks that of
*RefreshTokens*, and the proofs have one for each module they cover.

Every property of a passing run has a mutant: a plausible slip in one mapped
definition (kept beside it, suffix `_...`) with which TLC violates it.

## 5. Proofs

All eleven component modules are proved about.  Every invariant, every action
property and the refinement that the runs check is a theorem, for every value of
the constants that meets the assumptions below; only the liveness property of
*Saml* is not.

All the proofs have one shape.  A run's invariant is seldom inductive, so `IInv`
(`HInv`, `RemembersTargets`) strengthens it by what a request knows at each
label (`RequestOK`, from which the reader of the code can take the assumptions
each handler makes after an await), and by what the records of the store say of
each other and of the history variables.  Each strengthening was model-checked
on the instances of section 4 before it was proved.  Then there is one lemma per
action or group of actions that leave the same things alone, `Invariance`
combines them, and the properties follow from the invariant.

**KeyRingProofs**: `RingTypeCorrect`, `RingIsSound` (`RingMatchesMaterial`),
`SignersStayPublished` (`SignerPublished`), `PurgedStaysAway`
(`NothingResurrected`).  A token that is still accepted, and a request that has
read the ring in order to sign, is `Covered`: its generation is current, or
retired at most `Delay` before the token was issued.  A rotation whose revision
is still that of the ring has seen this ring and found or made all keys of the
next generation (`Made`).  A request about to delete a record holds a name below
the current generation without an active entry (`NameDropped`).  For
`PurgedStaysAway`, `RemembersTargets` adds that a rotation that lost the race and
still creates keys aims at a generation with an entry that cannot have expired
within the time a rotation takes.  The assumptions on time are needed:
`TokenTTL + Delay < Grace` and `2 * Delay < Grace`.  In the code the grace period
is 4200 s and a token with its leeway is accepted for 3630 s, so the theorems
hold for requests that take less than 570 s from their clock reading to their
last write; requests are bounded far below that by the timeouts of the store.

**RefreshTokensProofs**: `TypeCorrect`, `RotationNeverForks` (`OneHolder`).  A
request about to consume has read revision 1, an entry has revision 1 if and only
if it is live (`EntryOK`), and a family is named by its first token
(`FamilyRooted`).  So a CAS that succeeds finds the only live token of the
family, nobody held it, and the successor is written by the only holder.

The module then goes on to the abstract specification.  `RefinesTokenFamily` is
`ImplementsTokenFamily`: the mapping takes a family to `current`, `taken` or
`dead` by who has its token, and every step moves one family along an edge of
*TokenFamily* or none.  `LifetimeIsBounded`, `ReplaysAreDetectable` and
`SweepsFindTokens` (`HandedIsIndexed`) rest on `HInv`, which adds to `IInv` the
past: the issue time in an entry is that of its family, one request carries a
token that nobody holds yet, a token handed out has a predecessor whose mark is
written, and is indexed or about to be swept.

**AuthCodesProofs**: `TypeCorrect`, `OneMintPerWrite` (`RedeemedOncePerWrite`),
`ApprovalDoesNotProlong` (`RedeemedInTime`), `ConsentFirst`
(`ConsentBeforeTokens`).  The heart is a budget (`Counted`): the mints of a code,
the requests that will mint or make it redeemable, and one if it is redeemable
now, are together at most the number of times it was written.  The CAS moves a
unit from the record to a request; the posted form pays for the one it restores.

The same module proves about *DeviceGrant* (as `DG`): `DeviceTypeCorrect`, `PollsMintOnce` (`MintedOnce`),
`LastDecisionWins` (`MintsLastDecision`), `OnlyForApprover` (`MintsForApprover`).
A poll that holds the current revision has read the current decision; once its
conditional delete has succeeded the record stays gone and there is no later
decision.  Who may be approved for is carried from the approval token through
every label of the confirmation.

**SamlProofs**: `TypeCorrect`, `AnswersOnce` (`OneResponsePerRequest`),
`RingStaysWhole` (`RingComplete`), `SignerIsPublished` (`SignerPublished`).  A
request of a service provider is a ticket: unless it is `late`, at most one
handler or login flow may still answer it, none once it is answered, and as long
as one may, its reservation covers every moment in which the age check of a
repetition can have passed (`TicketOK`).  So a second answer takes a handler that
checked the age in time and reserved when the time was over, and nothing else
yields one: neither a reservation that lapses early, nor a flow and a direct
answer, nor a crash.  The ring rests on keys and pointers being created only (`Grows`): a pointer names a
stored key, and a stored key has a pointer or is the one whose writer is still
about to write it, or died doing so.  The age limit is assumed to be positive
(it is 600 s).

**SignInProofs**: `TypeCorrect`, `OneSignIn` (`OneSignInPerSession`),
`FactorsSpentOnce` (`FactorSpentOnce`), `GuessesAreBounded` (`GuessesBounded`).
A session is gone before the only request that consumed it answers (`MintOK`).
The marker of an accepted TOTP period lasts beyond the last period in which the
code is good, for which `MarkTTL >= 3` is needed and, as the code's 90 s over
30 s, is just enough; a recovery code leaves the record in the swap that accepts
it, and comes back only with an `activate_user` that read it before
(`FactorOK`): it is accepted at most once more for each such `restored`.  While the account is locked, only a request that read the lock
before it was set (`Guessers`) can add a guess (`GuessOK`); the bound is then the
number of such requests.  The proof needs finitely many requests at a time
(`IsFiniteSet(Procs)`), and it showed that only guesses which reach the record
are bounded: see section 6.

**AccountsProofs**: `TypeCorrect`, `OnlyVerifiedAreActive` (`ActiveIsVerified`),
`ErasuresHold` (`ErasureHolds`), `ResetsHold` (`ResetHolds`), `AddressesLead`
(`EmailIndexed`), `NoAddressIsKept` (`NoSquattedEmail`), and the action property
`OnlyAuthorityReinstates` (`ReinstatedByAuthority`).  A request has seen the
stored record or an older revision (`Seen`), so that a swap that succeeds writes
over what it read.  A user is created by one request and is neither renamed nor
answered until it ends (`CreationOK`).  The two properties of the index
need each other: a user who is whole has the key of the address in the record
and one more for each rename in flight, held by that rename alone (`KeysOK`),
and a key that names a user is one of these (`OwnedOK`).

**DirectoryProofs**: `TypeCorrect`, `OneBootstrap` (`BootstrapOnce`),
`RanksComeFromAbove` (`RankFromAbove`), `KeysAgree` (`ViewsAgree`),
`RunsOnRecord` (`RanIsOnRecord`).  The claim is taken once and only its taker is
at `admin` (`BootstrapOK`).  Roles rest below the ceiling everywhere they can be:
in a membership, an open invitation, a token however old, and the locals of a
request that is about to store one (`RankOK`); a token keeps its roles when the
memberships go, so this holds only because the ceiling never falls.  A pair that
is not torn has writers of one kind, and one key without the other is the work of
a request between its two steps (`PairOK`), so an addition and a removal that
overlap have to count as torn.  A hook that is not torn has one editor, who holds
the next version; a version that was run is the stored one or has its snapshot
(`HookOK`).  Versions stay within the number of requests although the panel's
form counts up at its second read: every form that will still read again is
counted (`VersionsOK`).

**ProvisioningProofs**: `ProvisionedManageable` (`Manageable`),
`ProvisionedOwnUsersOnly` (`OwnUsersOnly`), `ProvisionedEditHolds`
(`LoneEditHolds`).  `OwnInv` says what both records of an identity and the
locals of a request know of a user: which connection made it, which never
changes, and that a user that is gone stays gone or is `revived` (`Keeps`).  On it
`Manageable` is inductive by itself: the record that finds a user is deleted by
rollbacks of a creation, which stays exempt until it ends, and by
removals, for which the user is gone already.  `EditInv` has the editors of a
connection: one that is alone has no other beside it, so the record it writes is
no older than what the last lone edit established.

**AccountsProofs** also proves about *BrowserSessions* (as `BS`): `SessionsTyped`,
`MarkerCoversSessions` (`MarkerOutlivesSessions`), `RevokedIsRefused`
(`RevokedStaysOut`).  The two about revocation suppose `ShortLived`: every
lifetime that the settings offer, and those of account sessions and tokens, plus
the time a request may take, is below the lifetime of the marker.  The code
warrants it for sessions of up to 30 days less the flight time; `update_settings`
takes up to 90 days (`services/settings.rs:25`), and there the marker does not
cover the session: see section 6.  `MarkerInv` compares the end of each
session, and of each one on its way to be saved by a slide, with the end of the
marker.  `LateInv` follows a request that began after a revocation with a grant
from before it: it has not passed its judgement, and ends before the marker
does, for which tokens need the flight time twice.

**SignInProofs** also proves about *Credentials* (as `CR`): `CredentialsTyped`,
`PersonHasOneAccount` (`OneAccountPerPerson`), `RemovedPasskeyStaysRemoved`
(`RemovedStaysRemoved`), and the action property `EnabledSecretStays`
(`EnabledSecretFixed`).  One account rests on the index: whoever lives, and is
neither being created nor erased nor `cut` off by a crash, holds the address, and
who is being created waits for the claim alone (`AddressInv`).  A passkey has one registration,
because its challenge is consumed by one request, and the record it goes to is
that of the user of the challenge; until that request has written it, the passkey
is on no record, in no local copy and not removed (`KeyInv`).

Three proof modules hold the theorems of two components each.  The second
component is an `INSTANCE` under its short name.  What both modules declare
(`Procs`, `now`, `pc`, ...) stands for the second component's own state there, and
no theorem speaks of both components at once.  The promises of a second component
are in a module of their own (*DevicePromise*, *SessionPromise*,
*CredentialPromise*), which the component and the proof module both extend, so that
the run and the theorem state the same definition.

**Assumptions.**  Nothing is assumed but the named `ASSUME`s of the modules, which
TLC evaluates in every run: that markers such as `None` are no members of the
sets, that bounds are numbers (positive where the code's are), and the four
relations on time above; the theorems about revocation have `ShortLived` as a
hypothesis of their own.  An instance does not bring the `ASSUME` of its module
as a fact, so the theorems about `DG`, `BS` and `CR` state it as their hypothesis
(`DeviceConstants`, `SessionConstants`, `CredentialConstants`), and so do the lemmas
that need it.  The timing that a model builds into its guards
(`Delay` in *KeyRing*, `MaxFlight` in *BrowserSessions*) is a hypothesis of its
theorems as well.  Exemptions (`torn` in *Accounts*, *Credentials* and *Directory*, `clobbered`
and `cut` in *Credentials*, `overlap` in *BrowserSessions*, `restored` in
*SignIn*, `late` in *Saml*, `cut` and `revived` in *Provisioning*) are part of the
properties and so of the theorems.

**Model-checked only.**  `LockEventuallyFree` of *Saml*: liveness under fairness
is out of the prover's reach.  Every other property of every run is the
statement of a theorem.

## 6. Known divergences

Where the code does less than a document, comment or answer of the repository
says, no invariant claims it; the models contain the behaviour.  Paths are
under `src/oidc-gateway/src/` unless they start with a capital letter.

*Tokens and codes.*
- `store.rs:2121-2123` says of `consume_refresh_token` that "replay is detectable
  even before the separate consumed: key is written".  `get_consumed_refresh`
  reads the `consumed:` key and then the entry; a rotation that writes the one
  and deletes the other in between hides the replay.
- `token.rs:369` answers "refresh token replay detected — all sessions revoked"
  after one listing (`store.rs:2215`); a rotation in flight saves its
  successor afterwards, and it stays live.
- `token.rs:226` says "CAS: atomically consume the auth code (prevents
  double-spend)".  `handle_consent` (`login.rs:1112`) puts the code back
  without a revision: a second post of the form restores a redeemed code.
- `device.rs:277` says that a lockout denies the device request;
  `update_device_code_status` swaps on a revision it reads after the caller
  checked the status, so that a confirmation in flight overwrites the denial.
- `MANAGEMENT_API.md:182`: "Token verifiers must select keys by the JWT header
  `kid`".  `jwt.rs:27` takes the kid from one reading of the ring and the key
  from another; a rotation in between gives a token that no such verifier
  accepts.
- `SECURITY.md:73` has pushed requests used once; `authorize.rs:246` reads and
  then deletes the record, so that two requests at once both get it.  Each
  opens an authentication session of its own.
- A client assertion may be good for 600 s, its `jti` marker lives 300 s
  (`store.rs:986`).

*Accounts, factors and sessions.*
- `MANAGEMENT_API.md:569` says that an erasure is permanent.  `activate_user`
  (`services/users.rs:19`) puts back the record it read, without a revision.
  It brings back an erased user with its superadmin flag, a removed passkey, and
  a recovery code that was used since, which then completes a second sign-in
  (`restored` in *SignIn*, `clobbered` in *Credentials*, `torn` in *Accounts*).
  `delete_user` also leaves the provider identities of the user behind.
- `create_user` puts the record (`store.rs:1775`) and then claims the address
  (`store.rs:1779`).  A handler that dies in between, or an error of the claim,
  after which it returns without deleting the record (`store.rs:1786`), leaves a
  live user that no address leads to, and the next sign-up makes a second
  account of the same person (`cut` in *Credentials*).
- The MFA set-up of the management API (`management.rs:835`) checks before the
  update that MFA is off, not in the closure; that of the account pages checks
  in both places.
- `README.md:172` promises a lockout after a failure threshold.  A failure that
  loses `MAX_RETRIES` swaps in a row is answered as a wrong password, but not
  recorded (`login.rs:507` takes the error for "not locked"), so under heavy
  contention more guesses are answered than counted.  `GuessesBounded` is about
  the recorded ones; `FailSwap` has both cases.
- `CHANGELOG.md:147` has TOTP replay refused; the admin panel takes a store
  error of `record_totp_used` for success.
- The settings accept session lifetimes up to 90 days
  (`services/settings.rs:24`), the revocation marker lives 30 days
  (`store.rs:978`): `MarkerOutlivesSessions` is checked for lifetimes below that
  of the marker.  Likewise `lockout_duration` may exceed the lifetime of the
  lockout record, 3600 s.
- A single sign-on in flight puts a session back that was logged out meanwhile,
  and the account session it then creates is dated later than a revocation that
  came in between.  Overlapping revocations may leave the older time.
- `verify_token_scoped` treats an error of the store as not revoked
  (`service_client.rs:51`).

*SAML.*
- A handler that dies between `saml:key-v{n+1}` and its pointer leaves a version
  that every later rotation fails to create; after `saml:key-v1` there is no ring
  yet, and every reading of it fails from then on (`saml/keys.rs:89-93`).
  `RingComplete` says which keys have no pointer (`orphaned`), and that every
  pointer has its key.
- `SAML_SCIM.md:23` promises "request/flow replay protection".  A request is
  accepted for 600 s from its issue instant (`saml/mod.rs:39`), a reservation lives 600 s (`store.rs:2901`), and reads of
  the session, the marker and the user lie between check and reservation.  A
  repetition whose check passes in the last second and whose reservation comes
  after the first one lapsed is answered a second time (`late` in *Saml*).
- Two rotations within the grace period drop a certificate that is still in
  grace.  The lock is deleted by whoever ends, not only by its holder.
- Two creations at once give two records for one entity id, and reservations
  are kept per record.

*Provisioning.*
- `SAML_SCIM.md` offers the ETag "to prevent lost writes"; If-Match is checked
  on a reading and the records are put without a revision.
- `activate_user` of an administrator that read a user before a SCIM `DELETE`
  puts it back afterwards: an active user of the connection that it no longer
  finds (`revived`).
- A `PUT` that overlaps a `DELETE` writes the identity back; the external id
  is then taken for good.  Two `DELETE`s at once and a re-creation can delete
  the new user's primary identity.
- Overlapping edits of a connection put back what they read, a rotated token
  included.  Deleting a connection, or a user through the management API, leaves
  identities.

*Directory.*
- The bootstrap claim is never given back: a form that dies after it leaves an
  authority without a superadmin that the form can no longer make one for.
  The memberships of the bootstrap hook are written before the claim.
- `hooks.rs` says of the bootstrap hook that it never fires again once a
  superadmin exists; on registration it takes no claim.
- An addition and a removal of one member may leave one key of the two.  An
  update of a tenant puts a deleted one back; deleting a tenant leaves its
  memberships.  `remove_member` compares ranks with a role that may be outdated.
- `services/hooks.rs:3` calls snapshots immutable; overlapping updates take one
  version number and the second overwrites the first.

## 7. What is not modelled

- Cryptography, parsing, HTTP, pages, mails and logs.
- The storage service itself: its linearizable single-key operations are
  assumed, and ranges (`list_keys`, `prefix`) are taken to be snapshots.
- Several regions: every module is about one region.  Replication is sent once
  and its receiving side, the region authority's storage, is not in the
  repository, so that a model would consist of assumptions.
- The windows of the rate limiter; *SignIn* and *DeviceGrant* have its effect.
- Clients, dynamic registration and identity-provider configuration: one record
  each, read and put, without a second key or a counter.
- Proof of possession and client assertions: their only state is a marker that
  is created once, the mechanism of the TOTP marker.
- Back-channel logout (best-effort posts), the start-up encryption of tables,
  the e-mail worker, the password hasher and the command-line client.

## 8. Plan

Every safety property of the runs is proved.  Of the model, what is left is the
limiter, as a reference (at most `limit` admissions per window) that the CAS loop
refines, and clients.
