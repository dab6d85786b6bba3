----------------------------- MODULE AuthCodes -----------------------------
(***************************************************************************)
(* Authorization codes from /authorize and /login through the consent page *)
(* (login.rs) to their redemption at /token (token.rs), over the sessions  *)
(* table, and the consent records of the users table (store.rs) for one    *)
(* user and one third-party client.                                        *)
(*                                                                         *)
(* A request in flight is a process p; each store operation is one step.   *)
(* scope, origin, submits, approved and mints are history variables.       *)
(***************************************************************************)
EXTENDS Requests, Naturals, FiniteSets, Functions

CONSTANTS
    Codes, Scopes, NoCode,
    MaxTime,        \* bound of the clock
    CodeTTL,        \* TTL_AUTH_CODE, and the 300 s of expires_at
    MaxSubmits      \* bound: how often consent forms are posted

ASSUME CodeAssumption ==
    NoCode \notin Codes /\ {MaxTime, CodeTTL, MaxSubmits} \subseteq Nat \ {0}

VARIABLES
    now,
    code,       \* code:{code}
    consent,    \* consent:{user}:{client}, the scopes recorded
    scope,      \* scopes of each issued code
    origin,     \* when and how each code was issued
    submits,    \* consent forms posted for each code
    approved,   \* codes whose owner pressed Allow
    mints       \* how often tokens were minted for each code

history == <<scope, origin, submits, approved, mints>>
vars == <<now, code, consent, pc, req, history>>

(***************************************************************************)
(* A code entry; rev is the store's revision of its key, which survives    *)
(* deletion, and ttl the time at which the store drops it.                 *)
(***************************************************************************)
Times == 0..(MaxTime + CodeTTL)
Entry == [st: {"absent", "pending", "ready", "consumed"}, rev: Nat, expires: Times, ttl: Times]

Put(e, st, expires) == [st |-> st, rev |-> e.rev + 1, expires |-> expires, ttl |-> now + CodeTTL]
Delete(e) == [st |-> "absent", rev |-> e.rev, expires |-> 0, ttl |-> 0]

Origin == [how: {"none", "ready", "pending"}, at: Times]

Request == [code: Codes \cup {NoCode}, rev: Nat, expires: Times, at: Times, seen: SUBSET Scopes]
NoRequest == [code |-> NoCode, rev |-> 0, expires |-> 0, at |-> 0, seen |-> {}]
Labels == {"idle", "approve", "recall", "record", "discard", "consume", "mint"}

TypeOK ==
    /\ now \in 1..MaxTime
    /\ code \in [Codes -> Entry]
    /\ consent \subseteq Scopes
    /\ pc \in [Procs -> Labels]
    /\ req \in [Procs -> Request]
    /\ scope \in [Codes -> SUBSET Scopes]
    /\ origin \in [Codes -> Origin]
    /\ submits \in [Codes -> Nat]
    /\ approved \subseteq Codes
    /\ mints \in [Codes -> Nat]

Init ==
    /\ now = 1
    /\ code = [c \in Codes |-> [st |-> "absent", rev |-> 0, expires |-> 0, ttl |-> 0]]
    /\ consent = {}
    /\ pc = [p \in Procs |-> "idle"]
    /\ req = [p \in Procs |-> NoRequest]
    /\ scope = [c \in Codes |-> {}]
    /\ origin = [c \in Codes |-> [how |-> "none", at |-> 0]]
    /\ submits = [c \in Codes |-> 0]
    /\ approved = {}
    /\ mints = [c \in Codes |-> 0]

Finish(p) == GotoWith(p, "idle", NoRequest)

(***************************************************************************)
(* complete_login and the single-sign-on branch of /authorize: the code is *)
(* pending unless every requested scope has been consented to, or the      *)
(* client asked for the consent page again (prompt=consent).               *)
(***************************************************************************)
\* Mutant: one scope already granted is enough to skip the page.
AlreadyConsented_Some(s) == \E x \in s : x \in consent

\* has_user_consented
AlreadyConsented(s) == s \subseteq consent

IssueCode(c, s, prompt) ==
    /\ origin[c].how = "none"
    /\ LET st == IF prompt \/ ~AlreadyConsented(s) THEN "pending" ELSE "ready"
       IN /\ code' = [code EXCEPT ![c] = Put(@, st, now + CodeTTL)]
          /\ origin' = [origin EXCEPT ![c] = [how |-> st, at |-> now]]
    /\ scope' = [scope EXCEPT ![c] = s]
    /\ UNCHANGED <<now, consent, pc, req, submits, approved, mints>>

(***************************************************************************)
(* handle_consent: get_auth_code, then delete_auth_code (denied, expired)  *)
(* or save_auth_code of what was read (approved).  An absent code and the  *)
(* consumed marker are errors.  pending_consent is not looked at.          *)
(***************************************************************************)
Readable(c) == code[c].st \in {"pending", "ready"}

\* How many forms have been posted, which MaxSubmits bounds.
Posted == FoldFunction(+, 0, submits)

PostConsent(p, c, allow) ==
    /\ At(p, "idle")
    /\ origin[c].how = "pending"
    /\ Posted < MaxSubmits
    /\ Readable(c)
    /\ submits' = [submits EXCEPT ![c] = @ + 1]
    /\ LET r == [NoRequest EXCEPT !.code = c, !.expires = code[c].expires]
       IN \/ /\ now <= code[c].expires /\ allow
             /\ GotoWith(p, "approve", r)
             /\ approved' = approved \cup {c}
          \/ /\ now > code[c].expires \/ ~allow
             /\ GotoWith(p, "discard", r)
             /\ UNCHANGED approved
    /\ UNCHANGED <<now, code, consent, scope, origin, mints>>

\* Mutant: approval starts a new lifetime.
ApprovedExpiry_Restarted(r) == now + CodeTTL

ApprovedExpiry(r) == r.expires

SaveApproved(p) ==
    /\ At(p, "approve")
    /\ code' = [code EXCEPT ![req[p].code] = Put(@, "ready", ApprovedExpiry(req[p]))]
    /\ Goto(p, "recall")
    /\ UNCHANGED <<now, consent, history>>

\* save_user_consent: read the record, write back its union with the scopes of the code.
RecallConsent(p) ==
    /\ At(p, "recall")
    /\ GotoWith(p, "record", [req[p] EXCEPT !.seen = consent])
    /\ UNCHANGED <<now, code, consent, history>>

RecordConsent(p) ==
    /\ At(p, "record")
    /\ consent' = req[p].seen \cup scope[req[p].code]
    /\ Finish(p)
    /\ UNCHANGED <<now, code, history>>

DiscardCode(p) ==
    /\ At(p, "discard")
    /\ code' = [code EXCEPT ![req[p].code] = Delete(@)]
    /\ Finish(p)
    /\ UNCHANGED <<now, consent, history>>

(***************************************************************************)
(* handle_code_exchange: read with revision, checks, CAS to the consumed   *)
(* marker, mint, delete.                                                   *)
(***************************************************************************)
Redeemable(c) == code[c].st = "ready" /\ now <= code[c].expires

PresentCode(p, c) ==
    /\ At(p, "idle")
    /\ Redeemable(c)
    /\ GotoWith(p, "consume", [NoRequest EXCEPT !.code = c, !.rev = code[c].rev, !.at = now])
    /\ UNCHANGED <<now, code, consent, history>>

\* Mutant: the swap ignores the revision.
RevisionMatches_Ignored(p) == TRUE

RevisionMatches(p) == code[req[p].code].rev = req[p].rev /\ code[req[p].code].st # "absent"

ConsumeCode(p) ==
    /\ At(p, "consume")
    /\ \/ /\ RevisionMatches(p)
          /\ code' = [code EXCEPT ![req[p].code] = Put(@, "consumed", 0)]
          /\ Goto(p, "mint")
       \/ ~RevisionMatches(p) /\ Finish(p) /\ UNCHANGED code
    /\ UNCHANGED <<now, consent, history>>

\* The user is active and both tokens are signed; every error before that is a Crash.
MintTokens(p) ==
    /\ At(p, "mint")
    /\ mints' = [mints EXCEPT ![req[p].code] = @ + 1]
    /\ Goto(p, "discard")
    /\ UNCHANGED <<now, code, consent, scope, origin, submits, approved>>

Crash(p) ==
    /\ ~At(p, "idle")
    /\ Finish(p)
    /\ UNCHANGED <<now, code, consent, history>>

ExpireKey(c) ==
    /\ code[c].st # "absent"
    /\ code[c].ttl <= now
    /\ code' = [code EXCEPT ![c] = Delete(@)]
    /\ UNCHANGED <<now, consent, pc, req, history>>

Tick ==
    /\ now < MaxTime
    /\ now' = now + 1
    /\ UNCHANGED <<code, consent, pc, req, history>>

Handler(p) ==
    \/ \E c \in Codes : (\E allow \in BOOLEAN : PostConsent(p, c, allow)) \/ PresentCode(p, c)
    \/ SaveApproved(p) \/ RecallConsent(p) \/ RecordConsent(p) \/ DiscardCode(p)
    \/ ConsumeCode(p) \/ MintTokens(p) \/ Crash(p)

Next ==
    \/ \E p \in Procs : Handler(p)
    \/ \E c \in Codes : \E s \in SUBSET Scopes \ {{}} : \E prompt \in BOOLEAN : IssueCode(c, s, prompt)
    \/ \E c \in Codes : ExpireKey(c)
    \/ Tick

Spec == Init /\ [][Next]_vars

(***************************************************************************)
(* Properties.                                                             *)
(***************************************************************************)
\* What the CAS gives whatever the consent page does: a code issued ready is redeemed once, and
\* one that needed consent at most once for each form posted for it.
RedeemedOncePerWrite ==
    \A c \in Codes : mints[c] <= IF origin[c].how = "ready" THEN 1 ELSE submits[c]

\* A code that needs the user's consent is redeemed only after the user pressed Allow, and one
\* that did not need it covers only scopes the user once allowed.
ConsentBeforeTokens ==
    \A c \in Codes :
        /\ mints[c] > 0 /\ origin[c].how = "pending" => c \in approved
        /\ origin[c].how = "ready" => scope[c] \subseteq UNION {scope[d] : d \in approved}

\* Approving a code late does not prolong it: every redemption passed its checks within
\* CodeTTL of the issue of the code.
RedeemedInTime ==
    \A p \in Procs : At(p, "consume") \/ At(p, "mint")
                     => req[p].at <= origin[req[p].code].at + CodeTTL
============================================================================
