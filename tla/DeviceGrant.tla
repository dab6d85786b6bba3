---------------------------- MODULE DeviceGrant ----------------------------
(***************************************************************************)
(* The device authorization grant: POST /device_authorization, the browser *)
(* leg on POST /device and the confirmation page (device.rs), and the      *)
(* device's polling of /token (token.rs), over the sessions and cache      *)
(* tables.  Whoever logs in on the browser leg gets an approval token that *)
(* carries the device code and the user; the login itself is external.     *)
(*                                                                         *)
(* A request in flight is a process p; each store operation is one step.   *)
(* attempts stands for the limiter's counter of submitted user codes: its  *)
(* window (900 s) outlasts a device code (300 s).  What is promised, with  *)
(* the history variables it speaks of, is in DevicePromise.                *)
(***************************************************************************)
EXTENDS DevicePromise, Naturals, FiniteSets

CONSTANTS
    Users, Approvals, None,
    MaxTime,        \* bound of the clock
    DeviceTTL,      \* TTL_DEVICE_CODE, and expires_in
    MaxAttempts,    \* submissions of a user code before it is locked
    MaxSubmits      \* bound: submissions of a user code

DeviceConstants ==
    /\ None \notin Devices \cup Users \cup Approvals
    /\ {MaxTime, DeviceTTL, MaxAttempts, MaxSubmits} \subseteq Nat \ {0}
ASSUME DeviceAssumption == DeviceConstants

VARIABLES
    now,
    device,     \* device:{device_code}
    lookup,     \* device_user_code:{user_code} keys
    attempts,   \* check_rate("device_user_code:..")
    sessions,   \* devices for which a login of the browser leg is open
    approval    \* device_approval:{token}

kv == <<device, lookup, attempts, sessions, approval>>
history == <<said, last, minted>>
vars == <<now, kv, pc, req, history>>

Statuses == {"absent", "pending", "approved", "denied"}
Times == 0..(MaxTime + DeviceTTL)
Entry == [st: Statuses, user: Users \cup {None}, rev: Nat, expires: Times, ttl: Times]
Unborn == [st |-> "absent", user |-> None, rev |-> 0, expires |-> 0, ttl |-> 0]
Delete(e) == [e EXCEPT !.st = "absent", !.user = None]

Approval == [st: {"unused", "there", "gone"}, dev: Devices \cup {None}, user: Users \cup {None}]

Request == [dev: Devices \cup {None}, user: Users \cup {None}, appr: Approvals \cup {None},
            rev: Nat, to: Statuses]
NoRequest == [dev |-> None, user |-> None, appr |-> None, rev |-> 0, to |-> "absent"]
Labels == {"idle", "publish", "find", "burn", "check", "update", "swap", "consume", "mint", "discard"}

TypeOK ==
    /\ now \in 1..MaxTime
    /\ device \in [Devices -> Entry]
    /\ lookup \subseteq Devices
    /\ attempts \in [Devices -> Nat]
    /\ sessions \subseteq Devices
    /\ approval \in [Approvals -> Approval]
    /\ pc \in [Procs -> Labels]
    /\ req \in [Procs -> Request]
    /\ said \in [Devices -> SUBSET Users]
    /\ last \in [Devices -> [st: Statuses, user: Users \cup {None}]]
    /\ minted \in [Devices -> Nat]

Init ==
    /\ now = 1
    /\ device = [d \in Devices |-> Unborn]
    /\ lookup = {} /\ sessions = {}
    /\ attempts = [d \in Devices |-> 0]
    /\ approval = [k \in Approvals |-> [st |-> "unused", dev |-> None, user |-> None]]
    /\ pc = [p \in Procs |-> "idle"]
    /\ req = [p \in Procs |-> NoRequest]
    /\ said = [d \in Devices |-> {}]
    /\ last = [d \in Devices |-> [st |-> "absent", user |-> None]]
    /\ minted = [d \in Devices |-> 0]

Finish(p) == GotoWith(p, "idle", NoRequest)

Pending(d) == device[d].st = "pending"
Expired(d) == now > device[d].expires

(***************************************************************************)
(* start: save_device_code writes the record, then the user-code key.      *)
(***************************************************************************)
StartDevice(p, d) ==
    /\ At(p, "idle")
    /\ device[d] = Unborn
    /\ device' = [device EXCEPT ![d] = [st |-> "pending", user |-> None, rev |-> 1,
                        expires |-> now + DeviceTTL, ttl |-> now + DeviceTTL]]
    /\ GotoWith(p, "publish", [NoRequest EXCEPT !.dev = d])
    /\ UNCHANGED <<now, lookup, attempts, sessions, approval, history>>

PublishCode(p) ==
    /\ At(p, "publish")
    /\ lookup' = lookup \cup {req[p].dev}
    /\ Finish(p)
    /\ UNCHANGED <<now, device, attempts, sessions, approval, history>>

(***************************************************************************)
(* submit: count the attempt; over the limit, deny the device if it is     *)
(* still pending; otherwise open a login session for it.                   *)
(***************************************************************************)
SubmitUserCode(p, d) ==
    /\ At(p, "idle")
    /\ device[d] # Unborn
    /\ attempts[d] < MaxSubmits
    /\ attempts' = [attempts EXCEPT ![d] = @ + 1]
    /\ GotoWith(p, "find", [NoRequest EXCEPT !.dev = d,
            !.to = IF attempts[d] < MaxAttempts THEN "pending" ELSE "denied"])
    /\ UNCHANGED <<now, device, lookup, sessions, approval, history>>

FindByUserCode(p) ==
    /\ At(p, "find")
    /\ LET d == req[p].dev
           found == d \in lookup /\ Pending(d)
       IN \/ found /\ req[p].to = "denied" /\ Goto(p, "update") /\ UNCHANGED sessions
          \/ /\ found /\ req[p].to = "pending" /\ ~Expired(d)
             /\ sessions' = sessions \cup {d}
             /\ Finish(p)
          \/ /\ ~found \/ (req[p].to = "pending" /\ Expired(d))
             /\ Finish(p) /\ UNCHANGED sessions
    /\ UNCHANGED <<now, device, lookup, attempts, approval, history>>

\* Mutant: whoever logs in has approved the device.
CompleteLogin_Approves(k, d, u) ==
    /\ d \in sessions
    /\ approval[k].st = "unused"
    /\ approval' = [approval EXCEPT ![k] = [st |-> "there", dev |-> d, user |-> u]]
    /\ device' = [device EXCEPT ![d] = IF Pending(d)
            THEN [@ EXCEPT !.st = "approved", !.user = u, !.rev = @ + 1] ELSE @]
    /\ last' = [last EXCEPT ![d] = [st |-> "approved", user |-> u]]
    /\ UNCHANGED <<now, lookup, attempts, sessions, pc, req, said, minted>>

\* create_approval, called by every login path; the device is not approved here.
CompleteLogin(k, d, u) ==
    /\ d \in sessions
    /\ approval[k].st = "unused"
    /\ approval' = [approval EXCEPT ![k] = [st |-> "there", dev |-> d, user |-> u]]
    /\ UNCHANGED <<now, device, lookup, attempts, sessions, pc, req, history>>

(***************************************************************************)
(* handle_confirmation: read the approval record, delete it, look at the   *)
(* device, store the decision.                                             *)
(***************************************************************************)
PostDecision(p, k, to) ==
    /\ At(p, "idle")
    /\ approval[k].st = "there"
    /\ LET a == approval[k]
       IN /\ GotoWith(p, "burn", [NoRequest EXCEPT !.dev = a.dev, !.user = a.user,
                                                   !.appr = k, !.to = to])
          /\ said' = IF to = "approved" THEN [said EXCEPT ![a.dev] = @ \cup {a.user}] ELSE said
    /\ UNCHANGED <<now, kv, last, minted>>

BurnApproval(p) ==
    /\ At(p, "burn")
    /\ approval' = [approval EXCEPT ![req[p].appr] = [st |-> "gone", dev |-> None, user |-> None]]
    /\ Goto(p, "check")
    /\ UNCHANGED <<now, device, lookup, attempts, sessions, history>>

CheckDevice(p) ==
    /\ At(p, "check")
    /\ LET d == req[p].dev
           open == Pending(d) /\ ~Expired(d)
       IN \/ open /\ Goto(p, "update")
          \/ ~open /\ Finish(p)
    /\ UNCHANGED <<now, kv, history>>

\* update_device_code_status reads the record again, takes its revision and nothing else from
\* it; a device that is gone is no error.
ReadForUpdate(p) ==
    /\ At(p, "update")
    /\ LET e == device[req[p].dev]
       IN \/ e.st # "absent" /\ GotoWith(p, "swap", [req[p] EXCEPT !.rev = e.rev])
          \/ e.st = "absent" /\ Finish(p)
    /\ UNCHANGED <<now, kv, history>>

\* Mutant: swaps and conditional deletes ignore the revision.
RevisionMatches_Ignored(p) == TRUE

RevisionMatches(p) ==
    LET e == device[req[p].dev] IN e.st # "absent" /\ e.rev = req[p].rev

\* remaining_ttl.max(1)
RemainingUntil(e) == IF e.expires > now THEN e.expires ELSE now + 1

SwapStatus(p) ==
    /\ At(p, "swap")
    /\ LET r == req[p]
           u == IF r.to = "approved" THEN r.user ELSE None
       IN \/ /\ RevisionMatches(p)
             /\ device' = [device EXCEPT ![r.dev] = [st |-> r.to, user |-> u, rev |-> @.rev + 1,
                                expires |-> @.expires, ttl |-> RemainingUntil(@)]]
             /\ last' = [last EXCEPT ![r.dev] = [st |-> r.to, user |-> u]]
          \/ ~RevisionMatches(p) /\ UNCHANGED <<device, last>>
    /\ Finish(p)
    /\ UNCHANGED <<now, lookup, attempts, sessions, approval, said, minted>>

(***************************************************************************)
(* handle_device_code: the device polls.                                   *)
(***************************************************************************)
Poll(p, d) ==
    /\ At(p, "idle")
    /\ d \in lookup
    /\ LET e == device[d]
           r == [NoRequest EXCEPT !.dev = d]
       IN \/ /\ e.st = "denied" \/ (e.st # "absent" /\ Expired(d))
             /\ GotoWith(p, "discard", r)
          \/ /\ e.st = "approved" /\ ~Expired(d)
             /\ GotoWith(p, "consume", [r EXCEPT !.user = e.user, !.rev = e.rev])
    /\ UNCHANGED <<now, kv, history>>

DiscardDevice(p) ==
    /\ At(p, "discard")
    /\ device' = [device EXCEPT ![req[p].dev] = Delete(@)]
    /\ Finish(p)
    /\ UNCHANGED <<now, lookup, attempts, sessions, approval, history>>

\* consume_device_code_cas
ConsumeDevice(p) ==
    /\ At(p, "consume")
    /\ \/ /\ RevisionMatches(p)
          /\ device' = [device EXCEPT ![req[p].dev] = Delete(@)]
          /\ Goto(p, "mint")
       \/ ~RevisionMatches(p) /\ Finish(p) /\ UNCHANGED device
    /\ UNCHANGED <<now, lookup, attempts, sessions, approval, history>>

\* The user is active and the tokens are signed; every error before that is a Crash.
MintTokens(p) ==
    /\ At(p, "mint")
    /\ minted' = [minted EXCEPT ![req[p].dev] = @ + 1]
    /\ Finish(p)
    /\ UNCHANGED <<now, kv, said, last>>

Crash(p) ==
    /\ ~At(p, "idle")
    /\ Finish(p)
    /\ UNCHANGED <<now, kv, history>>

ExpireKey(d) ==
    /\ device[d].st # "absent"
    /\ device[d].ttl <= now
    /\ device' = [device EXCEPT ![d] = Delete(@)]
    /\ UNCHANGED <<now, lookup, attempts, sessions, approval, pc, req, history>>

Tick ==
    /\ now < MaxTime
    /\ now' = now + 1
    /\ UNCHANGED <<kv, pc, req, history>>

Handler(p) ==
    \/ \E d \in Devices : StartDevice(p, d) \/ SubmitUserCode(p, d) \/ Poll(p, d)
    \/ \E k \in Approvals, to \in {"approved", "denied"} : PostDecision(p, k, to)
    \/ PublishCode(p) \/ FindByUserCode(p) \/ BurnApproval(p) \/ CheckDevice(p)
    \/ ReadForUpdate(p) \/ SwapStatus(p) \/ DiscardDevice(p) \/ ConsumeDevice(p)
    \/ MintTokens(p) \/ Crash(p)

Next ==
    \/ \E p \in Procs : Handler(p)
    \/ \E k \in Approvals, d \in Devices, u \in Users : CompleteLogin(k, d, u)
    \/ \E d \in Devices : ExpireKey(d)
    \/ Tick

Spec == Init /\ [][Next]_vars
============================================================================
