------------------------- MODULE CredentialPromise --------------------------
(***************************************************************************)
(* What the account pages and the management API promise about the second  *)
(* factor, the passkeys and the number of a person's accounts, over the    *)
(* records of the users.                                                   *)
(***************************************************************************)
EXTENDS Requests

CONSTANT Users

VARIABLES
    user,       \* user:{id}
    removed,    \* passkeys whose removal was answered
    doomed,     \* users whose erasure has begun
    clobbered,  \* users whose record was put back over a newer one by activate_user
    cut,        \* users whose creation ended between record and address, or before the roll-back
    torn        \* an erasure deleted the address of another user

\* mfa_setup, mfa_confirm: while MFA stays on, the secret that codes are checked against stays the
\* one it was enabled with, whatever set-ups were under way when it was enabled; only the set-up of
\* the management API, whose closure looks at nothing, replaces it.
EnabledSecretFixed ==
    [][\A u \in Users \ clobbered' :
          user[u].on /\ user'[u].on /\ user'[u].secret # user[u].secret
          => \E p \in Procs : At(p, "setup") /\ req[p].via = "api" /\ req[p].user = u]_user

\* passkeys_register, passkeys_delete: a passkey whose removal was answered is on no record again,
\* however often its registration is posted, unless activate_user puts an old record back.
RemovedStaysRemoved == \A u \in Users \ clobbered : user[u].keys \cap removed = {}

\* create_user has written the record of u and not yet claimed the address, or not yet rolled back.
Creating(u) == \E p \in Procs : pc[p] \in {"claim", "rollback"} /\ req[p].user = u

\* Registration, with a password or through a provider: however many callbacks of a person's
\* identities overlap, with each other, with registrations and with erasures, the person has at most
\* one account that is created and not being erased. A second erasure of one account may tear the
\* address from the next one. A crash or store error inside create_user leaves a record that no
\* address leads to (store.rs:1775-1786): it is not counted, and the next callback makes another.
OneAccountPerPerson ==
    torn \/ \A u, v \in {w \in Users \ (doomed \cup clobbered \cup cut) : user[w].st = "live" /\ ~Creating(w)} : u = v
=============================================================================
