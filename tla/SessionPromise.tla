--------------------------- MODULE SessionPromise ---------------------------
(***************************************************************************)
(* What a revocation promises about the sign-ins before it, over the       *)
(* sessions and the marker of a user (revoke_user_sessions).               *)
(***************************************************************************)
EXTENDS Naturals

CONSTANT Browsers

VARIABLES
    now,
    grant,      \* idp:{token} and acct:{token}, and the claims of an access token
    marker,     \* revoked:user:{id}
    signed,     \* the time of the sign-in a grant stems from
    overlap,    \* two revocations with different times overlapped
    admitted    \* grants accepted from a request that began after they were revoked or logged out

\* revoke_user_sessions, is_user_revoked: a request that begins after a revocation was answered is
\* never served on a browser session, account session or access token from before it, however
\* often the session was slid, while revocations with different times do not overlap; nor is
\* one on a session that was logged out, unless a single sign-on in flight put the session back.
RevokedStaysOut == overlap \/ admitted = {}

\* Single sign-on: a browser session that stems from a sign-in before a revocation ends before the
\* marker of that revocation does, as long as the settings offer lifetimes below that of the marker,
\* however often single sign-on has slid it (refresh_idp_session_cookie_header, revoke_user_sessions).
MarkerOutlivesSessions ==
    \A g \in Browsers :
        (grant[g].st = "live" /\ signed[g] < marker.at /\ now < marker.until)
        => grant[g].until < marker.until
=============================================================================
