------------------------------- MODULE MCSaml -------------------------------
(* Instance of Saml for TLC. *)
EXTENDS Saml
\* Every request was issued when the clock starts.
MCIssueInstant == [a \in AuthnRequests |-> 0]
=============================================================================
