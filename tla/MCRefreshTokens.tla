-------------------------- MODULE MCRefreshTokens --------------------------
(* Instance of RefreshTokens for TLC. *)
EXTENDS RefreshTokens, TLC
Symmetry == Permutations(Procs) \cup Permutations(Tokens)
============================================================================
