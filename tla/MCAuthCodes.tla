---------------------------- MODULE MCAuthCodes ----------------------------
(* Instance of AuthCodes for TLC. *)
EXTENDS AuthCodes, TLC
Symmetry == Permutations(Procs) \cup Permutations(Codes) \cup Permutations(Scopes)
============================================================================
