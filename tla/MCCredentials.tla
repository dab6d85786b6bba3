--------------------------- MODULE MCCredentials ----------------------------
(* Instance of Credentials for TLC. *)
EXTENDS Credentials, TLC
Symmetry == Permutations(Procs) \cup Permutations(Users)
=============================================================================
