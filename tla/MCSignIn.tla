------------------------------ MODULE MCSignIn ------------------------------
(* Instance of SignIn for TLC. *)
EXTENDS SignIn, TLC
Symmetry == Permutations(Procs) \cup Permutations(Sessions) \cup Permutations(Pendings)
=============================================================================
