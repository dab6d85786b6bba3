------------------------------ MODULE MCKeyRing ------------------------------
(* Instance of KeyRing for TLC. *)
EXTENDS KeyRing, TLC
Symmetry == Permutations(Procs)
==============================================================================
