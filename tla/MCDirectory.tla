---------------------------- MODULE MCDirectory -----------------------------
(* Instance of Directory for TLC; the handlers are interchangeable. *)
EXTENDS Directory, TLC
MCSymmetry == Permutations(Procs)
=============================================================================
