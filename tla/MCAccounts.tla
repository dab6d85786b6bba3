----------------------------- MODULE MCAccounts -----------------------------
(* Instance of Accounts for TLC. *)
EXTENDS Accounts, TLC
Symmetry == Permutations(Users) \cup Permutations(Emails) \cup Permutations(Tokens) \cup Permutations(Procs)
=============================================================================
