--------------------------- MODULE MCProvisioning ---------------------------
(* Instance of Provisioning for TLC. The ids of users that are not made yet *)
(* are interchangeable, and so are the handlers.                            *)
EXTENDS Provisioning, TLC
MCSymmetry == Permutations(Procs) \cup Permutations(Users \ {FirstUser, LocalUser})
=============================================================================
