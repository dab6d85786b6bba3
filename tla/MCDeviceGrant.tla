--------------------------- MODULE MCDeviceGrant ---------------------------
(* Instance of DeviceGrant for TLC. *)
EXTENDS DeviceGrant, TLC
Symmetry == Permutations(Procs) \cup Permutations(Approvals) \cup Permutations(Users)
============================================================================
