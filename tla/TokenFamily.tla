----------------------------- MODULE TokenFamily -----------------------------
(***************************************************************************)
(* What refresh-token rotation promises: a family has at most one usable   *)
(* token.  A refresh takes it, so that for a while there is none, and hands *)
(* out the next one; a family that is revoked, expires or loses the refresh *)
(* that took its token is dead and stays dead.                             *)
(***************************************************************************)
CONSTANT Families
VARIABLE state

Init == state = [f \in Families |-> "none"]

Move(f, from, to) == state[f] \in from /\ state' = [state EXCEPT ![f] = to]

Grant(f) == Move(f, {"none"}, "current")
Take(f)  == Move(f, {"current"}, "taken")
Hand(f)  == Move(f, {"taken"}, "current")
Die(f)   == Move(f, {"current", "taken"}, "dead")

Next == \E f \in Families : Grant(f) \/ Take(f) \/ Hand(f) \/ Die(f)

Spec == Init /\ [][Next]_state
==============================================================================
