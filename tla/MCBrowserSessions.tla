------------------------- MODULE MCBrowserSessions --------------------------
(* Instance of BrowserSessions for TLC. *)
EXTENDS BrowserSessions, TLC
Symmetry == Permutations(Procs)
=============================================================================
