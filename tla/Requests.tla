------------------------------ MODULE Requests ------------------------------
(***************************************************************************)
(* Requests in flight, as the modules of the components share them.        *)
(* Handlers of any number of instances run at once; each is a process with *)
(* the label of its next store operation and its local values.             *)
(***************************************************************************)
CONSTANT Procs

VARIABLES
    pc,     \* the step a request takes next
    req     \* what it has read and received

At(p, label) == pc[p] = label
GotoWith(p, label, r) == pc' = [pc EXCEPT ![p] = label] /\ req' = [req EXCEPT ![p] = r]
Goto(p, label) == GotoWith(p, label, req[p])
=============================================================================
