SPECIFICATION Spec
CONSTANTS
    Devices = {d1}
    Users = {u1, u2}
    Approvals = {k1, k2}
    Procs = {p1, p2}
    None = None
    MaxTime = 3
    DeviceTTL = 1
    MaxAttempts = 1
    MaxSubmits = 2
SYMMETRY Symmetry
INVARIANTS MintedOnce MintsLastDecision MintsForApprover
CHECK_DEADLOCK FALSE
