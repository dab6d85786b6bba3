SPECIFICATION Spec
CONSTANTS
    Procs = {p1, p2}
    Conns = {c1, c2}
    Users = {u0, u1, u2, u3}
    Externals = {e1, e2}
    None = None
    FirstConn = c1
    FirstUser = u1
    FirstExternal = e1
    LocalUser = u0
    MaxRequests = 3
    MaxFaults = 1
SYMMETRY MCSymmetry
INVARIANTS Manageable OwnUsersOnly LoneEditHolds
CHECK_DEADLOCK FALSE
