SPECIFICATION Spec
CONSTANTS
    Users = {u1}
    Tokens = {t1, t2}
    Procs = {p1}
    NoUser = NoUser
    NoToken = NoToken
    MaxTime = 4
    IdleTTL = 2
    AbsMax = 2
    MarkerTTL = 2
SYMMETRY Symmetry
INVARIANTS ReplayDetectable LifetimeBounded
CHECK_DEADLOCK FALSE
