SPECIFICATION Spec
CONSTANTS
    Users = {u1}
    Tokens = {t1, t2}
    Procs = {p1, p2}
    NoUser = NoUser
    NoToken = NoToken
    MaxTime = 1
    IdleTTL = 1
    AbsMax = 1
    MarkerTTL = 1
SYMMETRY Symmetry
INVARIANTS TypeOK OneHolder HandedIsIndexed
PROPERTY ImplementsTokenFamily
CHECK_DEADLOCK FALSE
