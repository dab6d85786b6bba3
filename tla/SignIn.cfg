SPECIFICATION Spec
CONSTANTS
    Procs = {p1, p2}
    Sessions = {s1}
    Pendings = {m1, m2}
    Challenges = {c1}
    States = {t1}
    Pars = {r1}
    Recoveries = {k1}
    None = None
    Admin = Admin
    MaxFailures = 2
    LockTime = 2
    MarkTTL = 3
    SessionTTL = 4
    PendingTTL = 3
    ParTTL = 1
    MfaLimit = 2
    MaxTries = 2
    MaxTime = 4
    MaxRequests = 4
SYMMETRY Symmetry
INVARIANTS OneSignInPerSession GuessesBounded FactorSpentOnce
CHECK_DEADLOCK FALSE
