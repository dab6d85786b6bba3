SPECIFICATION Spec
CONSTANTS
    Users = {u1, u2}
    Emails = {a, b}
    Tokens = {t1, t2}
    Procs = {p1, p2}
    NoUser = NoUser
    NoEmail = NoEmail
    NoToken = NoToken
    MaxTries = 2
    MaxRequests = 4
SYMMETRY Symmetry
INVARIANTS EmailIndexed NoSquattedEmail ResetHolds ActiveIsVerified ErasureHolds
PROPERTY ReinstatedByAuthority
CHECK_DEADLOCK FALSE
