SPECIFICATION Spec
CONSTANTS
    Procs = {p1, p2}
    Browsers = {b1}
    Accounts = {a1}
    Tokens = {t1}
    Verifiers = {v1}
    None = None
    TTLs = {1, 2}
    MarkTTL = 4
    AccountTTL = 2
    TokenTTL = 1
    MaxFlight = 1
    MaxTime = 6
    MaxRequests = 4
SYMMETRY Symmetry
INVARIANTS RevokedStaysOut MarkerOutlivesSessions
CHECK_DEADLOCK FALSE
