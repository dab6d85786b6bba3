SPECIFICATION Spec
CONSTANTS
    Procs = {p1, p2}
    Sps = {s1, s2}
    AuthnRequests = {a1}
    Sessions = {f1, f2}
    None = None
    FirstSp = s1
    IssueInstant <- MCIssueInstant
    MaxAge = 2
    LockTTL = 1
    KeyGrace = 2
    MaxTime = 3
    MaxRequests = 3
    MaxCrashes = 1
INVARIANTS OneResponsePerRequest SignerPublished RingComplete
PROPERTIES LockEventuallyFree
CHECK_DEADLOCK FALSE
