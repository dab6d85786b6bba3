SPECIFICATION Spec
CONSTANTS
    Algs = {"RS256"}
    Procs = {p1, p2}
    Grace = 3
    TokenTTL = 1
    Delay = 1
    MaxAttempts = 2
    MaxTime = 4
    MaxVersion = 3
    MaxKids = 3
    MaxTokens = 1
SYMMETRY Symmetry
INVARIANTS RingMatchesMaterial SignerPublished
PROPERTY NothingResurrected
CHECK_DEADLOCK FALSE
