SPECIFICATION Spec
CONSTANTS
    Codes = {c1, c2}
    Scopes = {s1, s2}
    Procs = {p1, p2}
    NoCode = NoCode
    MaxTime = 3
    CodeTTL = 1
    MaxSubmits = 2
SYMMETRY Symmetry
INVARIANTS RedeemedOncePerWrite RedeemedInTime ConsentBeforeTokens
CHECK_DEADLOCK FALSE
