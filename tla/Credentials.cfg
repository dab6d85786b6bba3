SPECIFICATION Spec
CONSTANTS
    Procs = {p1, p2}
    Users = {u1, u2, u3}
    Subjects = {s1}
    Passkeys = {k1}
    None = None
    MaxRequests = 6
SYMMETRY Symmetry
INVARIANTS RemovedStaysRemoved OneAccountPerPerson
PROPERTY EnabledSecretFixed
CHECK_DEADLOCK FALSE
