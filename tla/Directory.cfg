SPECIFICATION Spec
CONSTANTS
    Procs = {p1, p2}
    Tenants = {t1, t2}
    Users = {u1, u2, u3}
    Invites = {i1}
    Hooks = {h1}
    None = None
    FirstTenant = t1
    FirstAdmin = u1
    FirstManager = u2
    Asked = {"owner", "member"}
    MaxRequests = 3
    MaxCrashes = 1
SYMMETRY MCSymmetry
INVARIANTS BootstrapOnce RankFromAbove ViewsAgree RanIsOnRecord
CHECK_DEADLOCK FALSE
