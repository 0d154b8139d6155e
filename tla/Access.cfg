SPECIFICATION Spec
CONSTANTS
    u1 = u1
    u2 = u2
    c1 = c1
    c2 = c2
    Users = {u1, u2}
    Seeds = {u1}
    Lowered = {u1}
    Calls = {c1, c2}
    AccessTTL = 1
    RefreshTTL = 2
    MaxTime = 2
    MaxIssues = 2
    Endpoints <- TwoEndpoints
SYMMETRY CallSymmetry
CHECK_DEADLOCK FALSE
INVARIANTS
    RevocationHolds
    ChargedAsActing
    JarIsWhole
