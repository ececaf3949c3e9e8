SPECIFICATION PreparedSpec
CONSTANTS
    Calls = {c1, c2, c3}
    c1 = c1
    c2 = c2
    c3 = c3
    Uploads = 0
    RateLimit = 4
    MaxApprovals = 1
SYMMETRY Symmetry
CHECK_DEADLOCK FALSE
INVARIANT
    RecoveryIsExact
