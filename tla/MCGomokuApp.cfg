SPECIFICATION Spec
CONSTANTS
    Thread = {t1, t2}
    Browser = {b1, b2}
    User = {u1, u2}
    None = None
    MaxRequests = 4
SYMMETRY Symmetry
INVARIANTS TypeOK LogoutEndsSession OnlineHasSession NoFinishedGameKept
CHECK_DEADLOCK FALSE
