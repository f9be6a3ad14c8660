SPECIFICATION BoundedSpec
CONSTANTS
    Logins = {l1}
    Grants = {g1}
    Refreshes = {r1, r2}
    Calls = {c1}
    Accounts = {a1, a2}
    Local = {a1}
    Expires = 1
    RefreshExpires = 1
    Half = 2
    MaxTime = 4
    MaxBegun = 4
    None = None
SYMMETRY Symmetry
INVARIANTS
    IInv
    SessionEnds
    RefreshedInTime
    LockedOut
\* The finitely many requests end, and then nothing is left to do.
CHECK_DEADLOCK FALSE
