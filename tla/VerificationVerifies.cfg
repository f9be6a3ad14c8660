SPECIFICATION Spec
CONSTANTS
    Creates = {c1, c2}
    Verifies = {v1, v2}
    Accounts = {a1}
    Codes = {k1, k2}
    Lifetimes = {1}
    MaxTime = 2
    None = None
SYMMETRY Symmetry
INVARIANTS
    IInv
    AcceptedOnceInOrder
    RejectionHasReason
\* The finitely many requests end, and then nothing is left to do.
CHECK_DEADLOCK FALSE
