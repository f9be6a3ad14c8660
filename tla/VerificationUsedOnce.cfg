SPECIFICATION Spec
CONSTANTS
    Creates = {c1}
    Verifies = {v1, v2}
    Accounts = {a1}
    Codes = {k1}
    Lifetimes = {1}
    MaxTime = 1
    None = None
SYMMETRY Symmetry
INVARIANTS
    UsedOnce
\* The finitely many requests end, and then nothing is left to do.
CHECK_DEADLOCK FALSE
