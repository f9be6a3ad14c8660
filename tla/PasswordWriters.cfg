SPECIFICATION HSpec
CONSTANTS
    Accounts = {a1}
    Asks = {q1}
    Verifies = {v1}
    Resets = {r1, r2}
    Changes = {c1}
    Overrides = {o1}
    None = None
SYMMETRY Symmetry
INVARIANTS
    ResetOnceInOrder
    PasswordTakesEffect
PROPERTIES
    ChangesWhatItRead
\* The finitely many requests end, and then nothing is left to do.
CHECK_DEADLOCK FALSE
