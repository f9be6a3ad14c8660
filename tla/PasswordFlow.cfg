SPECIFICATION HSpec
CONSTANTS
    Accounts = {a1, a2}
    Asks = {q1, q2}
    Verifies = {v1, v2}
    Resets = {r1}
    Changes = {}
    Overrides = {}
    None = None
SYMMETRY Symmetry
INVARIANTS
    ResetBacked
    OneResetPerToken
    AnsweredGoesOn
PROPERTIES
    Implements
\* The finitely many requests end, and then nothing is left to do.
CHECK_DEADLOCK FALSE
