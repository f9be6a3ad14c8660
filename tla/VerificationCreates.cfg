SPECIFICATION FairSpec
CONSTANTS
    Creates = {c1, c2}
    Verifies = {v1}
    Accounts = {a1, a2}
    Codes = {k1}
    Lifetimes = {1}
    MaxTime = 2
    None = None
INVARIANTS
    SupersededRetired
    SupersededNeverAccepted
    AcceptedIsGenuine
PROPERTIES
    RetiredForGood
    Implements
    AllAnswered
\* The finitely many requests end, and then nothing is left to do.
CHECK_DEADLOCK FALSE
