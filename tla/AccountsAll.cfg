SPECIFICATION BoundedSpec
CONSTANTS
    Registers = {r1, r2}
    Creations = {c1}
    Socials = {s1}
    Verifies = {v1}
    Profiles = {p1}
    Edits = {e1}
    Names = {n1}
    MaxLoad = 6
    None = None
SYMMETRY Symmetry
INVARIANTS
    IInv
    OrphansUnanswered
    RegisterReusesAccount
    OneUserPerAccountInOrder
    RegisteredCanVerify
    ValidAfterVerify
PROPERTIES
    ValidStays
\* The finitely many requests end, and then nothing is left to do.
CHECK_DEADLOCK FALSE
