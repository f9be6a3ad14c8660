SPECIFICATION Spec
CONSTANTS
    Registers = {r1}
    Creations = {c1}
    Socials = {}
    Verifies = {v1}
    Profiles = {}
    Edits = {}
    Names = {n1}
    MaxLoad = 10
    None = None
INVARIANTS
    OneValidUserPerName
\* The finitely many requests end, and then nothing is left to do.
CHECK_DEADLOCK FALSE
