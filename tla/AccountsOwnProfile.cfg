SPECIFICATION Spec
CONSTANTS
    Registers = {r1}
    Creations = {c1}
    Socials = {}
    Verifies = {v1}
    Profiles = {p1}
    Edits = {}
    Names = {n1, n2}
    MaxLoad = 10
    None = None
PROPERTIES
    OwnProfile
\* The finitely many requests end, and then nothing is left to do.
CHECK_DEADLOCK FALSE
