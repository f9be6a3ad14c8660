SPECIFICATION BoundedSpec
CONSTANTS
    Assigns = {a1, a2}
    Creations = {n1}
    Updates = {u1}
    Deletes = {d1}
    Checks = {c1}
    Users = {x1}
    Roots = {x1}
    RoleIds = {i1, i2}
    Permissions = {p1}
    None = None
    MaxBegun = 3
SYMMETRY Symmetry
INVARIANTS
    IInv
    OneRoleEach
    GrantIsFresh
    DeletedNotAssigned
    DataHasRole
\* The finitely many requests end, and then nothing is left to do.
CHECK_DEADLOCK FALSE
