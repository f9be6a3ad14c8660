SPECIFICATION ListingSpec
CONSTANTS
    MaxRows = 4
    MaxTime = 3
    Limits = {1, 2}
    Times = {0, 1, 2, 3}
    Accounts = {1, 2}
    RoleIds = {1, 2}
INVARIANTS
    WalkSeesAll
    WhereMeans
    HelpersAgree
\* A walk ends, and a call has no steps.
CHECK_DEADLOCK FALSE
