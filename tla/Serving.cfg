SPECIFICATION BoundedSpec
CONSTANTS
    Nested = {n1, n2}
    Uploads = {u1}
    Downloads = {d1}
    Messages = {m1}
    Connections = 2
    MaxBegun = 3
INVARIANTS
    IInv
    RowHasFile
    DownloadFindsFile
    LogHasMessage
PROPERTIES
    AllAnswered
\* The finitely many requests end, and then nothing is left to do.
CHECK_DEADLOCK FALSE
