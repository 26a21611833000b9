SPECIFICATION Spec
CONSTANTS
    Files = {f1, f2}
    Txs = {t1, t2}
    Backend = "postgres"
    PageLimit = 1
    QueueLimit = 1
    WebSocket = TRUE
    Unreliable = TRUE
    MaxVersion = 2
    MaxSeq = 4
    MaxRestarts = 1
SYMMETRY Symmetry
INVARIANTS
    TypeOK
    GapsAreExcused
    RowNeverAhead
    ConflictsHaveCause
