SPECIFICATION Spec
CONSTANTS
    Files = {f1}
    Blobs = {b1, b2, b3}
    Requests = {r1, r2, r3}
    Keyed = {r1, r2, r3}
    Handlers = {h1, h2}
    Kinds = {"create", "update", "delete", "restore"}
    Flaws = {"none"}
    Retention = 1
    MaxVersion = 2
SYMMETRY Symmetry
CHECK_DEADLOCK FALSE
INVARIANTS
    NoLostUpdate
    HistoryKept
    FeedComplete
    UploadsAtMostOnce
    
PROPERTY
    ImplementsStore
