SPECIFICATION Spec
CONSTANTS
    Files = {f1, f2}
    Txs = {t1}
    Backend = "mem"
    PageLimit = 1
    QueueLimit = 1
    WebSocket = FALSE
    Unreliable = FALSE
    MaxVersion = 2
    MaxSeq = 4
    MaxRestarts = 1
INVARIANT
    NothingSkipped
PROPERTY
    EventuallyDelivered
