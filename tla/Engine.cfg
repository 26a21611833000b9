SPECIFICATION Spec
CONSTANTS
    UserEdits = {"a"}
    RemoteEdits = {"x"}
    Ids = {1, 2}
    Strategies = {"keepLocal", "keepRemote", "keepBoth"}
    TimeAccepted = TRUE
    MaxRetries = 0
    MaxFaults = 1
    MaxDeletes = 0
    MaxCommands = 1
CHECK_DEADLOCK FALSE
INVARIANTS
    
    
    RowTrue
