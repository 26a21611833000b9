SPECIFICATION Spec
CONSTANTS
    UserEdits = {"a"}
    RemoteEdits = {}
    Ids = {1, 2}
    Strategies = {}
    TimeAccepted = FALSE
    MaxRetries = 1
    MaxFaults = 0
    MaxDeletes = 0
    MaxCommands = 0
CHECK_DEADLOCK FALSE
INVARIANT UploadsAccepted
