SPECIFICATION FairSpec
CONSTANTS
    UserEdits = {"a"}
    RemoteEdits = {}
    Ids = {1, 2, 3, 4}
    Strategies = {}
    TimeAccepted = TRUE
    MaxRetries = 1
    MaxFaults = 2
    MaxDeletes = 1
    MaxCommands = 0
CHECK_DEADLOCK FALSE

    
PROPERTIES
    QueueDrains
    EditsArrive
