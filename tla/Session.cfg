SPECIFICATION Spec
CONSTANTS
    Threads = {worker, poller}
    UI = ui
    MaxIssues = 3
    MaxEvents = 2
CHECK_DEADLOCK FALSE
INVARIANTS
    
    OneRefreshToken
    
    NoOrphanDevice
 
