SPECIFICATION Spec
CONSTANTS
    MaxSessions = 2
    MaxKeys = 1
    QueueLen = 1
    SshTasks = {}
    WifiTasks = {"wifi1"}
INVARIANT
    NoDoubleDelete
CHECK_DEADLOCK FALSE
