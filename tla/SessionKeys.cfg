SPECIFICATION Spec
CONSTANTS
    MaxSessions = 2
    MaxKeys = 1
    QueueLen = 1
    SshTasks = {}
    WifiTasks = {}
INVARIANT
    KeysStayInSession
