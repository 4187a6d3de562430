SPECIFICATION FairSpec
CONSTANTS
    MaxSessions = 2
    MaxKeys = 1
    QueueLen = 1
    SshTasks = {}
    WifiTasks = {}
PROPERTY
    DisconnectNoticed
