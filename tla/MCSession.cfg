SPECIFICATION FairSpec
CONSTANTS
    MaxSessions = 2
    MaxKeys = 3
    QueueLen = 2
    SshTasks = {"ssh1"}
    WifiTasks = {"wifi1"}
CONSTRAINT UntilDisplaced
INVARIANTS
    TypeOK
    NoFault
    SessionOwnsGlobals
    KeysConserved
PROPERTIES
    BannerTruthful
    DisconnectEndsSession
    RemoteCloseEndsSession
