SPECIFICATION ServicesSpec
CONSTANTS
    Networks = {"home", "cafe"}
    Passwords = {"", "key"}
    NoSsid = ""
    NoPassword = ""
    KeyOf <- MCKeyOf
    Stored <- MCStored
    Clicks = {"click1"}
    Boot = "boot"
    MaxRetry = 1
    MaxNetworks = 2
    MaxDrops = 0
    MaxRefusals = 1
    APs = {"a", "b"}
    Known = {"a"}
    NoAp = "none"
    MaxResults = 2
    Scans = {"scan1", "scan2"}
    Names = {"", "a"}
    Groups = {"", "g"}
    Needles = {"", "g"}
    Protocols = {"ssh"}
    DefaultPort <- MCDefaultPort
    Ports = {65558}
    PortLimit = 65536
    MaxHosts = 3
    MaxResets = 1
    MaxFailures = 1
    Versions = {"3.0.5", "3.0.6"}
    Pinned = "3.0.6"
    Images <- MCImages
    PartitionSize = 90
    ChunkSize = 24
    MaxRpcFailures = 1
    Modifiers = {"ctrl"}
    Letters = {"c"}
    FifoSize = 3
    MaxKeys = 5
    MaxI2cErrors = 1
    SshTasks = {"ssh1", "ssh2"}
    TelnetTasks = {"telnet1"}
INVARIANTS
    ServicesTypeOK
    RowsNameTheirNetwork
    RowsAreHosts
    FileIsCurrent
    EditsWhatItShows
    NeverDeaf
    KeysMeant
    NothingLeaks
PROPERTIES
    ConnectReturns
    ScanningEnds
    UpdateEnds
CHECK_DEADLOCK FALSE
