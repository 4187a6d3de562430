SPECIFICATION WifiSpec
CONSTANTS
    Networks = {"home", "cafe"}
    Passwords = {"", "key"}
    NoSsid = ""
    NoPassword = ""
    KeyOf <- MCKeyOf
    Stored <- MCStored
    Clicks = {"click1"}
    Boot = "boot"
    MaxRetry = 1
    MaxNetworks = 2
    MaxDrops = 1
    MaxRefusals = 1
INVARIANT SavedCredsJoin
CHECK_DEADLOCK FALSE
