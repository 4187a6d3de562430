SPECIFICATION NetworkSpec
CONSTANTS
    Networks = {"home", "cafe"}
    Passwords = {"", "key"}
    NoSsid = ""
    NoPassword = ""
    KeyOf <- MCKeyOf
    Stored <- MCStored
    Clicks = {"click1"}
    Boot = "boot"
    MaxRetry = 1
    MaxNetworks = 2
    MaxDrops = 1
    MaxRefusals = 1
    DataBytes <- MCDataBytes
    Options <- MCOptions
    Payloads <- MCPayloads
    SbBufLen = 2
    RawLen = 3
    SendBufLen = 3
    MaxMessages = 2
    MaxTyped = 2
INVARIANTS
    TypeOK
    TextTransparent
    AnswersFit
    SizeReported
    TypedTransparent
    StatusFollowsLink
    NeverStranded
PROPERTY
    SavedUnlessStale
CHECK_DEADLOCK FALSE
