SPECIFICATION Spec
CONSTANTS
    Chars <- MCChars
    Items <- MCItems
    EchoKeys = {"k", "]", "up", "backspace", "enter", "del"}
    CsiBufLen = 6
    MaxParams = 2
    IntMax = 127
    MaxItems = 3
INVARIANTS
    TypeOK
    ActsAsMeant
    Resynced
    PenMeant
    ModesMeant
