SPECIFICATION Spec
CONSTANTS
    Chars <- MCChars
    Items <- MCItems
    EchoKeys = {}
    CsiBufLen = 6
    MaxParams = 2
    IntMax = 127
    MaxItems = 2
INVARIANT
    NoLeak
