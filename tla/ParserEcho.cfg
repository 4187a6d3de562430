SPECIFICATION Spec
CONSTANTS
    Chars <- MCChars
    Items <- EchoItems
    EchoKeys = {"k"}
    CsiBufLen = 6
    MaxParams = 2
    IntMax = 127
    MaxItems = 2
INVARIANT
    EchoShown
