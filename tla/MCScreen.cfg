SPECIFICATION Spec
CONSTANTS
    Rows = 2
    Cols = 2
    Lines = 3
    Contents = {blank, text}
    Blank = blank
    Unknown = unknown
    MaxPushes = 4
INVARIANTS
    TypeOK
    CanvasComplete
PROPERTIES
    ImplementsHistory
    HistoryViewStays
    AltScreenIsolated
