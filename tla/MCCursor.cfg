SPECIFICATION Spec
CONSTANTS
    Rows = 4
    Cols = 3
    TabStop = 2
    IntMax = 7
    Params = {0, 2, 3, 7}
    MaxOverflows = 1
INVARIANT
    InGridUnlessOverflow
PROPERTIES
    TextFlows
    RegionHolds
    AltRestoresCursor
CHECK_DEADLOCK FALSE
