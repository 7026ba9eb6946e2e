SPECIFICATION PagesSpec
CONSTANTS
    MaxRows = 4
    MaxMoves = 2
    Limit = 2
    None = None
INVARIANTS
    MessagesReadOnce
    OffsetBounded
CHECK_DEADLOCK FALSE
