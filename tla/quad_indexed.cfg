SPECIFICATION Spec
CONSTANTS
    WordBits = 16
    LocalSize = 2
    Draws <- TheDraws
CHECK_DEADLOCK FALSE
INVARIANTS
    TypeOK
    AccessesInBounds
    Triangulates
PROPERTIES
    StoredOnce
    BufferFilled
