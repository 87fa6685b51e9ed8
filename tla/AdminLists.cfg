\* Four rows, pages of two of them.
CONSTANTS
    Row <- MCRow
    Limit = 2
    MaxPage = 3
SPECIFICATION Spec
INVARIANTS
    WalkMissesNothing
    PageFitsTotal
CHECK_DEADLOCK FALSE
