SPECIFICATION Spec
CONSTANTS
    MaxSeq = 3
    b1 = b1
    b2 = b2
    Body <- MCBody
SYMMETRY BodySymmetry
INVARIANTS
    InOrderExactlyOnce
    NothingLost
    CursorNeverReused
