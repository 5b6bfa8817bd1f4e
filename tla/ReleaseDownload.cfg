SPECIFICATION Spec
CONSTANTS
    p1 = p1
    p2 = p2
    old = old
    new = new
    Procs <- TwoProcs
    Bodies <- TwoBodies
    Length = 2
    Names = 2
    MaxMoves = 1
INVARIANTS
    VerifiedIsThere
PROPERTIES
    OnlyOwnFileChanges
CHECK_DEADLOCK FALSE
