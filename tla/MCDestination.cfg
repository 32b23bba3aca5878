CONSTANTS
    Runs = {r1, r2}
    Requests <- MCRequests
    Pieces = 2
    MaxForeign = 1
SYMMETRY RunSymmetry
SPECIFICATION Spec
INVARIANTS
    OldOrNew
    SourceIsKept
    TouchesOnlyItsOwn
