CONSTANTS
    First = 1
    Total = 9
    Described = 11
    Counts = {0, 1, 2, 3, 5}
SPECIFICATION FairSpec
INVARIANTS
    NothingFreeBelow
PROPERTIES
    ImplementsFreeSpace
    Returns
