CONSTANTS
    Trees <- MCTrees
    LostFound = 3
    MaxDeferred = 2
    MaxSkipped = 1
    MaxRefusals = 2
SPECIFICATION Spec
INVARIANTS
    FaithfulOrReported
    FirstNamesReachable
