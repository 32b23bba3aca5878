CONSTANTS
    Ring = 5
    Addresses = {1, 2, 3, 4}
    MaxTx = 4
    Lengths = {2, 3}
    ForeignXid = 9
SPECIFICATION Spec
INVARIANTS
    CrashOpensACommit
    ServesItsTransaction
    CrashAndLossToldApart
