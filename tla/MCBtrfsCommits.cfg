CONSTANTS
    a1 = a1
    a2 = a2
    a3 = a3
    a4 = a4
    a5 = a5
    Addresses <- MCAddresses
    Mirrors = 3
    Room = 2
    Copies = 2
    Capacity = 1
    Blocks <- Names
    Roots = "roots"
    Height <- Heights
    Below <- Pointing
    MaxTransactions = 3
    MaxFaults = 2
SYMMETRY Symmetry
SPECIFICATION Spec
INVARIANTS
    ServesTheChosen
    ReadsTheNewestPastDamage
    StrictIsCleanScan
