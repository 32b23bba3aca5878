CONSTANTS
    Requests <- MCRequests
    ReservedSectors = 4
    MinSectors = 8
    MaxClusters = 1000
    MaxWord = 1000
    UpcaseBytes = 20
    Trees <- MCTrees
    BootSectors = 2
    TailBytes = 192
    TableBatchEntries = 8
    BitmapBatchBytes = 16
SPECIFICATION StagesSpec
INVARIANT EndIsGone
