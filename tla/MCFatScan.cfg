CONSTANTS
    Clusters = 3
    Padding = 1
    Volumes <- MCVolumes
    ReadVolumes <- MCReadVolumes
    Slots <- MCSlots
    Limits <- MCLimits
SPECIFICATION ScanSpec
INVARIANTS
    ReportIsTrue
    ReadsTheLiveChain
CHECK_DEADLOCK FALSE
