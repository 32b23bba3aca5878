CONSTANTS
    Super = s
    Table = t
    Homes = {s, t, x}
    Wild = wild
    Versions <- MCVersions
    First = 1
    MaxLen = 7
    SeqMod = 8
    Checksums = TRUE
    Capacity = 2
    MaxTx = 3
    FirstSeq = 7
    MagicHomes = {x}
    Freeable = {x}
    Logs <- MCLogs
    Images <- MCImages
    Starts = {0, 4, 7}
    StartSeqs = {7}
SPECIFICATION Spec
INVARIANTS
    CrashLosesNothing
    CachesFollowOverlay
    NothingHalfServed
    ScanBounded
    ReplaysInOrder
PROPERTY OpeningEnds
