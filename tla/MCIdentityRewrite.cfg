CONSTANTS
    Last = 1
    Keep = keep
    Uuids <- MCUuids
    Labels <- MCLabels
    Rests = {"now", "then"}
    Seeds <- MCSeeds
    Words <- MCWords
    Crc <- MCCrc
    SeedOf <- MCSeedOf
    Images <- MCImages
    Changes <- MCChanges
    MaxStops = 2
SPECIFICATION FairSpec
INVARIANTS
    RerunFinishes
    ChecksumsStayValid
    PrimaryLeads
PROPERTIES
    NoLaundering
    Settles
CHECK_DEADLOCK FALSE
