CONSTANTS
    r = r
    a = a
    b = b
    f = f
    l = l
    k = k
    Nodes = {r, a, b, f, l, k}
    Dirs = {r, a, b}
    Links = {l, k}
    Root = r
    Up = up
    MaxFan = 2
    Images <- MCImages
    Walked <- MCWalked
    Searched <- MCSearched
    Asked <- MCAsked
    Caps = {0, 3, 5}
    MaxDepth = 2
    MaxHops = 2
SPECIFICATION FairReadSpec
INVARIANTS
    BoundedFrontier
    WalksTheTree
    RefusesExactly
    ResolvesToItsMeaning
    DescentIsAWayDown
    WalkedPathsResolve
PROPERTIES
    ReadsEnd
