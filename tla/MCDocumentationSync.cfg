SPECIFICATION FairSpec
CONSTANTS
    a1 = a1
    a2 = a2
    z = z
    n = n
    c = c
    A = A
    B = B
    C = C
    N = N
    name = name
    NoMark = NoMark
    Pages <- MCPages
    Path <- MCPath
    Place <- MCPlace
    Spaces <- MCSpaces
    Existing <- MCExisting
    Bad <- MCBad
    PageSize = 1
    MaxEdits = 1
    MaxDeletes = 1
    MaxFaults = 1
    MaxCrashes = 1
INVARIANTS
    TypeOK
    WatermarkCovers
    VersionsFollowEdits
PROPERTIES
    StaleIsTemporary
