SPECIFICATION FairSpec
CONSTANTS
    a1 = a1
    a2 = a2
    z = z
    n = n
    c = c
    A = A
    B = B
    C = C
    N = N
    name = name
    NoMark = NoMark
    Pages <- MCPages
    Path <- MCPath
    Place <- MCPlace
    Spaces <- MCSpaces
    Existing <- MCWithBad
    Bad <- MCBad
    PageSize = 1
    MaxEdits = 0
    MaxDeletes = 0
    MaxFaults = 0
    MaxCrashes = 1
PROPERTY
    BadPageIsIsolated
