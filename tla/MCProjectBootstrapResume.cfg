SPECIFICATION Spec
CONSTANTS
    k1 = k1
    k2 = k2
    k3 = k3
    k4 = k4
    k5 = k5
    NoParent = NoParent
    Packages <- MCPackages
    Listing <- MCListing
    Parent <- MCParent
    Relations <- MCRelations
    TextAttachments = {k5}
    Hierarchy <- MCHierarchy
    Above <- MCAbove
    PageSize = 2
    MaxRuns = 2
    MaxFaults = 1
CHECK_DEADLOCK FALSE
INVARIANT
    ResumesFromCheckpoint
