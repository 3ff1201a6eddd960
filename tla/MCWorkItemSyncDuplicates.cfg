SPECIFICATION FairSpec
CONSTANTS
    old = old
    new = new
    Packages <- MCPackages
    ByTitle <- MCByTitle
    Historical <- MCHistorical
    BrainActor = BrainActor
    OtherActors = {}
    Nobody = Nobody
    NoSnapshot = NoSnapshot
    NoEntry = NoEntry
    Absent = Absent
    NoMark = NoMark
    NoRequest = NoRequest
    MaxRev = 1
    MaxGen = 1
    SweepLimit = 2
    MaxEdits = 1
    MaxDay = 1
    MaxHooks = 2
    MaxFaults = 0
INVARIANT
    NoDuplicateCommands
