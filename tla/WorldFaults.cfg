SPECIFICATION FairSpec
CONSTANTS
    Op = {"addA", "addSame", "addB", "review"}
    Kind <- KindOf
    Proc = {"p1", "p2"}
    Home <- TwoHomes
    Memory <- MCMemory
    Subject <- AddedSubjectOf
    Seed = "seed"
    SeedMemory = "m0"
    SeedWorld = "empty"
    None = None
    IOFaults = TRUE
    MaxCrash = 1
CHECK_DEADLOCK FALSE
INVARIANT CurrentClosed
PROPERTY CallsReturn
PROPERTY AppliedAsReviewed
