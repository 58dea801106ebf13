SPECIFICATION Spec
CONSTANTS
    Op = {"addA", "addB"}
    Kind <- KindOf
    Proc = {"addA", "addB"}
    Home <- OwnHomes
    Memory <- MCMemory
    Subject <- SubjectOf
    Seed = "seed"
    SeedMemory = "m0"
    SeedWorld = "legacy"
    None = None
    IOFaults = FALSE
    MaxCrash = 0
CHECK_DEADLOCK FALSE
INVARIANT AcknowledgedServed
