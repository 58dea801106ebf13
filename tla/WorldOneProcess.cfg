SPECIFICATION Spec
CONSTANTS
    Op = {"addA", "addB", "addSame", "review", "hide", "recall"}
    Kind <- KindOf
    Proc = {"p1"}
    Home <- OneHome
    Memory <- MCMemory
    Subject <- SubjectOf
    Seed = "seed"
    SeedMemory = "m0"
    SeedWorld = "legacy"
    None = None
    IOFaults = FALSE
    MaxCrash = 0
CHECK_DEADLOCK FALSE
INVARIANT AcknowledgedServed
PROPERTY NeverBack
PROPERTY ImplementsHistory
