SPECIFICATION FairSpec
CONSTANTS
    c1 = c1
    c2 = c2
    c3 = c3
    p1 = p1
    p2 = p2
    p3 = p3
    Caller = {c1, c2, c3}
    Proc = {p1, p2}
    Ino = {i1, i2, i3}
    None = None
    MaxCrash = 1
    ProcOf <- MCProcShared
INVARIANT ExclusionBeforeCrash
INVARIANT OwnerKeepsFile
PROPERTY MutexSteps
PROPERTY NoLockLeft
PROPERTY DeadLockReclaimed
