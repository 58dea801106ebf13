SPECIFICATION FairSpec
INVARIANT ChildrenAccounted
PROPERTY CallerReleased
PROPERTY ImplementsCall
CHECK_DEADLOCK FALSE
