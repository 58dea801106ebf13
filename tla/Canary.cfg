SPECIFICATION MCSpec
CONSTANTS
    Runs <- MCRuns
    TaskCalls = 2
    Execution = {"e", "f"}
    World <- MCWorld
    Dry = {"c", "d"}
    MaxTrapped = 1
    None = None
INVARIANT SummaryAccepted
INVARIANT DiskAccounts
INVARIANT TrapsHold
PROPERTY ExecutionsEnd
CHECK_DEADLOCK FALSE
