SPECIFICATION MCSpec
CONSTANTS
    Memory = {m1, m2, m3}
    Nobody = Nobody
    Process = {"p", "q"}
    MaxEvents = 5
    Execution = {"e", "f"}
    Stream = {1, 2}
    MaxRequests = 6
    None = None
    Input <- InputSet
    Plans <- PlansOf
    MaxTrouble = 2
    Thing = {"plan", "manifest", "sidecar", "driver", "credentials"}
INVARIANT ChainServes
INVARIANT BudgetHolds
INVARIANT PassEarned
PROPERTY FootprintTold
SYMMETRY Swaps
CHECK_DEADLOCK FALSE
