SPECIFICATION MCSpec
CONSTANTS
    s1 = s1  s2 = s2  p1 = p1  e1 = e1  e2 = e2  e3 = e3  r1 = r1
    None = None
    Sessions = {s1, s2}
    Scopes = {p1}
    Events = {e1, e2, e3}
    Tools = {}
    MaxCalls = 1
    Occurs <- Turns
    ScopeOf <- MCScopeOf
    SessionOf <- MCSessionOf
    TurnOf <- MCTurnOf
    Node = {"a", "b", "c", "d"}
    Root = "root"
    Memory = {"k", "m"}
    Order <- MCOrder
    PageSize = 3
    TitleLimit = 2
    CandidateLimit = 1
    ConfirmLimit = 1
    Call = {"i", "j"}
    MaxTurn = 2
    MaxSwitch = 1
    MaxPicks = 2
    Nowhere = Nowhere
INVARIANT TurnOnce
INVARIANT OneAtATime
INVARIANT PublishedInOrder
INVARIANT BarrierCovers
INVARIANT ToldAndUsed
INVARIANT SteadyFinds
CHECK_DEADLOCK FALSE
