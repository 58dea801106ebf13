SPECIFICATION FairSpec
CONSTANTS
    s1 = s1  s2 = s2  p1 = p1  e1 = e1  e2 = e2  e3 = e3  r1 = r1
    None = None
    Sessions = {s1}
    Scopes = {p1}
    Events = {e1}
    Tools = {r1}
    MaxCalls = 1
    Occurs <- Endings
    ScopeOf <- MCScopeOf
    SessionOf <- MCSessionOf
    TurnOf <- MCTurnOf
INVARIANT DisposeCovers
INVARIANT QuietAfterCleanup
PROPERTY HandlersReturn
PROPERTY CallsKeepPromise

CHECK_DEADLOCK FALSE
