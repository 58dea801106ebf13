SPECIFICATION MCSpec
CONSTANTS
    Call = {"a", "b", "c"}
    SessionOf <- SessionMap
    CoordinatorOf <- CoordinatorMap
    Work <- WorkMap
    TTL = 2
    None = None
    MaxFailures = 1
    MaxGrants = 1
    MaxSearches = 2
    MaxLists = 1
INVARIANT ServesAnswers
INVARIANT CurrentVerifies
INVARIANT DisclosedOpens
INVARIANT ListIsOfOneInstant
PROPERTY CallsEnd
CHECK_DEADLOCK FALSE
