SPECIFICATION Spec
CONSTANTS
    Writer = {w1, w2, w3}
    Content = {f, g}
    None = None
    Torn = Torn
    MaxCalls = 2
    MaxOutages = 1
SYMMETRY Symmetry
INVARIANT CreatedIsDurable
INVARIANT AnswersAreTrue
PROPERTY PublishedForEver
CHECK_DEADLOCK FALSE
