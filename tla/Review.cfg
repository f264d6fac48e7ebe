SPECIFICATION Spec
CONSTANTS
    Items = {i1, i2}
    Ambiguous = {i1}
    Cap = 1
    Operators = {o1, o2}
    Labels = {l1, l2}
    NoLabel = NoLabel
    NoItem = NoItem
SYMMETRY Symmetry
INVARIANTS
    GapsAreCounted
    FlushReachesAll
    RepliesAreTrue
PROPERTIES
    ResolutionIsFinal
CHECK_DEADLOCK FALSE
