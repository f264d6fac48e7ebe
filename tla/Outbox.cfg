SPECIFICATION Spec
CONSTANTS
    Keys = {k1, k2}
    Workers = {w1, w2}
    NChunks = 2
    MaxAttempts = 2
    NoKey = NoKey
    NoClaim = NoClaim
SYMMETRY Symmetry
INVARIANTS
    DeliveredIsPrefix
    RecordsAreTrue
CHECK_DEADLOCK FALSE
