SPECIFICATION Spec
CONSTANTS
    Jobs = {j1, j2}
    Runs = {r1, r2}
    Tokens = {t1, t2}
    DailyCap = 1
    SessionCap = 1
    LastDay = 0
    NoJob = NoJob
    NoToken = NoToken
SYMMETRY Symmetry
INVARIANTS
    CapsAreKept
    SlotsMatchAttempts
CHECK_DEADLOCK FALSE
