SPECIFICATION Spec
CONSTANTS
    Jobs = {j1}
    Runs = {r1, r2}
    Tokens = {t1, t2, t3}
    DailyCap = 1
    SessionCap = 2
    LastDay = 1
    NoJob = NoJob
    NoToken = NoToken
SYMMETRY Symmetry
INVARIANTS
    SubmitAtMostOnce
    ClickIsOnRecord
    ClickKeepsItsSlot
    NoOrphanClaim
    ClickIsAccountedFor
PROPERTIES
    KeepsPromise
CHECK_DEADLOCK FALSE
