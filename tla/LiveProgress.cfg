SPECIFICATION FairSpec
CONSTANTS
    Jobs = {j1}
    Runs = {r1, r2}
    Tokens = {t1, t2}
    DailyCap = 1
    SessionCap = 1
    LastDay = 0
    NoJob = NoJob
    NoToken = NoToken
PROPERTIES
    NodeSettles
CHECK_DEADLOCK FALSE
