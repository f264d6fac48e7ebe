SPECIFICATION Spec
CONSTANTS
    a = a
    b = b
    c = c
    Jobs = {a, b, c}
    Queries = 2
    PagesPerQuery = 2
    Shown <- MCShown
    Excluded = {c}
    Modes <- MCModes
    ResumeFlags = {TRUE, FALSE}
    Earlier = {c}
    Contested = {a}
    DailyCap = 2
    MaxStops = 1
    Unlimited = Unlimited
    NoJob = NoJob
INVARIANTS
    DryRunIsKept
CHECK_DEADLOCK FALSE
