SPECIFICATION FairSpec
CONSTANTS
    a = a
    b = b
    c = c
    Jobs = {a, b, c}
    Queries = 2
    PagesPerQuery = 2
    Shown <- MCShown
    Excluded = {c}
    Modes <- MCModes
    ResumeFlags = {FALSE}
    Earlier = {c}
    Contested = {a}
    DailyCap = 2
    MaxStops = 1
    Unlimited = Unlimited
    NoJob = NoJob
INVARIANTS
    WithinLimits
    OutcomesAddUp
    NothingIsPassedOver
    SummaryIsTrue
PROPERTIES
    RunEnds
CHECK_DEADLOCK FALSE
