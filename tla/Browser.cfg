SPECIFICATION FairBrowserSpec
CONSTANTS
    Agents = {a1, a2}
    Pids = {p1, p2}
    MaxPrograms = 3
    MaxTries = 2
    MaxTroubles = 1
INVARIANT
    DrivesItsOwn
PROPERTIES
    OneMarkedBrowser
    Recovers
CHECK_DEADLOCK FALSE
