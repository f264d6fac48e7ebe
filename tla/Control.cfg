SPECIFICATION FairSpec

CONSTANTS
    MaxCommands = 2
    MaxFaults = 1

INVARIANTS
    LiveRunIsKnown
    StopHitsItsRun
    FinalisedOnce

PROPERTIES
    OperatorIsServed

CHECK_DEADLOCK FALSE
