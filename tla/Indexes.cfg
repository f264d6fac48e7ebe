SPECIFICATION FairSpec
CONSTANTS
    Callers = {c1, c2}
    Closers = {k1, k2}
    MaxCloses = 2
INVARIANTS
    ReadyIsBuilt
    OnceALifecycle
PROPERTIES
    EveryoneIsAnswered
CHECK_DEADLOCK FALSE
