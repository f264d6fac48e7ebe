SPECIFICATION FairSpec
CONSTANTS
    Forms <- MCForms
    FactOf <- MCFactOf
    NoFact = "none"
    Memories <- MCMemories
    MaxSteps = 3
    MaxRenders = 1
    MaxTroubles = 2
INVARIANTS
    AnswersFit
    SubmitIsComplete
    SkipIsFinal
PROPERTIES
    NoClickBehindBarrier
    FormEnds
CHECK_DEADLOCK FALSE
