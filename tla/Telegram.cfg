SPECIFICATION Spec
CONSTANTS
    k1 = k1
    Keys = {k1}
    Callers = {w1, w2}
    KeyOf <- MCKeyOf
    Supervised = {w1}
    Controller = Controller
    Nobody = Nobody
    Gone = Gone
    Text = Text
    Other = Other
    Command = Command
    MaxUpdates = 2
INVARIANTS
    PromptSentOnce
    StatusIsTrue
    AnswerIsForItsQuestion
    CommandsAreObeyed
PROPERTIES
    NoAnswerPassedOver
CHECK_DEADLOCK FALSE
