\* Turns and probes while the server, the model and the settings change.
CONSTANTS
    Models = {"small", "large"}
    Questions = {"load", "heat"}
    MaxHistory = 2
    MaxTokens = 1

SPECIFICATION FairSpec

INVARIANTS
    AnswersFollowQuestions
    ReplyIsWhole

PROPERTIES
    TurnsEnd
    SetupClears
