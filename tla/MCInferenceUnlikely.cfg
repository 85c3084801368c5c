SPECIFICATION Spec
CONSTANTS
    Files <- McFiles
    NoFile = NoFile
    MaxCache = 64
    MinContext = 4
    FailureSets <- McFailures
    HashSize = 2
    MaxMatch = 4
    MaxText = 9
    NoToken = NoToken
    Prompts <- McPrompts
    TokenSlots = 4
    MaxTokens = 2
    Weights <- McWeights
    LoggedLogits = 4
    Stale = Stale
CHECK_DEADLOCK FALSE
INVARIANT
    LikelierFirst
