CONSTANTS
    MaxTokens = 1
    MaxSays = 2
    MaxRetries = 1
    Mishaps = {"subscribe", "listen", "add", "speech", "llm", "crash"}
    MaxMishaps = 2

SPECIFICATION FairSpec

INVARIANTS TypeOK NothingMissed DoneIsComplete
PROPERTIES DoneIsLast FirstQueryAnswered SubscriptionEnds

CHECK_DEADLOCK FALSE
