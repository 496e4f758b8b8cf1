CONSTANTS
    Managers = {m1}
    HasL2 = TRUE
    L1MaxLen = 2
    MaxMessages = 3
    MaxJobs = 2
    MaxClears = 1
    Mishaps = {"l1", "l2", "llm", "ttl"}
    MaxMishaps = 1
SPECIFICATION FairSpec
INVARIANTS TypeOK QuietEraseStays
PROPERTIES SummaryGrows TrimForgetsNothing SavedForGood
CHECK_DEADLOCK FALSE
