CONSTANTS
    Plans <- SomePlans
    Workers = {w1, w2}
    Shadow = {}
    MaxRetries = 1
    Mishaps = {"crash_handling", "crash_advancing", "slow"}
    MaxMishaps = 1
SPECIFICATION FairSpec
INVARIANTS TypeOK StepsInOrder AnswerIsLast
PROPERTIES CurrentStepGrows OrderlyGoalEnds
CHECK_DEADLOCK FALSE
