CONSTANTS
    Plans <- ShortPlan
    Workers = {w1}
    Shadow = {}
    MaxRetries = 1
    Mishaps = {"crash_advancing"}
    MaxMishaps = 1
SPECIFICATION Spec
INVARIANT ExecutedCompletely
CHECK_DEADLOCK FALSE
