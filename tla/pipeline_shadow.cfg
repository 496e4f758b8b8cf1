CONSTANTS
    Plans <- ShortPlan
    Workers = {w1, w2}
    Shadow = {w2}
    MaxRetries = 1
    Mishaps = {}
    MaxMishaps = 0
SPECIFICATION Spec
PROPERTY ShadowSilent
CHECK_DEADLOCK FALSE
