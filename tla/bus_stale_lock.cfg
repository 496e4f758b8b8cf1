CONSTANTS
    Traces = {t1}
    Workers = {w1, w2}
    LockTTL = 2
    DoneTTL = 2
    IdleTime = 2
    MaxRetries = 1
    MaxStall = 1
    MaxHold = 2
    Mishaps = {}
    MaxMishaps = 0
SPECIFICATION Spec
INVARIANT ZeroMessageLoss
