CONSTANTS
    Traces = {t1, t2}
    Workers = {w1, w2}
    LockTTL = 2
    DoneTTL = 3
    IdleTime = 2
    MaxRetries = 1
    MaxStall = 1
    MaxHold = 1
    Mishaps = {"worker_crash", "sweeper_crash", "sweeper_redis"}
    MaxMishaps = 1

SPECIFICATION Spec
SYMMETRY Interchangeable

INVARIANT NoOverlap
PROPERTY CompletedStays
