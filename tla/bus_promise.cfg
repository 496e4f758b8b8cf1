CONSTANTS
    Traces = {t1}
    Workers = {w1, w2}
    LockTTL = 2
    DoneTTL = 2
    IdleTime = 2
    MaxRetries = 1
    MaxStall = 1
    MaxHold = 2
    Mishaps = {"worker_crash", "worker_redis", "sweeper_crash", "sweeper_redis"}
    MaxMishaps = 2

SPECIFICATION FairSpec

INVARIANTS TypeOK NoLoss CopiesBounded
PROPERTY KeepsPromise
