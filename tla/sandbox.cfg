CONSTANTS
    Nodes = {n1, n2}
    Mishaps = {"crash", "redis", "sandbox"}
    MaxMishaps = 1
    Sessions = {s}
    Traces = {t}
    NoBind = none
    PoolSize = 1
    MaxTries = 1
    SandboxTTL = 2
    KeyTTL = 3
    MaxBoxes = 2

SPECIFICATION FairSpec

INVARIANTS TypeOK Isolation NoOrphan
PROPERTIES TraceLeavesNothing ExecutionEnds

CHECK_DEADLOCK FALSE
