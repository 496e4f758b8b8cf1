CONSTANTS
    Nodes = {n1, n2, n3}
    MaxMishaps = 2

SPECIFICATION FairSpec

INVARIANTS TypeOK NoGhost
PROPERTY MemberAgain

CHECK_DEADLOCK FALSE
