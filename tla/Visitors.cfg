SPECIFICATION FairSpec
CONSTANTS
    Visitor = {v1, v2, v3}
    Name = {n1}
    Tcp = {}
    QueueCap = 2
    MaxGen = 2
INVARIANTS TypeOK Matched OnePlace
PROPERTY ServedUnlessLost
CHECK_DEADLOCK FALSE
