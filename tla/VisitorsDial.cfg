SPECIFICATION FairSpec
CONSTANTS
    Visitor = {v1}
    Name = {n1}
    Tcp = {n1}
    QueueCap = 1
    MaxGen = 1
PROPERTY QueuedResolved
CHECK_DEADLOCK FALSE
