\* Two connections of a client whose file is edited while it connects, loses its
\* connection, and crashes.
SPECIFICATION FairSpec
CONSTANTS
    NoEntry = NoEntry
    AnyPort = AnyPort
    Entry <- MCEntry
    File <- MCFile
    StartFile <- MCStart
    ValidLocal = {"l"}
    ChanCap = 1
    BackCap = 1
    MaxConn = 2
    MaxEdit = 1
CHECK_DEADLOCK FALSE
INVARIANTS
    TypeOK
    PendingExact
    OwnAnswer
    Converged
PROPERTIES
    CallsReturn
    DeadConnLeft
