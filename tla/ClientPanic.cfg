\* A ping, a registration or a reload that meets the closed write channel.
SPECIFICATION Spec
CONSTANTS
    NoEntry = NoEntry
    AnyPort = AnyPort
    Entry <- RenameEntry
    File <- RenameFile
    StartFile <- RenameFile
    ValidLocal = {"l"}
    ChanCap = 1
    BackCap = 1
    MaxConn = 2
    MaxEdit = 1
CHECK_DEADLOCK FALSE
INVARIANT NoPanic
