\* A reload that renames a proxy, and one that overlaps with the registrations.
SPECIFICATION Spec
CONSTANTS
    NoEntry = NoEntry
    AnyPort = AnyPort
    Entry <- RenameEntry
    File <- RenameFile
    StartFile <- RenameFile
    ValidLocal = {"l"}
    ChanCap = 1
    BackCap = 1
    MaxConn = 2
    MaxEdit = 1
CHECK_DEADLOCK FALSE
INVARIANT ReloadApplied
