\* One visit, joined or refused, with at most one broken connection.
SPECIFICATION FairSpec
CONSTANTS
    Visit <- MCVisit
    HeaderLen = 1
    PayloadLen = 1
    Chunk = 2
    PipeCap = 2
    MaxBreak = 1
CHECK_DEADLOCK FALSE
INVARIANTS
    TypeOK
    Transparent
    CountsExact
    LastWord
PROPERTY
    EndsTogether
