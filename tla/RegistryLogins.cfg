SPECIFICATION FairSpec
CONSTANTS
    Session = {s1, s2, s3}
    NoSession = NoSession
    Main = Main
    Client <- OneClient
    Request = {}
    ValidLocal = {"l"}
    ranges <- MCRanges
    vhostHTTPPort = 80
    vhostDomain <- MCDomain
    Fold <- MCFold
    MaxInbox = 0
INVARIANTS HandlerStages TableLive NoneForgotten
PROPERTIES LoginResolved ShutdownEnds
CHECK_DEADLOCK FALSE
