SPECIFICATION Spec
CONSTANTS
    Session = {s1, s2}
    NoSession = NoSession
    Main = Main
    Client <- OneClient
    Request <- GivenPort
    ValidLocal = {"l"}
    ranges <- MCRanges
    vhostHTTPPort = 80
    vhostDomain <- MCDomain
    Fold <- MCFold
    MaxInbox = 1
INVARIANT GoneOwnsNothing
CHECK_DEADLOCK FALSE
