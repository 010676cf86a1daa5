SPECIFICATION FairSpec
CONSTANTS
    Session = {s1, s2}
    NoSession = NoSession
    Main = Main
    Client <- MCClient
    Request <- MCRequest
    ValidLocal = {"l"}
    ranges <- MCRanges
    vhostHTTPPort = 80
    vhostDomain <- MCDomain
    Fold <- MCFold
    MaxInbox = 1
INVARIANTS TypeOK Consistent SelfClosedOwnsNothing DashboardTrue
PROPERTIES ImplementsExposure ReleasedEnds
CHECK_DEADLOCK FALSE
