SPECIFICATION Spec
CONSTANTS
    Session = {s1, s2}
    NoSession = NoSession
    Main = Main
    Client <- OneClient
    Request <- AnyPort
    ValidLocal = {"l"}
    ranges <- MCRanges
    vhostHTTPPort = 80
    vhostDomain <- MCDomain
    Fold <- MCFold
    MaxInbox = 1
INVARIANT Idempotent
CHECK_DEADLOCK FALSE
