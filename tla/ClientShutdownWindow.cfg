\* shutdown() while a listener may still accept before its next tick: does
\* the service end with no connections?
CONSTANTS
    Services = {s1}
    Keys = {k1}
    Addrs = {a1}
    VisitorMayFail = FALSE
    NoService = NoService
    NoAddrs = NoAddrs
SPECIFICATION Spec
PROPERTIES ShutdownLeavesNoConnections
