\* Debug build, distinct-port range ending at the largest port: the
\* increment past it panics with the manager lock held. The manager is
\* poisoned for good, so the system really stops: no deadlock check.
CONSTANTS
    Services = {s1, s2, s3}
    Users = {u1, u2}
    Keys = {k1, k2}
    NoService = NoService
    PortBits = 3
    PortStart = 6
    PortEnd = 7
    ServerPort = 4
    SharedPort = FALSE
    Profile = "debug"
    VisitorMayFail = FALSE
SPECIFICATION Spec
INVARIANTS PortsDistinctInRange
CHECK_DEADLOCK FALSE
