\* Release build, range ending at the largest port: the increment wraps to 0 and allocation goes on from there.
CONSTANTS
    Services = {s1, s2, s3}
    Users = {u1}
    Keys = {k1}
    NoService = NoService
    PortBits = 3
    PortStart = 6
    PortEnd = 7
    ServerPort = 4
    SharedPort = FALSE
    Profile = "release"
    VisitorMayFail = FALSE
SPECIFICATION Spec
INVARIANTS PortsDistinctInRange
CHECK_DEADLOCK FALSE
