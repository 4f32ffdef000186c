\* A visitor constructor that fails after startup has taken a port.
CONSTANTS
    Services = {s1, s2, s3}
    Users = {u1}
    Keys = {k1}
    NoService = NoService
    PortBits = 3
    PortStart = 5
    PortEnd = 6
    ServerPort = 4
    SharedPort = FALSE
    Profile = "debug"
    VisitorMayFail = TRUE
SPECIFICATION Spec
INVARIANTS PortExhaustionExact
