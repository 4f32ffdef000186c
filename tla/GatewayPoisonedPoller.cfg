\* Debug build, distinct-port range ending at the largest port: a startup
\* panics with the manager lock held while a closed connection's Closed
\* event is still queued, and the event poller can never take the lock.
CONSTANTS
    Services = {s1, s2, s3}
    Users = {u1, u2}
    Keys = {k1, k2}
    NoService = NoService
    PortBits = 3
    PortStart = 6
    PortEnd = 7
    ServerPort = 4
    SharedPort = FALSE
    Profile = "debug"
    VisitorMayFail = FALSE
SPECIFICATION Spec
PROPERTIES CloseRequestHonoured
CHECK_DEADLOCK FALSE
