\* Distinct-port mode, a range of two ports for three services, visitors
\* that may fail to build: allocation, exhaustion, accepts, shutdowns, EOFs
\* and Closed events of three connections interleave.
CONSTANTS
    Services = {s1, s2, s3}
    Users = {u1, u2}
    Keys = {k1, k2, k3}
    NoService = NoService
    PortBits = 3
    PortStart = 4
    PortEnd = 5
    ServerPort = 1
    SharedPort = FALSE
    Profile = "debug"
    VisitorMayFail = TRUE
SPECIFICATION Spec
INVARIANTS TypeOK RegistryTracksTunnels PortsDistinctInRange
PROPERTIES CloseRequestHonoured StaleHasProxyClears
