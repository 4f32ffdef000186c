\* Client manager with two services, three connection keys and two
\* address values; visitor constructors may fail.
CONSTANTS
    Services = {s1, s2}
    Keys = {k1, k2, k3}
    Addrs = {a1, a2}
    VisitorMayFail = TRUE
    NoService = NoService
    NoAddrs = NoAddrs
SPECIFICATION Spec
INVARIANTS TypeOK RegistryTracksProxies
PROPERTIES ShutdownDrains
