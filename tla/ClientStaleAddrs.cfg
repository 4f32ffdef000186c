\* startup() for a service whose listener shutdown() has stopped: are the
\* addresses it returns served?
CONSTANTS
    Services = {s1, s2}
    Keys = {k1}
    Addrs = {a1, a2}
    VisitorMayFail = TRUE
    NoService = NoService
    NoAddrs = NoAddrs
SPECIFICATION Spec

INVARIANTS StartupAddrsLive
