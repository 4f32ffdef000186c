\* Services put into or deleted from the repository while the gateway runs:
\* does the advertised ALPN list follow them?
CONSTANTS
    u1 = u1  u2 = u2  v1 = v1  v2 = v2  t1 = t1  t2 = t2
    Users = {u1}
    Services = {v1, v2}
    Tags = {t1}
    None = None
    AccessFiles <- MCAccessFilesEmpty
    ServiceFiles <- MCServiceFiles
SPECIFICATION Spec
INVARIANTS AlpnAdvertisesServices
CHECK_DEADLOCK FALSE
