\* Two users, two services, two record variants; the gateway starts from
\* empty or non-empty files, or fails to start, then any repository call
\* follows. Terminal states (a failed start) are not deadlocks.
CONSTANTS
    u1 = u1  u2 = u2  v1 = v1  v2 = v2  t1 = t1  t2 = t2
    Users = {u1, u2}
    Services = {v1, v2}
    Tags = {t1, t2}
    None = None
    AccessFiles <- MCAccessFiles
    ServiceFiles <- MCServiceFiles
SPECIFICATION Spec
INVARIANTS TypeOK
PROPERTIES AccessRefines ServiceRefines
CHECK_DEADLOCK FALSE
