\* An access file that lists the same (user, service) pair twice: does the
\* loaded repository hold the file's records, as P5 says?
CONSTANTS
    u1 = u1  u2 = u2  v1 = v1  v2 = v2  t1 = t1  t2 = t2
    Users = {u1}
    Services = {v1}
    Tags = {t1, t2}
    None = None
    AccessFiles <- MCAccessFilesRepeated
    ServiceFiles <- MCServiceFiles
SPECIFICATION Spec
PROPERTIES AccessRefines
CHECK_DEADLOCK FALSE
