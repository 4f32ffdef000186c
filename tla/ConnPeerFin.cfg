\* The application ends its side of the connection ("fin"): does the poll
\* loop end?
CONSTANTS
    MaxWrites = 1
    MaxBlocks = 0
    PeerCloseKinds = {"fin"}
SPECIFICATION Spec
PROPERTIES PeerCloseEndsPoll
CHECK_DEADLOCK FALSE
