\* The application ends its side of the connection ("rst"): does the poll
\* loop end?
CONSTANTS
    MaxWrites = 1
    MaxBlocks = 0
    PeerCloseKinds = {"rst"}
SPECIFICATION Spec
PROPERTIES PeerCloseEndsPoll
CHECK_DEADLOCK FALSE
