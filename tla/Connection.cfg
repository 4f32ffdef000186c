\* The poll loop of one TCP connection while the application keeps its end
\* open: three Writes, two WouldBlocks, a close request from the visitor.
CONSTANTS
    MaxWrites = 3
    MaxBlocks = 2
    PeerCloseKinds = {}
SPECIFICATION Spec
INVARIANTS TypeOK ShutdownOnce
PROPERTIES CloseRequestEndsPoll
CHECK_DEADLOCK FALSE
