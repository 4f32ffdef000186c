\* Two Writes, one of which meets WouldBlock: are the bytes on the socket
\* the queued payloads in order?
CONSTANTS
    MaxWrites = 2
    MaxBlocks = 1
    PeerCloseKinds = {}
SPECIFICATION Spec
INVARIANTS DeliveredInOrder
CHECK_DEADLOCK FALSE
