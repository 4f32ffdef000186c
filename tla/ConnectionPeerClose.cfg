\* The poll loop of one TCP connection when the application may close or
\* reset its end while Writes and a close request are in flight, and
\* write_all never returns WouldBlock.
CONSTANTS
    MaxWrites = 3
    MaxBlocks = 0
    PeerCloseKinds = {"fin", "rst"}
SPECIFICATION Spec
INVARIANTS ShutdownOnce DeliveredInOrder
CHECK_DEADLOCK FALSE
