\* Two binds, three datagrams, poll() never fails: binding, polling, the
\* shutdown request and shutdown() interleave with peers sending. The owner
\* may stop calling the server, so terminal states are not deadlocks.
CONSTANTS
    MaxDatagrams = 3
    MaxBinds = 2
    PollMayFail = FALSE
SPECIFICATION Spec
INVARIANTS TypeOK
PROPERTIES LoopEndsClosed ShutdownReleasesSocket
CHECK_DEADLOCK FALSE
