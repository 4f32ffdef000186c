\* poll() may fail: does poll_new_messages still return only after the
\* socket is released?
CONSTANTS
    MaxDatagrams = 1
    MaxBinds = 1
    PollMayFail = TRUE
SPECIFICATION Spec
PROPERTIES LoopEndsClosed
CHECK_DEADLOCK FALSE
