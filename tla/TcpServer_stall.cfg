\* One worker, a client that never reads its replies and a polite one.
CONSTANTS
    NumWorkers = 1
    Clients = {c1, c2}
    Abrupt = {}
    Stallers = {c1}
    Requests = 1
    ReplyFlushes = 2
    SockBuf = 1
    Fds = {3, 4, 5}
    SetupOutcomes = {"listening"}
SPECIFICATION Spec
CHECK_DEADLOCK FALSE
PROPERTY
    ConnectionsServed
